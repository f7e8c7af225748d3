----------------------------- MODULE MCDashboard -----------------------------
(* A small instance of Evaluation with a dashboard built meanwhile.          *)
EXTENDS Dashboard
=============================================================================
