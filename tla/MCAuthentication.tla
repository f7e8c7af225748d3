-------------------------- MODULE MCAuthentication --------------------------
(* A small instance of Authentication: a member of HR and an interviewer.    *)
EXTENDS Authentication

MCRoleOf == [hr |-> "hr", guest |-> "interviewer"]
MCFilters ==
  {[to |-> 0], [to |-> 0, limit |-> 3], [from |-> 1, action |-> "auth.login"]}
=============================================================================
