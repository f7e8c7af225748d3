-------------------------- MODULE MCNotifications --------------------------
(* Notifications with two requests, batches of one and two events and the  *)
(* code's own number of retries.                                           *)
EXTENDS Notifications

MCBatches == {<<"candidate">>, <<"candidate", "interviewer">>}
=============================================================================
