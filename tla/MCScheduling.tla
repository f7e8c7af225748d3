---------------------------- MODULE MCScheduling ----------------------------
(* Small instances of Scheduling. *)
EXTENDS Scheduling

MCOneList == {<<"p1">>}
MCTwoLists == {<<"p1">>, <<"p1", "p2">>}

MCCancel == {[status |-> "cancelled"]}

\* note or round only, cancel, give to another candidate, move, complete, put a
\* cancelled or completed interview back on the calendar, and give to another
\* interviewer
MCAllEdits == MCCancel \cup
  {<< >>, [candidate |-> "c2"], [starts |-> 1, ends |-> 2], [status |-> "scheduled"],
   [status |-> "completed"], [interviewers |-> <<"p1", "p2">>]}

MCNoChannel == << >>
MCOneChannel == <<"email">>
=============================================================================
