------------------------------- MODULE MCReport -------------------------------
(* Small instances of Report. *)
EXTENDS Report

(* "Round-10", "final" and "round-2", as strings: the first comes before the *)
(* second and that before the third, which is the one with the lower number. *)
MCRounds == {[place |-> 1, number |-> 10], [place |-> 2, number |-> 0],
             [place |-> 3, number |-> 2]}
MCSymmetry == Permutations(Users) \cup Permutations(Profiles)
=============================================================================
