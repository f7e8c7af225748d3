--------------------------- MODULE TranscriptFeed ---------------------------
(***************************************************************************)
(* What real-time transcription promises, without sessions' copies, pages, *)
(* limits and cursors: each interview has a feed that only grows, every    *)
(* entry numbered by its place in it, and each reader has a prefix of the  *)
(* feed it follows, which grows until it is the whole feed.                *)
(***************************************************************************)
EXTENDS Naturals, Sequences

CONSTANTS
  Interviews,  \* the interviews, each with a feed
  Readers,     \* polling clients
  Follows,     \* Follows[r]: the interview whose feed reader r follows
  Sources      \* the sessions entries come through

VARIABLES
  feed,        \* feed[i]: the entries of interview i
  got          \* got[r]: the entries reader r has

feedVars == <<feed, got>>

Init == /\ feed = [i \in Interviews |-> << >>]
        /\ got = [r \in Readers |-> << >>]

(* An entry comes in through one of the sessions. *)
Post(i) ==
  /\ \E s \in Sources :
       feed' = [feed EXCEPT ![i] = Append(@, [sequence |-> Len(@) + 1, session |-> s])]
  /\ UNCHANGED got

(* A reader gets the next entries, at least one. *)
Get(r) ==
  /\ \E n \in (Len(got[r]) + 1)..Len(feed[Follows[r]]) :
       got' = [got EXCEPT ![r] = SubSeq(feed[Follows[r]], 1, n)]
  /\ UNCHANGED feed

Next == \/ \E i \in Interviews : Post(i)
        \/ \E r \in Readers : Get(r)

Safety == Init /\ [][Next]_feedVars

Spec == /\ Safety
        /\ \A r \in Readers : WF_feedVars(Get(r))
=============================================================================
