------------------------- MODULE NotificationLedger -------------------------
(***************************************************************************)
(* What the notification subsystem promises, without its workers, batches  *)
(* and retries: every event posted is settled once, as "sent" or as        *)
(* "alerted", and is never left pending for good.                          *)
(***************************************************************************)
EXTENDS Naturals, Sequences

CONSTANT MaxEvents  \* bound on the number of events ever posted

VARIABLE ledger     \* ledger[k]: the state of the k-th event posted

Pending == "pending"
Settled == {"sent", "alerted"}

LedgerTypeOK == ledger \in Seq({Pending} \cup Settled)

Init == ledger = << >>

(* A batch of n events is posted, all of them pending. *)
Post(n) ==
  /\ Len(ledger) + n <= MaxEvents
  /\ ledger' = ledger \o [k \in 1..n |-> Pending]

(* The k-th event gets its verdict. *)
Settle(k) ==
  /\ k \in DOMAIN ledger
  /\ ledger[k] = Pending
  /\ \E verdict \in Settled : ledger' = [ledger EXCEPT ![k] = verdict]

Next == \/ \E n \in 1..MaxEvents : Post(n)
        \/ \E k \in 1..MaxEvents : Settle(k)

Safety == Init /\ [][Next]_ledger

Spec == /\ Safety
        /\ \A k \in 1..MaxEvents : WF_ledger(Settle(k))
=============================================================================
