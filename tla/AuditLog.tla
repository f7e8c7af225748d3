------------------------------ MODULE AuditLog ------------------------------
(***************************************************************************)
(* The audit log: audit.MemoryRepository (audit/repository.go) behind      *)
(* audit.Service, and GET /audit-logs (server/router.go).                  *)
(*                                                                         *)
(* Add stamps an event while it holds the lock, and Query reads under the  *)
(* same lock, so each is one step.  The clock does not go back.            *)
(***************************************************************************)
EXTENDS Integers, Sequences, FiniteSets

CONSTANTS
  Filters,       \* queries: the parameters that are present
  defaultQueryLimit,
  maxQueryLimit,
  MaxTime,       \* bound on the clock
  MaxQueries     \* bound on the number of queries

Fields == {"action", "operator", "objectType"}

ASSUME AuditAssumption ==
  /\ \A filter \in Filters :
       /\ DOMAIN filter \subseteq Fields \cup {"from", "to", "limit"}
       /\ \A bound \in DOMAIN filter \ Fields : filter[bound] \in Int
  /\ defaultQueryLimit \in Nat \ {0}
  /\ maxQueryLimit \in Nat \ {0}
  /\ defaultQueryLimit <= maxQueryLimit
  /\ MaxTime \in Nat
  /\ MaxQueries \in Nat

VARIABLES
  events,   \* the log, in the order of the events' ids
  now,      \* the clock
  answers   \* history: what was asked when, and what was answered

auditVars == <<events, now, answers>>

AuditInit ==
  /\ events = << >>
  /\ now = 0
  /\ answers = {}

(* Mutant: the event is stamped before the lock is taken. *)
AddAsOf(action, operator, objectType) ==
  /\ \E asked \in 0..now :
       events' = Append(events, [action |-> action, operator |-> operator,
                                 objectType |-> objectType, at |-> asked])
  /\ UNCHANGED <<now, answers>>

Add(action, operator, objectType) ==
  /\ events' = Append(events, [action |-> action, operator |-> operator,
                               objectType |-> objectType, at |-> now])
  /\ UNCHANGED <<now, answers>>

normalizeLimit(raw) ==
  CASE raw <= 0 -> defaultQueryLimit
    [] raw > maxQueryLimit -> maxQueryLimit
    [] OTHER -> raw

matchesFilter(event, filter) ==
  /\ \A field \in DOMAIN filter \cap Fields : event[field] = filter[field]
  /\ "from" \in DOMAIN filter => event.at >= filter["from"]
  /\ "to" \in DOMAIN filter => event.at <= filter["to"]

(* The handler refuses a limit below 1 and asks for 100 if there is none. *)
LimitOf(filter) ==
  normalizeLimit(IF "limit" \in DOMAIN filter THEN filter["limit"] ELSE defaultQueryLimit)

(* From the newest to the oldest, until the answer is full: walk[n] is the *)
(* answer after a look at the n newest events.                             *)
Query(filter) ==
  LET walk[n \in 0..Len(events)] ==
        IF n = 0 THEN << >>
        ELSE LET items == walk[n - 1]
                 item == events[Len(events) + 1 - n]
             IN IF Len(items) < LimitOf(filter) /\ matchesFilter(item, filter)
                THEN Append(items, item) ELSE items
  IN walk[Len(events)]

listAuditLogs(filter) ==
  /\ Cardinality(answers) < MaxQueries
  /\ "limit" \in DOMAIN filter => filter["limit"] > 0
  /\ answers' = answers \cup {[filter |-> filter, at |-> now, logged |-> Len(events),
                               items |-> Query(filter)]}
  /\ UNCHANGED <<events, now>>

Tick ==
  /\ now < MaxTime
  /\ now' = now + 1
  /\ UNCHANGED <<events, answers>>
-----------------------------------------------------------------------------
(* The window of a query is closed when its end has passed. *)
Closed(answer) == "to" \in DOMAIN answer.filter /\ answer.filter["to"] < answer.at

(* An answer has the newest events that match, all of them if they are no  *)
(* more than the limit, else as many as the limit, the newest first; if    *)
(* the window of the query had closed by then, that stays so for good: an  *)
(* event that is recorded later never falls into a window somebody has     *)
(* read (README, Audit logging: "Supports filtered query by                *)
(* action/operator/object/time window").                                   *)
AnswersHold ==
  \A answer \in answers :
    LET asked == answer.filter
        items == answer.items
        bound == IF Closed(answer) THEN Len(events) ELSE answer.logged
        matching == {k \in 1..bound : matchesFilter(events[k], asked)}
        newer(k) == Cardinality({j \in matching : j > k})
        room == IF "limit" \in DOMAIN asked THEN asked["limit"] ELSE defaultQueryLimit
    IN /\ Len(items) = Cardinality({k \in matching : newer(k) < room /\ newer(k) < maxQueryLimit})
       /\ \A k \in matching : newer(k) < Len(items) => items[newer(k) + 1] = events[k]
=============================================================================
