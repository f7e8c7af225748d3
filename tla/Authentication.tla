--------------------------- MODULE Authentication ---------------------------
(***************************************************************************)
(* Login, refresh and logout (server/router.go) through the client of the  *)
(* external identity service (auth/supabase_client.go), the checks of      *)
(* tokens and permissions in front of the handlers (auth/middleware.go,    *)
(* rbac/rbac.go), and the audit events they leave, in AuditLog.            *)
(*                                                                         *)
(* A request is a call of the service and the steps of its handler:        *)
(*                                                                         *)
(*   waiting -> accepted -> recorded -> answered                           *)
(*         \-> answered (401, 502)                                         *)
(*                                                                         *)
(* The client gives up after 8 seconds, or when its caller is gone; what   *)
(* the service does then reaches nobody: nobody has the tokens of a        *)
(* session it makes.  Whether it accepts a password or a session is its    *)
(* own affair.  Sessions come from this server only.                       *)
(***************************************************************************)
EXTENDS AuditLog

CONSTANTS
  Workers,       \* request goroutines
  RoleOf,        \* user -> role claimed by the user's tokens
  MaxRequests,   \* bound on the number of requests
  NoRequest      \* the request of a worker that has none

Users == DOMAIN RoleOf

(* rolePermissions: who is known, and who may read the audit log. *)
KnownRoles == {"super_admin", "hr", "interviewer"}
AuditReaders == {"super_admin", "hr"}

Request == [kind : {"login", "refresh", "logout"}, user : Users,
            session : Nat,     \* 0 as long as a login has none
            named : BOOLEAN]   \* the answer to a login names the user's id

ASSUME AuthenticationAssumption ==
  /\ MaxRequests \in Nat
  /\ NoRequest \notin Request

VARIABLES
  pc,        \* how far the request of each worker is
  request,   \* what it asks for
  requests,  \* number of requests taken
  sessions,  \* the user of each session the service has made
  held,      \* the sessions whose tokens a client has got
  valid      \* those of them whose access token has not expired

requestVars == <<pc, request, requests>>
sessionVars == <<sessions, held, valid>>
authVars == <<pc, request, requests, sessions, held, valid, events, now, answers>>

Free == {"idle", "answered"}
Steps == {"waiting", "accepted", "recorded"} \cup Free

Operator == [by : {"id", "email"}, user : Users]
AuthEvent == [action : {"auth.login", "auth.logout"}, operator : Operator,
              objectType : {"session"}, at : Nat]

AuthenticationTypeOK ==
  /\ pc \in [Workers -> Steps]
  /\ request \in [Workers -> Request \cup {NoRequest}]
  /\ \A w \in Workers : pc[w] \notin Free => request[w] # NoRequest
  /\ requests \in Nat
  /\ sessions \in Seq(Users)
  /\ held \subseteq DOMAIN sessions
  /\ valid \subseteq held
  /\ events \in Seq(AuthEvent)
  /\ now \in Nat

Init ==
  /\ pc = [w \in Workers |-> "idle"]
  /\ request = [w \in Workers |-> NoRequest]
  /\ requests = 0
  /\ sessions = << >>
  /\ held = {}
  /\ valid = {}
  /\ AuditInit
-----------------------------------------------------------------------------
(* Requests *)

Begin(w, asked) ==
  /\ pc[w] \in Free
  /\ requests < MaxRequests
  /\ pc' = [pc EXCEPT ![w] = "waiting"]
  /\ request' = [request EXCEPT ![w] = asked]
  /\ requests' = requests + 1
  /\ UNCHANGED <<sessionVars, auditVars>>

End(w) ==
  /\ pc' = [pc EXCEPT ![w] = "answered"]
  /\ request' = [request EXCEPT ![w] = NoRequest]
  /\ UNCHANGED requests

login(w) ==
  \E u \in Users :
    Begin(w, [kind |-> "login", user |-> u, session |-> 0, named |-> FALSE])

refresh(w) ==
  \E s \in held :
    Begin(w, [kind |-> "refresh", user |-> sessions[s], session |-> s, named |-> FALSE])

(* The token of the session has not expired and claims a known role. *)
RequireAuth(s) == s \in valid /\ RoleOf[sessions[s]] \in KnownRoles

logout(w) ==
  \E s \in held :
    /\ RequireAuth(s)
    /\ Begin(w, [kind |-> "logout", user |-> sessions[s], session |-> s, named |-> FALSE])

(* GET /audit-logs, one step. *)
Ask ==
  /\ \E s \in held : RequireAuth(s) /\ RoleOf[sessions[s]] \in AuditReaders
  /\ \E filter \in Filters : listAuditLogs(filter)
  /\ UNCHANGED <<requestVars, sessionVars>>
-----------------------------------------------------------------------------
(* What the handler hears of the service *)

(* The service answers with a status below 300.  A login makes a session;  *)
(* whether the answer names the user's id is up to the service.            *)
Hear(w) ==
  /\ pc[w] = "waiting"
  /\ pc' = [pc EXCEPT ![w] = "accepted"]
  /\ IF request[w].kind = "login"
     THEN /\ sessions' = Append(sessions, request[w].user)
          /\ \E named \in BOOLEAN :
               request' = [request EXCEPT ![w] =
                 [kind |-> "login", user |-> request[w].user,
                  session |-> Len(sessions) + 1, named |-> named]]
     ELSE UNCHANGED <<sessions, request>>
  /\ UNCHANGED <<requests, held, valid, auditVars>>

(* Mutant: the client waits for the end of a session as long as it takes. *)
GiveUpTokens(w) ==
  /\ pc[w] = "waiting"
  /\ request[w].kind # "logout"
  /\ End(w)
  /\ UNCHANGED <<sessionVars, auditVars>>

(* The service refuses, or has not answered after 8 seconds, or the caller *)
(* is gone.                                                                *)
GiveUp(w) ==
  /\ pc[w] = "waiting"
  /\ End(w)
  /\ UNCHANGED <<sessionVars, auditVars>>
-----------------------------------------------------------------------------
(* The end of the handlers *)

(* The email is the one of the answer, or the one that was typed. *)
resolveLoginOperatorID(r) == [by |-> IF r.named THEN "id" ELSE "email", user |-> r.user]

OperatorOf(r) == IF r.kind = "login" THEN resolveLoginOperatorID(r)
                 ELSE [by |-> "id", user |-> r.user]

ActionOf(r) == IF r.kind = "login" THEN "auth.login" ELSE "auth.logout"

Record(w) ==
  /\ pc[w] = "accepted"
  /\ request[w].kind # "refresh"
  /\ Add(ActionOf(request[w]), OperatorOf(request[w]), "session")
  /\ pc' = [pc EXCEPT ![w] = "recorded"]
  /\ UNCHANGED <<request, requests, sessionVars>>

(* Mutant: the session is handed out as soon as the service has made it. *)
HandsOutEarly(w) ==
  pc[w] = "recorded" \/ (pc[w] = "accepted" /\ request[w].kind # "logout")

(* What a handler answers has been recorded, except for a refresh. *)
HandsOut(w) ==
  pc[w] = "recorded" \/ (pc[w] = "accepted" /\ request[w].kind = "refresh")

(* The answer reaches the client, or the connection is gone. *)
Answer(w) ==
  /\ HandsOut(w)
  /\ End(w)
  /\ \/ request[w].kind # "logout"
        /\ held' = held \cup {request[w].session}
        /\ valid' = valid \cup {request[w].session}
     \/ UNCHANGED <<held, valid>>
  /\ UNCHANGED <<sessions, auditVars>>

Expire ==
  /\ \E s \in valid : valid' = valid \ {s}
  /\ UNCHANGED <<requestVars, sessions, held, auditVars>>

Proceed(w) == GiveUp(w) \/ Record(w) \/ Answer(w)

Next == \/ \E w \in Workers : login(w) \/ refresh(w) \/ logout(w) \/ Hear(w) \/ Proceed(w)
        \/ Ask
        \/ Expire
        \/ Tick /\ UNCHANGED <<requestVars, sessionVars>>

(* Every handler runs on, its client's timeout included; the service       *)
(* promises nothing.                                                       *)
Fairness == \A w \in Workers : WF_authVars(Proceed(w))

Spec == Init /\ [][Next]_authVars /\ Fairness
-----------------------------------------------------------------------------
(* Whoever is recorded as logging out was recorded as logging in before,   *)
(* by id or by email, however login, refresh and logout of several         *)
(* sessions overlap and whichever answers of the service come late or      *)
(* never (README, Audit logging: "Automatically records key operations     *)
(* (auth.login, auth.logout ...)").                                        *)
LogoutFollowsLogin ==
  \A k \in DOMAIN events : events[k].action = "auth.logout" =>
    \E j \in 1..(k - 1) : /\ events[j].action = "auth.login"
                          /\ events[j].operator.user = events[k].operator.user

(* Every request is answered in the end, also if the service never says    *)
(* anything.                                                               *)
RequestsEnd == \A w \in Workers : pc[w] = "waiting" ~> pc[w] = "answered"
=============================================================================
