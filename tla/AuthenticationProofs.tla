------------------------ MODULE AuthenticationProofs ------------------------
(***************************************************************************)
(* Proofs about Authentication, for any users, roles and workers and any   *)
(* bounds.  That a logout is recorded after a login of the same user rests *)
(* on what the tokens in the clients' hands stand for: IInv follows a      *)
(* session from the service through the handler to the client.  At the end *)
(* the answers of the audit log, about a walk through a log of any length. *)
(***************************************************************************)
EXTENDS Authentication, SequenceTheorems, FiniteSetTheorems, TLAPS

LoggedIn(u) ==
  \E j \in DOMAIN events : events[j].action = "auth.login" /\ events[j].operator.user = u

(* Nobody holds a token whose login is not on record. *)
HeldIsRecorded == \A s \in held : LoggedIn(sessions[s])

(* What a request says of its session is true. *)
RequestIsOfSession ==
  \A w \in Workers : pc[w] \notin Free =>
    IF request[w].kind = "login"
    THEN /\ pc[w] # "waiting" => /\ request[w].session \in DOMAIN sessions
                                 /\ request[w].user = sessions[request[w].session]
         /\ pc[w] = "recorded" => LoggedIn(request[w].user)
    ELSE /\ request[w].session \in held
         /\ request[w].user = sessions[request[w].session]

IInv == /\ AuthenticationTypeOK
        /\ HeldIsRecorded
        /\ RequestIsOfSession
        /\ LogoutFollowsLogin
-----------------------------------------------------------------------------
LEMMA AppendedEvent ==
  ASSUME NEW s \in Seq(AuthEvent), NEW e \in AuthEvent
  PROVE  /\ Append(s, e) \in Seq(AuthEvent)
         /\ DOMAIN s = 1..Len(s)
         /\ Len(s) \in Nat
         /\ DOMAIN Append(s, e) = 1..(Len(s) + 1)
         /\ Append(s, e)[Len(s) + 1] = e
         /\ \A k \in 1..Len(s) : Append(s, e)[k] = s[k]
BY AppendProperties, LenProperties

LEMMA AppendedSession ==
  ASSUME NEW s \in Seq(Users), NEW u \in Users
  PROVE  /\ Append(s, u) \in Seq(Users)
         /\ DOMAIN s = 1..Len(s)
         /\ Len(s) \in Nat
         /\ DOMAIN Append(s, u) = 1..(Len(s) + 1)
         /\ Append(s, u)[Len(s) + 1] = u
         /\ \A k \in 1..Len(s) : Append(s, u)[k] = s[k]
BY AppendProperties, LenProperties

LEMMA RequestType ==
  ASSUME AuthenticationTypeOK, NEW w \in Workers, pc[w] \notin Free
  PROVE  /\ request[w] \in Request
         /\ request[w].kind \in {"login", "refresh", "logout"}
         /\ request[w].user \in Users
         /\ request[w].session \in Nat
BY DEF AuthenticationTypeOK, Request

LEMMA InitIInv == Init => IInv
BY AuthenticationAssumption
   DEF Init, AuditInit, IInv, AuthenticationTypeOK, HeldIsRecorded, RequestIsOfSession,
       LogoutFollowsLogin, Steps, Free

(* A request that is taken has been checked against what is held. *)
LEMMA BeginStep ==
  ASSUME IInv, NEW w \in Workers, NEW asked \in Request, Begin(w, asked),
         asked.kind # "login" => asked.session \in held /\ asked.user = sessions[asked.session]
  PROVE  IInv'
<1> USE DEF IInv, Begin, sessionVars, auditVars
<1>1. AuthenticationTypeOK'
  BY AuthenticationAssumption DEF AuthenticationTypeOK, Steps, Free
<1>2. HeldIsRecorded' /\ LogoutFollowsLogin'
  BY DEF HeldIsRecorded, LoggedIn, LogoutFollowsLogin
<1>3. RequestIsOfSession'
  BY DEF RequestIsOfSession, LoggedIn, AuthenticationTypeOK, Steps, Free
<1> QED
  BY <1>1, <1>2, <1>3

LEMMA LoginStep ==
  ASSUME IInv, NEW w \in Workers, login(w)
  PROVE  IInv'
<1>1. PICK u \in Users :
        Begin(w, [kind |-> "login", user |-> u, session |-> 0, named |-> FALSE])
  BY DEF login
<1>2. [kind |-> "login", user |-> u, session |-> 0, named |-> FALSE] \in Request
  BY DEF Request
<1> QED
  BY <1>1, <1>2, BeginStep

LEMMA TokenStep ==
  ASSUME IInv, NEW w \in Workers, refresh(w) \/ logout(w)
  PROVE  IInv'
<1>1. PICK k \in {"refresh", "logout"}, s \in held :
        Begin(w, [kind |-> k, user |-> sessions[s], session |-> s, named |-> FALSE])
  BY DEF refresh, logout
<1>2. s \in DOMAIN sessions /\ sessions \in Seq(Users)
  BY DEF IInv, AuthenticationTypeOK
<1>3. s \in Nat /\ sessions[s] \in Users
  BY <1>2, LenProperties, ElementOfSeq
<1>4. [kind |-> k, user |-> sessions[s], session |-> s, named |-> FALSE] \in Request
  BY <1>3 DEF Request
<1> QED
  BY <1>1, <1>4, BeginStep

LEMMA HearStep ==
  ASSUME IInv, NEW w \in Workers, Hear(w)
  PROVE  IInv'
<1> USE DEF IInv, auditVars
<1>t. /\ request[w] \in Request
      /\ request[w].user \in Users
      /\ pc[w] = "waiting"
  BY RequestType DEF Hear, Free
<1>1. CASE request[w].kind = "login"
  <2> DEFINE u == request[w].user
  <2>1. PICK n \in BOOLEAN :
          request' = [request EXCEPT ![w] = [kind |-> "login", user |-> u,
                                             session |-> Len(sessions) + 1, named |-> n]]
    BY <1>1 DEF Hear
  <2>2. /\ sessions' = Append(sessions, u)
        /\ pc' = [pc EXCEPT ![w] = "accepted"]
        /\ UNCHANGED <<requests, held, valid, events, now, answers>>
    BY <1>1 DEF Hear
  <2>3. sessions \in Seq(Users) /\ u \in Users
    BY <1>t DEF AuthenticationTypeOK
  <2>4. /\ sessions' \in Seq(Users)
        /\ DOMAIN sessions = 1..Len(sessions)
        /\ Len(sessions) \in Nat
        /\ DOMAIN sessions' = 1..(Len(sessions) + 1)
        /\ sessions'[Len(sessions) + 1] = u
        /\ \A k \in DOMAIN sessions : sessions'[k] = sessions[k]
    <3> HIDE DEF u
    <3> QED
      BY <2>2, <2>3, AppendedSession
  <2>5. DOMAIN sessions \subseteq DOMAIN sessions' /\ Len(sessions) + 1 \in DOMAIN sessions'
    BY <2>4
  <2>6. [kind |-> "login", user |-> u, session |-> Len(sessions) + 1, named |-> n] \in Request
    BY <2>3, <2>4 DEF Request
  <2>7. AuthenticationTypeOK'
    BY <2>1, <2>2, <2>4, <2>5, <2>6, AuthenticationAssumption
       DEF AuthenticationTypeOK, Steps, Free
  <2>8. HeldIsRecorded' /\ LogoutFollowsLogin'
    <3>1. LogoutFollowsLogin'
      BY <2>2 DEF LogoutFollowsLogin
    <3>2. \A s \in held : s \in DOMAIN sessions
      BY <1>t DEF AuthenticationTypeOK
    <3>3. \A s \in held : LoggedIn(sessions[s])
      BY DEF HeldIsRecorded
    <3>4. \A v : LoggedIn(v)' <=> LoggedIn(v)
      BY <2>2 DEF LoggedIn
    <3>5. \A s \in held' : sessions'[s] = sessions[s] /\ LoggedIn(sessions[s])
      BY <2>2, <2>4, <3>2, <3>3
    <3> QED
      BY <3>1, <3>4, <3>5 DEF HeldIsRecorded, LoggedIn
  <2>9. RequestIsOfSession'
    <3> SUFFICES ASSUME NEW v \in Workers, pc'[v] \notin Free
                 PROVE  RequestIsOfSession!(v)'
      BY DEF RequestIsOfSession
    <3> QED
      BY <2>1, <2>2, <2>4, <2>5 DEF RequestIsOfSession, LoggedIn, AuthenticationTypeOK, Free
  <2> QED
    BY <2>7, <2>8, <2>9
<1>2. CASE request[w].kind # "login"
  <2>1. /\ pc' = [pc EXCEPT ![w] = "accepted"]
        /\ UNCHANGED <<sessions, request, requests, held, valid, events, now, answers>>
    BY <1>2 DEF Hear
  <2>2. AuthenticationTypeOK'
    BY <2>1, <1>t DEF AuthenticationTypeOK, Steps, Free
  <2>3. HeldIsRecorded' /\ LogoutFollowsLogin'
    BY <2>1 DEF HeldIsRecorded, LoggedIn, LogoutFollowsLogin
  <2>4. RequestIsOfSession'
    BY <2>1, <1>2, <1>t DEF RequestIsOfSession, LoggedIn, AuthenticationTypeOK, Free
  <2> QED
    BY <2>2, <2>3, <2>4
<1> QED
  BY <1>1, <1>2

LEMMA GiveUpStep ==
  ASSUME IInv, NEW w \in Workers, GiveUp(w)
  PROVE  IInv'
<1> USE DEF IInv, GiveUp, End, sessionVars, auditVars
<1>1. AuthenticationTypeOK'
  BY DEF AuthenticationTypeOK, Steps, Free
<1>2. HeldIsRecorded' /\ LogoutFollowsLogin'
  BY DEF HeldIsRecorded, LoggedIn, LogoutFollowsLogin
<1>3. RequestIsOfSession'
  BY DEF RequestIsOfSession, LoggedIn, AuthenticationTypeOK, Free
<1> QED
  BY <1>1, <1>2, <1>3

LEMMA RecordStep ==
  ASSUME IInv, NEW w \in Workers, Record(w)
  PROVE  IInv'
<1> DEFINE r == request[w]
           e == [action |-> ActionOf(r), operator |-> OperatorOf(r),
                 objectType |-> "session", at |-> now]
<1>1. /\ pc[w] = "accepted"
      /\ r.kind # "refresh"
      /\ events' = Append(events, e)
      /\ pc' = [pc EXCEPT ![w] = "recorded"]
      /\ UNCHANGED <<now, answers, request, requests, sessions, held, valid>>
  BY DEF Record, Add, sessionVars
<1>2. r \in Request /\ r.user \in Users /\ r.kind \in {"login", "logout"} /\ r.named \in BOOLEAN
  BY <1>1, RequestType DEF IInv, Request, Free
<1>3. OperatorOf(r) \in Operator /\ OperatorOf(r).user = r.user
  BY <1>2 DEF OperatorOf, resolveLoginOperatorID, Operator
<1>4. e \in AuthEvent /\ e.operator.user = r.user
  BY <1>2, <1>3 DEF ActionOf, AuthEvent, IInv, AuthenticationTypeOK
<1>5. e.action = "auth.login" <=> r.kind = "login"
  BY <1>2 DEF ActionOf
<1>6. events \in Seq(AuthEvent)
  BY DEF IInv, AuthenticationTypeOK
<1>7. /\ events' \in Seq(AuthEvent)
      /\ DOMAIN events = 1..Len(events)
      /\ Len(events) \in Nat
      /\ DOMAIN events' = 1..(Len(events) + 1)
      /\ events'[Len(events) + 1] = e
      /\ \A k \in 1..Len(events) : events'[k] = events[k]
  <2> HIDE DEF e
  <2> QED
    BY <1>1, <1>4, <1>6, AppendedEvent
<1>8. \A u : LoggedIn(u) => LoggedIn(u)'
  BY <1>7 DEF LoggedIn
<1>9. \A u : r.kind = "login" /\ u = r.user => LoggedIn(u)'
  <2> HIDE DEF r, e
  <2> QED
    BY <1>4, <1>5, <1>7 DEF LoggedIn
<1>10. r.kind = "logout" => LoggedIn(r.user)
  BY <1>1 DEF IInv, RequestIsOfSession, HeldIsRecorded, Free
<1>11. AuthenticationTypeOK'
  BY <1>1, <1>2, <1>7 DEF IInv, AuthenticationTypeOK, Steps, Free
<1>12. HeldIsRecorded'
  BY <1>1, <1>8 DEF IInv, HeldIsRecorded
<1>13. RequestIsOfSession'
  <2> SUFFICES ASSUME NEW v \in Workers, pc'[v] \notin Free
               PROVE  RequestIsOfSession!(v)'
    BY DEF RequestIsOfSession
  <2>1. CASE v = w
    BY <2>1, <1>1, <1>9 DEF IInv, RequestIsOfSession, AuthenticationTypeOK, Free
  <2>2. CASE v # w
    BY <2>2, <1>1, <1>8 DEF IInv, RequestIsOfSession, AuthenticationTypeOK, Free
  <2> QED
    BY <2>1, <2>2
<1>14. LogoutFollowsLogin'
  <2> SUFFICES ASSUME NEW k \in DOMAIN events', events'[k].action = "auth.logout"
               PROVE  \E j \in 1..(k - 1) : /\ events'[j].action = "auth.login"
                                            /\ events'[j].operator.user = events'[k].operator.user
    BY DEF LogoutFollowsLogin
  <2> HIDE DEF r, e
  <2>1. CASE k \in 1..Len(events)
    BY <2>1, <1>7 DEF IInv, LogoutFollowsLogin
  <2>2. CASE k = Len(events) + 1
    <3>1. LoggedIn(e.operator.user)
      BY <2>2, <1>2, <1>4, <1>5, <1>7, <1>10
    <3> QED
      BY <2>2, <3>1, <1>7 DEF LoggedIn
  <2> QED
    BY <2>1, <2>2, <1>7
<1> QED
  BY <1>11, <1>12, <1>13, <1>14 DEF IInv

LEMMA AnswerStep ==
  ASSUME IInv, NEW w \in Workers, Answer(w)
  PROVE  IInv'
<1> USE DEF IInv
<1>1. /\ pc' = [pc EXCEPT ![w] = "answered"]
      /\ request' = [request EXCEPT ![w] = NoRequest]
      /\ UNCHANGED <<requests, sessions, events, now, answers>>
  BY DEF Answer, End, auditVars
<1>2. pc[w] \notin Free
  BY DEF Answer, HandsOut, Free
<1>3. held \subseteq held' /\ valid' \subseteq held'
  BY DEF Answer, AuthenticationTypeOK
<1>4. \A s \in held' \ held :
        s = request[w].session /\ s \in DOMAIN sessions /\ LoggedIn(sessions[s])
  BY <1>2, RequestType DEF Answer, HandsOut, RequestIsOfSession, HeldIsRecorded
<1>5. AuthenticationTypeOK'
  BY <1>1, <1>3, <1>4 DEF AuthenticationTypeOK, Steps, Free
<1>6. HeldIsRecorded' /\ LogoutFollowsLogin'
  BY <1>1, <1>4 DEF HeldIsRecorded, LoggedIn, LogoutFollowsLogin
<1>7. RequestIsOfSession'
  BY <1>1, <1>3 DEF RequestIsOfSession, LoggedIn, AuthenticationTypeOK, Free
<1> QED
  BY <1>5, <1>6, <1>7

(* Steps that leave requests, sessions and events alone. *)
LEMMA OtherStep ==
  ASSUME IInv, UNCHANGED <<pc, request, requests, sessions, held, events>>,
         valid' \subseteq valid, now' \in Nat
  PROVE  IInv'
BY DEF IInv, AuthenticationTypeOK, HeldIsRecorded, RequestIsOfSession, LoggedIn,
       LogoutFollowsLogin

LEMMA StepIInv == IInv /\ [Next]_authVars => IInv'
<1> SUFFICES ASSUME IInv, [Next]_authVars
             PROVE  IInv'
  OBVIOUS
<1>n. now \in Nat
  BY DEF IInv, AuthenticationTypeOK
<1>1. ASSUME NEW w \in Workers, login(w)
      PROVE  IInv'
  BY <1>1, LoginStep
<1>2. ASSUME NEW w \in Workers, refresh(w) \/ logout(w)
      PROVE  IInv'
  BY <1>2, TokenStep
<1>3. ASSUME NEW w \in Workers, Hear(w)
      PROVE  IInv'
  BY <1>3, HearStep
<1>4. ASSUME NEW w \in Workers, Proceed(w)
      PROVE  IInv'
  BY <1>4, GiveUpStep, RecordStep, AnswerStep DEF Proceed
<1>5. CASE Ask
  BY <1>5, <1>n, OtherStep DEF Ask, listAuditLogs, requestVars, sessionVars
<1>6. CASE Expire
  BY <1>6, <1>n, OtherStep DEF Expire, requestVars, auditVars
<1>7. CASE Tick /\ UNCHANGED <<requestVars, sessionVars>>
  BY <1>7, <1>n, OtherStep DEF Tick, requestVars, sessionVars
<1>8. CASE UNCHANGED authVars
  BY <1>8, <1>n, OtherStep DEF authVars
<1> QED
  BY <1>1, <1>2, <1>3, <1>4, <1>5, <1>6, <1>7, <1>8 DEF Next

(* Requests, sessions and events of the handlers keep their types. *)
THEOREM AuthenticationTypeCorrect == Spec => []AuthenticationTypeOK
<1>1. IInv => AuthenticationTypeOK
  BY DEF IInv
<1> QED
  BY <1>1, InitIInv, StepIInv, PTL DEF Spec

(* Every logout on record follows a login of the same user on record,      *)
(* however the requests of any number of users overlap and fail.           *)
THEOREM LogoutsFollowLogins == Spec => []LogoutFollowsLogin
<1>1. IInv => LogoutFollowsLogin
  BY DEF IInv
<1> QED
  BY <1>1, InitIInv, StepIInv, PTL DEF Spec
-----------------------------------------------------------------------------
(* Induction over a set of numbers, and the existence of the functions     *)
(* that are defined by recursion.                                          *)
LEMMA Inductive ==
  ASSUME NEW N \in Nat, NEW G, 0 \in G, \A n \in G : n \in 0..(N - 1) => n + 1 \in G
  PROVE  0..N \subseteq G
<1> DEFINE Below(k) == 0..k
           T == {Below(k) : k \in 0..N \ G}
           R == StrictSubsetOrdering(0..N)
<1> SUFFICES ASSUME T # {}
             PROVE  FALSE
  BY DEF Below
<1>1. \A k \in 0..N : IsFiniteSet(Below(k)) /\ Below(k) \subseteq 0..N
  BY FS_Interval
<1>2. IsWellFoundedOn(R, FiniteSubsetsOf(0..N))
  BY FS_StrictSubsetOrderingWellFounded
<1>3. T \subseteq FiniteSubsetsOf(0..N)
  <2> HIDE DEF Below
  <2> QED
    BY <1>1 DEF FiniteSubsetsOf
<1>4. PICK x \in T : \A y \in T : <<y, x>> \notin R
  <2> HIDE DEF T, R
  <2> QED
    BY <1>2, <1>3, WFMin
<1>5. PICK k \in 0..N \ G : x = Below(k)
  BY <1>4
<1>6. k - 1 \in 0..N /\ k - 1 \in 0..(N - 1) /\ (k - 1) + 1 = k
  BY <1>5
<1>7. k - 1 \notin G
  BY <1>5, <1>6
<1>8. Below(k - 1) \in T
  BY <1>6, <1>7
<1>9. Below(k - 1) \subseteq Below(k) /\ Below(k - 1) # Below(k)
  BY <1>6
<1>10. <<Below(k - 1), Below(k)>> \in R
  <2> HIDE DEF Below
  <2> QED
    BY <1>1, <1>5, <1>6, <1>9 DEF StrictSubsetOrdering
<1> QED
  BY <1>4, <1>5, <1>8, <1>10

IsIteration(f, N, T, base, next) ==
  /\ f \in [0..N -> T]
  /\ f[0] = base
  /\ \A n \in 1..N : f[n] = next[<<f[n - 1], n>>]

LEMMA Recursion ==
  ASSUME NEW N \in Nat, NEW T, NEW base \in T, NEW next \in [T \X (1..N) -> T]
  PROVE  \E f : IsIteration(f, N, T, base, next)
<1> DEFINE Built(m, f) == IsIteration(f, m, T, base, next)
           G == {m \in 0..N : \E f : Built(m, f)}
<1> USE DEF IsIteration
<1>1. 0 \in G
  <2> DEFINE f == [n \in 0..0 |-> base]
  <2>1. f \in [0..0 -> T] /\ f[0] = base /\ 1..0 = {}
    OBVIOUS
  <2> HIDE DEF f
  <2>2. \E h : Built(0, h)
    BY <2>1
  <2> QED
    BY <2>2
<1>2. ASSUME NEW m \in G, m \in 0..(N - 1)
      PROVE  m + 1 \in G
  <2>1. PICK f : Built(m, f)
    BY <1>2
  <2> DEFINE g == [n \in 0..(m + 1) |-> IF n = m + 1 THEN next[<<f[m], m + 1>>] ELSE f[n]]
  <2>2. m \in Nat /\ m + 1 \in 1..N /\ f[m] \in T
    BY <1>2, <2>1
  <2>3. next[<<f[m], m + 1>>] \in T
    BY <2>2
  <2>4. g \in [0..(m + 1) -> T]
    BY <2>1, <2>2, <2>3
  <2>5. g[0] = base
    BY <2>1, <2>2
  <2>6. ASSUME NEW n \in 1..(m + 1)
        PROVE  g[n] = next[<<g[n - 1], n>>]
    <3>1. CASE n = m + 1
      <4>1. n - 1 = m /\ m \in 0..(m + 1) /\ m # m + 1 /\ n \in 0..(m + 1)
        BY <2>2, <3>1
      <4>2. g[n - 1] = f[n - 1]
        BY <4>1
      <4>3. g[n] = next[<<f[m], m + 1>>]
        BY <3>1, <4>1
      <4> QED
        BY <3>1, <4>1, <4>2, <4>3
    <3>2. CASE n # m + 1
      <4>1. n \in 1..m /\ n - 1 \in 0..(m + 1) /\ n - 1 # m + 1
        BY <2>2, <2>6, <3>2
      <4>2. g[n] = f[n] /\ g[n - 1] = f[n - 1]
        BY <3>2, <4>1
      <4> QED
        BY <2>1, <4>1, <4>2
    <3> QED
      BY <3>1, <3>2
  <2> HIDE DEF g
  <2>7. \A n \in 1..(m + 1) : g[n] = next[<<g[n - 1], n>>]
    BY <2>6
  <2>8. \E h : Built(m + 1, h)
    BY <2>4, <2>5, <2>7
  <2> QED
    BY <2>2, <2>8
<1>3. 0..N \subseteq G
  <2> HIDE DEF G
  <2> QED
    BY <1>1, <1>2, Inductive
<1>4. N \in {m \in 0..N : \E f : IsIteration(f, m, T, base, next)}
  <2>1. N \in 0..N
    OBVIOUS
  <2> HIDE DEF IsIteration
  <2> QED
    BY <1>3, <2>1
<1> QED
  BY Zenon, <1>4
-----------------------------------------------------------------------------
(* Answers of the audit log.  Query walks through the log from its newest  *)
(* event.                                                                  *)
IsWalk(walk, filter) ==
  /\ walk[0] = << >>
  /\ \A n \in 1..Len(events) :
       LET items == walk[n - 1]
           item == events[Len(events) + 1 - n]
       IN walk[n] = IF Len(items) < LimitOf(filter) /\ matchesFilter(item, filter)
                    THEN Append(items, item) ELSE items

LEMMA QueryWalks ==
  ASSUME events \in Seq(AuthEvent), NEW filter
  PROVE  \E walk \in [0..Len(events) -> Seq(AuthEvent)] :
           IsWalk(walk, filter) /\ Query(filter) = walk[Len(events)]
<1> DEFINE N == Len(events)
           S == Seq(AuthEvent)
           Longer(items, n) ==
             IF Len(items) < LimitOf(filter) /\ matchesFilter(events[N + 1 - n], filter)
             THEN Append(items, events[N + 1 - n]) ELSE items
           next == [x \in S \X (1..N) |-> Longer(x[1], x[2])]
           Walked(w) == [n \in 0..N |-> IF n = 0 THEN << >> ELSE Longer(w[n - 1], n)]
           chosen == CHOOSE w : w = Walked(w)
<1>1. N \in Nat /\ << >> \in S
  BY EmptySeq
<1>2. \A n \in 1..N : events[N + 1 - n] \in AuthEvent
  BY <1>1, ElementOfSeq
<1>3. \A items \in S, n \in 1..N : Longer(items, n) \in S
  BY <1>2, AppendProperties
<1>4. next \in [S \X (1..N) -> S]
  BY <1>3
<1>5. \A items \in S, n \in 1..N : next[<<items, n>>] = Longer(items, n)
  OBVIOUS
<1> HIDE DEF N, S, next, Longer, Walked, chosen
<1>6. PICK f \in [0..N -> S] : f[0] = << >> /\ \A n \in 1..N : f[n] = next[<<f[n - 1], n>>]
  <2>1. \E f : IsIteration(f, N, S, << >>, next)
    BY ONLY Zenon, <1>1, <1>4, Recursion
  <2> QED
    BY <2>1 DEF IsIteration
<1>7. \A n \in 1..N : f[n] = Longer(f[n - 1], n)
  <2>1. \A n \in 1..N : n - 1 \in 0..N
    BY <1>1
  <2> QED
    BY <1>5, <1>6, <2>1
<1>8. f = Walked(f)
  <2>1. \A n \in 0..N : n # 0 => n \in 1..N
    BY <1>1
  <2> QED
    BY <1>6, <1>7, <2>1 DEF Walked
<1>9. chosen = Walked(chosen)
  BY <1>8 DEF chosen
<1>10. Query(filter) = chosen[N]
  BY DEF Query, N, Longer, Walked, chosen
<1>11. chosen[0] = << >> /\ \A n \in 1..N : chosen[n] = Longer(chosen[n - 1], n)
  BY <1>1, <1>9 DEF Walked
<1>12. chosen \in [0..N -> S]
  <2> DEFINE G == {n \in 0..N : chosen[n] \in S}
  <2>1. 0 \in G
    BY <1>1, <1>11
  <2>2. \A n \in G : n \in 0..(N - 1) => n + 1 \in G
    BY <1>1, <1>3, <1>11
  <2>3. 0..N \subseteq G
    <3> HIDE DEF G
    <3> QED
      BY <1>1, <2>1, <2>2, Inductive
  <2> QED
    BY <1>9, <2>3 DEF Walked
<1>13. IsWalk(chosen, filter)
  BY <1>11 DEF IsWalk, N, Longer
<1> QED
  BY <1>10, <1>12, <1>13 DEF N, S

(* The events up to bound that match, and those of them newer than k. *)
Matching(filter, bound) == {k \in 1..bound : matchesFilter(events[k], filter)}
Newer(matching, k) == {j \in matching : j > k}

LEMMA NewerFinite ==
  ASSUME NEW filter, NEW bound \in Nat, NEW k
  PROVE  /\ IsFiniteSet(Newer(Matching(filter, bound), k))
         /\ Cardinality(Newer(Matching(filter, bound), k)) \in Nat
<1>1. Newer(Matching(filter, bound), k) \subseteq 1..bound
  BY DEF Newer, Matching
<1>2. IsFiniteSet(1..bound)
  BY FS_Interval
<1> QED
  BY <1>1, <1>2, FS_Subset, FS_CardinalityType

LEMMA LimitType ==
  ASSUME NEW filter \in Filters
  PROVE  /\ LimitOf(filter) \in Nat \ {0}
         /\ ("limit" \in DOMAIN filter => filter["limit"] > 0)
              => \A c \in Nat : c < LimitOf(filter)
                   <=> /\ c < (IF "limit" \in DOMAIN filter THEN filter["limit"]
                               ELSE defaultQueryLimit)
                       /\ c < maxQueryLimit
<1>1. /\ defaultQueryLimit \in Nat \ {0} /\ maxQueryLimit \in Nat \ {0}
      /\ defaultQueryLimit <= maxQueryLimit
      /\ "limit" \in DOMAIN filter => filter["limit"] \in Int
  BY AuditAssumption DEF Fields
<1> DEFINE raw == IF "limit" \in DOMAIN filter THEN filter["limit"] ELSE defaultQueryLimit
<1>2. raw \in Int
  BY <1>1
<1>3. ("limit" \in DOMAIN filter => filter["limit"] > 0) => raw > 0
  BY <1>1
<1>4. LimitOf(filter) = normalizeLimit(raw)
  BY DEF LimitOf
<1> HIDE DEF raw
<1>5. /\ normalizeLimit(raw) \in Nat \ {0}
      /\ raw > 0 => \A c \in Nat : c < normalizeLimit(raw) <=> c < raw /\ c < maxQueryLimit
  <2>1. CASE raw <= 0
    BY <1>1, <1>2, <2>1 DEF normalizeLimit
  <2>2. CASE raw > 0 /\ raw > maxQueryLimit
    BY <1>1, <1>2, <2>2 DEF normalizeLimit
  <2>3. CASE raw > 0 /\ raw <= maxQueryLimit
    <3>1. normalizeLimit(raw) = raw
      BY <1>1, <1>2, <2>3 DEF normalizeLimit
    <3> QED
      BY <1>1, <1>2, <2>3, <3>1
  <2> QED
    BY <1>2, <1>1, <2>1, <2>2, <2>3
<1> QED
  BY <1>3, <1>4, <1>5 DEF raw

(* The answer to a query, as far as the walk has come: the newest events   *)
(* that match, as many as there are and fit, the newest first.             *)
Newest(items, filter, looked, bound) ==
  LET newer(k) == Cardinality(Newer(Matching(filter, bound), k))
      limit == LimitOf(filter)
  IN /\ items \in Seq(AuthEvent)
     /\ Len(items) = Cardinality({k \in looked : newer(k) < limit})
     /\ Len(items) = limit \/ (Len(items) < limit /\ Len(items) = Cardinality(looked))
     /\ \A k \in looked : newer(k) < Len(items) => items[newer(k) + 1] = events[k]

LEMMA NewestGrows ==
  ASSUME events \in Seq(AuthEvent), NEW filter \in Filters, NEW L, L = Len(events),
         NEW items, NEW k \in 1..L,
         Newest(items, filter, Newer(Matching(filter, L), k), L)
  PROVE  LET more == IF Len(items) < LimitOf(filter) /\ matchesFilter(events[k], filter)
                     THEN Append(items, events[k]) ELSE items
         IN Newest(more, filter, Newer(Matching(filter, L), k - 1), L)
<1> DEFINE newer(j) == Cardinality(Newer(Matching(filter, L), j))
           looked == Newer(Matching(filter, L), k)
           limit == LimitOf(filter)
           Early(S) == {j \in S : newer(j) < limit}
<1>1. L \in Nat /\ k \in Nat
  OBVIOUS
<1>2. limit \in Nat \ {0}
  BY LimitType
<1>3. \A j : newer(j) \in Nat
  BY <1>1, NewerFinite
<1>4. IsFiniteSet(looked) /\ Cardinality(looked) \in Nat /\ newer(k) = Cardinality(looked)
  BY <1>1, NewerFinite
<1>5. IsFiniteSet(Early(looked)) /\ Cardinality(Early(looked)) \in Nat
      /\ Cardinality(Early(looked)) <= Cardinality(looked)
  <2>1. Early(looked) \subseteq looked
    OBVIOUS
  <2> HIDE DEF Early, looked
  <2> QED
    BY <1>4, <2>1, FS_Subset, FS_CardinalityType
<1>6. k \notin looked
  BY <1>1 DEF Newer
<1>7. /\ items \in Seq(AuthEvent)
      /\ Len(items) = Cardinality(Early(looked))
      /\ Len(items) = limit \/ (Len(items) < limit /\ Len(items) = Cardinality(looked))
      /\ \A j \in looked : newer(j) < Len(items) => items[newer(j) + 1] = events[j]
  BY DEF Newest
<1>8. Newer(Matching(filter, L), k - 1)
        = IF matchesFilter(events[k], filter) THEN looked \cup {k} ELSE looked
  BY <1>1 DEF Newer, Matching
<1>9. CASE ~ matchesFilter(events[k], filter)
  BY <1>8, <1>9
<1>10. CASE matchesFilter(events[k], filter) /\ Len(items) < limit
  <2>1. Len(items) = Cardinality(looked) /\ newer(k) < limit
    BY <1>2, <1>4, <1>7, <1>10
  <2>2. Early(looked \cup {k}) = Early(looked) \cup {k} /\ k \notin Early(looked)
    BY <1>6, <2>1
  <2>3. Cardinality(Early(looked \cup {k})) = Len(items) + 1
    <3> HIDE DEF Early, looked
    <3>1. Cardinality(Early(looked) \cup {k}) = Cardinality(Early(looked)) + 1
      BY ONLY <1>5, <2>2, FS_AddElement
    <3> QED
      BY <1>7, <2>2, <3>1
  <2>4. Cardinality(looked \cup {k}) = Len(items) + 1
    <3> HIDE DEF looked
    <3>1. Cardinality(looked \cup {k}) = Cardinality(looked) + 1
      BY ONLY <1>4, <1>6, FS_AddElement
    <3> QED
      BY <2>1, <3>1
  <2>5. events[k] \in AuthEvent
    BY ElementOfSeq
  <2> DEFINE more == Append(items, events[k])
  <2>6. /\ more \in Seq(AuthEvent) /\ Len(more) = Len(items) + 1
        /\ more[Len(items) + 1] = events[k]
        /\ \A j \in 1..Len(items) : more[j] = items[j]
        /\ Len(items) \in Nat
    <3> DEFINE last == events[k]
    <3> HIDE DEF last
    <3>1. items \in Seq(AuthEvent) /\ last \in AuthEvent
      BY <1>7, <2>5 DEF last
    <3> QED
      BY <3>1, AppendProperties, LenProperties DEF last
  <2>7. ASSUME NEW j \in looked
        PROVE  newer(j) < Len(items)
    <3>1. Newer(Matching(filter, L), j) \cup {j} \subseteq looked /\ j \notin Newer(Matching(filter, L), j)
      BY <1>1 DEF Newer, Matching
    <3>2. Cardinality(Newer(Matching(filter, L), j) \cup {j}) = newer(j) + 1
      BY <1>1, <3>1, NewerFinite, FS_AddElement
    <3>3. Cardinality(Newer(Matching(filter, L), j) \cup {j}) <= Cardinality(looked)
      <4> HIDE DEF looked
      <4> QED
        BY <1>4, <3>1, FS_Subset
    <3> QED
      BY <1>3, <1>4, <2>1, <3>2, <3>3
  <2>8. \A j \in looked \cup {k} : newer(j) < Len(more) => more[newer(j) + 1] = events[j]
    <3>1. more[newer(k) + 1] = events[k]
      <4>1. newer(k) = Len(items)
        BY <1>4, <2>1
      <4> HIDE DEF more, newer
      <4> QED
        BY <2>6, <4>1
    <3>2. \A j \in looked : more[newer(j) + 1] = events[j]
      <4> SUFFICES ASSUME NEW j \in looked PROVE more[newer(j) + 1] = events[j]
        OBVIOUS
      <4>1. newer(j) < Len(items) /\ newer(j) + 1 \in 1..Len(items)
        BY <1>3, <2>6, <2>7
      <4> HIDE DEF more, newer
      <4> QED
        BY <1>7, <2>6, <4>1
    <3> QED
      BY <3>1, <3>2
  <2>9. Len(more) = limit \/ (Len(more) < limit /\ Len(more) = Cardinality(looked \cup {k}))
    BY <1>2, <1>10, <2>4, <2>6
  <2> HIDE DEF more
  <2>10. Newest(more, filter, looked \cup {k}, L)
    BY <2>3, <2>6, <2>8, <2>9 DEF Newest
  <2> QED
    BY <1>8, <1>10, <2>10 DEF more
<1>11. CASE matchesFilter(events[k], filter) /\ ~ (Len(items) < limit)
  <2>1. Len(items) = limit /\ ~ (newer(k) < limit)
    BY <1>2, <1>4, <1>5, <1>7, <1>11
  <2>2. Early(looked \cup {k}) = Early(looked)
    BY <2>1
  <2>3. \A j \in looked \cup {k} : newer(j) < Len(items) => items[newer(j) + 1] = events[j]
    BY <1>7, <2>1
  <2>4. Newest(items, filter, looked \cup {k}, L)
    BY <1>7, <2>1, <2>2, <2>3 DEF Newest
  <2> QED
    BY <1>8, <1>11, <2>4
<1> QED
  BY <1>9, <1>10, <1>11

LEMMA QueryNewest ==
  ASSUME events \in Seq(AuthEvent), NEW filter \in Filters, NEW L, L = Len(events)
  PROVE  /\ Len(Query(filter)) \in Nat
         /\ Len(Query(filter))
              = Cardinality({k \in Matching(filter, L) :
                               Cardinality(Newer(Matching(filter, L), k)) < LimitOf(filter)})
         /\ \A k \in Matching(filter, L) :
              Cardinality(Newer(Matching(filter, L), k)) < Len(Query(filter))
              => Query(filter)[Cardinality(Newer(Matching(filter, L), k)) + 1] = events[k]
<1>1. PICK walk \in [0..L -> Seq(AuthEvent)] :
        IsWalk(walk, filter) /\ Query(filter) = walk[L]
  BY QueryWalks
<1>2. L \in Nat
  OBVIOUS
<1> DEFINE Good(n) == Newest(walk[n], filter, Newer(Matching(filter, L), L - n), L)
           G == {n \in 0..L : Good(n)}
<1>3. 0 \in G
  <2>1. Newer(Matching(filter, L), L - 0) = {}
    BY <1>2 DEF Newer, Matching
  <2>2. walk[0] = << >>
    BY <1>1 DEF IsWalk
  <2>3. Newest(<< >>, filter, {}, L)
    BY FS_EmptySet, LimitType, EmptySeq DEF Newest
  <2>4. Good(0)
    BY <2>1, <2>2, <2>3
  <2> HIDE DEF Good
  <2> QED
    BY <1>2, <2>4
<1>4. ASSUME NEW n \in G, n \in 0..(L - 1)
      PROVE  n + 1 \in G
  <2>1. Newest(walk[n], filter, Newer(Matching(filter, L), L - n), L)
    OBVIOUS
  <2>2. L - n \in 1..L /\ n + 1 \in 1..L /\ (n + 1) - 1 = n /\ L + 1 - (n + 1) = L - n
        /\ (L - n) - 1 = L - (n + 1)
    BY <1>2, <1>4
  <2>3. walk[n + 1] = IF Len(walk[n]) < LimitOf(filter) /\ matchesFilter(events[L - n], filter)
                      THEN Append(walk[n], events[L - n]) ELSE walk[n]
    <3>1. walk[n + 1] =
            LET earlier == walk[(n + 1) - 1]
                item == events[L + 1 - (n + 1)]
            IN IF Len(earlier) < LimitOf(filter) /\ matchesFilter(item, filter)
               THEN Append(earlier, item) ELSE earlier
      BY <1>1, <2>2 DEF IsWalk
    <3> QED
      BY <2>2, <3>1
  <2>4. Newest(walk[n + 1], filter, Newer(Matching(filter, L), (L - n) - 1), L)
    BY <2>1, <2>2, <2>3, NewestGrows
  <2> QED
    BY <2>2, <2>4
<1>5. L \in G
  <2>1. 0..L \subseteq G
    <3> HIDE DEF G
    <3> QED
      BY <1>2, <1>3, <1>4, Inductive
  <2> QED
    BY <1>2, <2>1
<1>6. Newer(Matching(filter, L), L - L) = Matching(filter, L)
  BY <1>2 DEF Newer, Matching
<1>7. Newest(Query(filter), filter, Matching(filter, L), L)
  BY <1>1, <1>5, <1>6
<1>8. Query(filter) \in Seq(AuthEvent)
  BY <1>7 DEF Newest
<1> QED
  BY <1>7, <1>8, LenProperties DEF Newest

(* An answer, with respect to the first bound events. *)
Room(asked) == IF "limit" \in DOMAIN asked THEN asked["limit"] ELSE defaultQueryLimit

Fills(answer, matching) ==
  Len(answer.items) = Cardinality({k \in matching :
                                     /\ Cardinality(Newer(matching, k)) < Room(answer.filter)
                                     /\ Cardinality(Newer(matching, k)) < maxQueryLimit})
Shows(answer, matching) ==
  \A k \in matching : Cardinality(Newer(matching, k)) < Len(answer.items)
                        => answer.items[Cardinality(Newer(matching, k)) + 1] = events[k]

Answers(answer, bound) == /\ Fills(answer, Matching(answer.filter, bound))
                          /\ Shows(answer, Matching(answer.filter, bound))

(* What was answered stays right of the events there were; what is added   *)
(* later has been stamped later.                                           *)
AnswersKept ==
  \A answer \in answers :
    /\ answer.filter \in Filters
    /\ answer.at \in 0..now
    /\ answer.logged \in 0..Len(events)
    /\ Answers(answer, answer.logged)
    /\ \A k \in (answer.logged + 1)..Len(events) : answer.at <= events[k].at

LEMMA EventTimes ==
  ASSUME events \in Seq(AuthEvent)
  PROVE  Len(events) \in Nat /\ \A k \in 1..Len(events) : events[k].at \in Nat
<1>1. \A k \in 1..Len(events) : events[k] \in AuthEvent
  BY ElementOfSeq
<1> QED
  BY <1>1, LenProperties DEF AuthEvent

(* No later event matches a query whose window had closed. *)
LEMMA KeptAnswersHold ==
  ASSUME AuthenticationTypeOK, AnswersKept
  PROVE  AnswersHold
<1>1. events \in Seq(AuthEvent) /\ now \in Nat
  BY DEF AuthenticationTypeOK
<1> SUFFICES ASSUME NEW answer \in answers
             PROVE  Answers(answer, IF Closed(answer) THEN Len(events) ELSE answer.logged)
  BY DEF AnswersHold, Answers, Fills, Shows, Room, Newer, Matching
<1> DEFINE asked == answer.filter
           L == Len(events)
           n == answer.logged
<1>2. /\ asked \in Filters /\ answer.at \in Nat /\ n \in 0..L /\ L \in Nat
      /\ Answers(answer, n)
      /\ \A k \in (n + 1)..L : answer.at <= events[k].at
      /\ \A k \in 1..L : events[k].at \in Nat
  BY <1>1, EventTimes DEF AnswersKept
<1>3. CASE ~ Closed(answer)
  BY <1>2, <1>3
<1>4. CASE Closed(answer)
  <2>1. "to" \in DOMAIN asked /\ asked["to"] \in Int /\ asked["to"] < answer.at
    BY <1>2, <1>4, AuditAssumption DEF Closed, Fields
  <2>2. \A k \in (n + 1)..L : ~ (events[k].at <= asked["to"])
    BY <1>2, <2>1
  <2>3. \A k \in (n + 1)..L : ~ matchesFilter(events[k], asked)
    BY <2>1, <2>2 DEF matchesFilter
  <2>4. \A k \in 1..L : k \in 1..n \/ k \in (n + 1)..L
    BY <1>2
  <2>5. Matching(asked, L) = Matching(asked, n)
    BY <1>2, <2>3, <2>4 DEF Matching
  <2>6. Answers(answer, L)
    BY <1>2, <2>5 DEF Answers
  <2> QED
    BY <1>4, <2>6
<1> QED
  BY <1>3, <1>4

LEMMA AskKeeps ==
  ASSUME AuthenticationTypeOK, AnswersKept, NEW filter \in Filters, listAuditLogs(filter)
  PROVE  AnswersKept'
<1>1. events \in Seq(AuthEvent) /\ now \in Nat
  BY DEF AuthenticationTypeOK
<1> DEFINE L == Len(events)
           asked == [filter |-> filter, at |-> now, logged |-> L, items |-> Query(filter)]
<1>2. /\ answers' = answers \cup {asked}
      /\ UNCHANGED <<events, now>>
      /\ "limit" \in DOMAIN filter => filter["limit"] > 0
  BY DEF listAuditLogs
<1>3. L \in Nat
  BY <1>1, EventTimes
<1> DEFINE limit == LimitOf(filter)
           room == Room(filter)
           newer(k) == Cardinality(Newer(Matching(filter, L), k))
<1>4. \A c \in Nat : c < limit <=> c < room /\ c < maxQueryLimit
  BY <1>2, LimitType DEF Room
<1>5. \A k : newer(k) \in Nat
  BY <1>3, NewerFinite
<1>6. /\ Len(Query(filter)) = Cardinality({k \in Matching(filter, L) : newer(k) < limit})
      /\ \A k \in Matching(filter, L) :
           newer(k) < Len(Query(filter)) => Query(filter)[newer(k) + 1] = events[k]
  BY <1>1, QueryNewest
<1>7. {k \in Matching(filter, L) : newer(k) < limit}
        = {k \in Matching(filter, L) : newer(k) < room /\ newer(k) < maxQueryLimit}
  <2> HIDE DEF limit, room, newer
  <2> QED
    BY <1>4, <1>5
<1>8. asked.filter = filter /\ asked.at = now /\ asked.logged = L /\ asked.items = Query(filter)
  OBVIOUS
<1> HIDE DEF asked
<1>9. Answers(asked, L)
  BY <1>6, <1>7, <1>8 DEF Answers, Fills, Shows
<1>10. (L + 1)..L = {} /\ L \in 0..L /\ now \in 0..now
  BY <1>1, <1>3
<1>11. /\ asked.filter \in Filters
       /\ asked.at \in 0..now
       /\ asked.logged \in 0..L
       /\ Answers(asked, asked.logged)
       /\ \A k \in (asked.logged + 1)..L : asked.at <= events[k].at
  BY <1>8, <1>9, <1>10
<1>12. \A answer \in answers' :
         /\ answer.filter \in Filters
         /\ answer.at \in 0..now
         /\ answer.logged \in 0..L
         /\ Answers(answer, answer.logged)
         /\ \A k \in (answer.logged + 1)..L : answer.at <= events[k].at
  BY <1>2, <1>11 DEF AnswersKept
<1> HIDE DEF L
<1>13. \A answer, bound : Answers(answer, bound)' <=> Answers(answer, bound)
  BY <1>2 DEF Answers, Shows, Matching
<1> QED
  BY <1>2, <1>12, <1>13 DEF AnswersKept, L

LEMMA AddKeeps ==
  ASSUME AuthenticationTypeOK, AnswersKept, NEW e \in AuthEvent, e.at = now,
         events' = Append(events, e), UNCHANGED <<now, answers>>
  PROVE  AnswersKept'
<1>1. events \in Seq(AuthEvent) /\ now \in Nat
  BY DEF AuthenticationTypeOK
<1> DEFINE L == Len(events)
<1>2. /\ L \in Nat /\ Len(events') = L + 1
      /\ events'[L + 1] = e
      /\ \A k \in 1..L : events'[k] = events[k]
  BY <1>1, AppendProperties, LenProperties
<1> SUFFICES ASSUME NEW answer \in answers
             PROVE  /\ answer.filter \in Filters
                    /\ answer.at \in 0..now
                    /\ answer.logged \in 0..(L + 1)
                    /\ Answers(answer, answer.logged)'
                    /\ \A k \in (answer.logged + 1)..(L + 1) : answer.at <= events'[k].at
  BY <1>2, Zenon DEF AnswersKept
<1> DEFINE n == answer.logged
<1>3. /\ answer.filter \in Filters /\ answer.at \in 0..now /\ n \in 0..L
      /\ Answers(answer, n)
      /\ \A k \in (n + 1)..L : answer.at <= events[k].at
  BY DEF AnswersKept
<1>4. \A k \in 1..n : events'[k] = events[k]
  BY <1>2, <1>3
<1>5. Matching(answer.filter, n)' = Matching(answer.filter, n)
  <2> SUFFICES \A k \in 1..n : matchesFilter(events'[k], answer.filter)
                                 <=> matchesFilter(events[k], answer.filter)
    BY DEF Matching
  <2> QED
    BY <1>4
<1>6. \A k \in Matching(answer.filter, n) : events'[k] = events[k]
  BY <1>4 DEF Matching
<1>7. Shows(answer, Matching(answer.filter, n))'
  BY <1>3, <1>5, <1>6 DEF Answers, Shows
<1>8. Answers(answer, n)'
  BY <1>3, <1>5, <1>7 DEF Answers
<1>9. \A k \in (n + 1)..(L + 1) : answer.at <= events'[k].at
  <2> SUFFICES ASSUME NEW k \in (n + 1)..(L + 1)
               PROVE  answer.at <= events'[k].at
    OBVIOUS
  <2>1. CASE k = L + 1
    BY <1>1, <1>2, <1>3, <2>1
  <2>2. CASE k # L + 1
    <3>1. k \in (n + 1)..L /\ k \in 1..L
      BY <1>2, <1>3, <2>2
    <3> QED
      BY <1>2, <1>3, <3>1
  <2> QED
    BY <2>1, <2>2
<1> QED
  BY <1>2, <1>3, <1>8, <1>9

LEMMA TickKeeps ==
  ASSUME AuthenticationTypeOK, AnswersKept, now' \in Nat, now' >= now,
         UNCHANGED <<events, answers>>
  PROVE  AnswersKept'
<1>1. now \in Nat
  BY DEF AuthenticationTypeOK
<1>2. \A t \in 0..now : t \in 0..now'
  BY <1>1
<1>3. \A answer, bound : Answers(answer, bound)' <=> Answers(answer, bound)
  BY DEF Answers, Shows, Matching
<1> QED
  BY <1>2, <1>3 DEF AnswersKept

LEMMA RecordedEvent ==
  ASSUME IInv, NEW w \in Workers, pc[w] = "accepted", request[w].kind # "refresh"
  PROVE  [action |-> ActionOf(request[w]), operator |-> OperatorOf(request[w]),
          objectType |-> "session", at |-> now] \in AuthEvent
<1> DEFINE r == request[w]
<1>1. r.user \in Users /\ r.kind \in {"login", "logout"} /\ now \in Nat
  BY RequestType DEF IInv, AuthenticationTypeOK, Free
<1>2. OperatorOf(r) \in Operator
  BY <1>1 DEF OperatorOf, resolveLoginOperatorID, Operator
<1> QED
  BY <1>1, <1>2 DEF ActionOf, AuthEvent

LEMMA StepKeeps == IInv /\ AnswersKept /\ [Next]_authVars => AnswersKept'
<1> SUFFICES ASSUME IInv, AnswersKept, [Next]_authVars
             PROVE  AnswersKept'
  OBVIOUS
<1>1. AuthenticationTypeOK /\ now \in Nat /\ now >= now
  BY DEF IInv, AuthenticationTypeOK
<1>2. ASSUME UNCHANGED auditVars
      PROVE  AnswersKept'
  BY <1>1, <1>2, TickKeeps DEF auditVars
<1>3. ASSUME NEW w \in Workers, login(w) \/ refresh(w) \/ logout(w) \/ Hear(w)
      PROVE  AnswersKept'
  BY <1>2, <1>3 DEF login, refresh, logout, Begin, Hear
<1>4. ASSUME NEW w \in Workers, GiveUp(w) \/ Answer(w)
      PROVE  AnswersKept'
  BY <1>2, <1>4 DEF GiveUp, Answer
<1>5. ASSUME NEW w \in Workers, Record(w)
      PROVE  AnswersKept'
  <2> DEFINE e == [action |-> ActionOf(request[w]), operator |-> OperatorOf(request[w]),
                   objectType |-> "session", at |-> now]
  <2>1. e \in AuthEvent /\ e.at = now /\ events' = Append(events, e) /\ UNCHANGED <<now, answers>>
    BY <1>1, <1>5, RecordedEvent DEF Record, Add
  <2> HIDE DEF e
  <2> QED
    BY <1>1, <2>1, AddKeeps
<1>6. CASE Ask
  BY <1>1, <1>6, AskKeeps DEF Ask
<1>7. CASE Expire
  BY <1>2, <1>7 DEF Expire
<1>8. CASE Tick
  <2>1. now' \in Nat /\ now' >= now /\ UNCHANGED <<events, answers>>
    BY <1>1, <1>8 DEF Tick
  <2> QED
    BY <1>1, <2>1, TickKeeps
<1>9. CASE UNCHANGED authVars
  BY <1>2, <1>9 DEF authVars, auditVars
<1> QED
  BY <1>3, <1>4, <1>5, <1>6, <1>7, <1>8, <1>9 DEF Next, Proceed

(* An answer of the audit log has the newest events that match, as many as *)
(* there are and fit; and if the window asked for had closed by then, no   *)
(* later event falls into it, because Add stamps an event while it holds   *)
(* the lock under which Query has read.                                    *)
THEOREM AuditAnswersHold == Spec => []AnswersHold
<1>1. Init => AnswersKept
  BY DEF Init, AuditInit, AnswersKept
<1>2. IInv /\ AnswersKept => AnswersHold
  BY KeptAnswersHold DEF IInv
<1> QED
  BY <1>1, <1>2, InitIInv, StepIInv, StepKeeps, PTL DEF Spec
=============================================================================
