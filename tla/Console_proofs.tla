---------------------------- MODULE Console_proofs ----------------------------
(***************************************************************************)
(* What signing in to the console and using it promise, for every number   *)
(* of requests, users, sessions, tabs and notices: the auth service, the   *)
(* browser's session, and the screens with their theme.                    *)
(*                                                                         *)
(* The three specifications are independent of each other and are proved   *)
(* one after the other.  The auth service's inductive invariant follows a  *)
(* cookie through the requests that present it (Local, Lineage); the       *)
(* browser's follows a request from the form to its answer (CallOK); the   *)
(* screens' adds to the types that a tick has a timer (TickTimed).         *)
(***************************************************************************)
EXTENDS AuthSessions, WebConsole, WebScreens, TLAPS

-----------------------------------------------------------------------------
(***************************************************************************)
(* The auth service.                                                       *)
(***************************************************************************)

\* What a handler knows between two awaits: the session it was given, the
\* user it has found, and that nobody barred when it began gets an answer.
Local(r) ==
    /\ pc[r] \in {"new", "touch"} => cookie[r] = 0
    /\ pc[r] = "new" => access[r] = NoUser
    /\ pc[r] \in {"get", "delete", "check", "revoke"} => cookie[r] # 0
    /\ pc[r] \in {"touch", "delete", "create", "check", "reply"} =>
          user[r] \in DOMAIN users
    /\ pc[r] \in {"check", "reply"} => made[r] \in 1..created
    /\ pc[r] \in {"touch", "reply"} => user[r] \notin barred[r]
    /\ pc[r] = "create" /\ cookie[r] = 0 => user[r] \notin barred[r]
    /\ pc[r] = "create" /\ cookie[r] # 0 => cookie[r] \in dropped
    /\ barred[r] \subseteq inactive
    /\ access[r] # NoUser => access[r] \notin barred[r]

\* A request has read session s and has not made its successor yet.
Active(r, s) == cookie[r] = s /\ pc[r] \in {"delete", "create"}

\* A session with a successor is deleted; a closed one is deleted, in no
\* request's hands, and without a successor; and a session in the hands of
\* two requests, or of one when it has a successor, was raced for.
Lineage ==
    /\ DroppedForGood
    /\ \A t \in Sessions : parent[t] # 0 => parent[t] \in dropped
    /\ \A s \in closed : s \in dropped /\ \A r \in Requests : ~Active(r, s)
    /\ LogoutFinal
    /\ \A s \in 1..created, q, r \in Requests :
          q # r /\ Active(q, s) /\ Active(r, s) => s \in raced
    /\ \A s \in 1..created, r \in Requests, t \in Sessions :
          Active(r, s) /\ parent[t] = s => s \in raced
    /\ OneSuccessor

IInv == TypeOK /\ (\A r \in Requests : Local(r)) /\ Lineage

-----------------------------------------------------------------------------

\* The service starts without users, sessions and requests.
LEMMA InitInv == Init => IInv
<1> SUFFICES ASSUME Init PROVE IInv
  OBVIOUS
<1>1. TypeOK
  BY MaxSessionsAssumption DEF Init, TypeOK, Nothing, Sessions
<1>2. \A r \in Requests : Local(r)
  BY DEF Init, Local
<1>3. Lineage
  BY DEF Init, Lineage, DroppedForGood, LogoutFinal, OneSuccessor, Active,
         Nothing
<1>4. QED
  BY <1>1, <1>2, <1>3 DEF IInv

\* The new user is active, and so is not barred.
LEMMA RegisterInv ==
    ASSUME IInv, NEW r \in Requests, NEW slug \in Slugs, NEW email \in Emails, NEW password \in Passwords,
           Register(r, slug, email, password)
    PROVE  IInv'
<1>1. TypeOK'
  BY NoUserAssumption, MaxSessionsAssumption
  DEF Register, IInv, TypeOK, Local, Sessions, Awaiting, Begin, Goto, dbVars,
     storeVars
<1>2. ASSUME NEW q \in Requests PROVE Local(q)'
  BY <1>2, NoUserAssumption DEF Register, IInv, TypeOK, Local, Sessions,
     Begin, Goto, dbVars, storeVars
<1>3. Lineage'
  BY DEF Register, IInv, TypeOK, Local, Lineage, Active, Sessions, Begin,
     Goto, dbVars, storeVars,
         DroppedForGood, LogoutFinal, OneSuccessor
<1>4. QED
  BY <1>1, <1>2, <1>3 DEF IInv

\* The user found is active when the request begins.
LEMMA LoginInv ==
    ASSUME IInv, NEW r \in Requests, NEW email \in Emails, NEW password \in Passwords,
           Login(r, email, password)
    PROVE  IInv'
<1>1. TypeOK'
  BY NoUserAssumption, MaxSessionsAssumption
  DEF Login, IInv, TypeOK, Local, Sessions, Awaiting, Found, Begin, Goto,
     dbVars, storeVars
<1>2. ASSUME NEW q \in Requests PROVE Local(q)'
  BY <1>2, NoUserAssumption DEF Login, IInv, TypeOK, Local, Sessions, Found,
     Begin, Goto, dbVars, storeVars
<1>3. Lineage'
  BY DEF Login, IInv, TypeOK, Local, Lineage, Active, Sessions, Found, Begin,
     Goto, dbVars, storeVars,
         DroppedForGood, LogoutFinal, OneSuccessor
<1>4. QED
  BY <1>1, <1>2, <1>3 DEF IInv

\* A refused request ends.
LEMMA RefuseInv ==
    ASSUME IInv, NEW r \in Requests,
           Refuse(r)
    PROVE  IInv'
<1>1. TypeOK'
  BY NoUserAssumption, MaxSessionsAssumption
  DEF Refuse, IInv, TypeOK, Local, Sessions, Awaiting, Begin, Goto, dbVars,
     storeVars
<1>2. ASSUME NEW q \in Requests PROVE Local(q)'
  BY <1>2, NoUserAssumption DEF Refuse, IInv, TypeOK, Local, Sessions, Begin,
     Goto, dbVars, storeVars
<1>3. Lineage'
  BY DEF Refuse, IInv, TypeOK, Local, Lineage, Active, Sessions, Begin, Goto,
     dbVars, storeVars,
         DroppedForGood, LogoutFinal, OneSuccessor
<1>4. QED
  BY <1>1, <1>2, <1>3 DEF IInv

\* The update of last_login_at changes nothing that is followed here.
LEMMA TouchInv ==
    ASSUME IInv, NEW r \in Requests,
           Touch(r)
    PROVE  IInv'
<1>1. TypeOK'
  BY NoUserAssumption, MaxSessionsAssumption
  DEF Touch, IInv, TypeOK, Local, Sessions, Awaiting, Goto, dbVars, storeVars
<1>2. ASSUME NEW q \in Requests PROVE Local(q)'
  BY <1>2, NoUserAssumption DEF Touch, IInv, TypeOK, Local, Sessions, Goto,
     dbVars, storeVars
<1>3. Lineage'
  BY DEF Touch, IInv, TypeOK, Local, Lineage, Active, Sessions, Goto, dbVars,
     storeVars,
         DroppedForGood, LogoutFinal, OneSuccessor
<1>4. QED
  BY <1>1, <1>2, <1>3 DEF IInv

\* A cookie somebody holds is one of a session that was created.
LEMMA RefreshInv ==
    ASSUME IInv, NEW r \in Requests, NEW s \in held,
           Refresh(r, s)
    PROVE  IInv'
<1>1. TypeOK'
  BY NoUserAssumption, MaxSessionsAssumption
  DEF Refresh, IInv, TypeOK, Local, Sessions, Awaiting, Begin, Goto, dbVars,
     storeVars
<1>2. ASSUME NEW q \in Requests PROVE Local(q)'
  BY <1>2, NoUserAssumption DEF Refresh, IInv, TypeOK, Local, Sessions, Begin,
     Goto, dbVars, storeVars
<1>3. Lineage'
  BY DEF Refresh, IInv, TypeOK, Local, Lineage, Active, Sessions, Begin, Goto,
     dbVars, storeVars,
         DroppedForGood, LogoutFinal, OneSuccessor
<1>4. QED
  BY <1>1, <1>2, <1>3 DEF IInv

\* A session that is found is not deleted, so nobody is past its deletion and
\* it has no successor.
LEMMA GetInv ==
    ASSUME IInv, NEW r \in Requests,
           Get(r)
    PROVE  IInv'
<1>1. TypeOK'
  BY NoUserAssumption, MaxSessionsAssumption
  DEF Get, IInv, TypeOK, Local, Sessions, Awaiting, Exchanging, Goto, dbVars,
     storeVars
<1>2. ASSUME NEW q \in Requests PROVE Local(q)'
  BY <1>2, NoUserAssumption DEF Get, IInv, TypeOK, Local, Sessions,
     Exchanging, Goto, dbVars, storeVars
<1>3. Lineage'
  <2>1. DroppedForGood'
    BY MaxSessionsAssumption DEF Get, IInv, TypeOK, Local, Lineage, Active,
       Sessions, Exchanging, Goto, dbVars, storeVars, DroppedForGood
  <2>2. \A t \in Sessions : parent'[t] # 0 => parent'[t] \in dropped'
    BY MaxSessionsAssumption DEF Get, IInv, TypeOK, Local, Lineage, Active,
       Sessions, Exchanging, Goto, dbVars, storeVars, DroppedForGood
  <2>3. \A s1 \in closed' : s1 \in dropped' /\ \A q \in Requests : ~Active(q, s1)'
    BY MaxSessionsAssumption DEF Get, IInv, TypeOK, Local, Lineage, Active,
       Sessions, Exchanging, Goto, dbVars, storeVars, DroppedForGood
  <2>4. LogoutFinal'
    BY MaxSessionsAssumption DEF Get, IInv, TypeOK, Local, Lineage, Active,
       Sessions, Exchanging, Goto, dbVars, storeVars, LogoutFinal
  <2>5. \A s1 \in 1..created', q1, q2 \in Requests :
          q1 # q2 /\ Active(q1, s1)' /\ Active(q2, s1)' => s1 \in raced'
    BY MaxSessionsAssumption DEF Get, IInv, TypeOK, Local, Lineage, Active,
       Sessions, Exchanging, Goto, dbVars, storeVars, DroppedForGood
  <2>6. \A s1 \in 1..created', q \in Requests, t \in Sessions :
          Active(q, s1)' /\ parent'[t] = s1 => s1 \in raced'
    BY MaxSessionsAssumption DEF Get, IInv, TypeOK, Local, Lineage, Active,
       Sessions, Exchanging, Goto, dbVars, storeVars, DroppedForGood
  <2>7. OneSuccessor'
    BY MaxSessionsAssumption DEF Get, IInv, TypeOK, Local, Lineage, Active,
       Sessions, Exchanging, Goto, dbVars, storeVars, OneSuccessor
  <2>8. QED
    BY <2>1, <2>2, <2>3, <2>4, <2>5, <2>6, <2>7 DEF Lineage
<1>4. QED
  BY <1>1, <1>2, <1>3 DEF IInv

\* A session that is not found ends the request.
LEMMA GetNothingInv ==
    ASSUME IInv, NEW r \in Requests,
           GetNothing(r)
    PROVE  IInv'
<1>1. TypeOK'
  BY NoUserAssumption, MaxSessionsAssumption
  DEF GetNothing, IInv, TypeOK, Local, Sessions, Awaiting, Goto, dbVars,
     storeVars
<1>2. ASSUME NEW q \in Requests PROVE Local(q)'
  BY <1>2, NoUserAssumption DEF GetNothing, IInv, TypeOK, Local, Sessions,
     Goto, dbVars, storeVars
<1>3. Lineage'
  BY DEF GetNothing, IInv, TypeOK, Local, Lineage, Active, Sessions, Goto,
     dbVars, storeVars,
         DroppedForGood, LogoutFinal, OneSuccessor
<1>4. QED
  BY <1>1, <1>2, <1>3 DEF IInv

\* The session is deleted before it is exchanged.
LEMMA DeleteInv ==
    ASSUME IInv, NEW r \in Requests,
           Delete(r)
    PROVE  IInv'
<1>1. TypeOK'
  <2>1. cookie[r] \in 1..created
    BY DEF Delete, IInv, TypeOK, Local
  <2>2. /\ DOMAIN redis' \subseteq DOMAIN redis
        /\ \A t \in DOMAIN redis' : redis'[t] = redis[t]
        /\ dropped' = dropped \cup {cookie[r]}
        /\ created' = created /\ expired' = expired /\ parent' = parent
    BY DEF Delete, Drop
  <2>3. /\ pc' \in [Requests -> Awaiting \cup {"new", "done"}]
        /\ raced' \subseteq 1..created /\ closed' \subseteq 1..created
    BY <2>1 DEF Delete, Goto, IInv, TypeOK, Awaiting
  <2>4. UNCHANGED <<users, inactive, cookie, user, made, held, access, barred>>
    BY DEF Delete, dbVars
  <2>5. QED
    BY <2>1, <2>2, <2>3, <2>4 DEF IInv, TypeOK
<1>2. ASSUME NEW q \in Requests PROVE Local(q)'
  BY <1>2, NoUserAssumption DEF Delete, IInv, TypeOK, Local, Sessions, Drop,
     Goto, dbVars, storeVars
<1>3. Lineage'
  <2>1. DroppedForGood'
    BY MaxSessionsAssumption DEF Delete, IInv, TypeOK, Local, Lineage, Active,
       Sessions, Drop, Goto, dbVars, storeVars, DroppedForGood
  <2>2. \A t \in Sessions : parent'[t] # 0 => parent'[t] \in dropped'
    BY MaxSessionsAssumption DEF Delete, IInv, TypeOK, Local, Lineage, Active,
       Sessions, Drop, Goto, dbVars, storeVars
  <2>3. \A s1 \in closed' : s1 \in dropped' /\ \A q \in Requests : ~Active(q, s1)'
    BY MaxSessionsAssumption DEF Delete, IInv, TypeOK, Local, Lineage, Active,
       Sessions, Drop, Goto, dbVars, storeVars
  <2>4. LogoutFinal'
    BY MaxSessionsAssumption DEF Delete, IInv, TypeOK, Local, Lineage, Active,
       Sessions, Drop, Goto, dbVars, storeVars, LogoutFinal
  <2>5. \A s1 \in 1..created', q1, q2 \in Requests :
          q1 # q2 /\ Active(q1, s1)' /\ Active(q2, s1)' => s1 \in raced'
    BY MaxSessionsAssumption DEF Delete, IInv, TypeOK, Local, Lineage, Active,
       Sessions, Drop, Goto, dbVars, storeVars
  <2>6. \A s1 \in 1..created', q \in Requests, t \in Sessions :
          Active(q, s1)' /\ parent'[t] = s1 => s1 \in raced'
    BY MaxSessionsAssumption DEF Delete, IInv, TypeOK, Local, Lineage, Active,
       Sessions, Drop, Goto, dbVars, storeVars
  <2>7. OneSuccessor'
    BY MaxSessionsAssumption DEF Delete, IInv, TypeOK, Local, Lineage, Active,
       Sessions, Drop, Goto, dbVars, storeVars, OneSuccessor
  <2>8. QED
    BY <2>1, <2>2, <2>3, <2>4, <2>5, <2>6, <2>7 DEF Lineage
<1>4. QED
  BY <1>1, <1>2, <1>3 DEF IInv

\* The new session's number is new, and its parent is deleted.
LEMMA CreateInv ==
    ASSUME IInv, NEW r \in Requests,
           Create(r)
    PROVE  IInv'
<1>1. TypeOK'
  BY NoUserAssumption, MaxSessionsAssumption
  DEF Create, IInv, TypeOK, Local, Sessions, Awaiting, Goto, dbVars, storeVars
<1>2. ASSUME NEW q \in Requests PROVE Local(q)'
  BY <1>2, NoUserAssumption DEF Create, IInv, TypeOK, Local, Sessions, Goto,
     dbVars, storeVars
<1>3. Lineage'
  <2>1. DroppedForGood'
    BY MaxSessionsAssumption DEF Create, IInv, TypeOK, Local, Lineage, Active,
       Sessions, Goto, dbVars, storeVars, DroppedForGood
  <2>2. \A t \in Sessions : parent'[t] # 0 => parent'[t] \in dropped'
    BY MaxSessionsAssumption DEF Create, IInv, TypeOK, Local, Lineage, Active,
       Sessions, Goto, dbVars, storeVars
  <2>3. \A s1 \in closed' : s1 \in dropped' /\ \A q \in Requests : ~Active(q, s1)'
    BY MaxSessionsAssumption DEF Create, IInv, TypeOK, Local, Lineage, Active,
       Sessions, Goto, dbVars, storeVars
  <2>4. LogoutFinal'
    BY MaxSessionsAssumption DEF Create, IInv, TypeOK, Local, Lineage, Active,
       Sessions, Goto, dbVars, storeVars, LogoutFinal
  <2>5. \A s1 \in 1..created', q1, q2 \in Requests :
          q1 # q2 /\ Active(q1, s1)' /\ Active(q2, s1)' => s1 \in raced'
    BY MaxSessionsAssumption DEF Create, IInv, TypeOK, Local, Lineage, Active,
       Sessions, Goto, dbVars, storeVars
  <2>6. \A s1 \in 1..created', q \in Requests, t \in Sessions :
          Active(q, s1)' /\ parent'[t] = s1 => s1 \in raced'
    BY MaxSessionsAssumption DEF Create, IInv, TypeOK, Local, Lineage, Active,
       Sessions, Goto, dbVars, storeVars
  <2>7. OneSuccessor'
    BY MaxSessionsAssumption DEF Create, IInv, TypeOK, Local, Lineage, Active,
       Sessions, Goto, dbVars, storeVars, OneSuccessor
  <2>8. QED
    BY <2>1, <2>2, <2>3, <2>4, <2>5, <2>6, <2>7 DEF Lineage
<1>4. QED
  BY <1>1, <1>2, <1>3 DEF IInv

\* A user who is active now was active when the request began.
LEMMA CheckInv ==
    ASSUME IInv, NEW r \in Requests,
           Check(r)
    PROVE  IInv'
<1>1. TypeOK'
  BY NoUserAssumption, MaxSessionsAssumption
  DEF Check, IInv, TypeOK, Local, Sessions, Awaiting, Goto, dbVars, storeVars
<1>2. ASSUME NEW q \in Requests PROVE Local(q)'
  <2>1. CASE user[r] \in inactive
    BY <1>2, <2>1 DEF Check, IInv, TypeOK, Local, Goto, dbVars, storeVars
  <2>2. CASE user[r] \notin inactive
    BY <1>2, <2>2 DEF Check, IInv, TypeOK, Local, Goto, dbVars, storeVars
  <2>3. QED
    BY <2>1, <2>2
<1>3. Lineage'
  BY DEF Check, IInv, TypeOK, Local, Lineage, Active, Sessions, Goto, dbVars,
     storeVars,
         DroppedForGood, LogoutFinal, OneSuccessor
<1>4. QED
  BY <1>1, <1>2, <1>3 DEF IInv

\* An answer goes to a user who is not barred.
LEMMA ReplyInv ==
    ASSUME IInv, NEW r \in Requests, NEW arrives \in BOOLEAN,
           Reply(r, arrives)
    PROVE  IInv'
<1>1. TypeOK'
  BY NoUserAssumption, MaxSessionsAssumption
  DEF Reply, IInv, TypeOK, Local, Sessions, Awaiting, Goto, dbVars, storeVars
<1>2. ASSUME NEW q \in Requests PROVE Local(q)'
  BY <1>2, NoUserAssumption DEF Reply, IInv, TypeOK, Local, Sessions, Goto,
     dbVars, storeVars
<1>3. Lineage'
  BY DEF Reply, IInv, TypeOK, Local, Lineage, Active, Sessions, Goto, dbVars,
     storeVars,
         DroppedForGood, LogoutFinal, OneSuccessor
<1>4. QED
  BY <1>1, <1>2, <1>3 DEF IInv

\* A logout begins.
LEMMA LogoutInv ==
    ASSUME IInv, NEW r \in Requests, NEW s \in held,
           Logout(r, s)
    PROVE  IInv'
<1>1. TypeOK'
  BY NoUserAssumption, MaxSessionsAssumption
  DEF Logout, IInv, TypeOK, Local, Sessions, Awaiting, Begin, Goto, dbVars,
     storeVars
<1>2. ASSUME NEW q \in Requests PROVE Local(q)'
  BY <1>2, NoUserAssumption DEF Logout, IInv, TypeOK, Local, Sessions, Begin,
     Goto, dbVars, storeVars
<1>3. Lineage'
  BY DEF Logout, IInv, TypeOK, Local, Lineage, Active, Sessions, Begin, Goto,
     dbVars, storeVars,
         DroppedForGood, LogoutFinal, OneSuccessor
<1>4. QED
  BY <1>1, <1>2, <1>3 DEF IInv

\* A session is closed when nobody uses it.
LEMMA RevokeInv ==
    ASSUME IInv, NEW r \in Requests,
           Revoke(r)
    PROVE  IInv'
<1>1. TypeOK'
  <2>1. cookie[r] \in 1..created
    BY DEF Revoke, IInv, TypeOK, Local
  <2>2. /\ DOMAIN redis' \subseteq DOMAIN redis
        /\ \A t \in DOMAIN redis' : redis'[t] = redis[t]
        /\ dropped' = dropped \cup {cookie[r]}
        /\ created' = created /\ expired' = expired /\ parent' = parent
    BY DEF Revoke, Drop
  <2>3. /\ pc' \in [Requests -> Awaiting \cup {"new", "done"}]
        /\ raced' \subseteq 1..created /\ closed' \subseteq 1..created
    BY <2>1 DEF Revoke, Goto, IInv, TypeOK, Awaiting
  <2>4. UNCHANGED <<users, inactive, cookie, user, made, held, access, barred>>
    BY DEF Revoke, dbVars
  <2>5. QED
    BY <2>1, <2>2, <2>3, <2>4 DEF IInv, TypeOK
<1>2. ASSUME NEW q \in Requests PROVE Local(q)'
  BY <1>2, NoUserAssumption DEF Revoke, IInv, TypeOK, Local, Sessions, Drop,
     Used, Goto, dbVars, storeVars
<1>3. Lineage'
  <2>1. DroppedForGood'
    BY MaxSessionsAssumption DEF Revoke, IInv, TypeOK, Local, Lineage, Active,
       Sessions, Drop, Used, Goto, dbVars, storeVars, DroppedForGood
  <2>2. \A t \in Sessions : parent'[t] # 0 => parent'[t] \in dropped'
    BY MaxSessionsAssumption DEF Revoke, IInv, TypeOK, Local, Lineage, Active,
       Sessions, Drop, Used, Goto, dbVars, storeVars
  <2>3. \A s1 \in closed' : s1 \in dropped' /\ \A q \in Requests : ~Active(q, s1)'
    BY MaxSessionsAssumption DEF Revoke, IInv, TypeOK, Local, Lineage, Active,
       Sessions, Drop, Used, Goto, dbVars, storeVars
  <2>4. LogoutFinal'
    BY MaxSessionsAssumption DEF Revoke, IInv, TypeOK, Local, Lineage, Active,
       Sessions, Drop, Used, Goto, dbVars, storeVars, LogoutFinal
  <2>5. \A s1 \in 1..created', q1, q2 \in Requests :
          q1 # q2 /\ Active(q1, s1)' /\ Active(q2, s1)' => s1 \in raced'
    BY MaxSessionsAssumption DEF Revoke, IInv, TypeOK, Local, Lineage, Active,
       Sessions, Drop, Used, Goto, dbVars, storeVars
  <2>6. \A s1 \in 1..created', q \in Requests, t \in Sessions :
          Active(q, s1)' /\ parent'[t] = s1 => s1 \in raced'
    BY MaxSessionsAssumption DEF Revoke, IInv, TypeOK, Local, Lineage, Active,
       Sessions, Drop, Used, Goto, dbVars, storeVars
  <2>7. OneSuccessor'
    BY MaxSessionsAssumption DEF Revoke, IInv, TypeOK, Local, Lineage, Active,
       Sessions, Drop, Used, Goto, dbVars, storeVars, OneSuccessor
  <2>8. QED
    BY <2>1, <2>2, <2>3, <2>4, <2>5, <2>6, <2>7 DEF Lineage
<1>4. QED
  BY <1>1, <1>2, <1>3 DEF IInv

\* A request that is given up leaves what it did.
LEMMA AbortInv ==
    ASSUME IInv, NEW r \in Requests,
           Abort(r)
    PROVE  IInv'
<1>1. TypeOK'
  BY NoUserAssumption, MaxSessionsAssumption
  DEF Abort, IInv, TypeOK, Local, Sessions, Awaiting, Awaiting, Goto, dbVars,
     storeVars
<1>2. ASSUME NEW q \in Requests PROVE Local(q)'
  BY <1>2, NoUserAssumption DEF Abort, IInv, TypeOK, Local, Sessions,
     Awaiting, Goto, dbVars, storeVars
<1>3. Lineage'
  BY DEF Abort, IInv, TypeOK, Local, Lineage, Active, Sessions, Awaiting,
     Goto, dbVars, storeVars,
         DroppedForGood, LogoutFinal, OneSuccessor
<1>4. QED
  BY <1>1, <1>2, <1>3 DEF IInv

\* A deletion without an answer is a deletion.
LEMMA AbortAfterDropInv ==
    ASSUME IInv, NEW r \in Requests,
           AbortAfterDrop(r)
    PROVE  IInv'
<1>1. TypeOK'
  <2>1. cookie[r] \in 1..created
    BY DEF AbortAfterDrop, IInv, TypeOK, Local
  <2>2. /\ DOMAIN redis' \subseteq DOMAIN redis
        /\ \A t \in DOMAIN redis' : redis'[t] = redis[t]
        /\ dropped' = dropped \cup {cookie[r]}
        /\ created' = created /\ expired' = expired /\ parent' = parent
    BY DEF AbortAfterDrop, Drop
  <2>3. /\ pc' \in [Requests -> Awaiting \cup {"new", "done"}]
        /\ raced' \subseteq 1..created /\ closed' \subseteq 1..created
    BY <2>1 DEF AbortAfterDrop, Goto, IInv, TypeOK, Awaiting
  <2>4. UNCHANGED <<users, inactive, cookie, user, made, held, access, barred>>
    BY DEF AbortAfterDrop, dbVars
  <2>5. QED
    BY <2>1, <2>2, <2>3, <2>4 DEF IInv, TypeOK
<1>2. ASSUME NEW q \in Requests PROVE Local(q)'
  BY <1>2, NoUserAssumption DEF AbortAfterDrop, IInv, TypeOK, Local, Sessions,
     Drop, Goto, dbVars, storeVars
<1>3. Lineage'
  <2>1. DroppedForGood'
    BY MaxSessionsAssumption DEF AbortAfterDrop, IInv, TypeOK, Local, Lineage,
       Active, Sessions, Drop, Goto, dbVars, storeVars, DroppedForGood
  <2>2. \A t \in Sessions : parent'[t] # 0 => parent'[t] \in dropped'
    BY MaxSessionsAssumption DEF AbortAfterDrop, IInv, TypeOK, Local, Lineage,
       Active, Sessions, Drop, Goto, dbVars, storeVars
  <2>3. \A s1 \in closed' : s1 \in dropped' /\ \A q \in Requests : ~Active(q, s1)'
    BY MaxSessionsAssumption DEF AbortAfterDrop, IInv, TypeOK, Local, Lineage,
       Active, Sessions, Drop, Goto, dbVars, storeVars
  <2>4. LogoutFinal'
    BY MaxSessionsAssumption DEF AbortAfterDrop, IInv, TypeOK, Local, Lineage,
       Active, Sessions, Drop, Goto, dbVars, storeVars, LogoutFinal
  <2>5. \A s1 \in 1..created', q1, q2 \in Requests :
          q1 # q2 /\ Active(q1, s1)' /\ Active(q2, s1)' => s1 \in raced'
    BY MaxSessionsAssumption DEF AbortAfterDrop, IInv, TypeOK, Local, Lineage,
       Active, Sessions, Drop, Goto, dbVars, storeVars
  <2>6. \A s1 \in 1..created', q \in Requests, t \in Sessions :
          Active(q, s1)' /\ parent'[t] = s1 => s1 \in raced'
    BY MaxSessionsAssumption DEF AbortAfterDrop, IInv, TypeOK, Local, Lineage,
       Active, Sessions, Drop, Goto, dbVars, storeVars
  <2>7. OneSuccessor'
    BY MaxSessionsAssumption DEF AbortAfterDrop, IInv, TypeOK, Local, Lineage,
       Active, Sessions, Drop, Goto, dbVars, storeVars, OneSuccessor
  <2>8. QED
    BY <2>1, <2>2, <2>3, <2>4, <2>5, <2>6, <2>7 DEF Lineage
<1>4. QED
  BY <1>1, <1>2, <1>3 DEF IInv

\* Who is barred stays among the inactive.
LEMMA DeactivateInv ==
    ASSUME IInv, NEW u \in DOMAIN users,
           Deactivate(u)
    PROVE  IInv'
<1>1. TypeOK'
  BY NoUserAssumption, MaxSessionsAssumption
  DEF Deactivate, IInv, TypeOK, Local, Sessions, Awaiting, storeVars,
     requestVars
<1>2. ASSUME NEW q \in Requests PROVE Local(q)'
  BY <1>2, NoUserAssumption DEF Deactivate, IInv, TypeOK, Local, Sessions,
     storeVars, requestVars
<1>3. Lineage'
  BY DEF Deactivate, IInv, TypeOK, Local, Lineage, Active, Sessions,
     storeVars, requestVars,
         DroppedForGood, LogoutFinal, OneSuccessor
<1>4. QED
  BY <1>1, <1>2, <1>3 DEF IInv

\* Expiry only ends what a token is good for.
LEMMA ExpireInv ==
    ASSUME IInv, NEW s \in 1..created,
           Expire(s)
    PROVE  IInv'
<1>1. TypeOK'
  BY NoUserAssumption, MaxSessionsAssumption
  DEF Expire, IInv, TypeOK, Local, Sessions, Awaiting, dbVars, requestVars
<1>2. ASSUME NEW q \in Requests PROVE Local(q)'
  BY <1>2, NoUserAssumption DEF Expire, IInv, TypeOK, Local, Sessions, dbVars,
     requestVars
<1>3. Lineage'
  BY DEF Expire, IInv, TypeOK, Local, Lineage, Active, Sessions, dbVars,
     requestVars,
         DroppedForGood, LogoutFinal, OneSuccessor
<1>4. QED
  BY <1>1, <1>2, <1>3 DEF IInv

\* An evicted session is gone from Redis.
LEMMA EvictInv ==
    ASSUME IInv, NEW s \in 1..created,
           Evict(s)
    PROVE  IInv'
<1>1. TypeOK'
  BY NoUserAssumption, MaxSessionsAssumption
  DEF Evict, IInv, TypeOK, Local, Sessions, Awaiting, dbVars, requestVars
<1>2. ASSUME NEW q \in Requests PROVE Local(q)'
  BY <1>2, NoUserAssumption DEF Evict, IInv, TypeOK, Local, Sessions, dbVars,
     requestVars
<1>3. Lineage'
  BY DEF Evict, IInv, TypeOK, Local, Lineage, Active, Sessions, dbVars,
     requestVars,
         DroppedForGood, LogoutFinal, OneSuccessor
<1>4. QED
  BY <1>1, <1>2, <1>3 DEF IInv

\* A stuttering step keeps it.
LEMMA StutterInv == ASSUME IInv, UNCHANGED vars PROVE IInv'
  BY DEF vars, dbVars, storeVars, requestVars, IInv, TypeOK, Local, Lineage,
         Active, DroppedForGood, LogoutFinal, OneSuccessor

\* Every step keeps the inductive invariant.
LEMMA NextInv == IInv /\ [Next]_vars => IInv'
<1> SUFFICES ASSUME IInv, [Next]_vars PROVE IInv'
  OBVIOUS
<1>1. ASSUME NEW r \in Requests, Arrive(r) PROVE IInv'
  BY <1>1, RegisterInv, LoginInv, RefuseInv, RefreshInv, LogoutInv DEF Arrive
<1>2. ASSUME NEW r \in Requests, Handle(r) PROVE IInv'
  BY <1>2, TouchInv, GetInv, GetNothingInv, DeleteInv, CreateInv, CheckInv,
     ReplyInv, RevokeInv DEF Handle
<1>3. QED
  BY <1>1, <1>2, AbortInv, AbortAfterDropInv, DeactivateInv, ExpireInv,
     EvictInv, StutterInv DEF Next

-----------------------------------------------------------------------------
(***************************************************************************)
(* The theorems.                                                           *)
(***************************************************************************)

\* The inductive invariant holds in every state the service can reach.
THEOREM Invariance == Spec => []IInv
  BY InitInv, NextInv, PTL DEF Spec

\* Every variable has its type: in particular no session is of an unknown
\* user.
THEOREM TypeCorrect == Spec => []TypeOK
<1>1. IInv => TypeOK
  BY DEF IInv
<1>2. QED
  BY <1>1, Invariance, PTL

\* A session that a rotation or a logout has deleted never works again
\* (refresh.ts:36-48).
THEOREM DroppedStayDropped == Spec => []DroppedForGood
<1>1. IInv => DroppedForGood
  BY DEF IInv, Lineage
<1>2. QED
  BY <1>1, Invariance, PTL

\* Only requests in the middle of the exchange together make two sessions
\* of one (refresh.ts:36-51).
THEOREM RotationSingle == Spec => []OneSuccessor
<1>1. IInv => OneSuccessor
  BY DEF IInv, Lineage
<1>2. QED
  BY <1>1, Invariance, PTL

\* A session logged out while nobody used it has no successor, ever
\* (refresh.ts:55-61).
THEOREM LogoutIsFinal == Spec => []LogoutFinal
<1>1. IInv => LogoutFinal
  BY DEF IInv, Lineage
<1>2. QED
  BY <1>1, Invariance, PTL

\* A user deactivated before a request was made gets no access token by it
\* (email.ts:101, index.ts:118-122).
THEOREM InactiveRefused == Spec => []InactiveLockedOut
<1>1. IInv => InactiveLockedOut
  BY DEF IInv, Local, InactiveLockedOut
<1>2. QED
  BY <1>1, Invariance, PTL

-----------------------------------------------------------------------------
(***************************************************************************)
(* The browser's session.                                                  *)
(***************************************************************************)

\* A request that is under way or answered is a tab's; one of a form has the
\* address that was typed, and one that was accepted has an account.
CallOK(q) ==
    /\ flight[q].state # None =>
          flight[q].tab \in Tabs /\ flight[q].kind \in {"login", "register", "sso"}
    /\ flight[q].state # None /\ flight[q].kind # "sso" => flight[q].mail \in Mails
    /\ flight[q].state = "ok" => flight[q].mail \in accounts

TabsInv == /\ ConsoleOK
           /\ \A q \in Calls : CallOK(q)
           /\ SessionWhole
           /\ StoreFollowsWriter

\* A session whose token and user come from one sign-in, the service's of an
\* account there is among A.
Whole(s, A) ==
    IF s.token = None THEN s.user = None
    ELSE /\ s.token[1] \in {"service", "demo"} => s.token[2] = s.user
         /\ s.token[1] = "service" => s.user \in A

LEMMA WholeFacts ==
    /\ SessionWhole <=> Whole(stored, accounts) /\ \A t \in Tabs : Whole(sess[t], accounts)
    /\ SessionWhole' <=> Whole(stored', accounts') /\ \A t \in Tabs : Whole(sess'[t], accounts')
    /\ \A s, A, B : Whole(s, A) /\ A \subseteq B => Whole(s, B)
<1>1. SessionWhole <=> Whole(stored, accounts) /\ \A t \in Tabs : Whole(sess[t], accounts)
  BY DEF SessionWhole, Whole
<1>2. SessionWhole' <=> Whole(stored', accounts') /\ \A t \in Tabs : Whole(sess'[t], accounts')
  BY DEF SessionWhole, Whole
<1>3. \A s, A, B : Whole(s, A) /\ A \subseteq B => Whole(s, B)
  BY DEF Whole
<1>4. QED
  BY <1>1, <1>2, <1>3

\* The sessions that the code makes.
LEMMA Made ==
    /\ SignedOut \in TabSessions /\ \A A : Whole(SignedOut, A)
    /\ Session("sso", "sso-user") \in TabSessions /\ \A A : Whole(Session("sso", "sso-user"), A)
    /\ \A m \in Mails : Session("service", m) \in TabSessions /\ Session("demo", m) \in TabSessions
    /\ \A m \in Mails : \A A : /\ Whole(Session("demo", m), A)
                               /\ m \in A => Whole(Session("service", m), A)
<1>1. \A by \in {"service", "demo", "sso"}, m \in Mails \cup {"sso-user"} : <<by, m>> # None
  BY NoneAssumption
<1>2. \A by, m : /\ Session(by, m).token = <<by, m>> /\ Session(by, m).user = m
                 /\ <<by, m>>[1] = by /\ <<by, m>>[2] = m
  BY DEF Session
<1>3. SignedOut \in TabSessions /\ \A A : Whole(SignedOut, A)
  BY DEF SignedOut, TabSessions, Whole
<1>4. /\ Session("sso", "sso-user") \in TabSessions
      /\ \A m \in Mails : Session("service", m) \in TabSessions /\ Session("demo", m) \in TabSessions
  BY DEF TabSessions
<1>5. ASSUME NEW by \in {"service", "demo", "sso"}, NEW m \in Mails \cup {"sso-user"}, NEW A,
             by = "service" => m \in A
      PROVE  Whole(Session(by, m), A)
  <2> DEFINE s == Session(by, m)
  <2>1. s.token = <<by, m>> /\ s.user = m /\ s.token[1] = by /\ s.token[2] = m
    BY <1>2
  <2>2. s.token # None
    BY <1>1, <2>1
  <2> HIDE DEF s
  <2>3. Whole(s, A)
    BY <1>5, <2>1, <2>2 DEF Whole
  <2>4. QED
    BY <2>3 DEF s
<1>6. QED
  BY <1>3, <1>4, <1>5

\* The browser starts signed out, with nothing under way.
LEMMA TabsInit == ConsoleInit => TabsInv
<1> SUFFICES ASSUME ConsoleInit PROVE TabsInv
  OBVIOUS
<1>1. ConsoleOK
  BY Made, MailsAssumption DEF ConsoleInit, ConsoleOK, Paths, Forms, Dashboard, NoRequest
<1>2. \A q \in Calls : CallOK(q)
  BY NoneAssumption DEF ConsoleInit, CallOK, NoRequest
<1>3. SessionWhole
  BY Made, WholeFacts DEF ConsoleInit
<1>4. StoreFollowsWriter
  BY DEF ConsoleInit, StoreFollowsWriter
<1>5. QED
  BY <1>1, <1>2, <1>3, <1>4 DEF TabsInv

\* Records of requests keep their types.
CallType == [kind : {None, "login", "register", "sso", "done", "lost"},
             tab : Tabs \cup {None}, mail : Mails \cup {None},
             state : {None, "sent", "ok", "refused", "unreachable"}, here : BOOLEAN]

\* What a move between pages leaves of the requests f: all but where they are
\* awaited.
LEMMA ShowKeeps ==
    ASSUME ConsoleOK, NEW t \in Tabs, NEW p \in Paths, NEW f \in [Calls -> CallType], Show(t, p, f)
    PROVE  /\ path' \in [Tabs -> Paths] /\ mounted' \in [Tabs -> BOOLEAN]
           /\ busy' \in [Tabs -> SUBSET {"form", "sso"}]
           /\ flight' \in [Calls -> CallType]
           /\ \A q \in Calls : /\ flight'[q].kind = f[q].kind /\ flight'[q].tab = f[q].tab
                               /\ flight'[q].mail = f[q].mail /\ flight'[q].state = f[q].state
<1>1. path' \in [Tabs -> Paths] /\ mounted' \in [Tabs -> BOOLEAN]
  BY DEF Show, ConsoleOK
<1>2. busy' \in [Tabs -> SUBSET {"form", "sso"}]
  BY DEF Show, ConsoleOK
<1>3. \A q \in Calls : flight'[q] = f[q] \/ flight'[q] = [f[q] EXCEPT !.here = FALSE]
  BY DEF Show
<1>4. \A q \in Calls : f[q] \in CallType
  OBVIOUS
<1>5. ASSUME NEW q \in Calls
      PROVE  /\ flight'[q] \in CallType
             /\ flight'[q].kind = f[q].kind /\ flight'[q].tab = f[q].tab
             /\ flight'[q].mail = f[q].mail /\ flight'[q].state = f[q].state
  BY <1>3, <1>4 DEF CallType
<1>6. flight' = [q \in Calls |-> flight'[q]]
  BY DEF Show
<1>7. flight' \in [Calls -> CallType]
  BY <1>5, <1>6
<1>8. QED
  BY <1>1, <1>2, <1>5, <1>7

LEMMA ConsoleTypes ==
    ASSUME TabsInv
    PROVE  /\ ConsoleOK /\ flight \in [Calls -> CallType]
           /\ stored \in TabSessions /\ sess \in [Tabs -> TabSessions]
           /\ accounts \subseteq Mails
           /\ "/login" \in Paths /\ "/overview" \in Paths
BY DEF TabsInv, ConsoleOK, CallType, Paths, Forms, Dashboard

\* A session that tab t writes: both copies of the store are that session, and
\* the other tabs' are what they were.
LEMMA PersistKeeps ==
    ASSUME TabsInv, NEW t \in Tabs, NEW s \in TabSessions, Whole(s, accounts),
           Persist(t, s), UNCHANGED accounts
    PROVE  /\ stored' \in TabSessions /\ sess' \in [Tabs -> TabSessions]
           /\ writer' \in Tabs \cup {None}
           /\ SessionWhole' /\ StoreFollowsWriter'
<1>1. /\ stored' = s /\ writer' = t /\ sess' = [sess EXCEPT ![t] = s]
      /\ sess \in [Tabs -> TabSessions]
  BY ConsoleTypes DEF Persist
<1>2. \A u \in Tabs : Whole(sess'[u], accounts')
  BY <1>1, WholeFacts DEF TabsInv
<1>3. SessionWhole'
  BY <1>1, <1>2, WholeFacts
<1>4. StoreFollowsWriter'
  BY <1>1 DEF StoreFollowsWriter
<1>5. QED
  BY <1>1, <1>3, <1>4

\* A step that writes no session.
LEMMA SessionsStay ==
    ASSUME TabsInv, UNCHANGED <<stored, writer, sess>>, accounts \subseteq accounts'
    PROVE  /\ stored' \in TabSessions /\ sess' \in [Tabs -> TabSessions]
           /\ writer' \in Tabs \cup {None}
           /\ SessionWhole' /\ StoreFollowsWriter'
<1>1. SessionWhole'
  BY WholeFacts DEF TabsInv
<1>2. StoreFollowsWriter'
  BY DEF TabsInv, StoreFollowsWriter
<1>3. QED
  BY <1>1, <1>2 DEF TabsInv, ConsoleOK

\* The requests stay what they are when none changes but in where it is awaited.
LEMMA CallsStay ==
    ASSUME TabsInv, accounts \subseteq accounts',
           \A q \in Calls : \/ flight'[q].state = None
                            \/ /\ flight'[q].kind = flight[q].kind /\ flight'[q].tab = flight[q].tab
                               /\ flight'[q].mail = flight[q].mail /\ flight'[q].state = flight[q].state
    PROVE  \A q \in Calls : CallOK(q)'
BY NoneAssumption DEF TabsInv, CallOK

\* Links and effects.
LEMMA MoveInv ==
    ASSUME TabsInv, NEW t \in Tabs,
           (\E p \in Paths : Visit(t, p)) \/ Guard(t) \/ AlreadySignedIn(t)
    PROVE  TabsInv'
<1>1. PICK p \in Paths : Show(t, p, flight) /\ UNCHANGED <<stored, writer, sess, accounts>>
  BY ConsoleTypes DEF Visit, Guard, AlreadySignedIn
<1>2. /\ path' \in [Tabs -> Paths] /\ mounted' \in [Tabs -> BOOLEAN]
      /\ busy' \in [Tabs -> SUBSET {"form", "sso"}]
      /\ flight' \in [Calls -> CallType]
      /\ \A q \in Calls : /\ flight'[q].kind = flight[q].kind /\ flight'[q].tab = flight[q].tab
                          /\ flight'[q].mail = flight[q].mail /\ flight'[q].state = flight[q].state
  BY <1>1, ConsoleTypes, ShowKeeps
<1>3. \A q \in Calls : CallOK(q)'
  BY <1>1, <1>2, CallsStay
<1>4. /\ stored' \in TabSessions /\ sess' \in [Tabs -> TabSessions]
      /\ writer' \in Tabs \cup {None} /\ SessionWhole' /\ StoreFollowsWriter'
  BY <1>1, SessionsStay
<1>5. ConsoleOK'
  BY <1>1, <1>2, <1>4, ConsoleTypes DEF ConsoleOK, CallType
<1>6. QED
  BY <1>3, <1>4, <1>5 DEF TabsInv

LEMMA MountInv == ASSUME TabsInv, NEW t \in Tabs, Mount(t) PROVE TabsInv'
<1>1. UNCHANGED <<stored, writer, sess, path, busy, flight, accounts>> /\ mounted' \in [Tabs -> BOOLEAN]
  BY DEF Mount, TabsInv, ConsoleOK
<1>2. \A q \in Calls : CallOK(q)'
  BY <1>1, CallsStay
<1>3. SessionWhole' /\ StoreFollowsWriter'
  BY <1>1, SessionsStay
<1>4. ConsoleOK'
  BY <1>1 DEF TabsInv, ConsoleOK
<1>5. QED
  BY <1>2, <1>3, <1>4 DEF TabsInv

\* A load takes the stored session for the tab's.
LEMMA LoadInv == ASSUME TabsInv, NEW t \in Tabs, Load(t) PROVE TabsInv'
<1> DEFINE Served == {flight[q].mail : q \in {r \in Calls : flight[r].tab = t
                             /\ flight[r].kind = "register" /\ flight[r].state = "sent"}}
<1>1. PICK S \in SUBSET Served : accounts' = accounts \cup S
  BY DEF Load
<1>2. /\ sess' = [sess EXCEPT ![t] = stored] /\ writer' = t /\ UNCHANGED <<stored, path>>
      /\ mounted' = [mounted EXCEPT ![t] = FALSE] /\ busy' = [busy EXCEPT ![t] = {}]
      /\ flight' = [q \in Calls |-> IF flight[q].tab = t THEN [NoRequest EXCEPT !.kind = "lost"]
                                    ELSE flight[q]]
  BY DEF Load
<1>3. Served \subseteq Mails
  BY NoneAssumption DEF TabsInv, CallOK
<1>4. accounts \subseteq accounts' /\ accounts' \subseteq Mails
  BY <1>1, <1>3, ConsoleTypes
<1>5. [NoRequest EXCEPT !.kind = "lost"] \in CallType /\ [NoRequest EXCEPT !.kind = "lost"].state = None
  BY DEF NoRequest, CallType
<1>6. flight' \in [Calls -> CallType]
  BY <1>2, <1>5, ConsoleTypes
<1>7. \A q \in Calls : CallOK(q)'
  BY <1>2, <1>4, <1>5, CallsStay
<1>8. SessionWhole'
  <2>1. \A u \in Tabs : Whole(sess'[u], accounts)
    BY <1>2, WholeFacts, ConsoleTypes DEF TabsInv
  <2>2. Whole(stored', accounts)
    BY <1>2, WholeFacts DEF TabsInv
  <2>3. QED
    BY <1>4, <2>1, <2>2, WholeFacts
<1>9. StoreFollowsWriter'
  BY <1>2, ConsoleTypes DEF StoreFollowsWriter
<1>10. ConsoleOK'
  <2>1. sess' \in [Tabs -> TabSessions] /\ stored' \in TabSessions /\ writer' \in Tabs \cup {None}
    BY <1>2, ConsoleTypes
  <2>2. path' \in [Tabs -> Paths] /\ mounted' \in [Tabs -> BOOLEAN]
        /\ busy' \in [Tabs -> SUBSET {"form", "sso"}]
    BY <1>2 DEF TabsInv, ConsoleOK
  <2>3. QED
    BY <1>4, <1>6, <2>1, <2>2 DEF ConsoleOK, CallType
<1>11. QED
  BY <1>7, <1>8, <1>9, <1>10 DEF TabsInv

\* A sign-out writes the empty session.
LEMMA SignOutInv == ASSUME TabsInv, NEW t \in Tabs, SignOut(t) PROVE TabsInv'
<1>1. /\ Persist(t, SignedOut) /\ Show(t, "/login", flight) /\ UNCHANGED accounts
  BY DEF SignOut, StoreLogout
<1>2. /\ stored' \in TabSessions /\ sess' \in [Tabs -> TabSessions]
      /\ writer' \in Tabs \cup {None} /\ SessionWhole' /\ StoreFollowsWriter'
  BY <1>1, Made, PersistKeeps
<1>3. /\ path' \in [Tabs -> Paths] /\ mounted' \in [Tabs -> BOOLEAN]
      /\ busy' \in [Tabs -> SUBSET {"form", "sso"}]
      /\ flight' \in [Calls -> CallType]
      /\ \A q \in Calls : /\ flight'[q].kind = flight[q].kind /\ flight'[q].tab = flight[q].tab
                          /\ flight'[q].mail = flight[q].mail /\ flight'[q].state = flight[q].state
  BY <1>1, ConsoleTypes, ShowKeeps
<1>4. \A q \in Calls : CallOK(q)'
  BY <1>1, <1>3, CallsStay
<1>5. ConsoleOK'
  BY <1>1, <1>2, <1>3, ConsoleTypes DEF ConsoleOK, CallType
<1>6. QED
  BY <1>2, <1>4, <1>5 DEF TabsInv

\* A request is started.
LEMMA StartInv ==
    ASSUME TabsInv, NEW t \in Tabs, NEW kind, NEW mail, NEW waits \in {"form", "sso"},
           \/ kind \in {"login", "register"} /\ mail \in Mails
           \/ kind = "sso" /\ mail = None,
           Start(t, kind, mail, waits)
    PROVE  TabsInv'
<1> DEFINE c == [kind |-> kind, tab |-> t, mail |-> mail, state |-> "sent", here |-> TRUE]
<1>1. /\ busy' = [busy EXCEPT ![t] = @ \cup {waits}]
      /\ UNCHANGED <<stored, writer, sess, path, mounted, accounts>>
  BY DEF Start
<1>2. PICK q \in Calls : flight' = [flight EXCEPT ![q] = c]
  BY DEF Start, Request
<1>3. c \in CallType
  BY DEF CallType
<1>4. flight' \in [Calls -> CallType]
  BY <1>2, <1>3, ConsoleTypes
<1>5. ASSUME NEW r \in Calls PROVE CallOK(r)'
  <2>1. CASE r = q
    <3>1. flight'[r] = c
      BY <1>2, <2>1, ConsoleTypes
    <3>2. QED
      BY <3>1 DEF CallOK
  <2>2. CASE r # q
    <3>1. flight'[r] = flight[r]
      BY <1>2, <2>2, ConsoleTypes
    <3>2. QED
      BY <1>1, <3>1 DEF TabsInv, CallOK
  <2>3. QED
    BY <2>1, <2>2
<1>6. SessionWhole' /\ StoreFollowsWriter'
  BY <1>1, SessionsStay
<1>7. ConsoleOK'
  BY <1>1, <1>4 DEF TabsInv, ConsoleOK, CallType
<1>8. QED
  BY <1>5, <1>6, <1>7 DEF TabsInv

\* The service answers: a registration it accepts is an account from then on.
LEMMA ServeInv == ASSUME TabsInv, NEW q \in Calls, Serve(q) PROVE TabsInv'
<1>1. PICK answer \in {"ok", "refused", "unreachable"} :
         /\ answer = "ok" => (flight[q].kind = "login" <=> flight[q].mail \in accounts)
         /\ flight' = [flight EXCEPT ![q].state = answer]
         /\ accounts' = IF answer = "ok" THEN accounts \cup {flight[q].mail} ELSE accounts
  BY DEF Serve
<1>2. /\ flight[q].state = "sent" /\ flight[q].kind # "sso"
      /\ UNCHANGED <<stored, writer, sess, path, mounted, busy>>
  BY DEF Serve
<1>3. flight[q].mail \in Mails /\ flight[q].tab \in Tabs /\ flight[q].kind \in {"login", "register", "sso"}
  BY <1>2, NoneAssumption DEF TabsInv, CallOK
<1>4. accounts \subseteq accounts' /\ accounts' \subseteq Mails
  BY <1>1, <1>3, ConsoleTypes
<1>5. /\ flight' \in [Calls -> CallType]
      /\ \A r \in Calls \ {q} : flight'[r] = flight[r]
      /\ flight'[q].kind = flight[q].kind /\ flight'[q].tab = flight[q].tab
      /\ flight'[q].mail = flight[q].mail /\ flight'[q].state = answer
  <2>1. flight[q] \in CallType
    BY ConsoleTypes
  <2>2. [flight[q] EXCEPT !.state = answer] \in CallType
    BY <2>1 DEF CallType
  <2>3. flight' = [flight EXCEPT ![q] = [flight[q] EXCEPT !.state = answer]]
    BY <1>1
  <2>4. flight'[q] = [flight[q] EXCEPT !.state = answer] /\ \A r \in Calls \ {q} : flight'[r] = flight[r]
    BY <2>3, ConsoleTypes
  <2>5. QED
    BY <2>1, <2>2, <2>3, <2>4, ConsoleTypes DEF CallType
<1>6. ASSUME NEW r \in Calls PROVE CallOK(r)'
  <2>1. CASE r = q
    BY <1>1, <1>3, <1>5, <2>1 DEF CallOK
  <2>2. CASE r # q
    BY <1>4, <1>5, <2>2 DEF TabsInv, CallOK
  <2>3. QED
    BY <2>1, <2>2
<1>7. SessionWhole' /\ StoreFollowsWriter'
  BY <1>2, <1>4, SessionsStay
<1>8. ConsoleOK'
  BY <1>2, <1>4, <1>5 DEF TabsInv, ConsoleOK, CallType
<1>9. QED
  BY <1>6, <1>7, <1>8 DEF TabsInv

\* A request that has its answer is nobody's.
LEMMA FinishedCalls ==
    ASSUME TabsInv, NEW q \in Calls
    PROVE  /\ Finished(q) \in [Calls -> CallType]
           /\ Finished(q)[q].state = None
           /\ \A r \in Calls \ {q} : Finished(q)[r] = flight[r]
<1>1. [NoRequest EXCEPT !.kind = "done"] \in CallType /\ [NoRequest EXCEPT !.kind = "done"].state = None
  BY DEF NoRequest, CallType
<1>2. QED
  BY <1>1, ConsoleTypes DEF Finished

\* An answer signs its tab in.
LEMMA EnterInv ==
    ASSUME TabsInv, NEW q \in Calls, NEW s \in TabSessions, Whole(s, accounts),
           flight[q].tab \in Tabs, Enter(q, s)
    PROVE  TabsInv'
<1>1. /\ Persist(flight[q].tab, s) /\ Show(flight[q].tab, "/overview", Finished(q))
      /\ UNCHANGED accounts
  BY DEF Enter, SetAuth
<1>2. /\ stored' \in TabSessions /\ sess' \in [Tabs -> TabSessions]
      /\ writer' \in Tabs \cup {None} /\ SessionWhole' /\ StoreFollowsWriter'
  BY <1>1, PersistKeeps
<1>3. /\ path' \in [Tabs -> Paths] /\ mounted' \in [Tabs -> BOOLEAN]
      /\ busy' \in [Tabs -> SUBSET {"form", "sso"}]
      /\ flight' \in [Calls -> CallType]
      /\ \A r \in Calls : /\ flight'[r].kind = Finished(q)[r].kind /\ flight'[r].tab = Finished(q)[r].tab
                          /\ flight'[r].mail = Finished(q)[r].mail
                          /\ flight'[r].state = Finished(q)[r].state
  BY <1>1, ConsoleTypes, FinishedCalls, ShowKeeps
<1>4. \A r \in Calls : CallOK(r)'
  BY <1>1, <1>3, FinishedCalls, CallsStay
<1>5. ConsoleOK'
  BY <1>1, <1>2, <1>3, ConsoleTypes DEF ConsoleOK, CallType
<1>6. QED
  BY <1>2, <1>4, <1>5 DEF TabsInv

LEMMA AnswerInv == ASSUME TabsInv, NEW q \in Calls, Answer(q) PROVE TabsInv'
<1>1. CASE Serve(q)
  BY <1>1, ServeInv
<1>2. CASE LoginAccepted(q) \/ SignupAccepted(q)
  <2>1. /\ flight[q].state = "ok" /\ flight[q].kind # "sso"
        /\ Enter(q, Session("service", flight[q].mail))
    BY <1>2 DEF LoginAccepted, SignupAccepted
  <2>2. flight[q].tab \in Tabs /\ flight[q].mail \in Mails /\ flight[q].mail \in accounts
    BY <2>1, NoneAssumption DEF TabsInv, CallOK
  <2>3. QED
    BY <2>1, <2>2, Made, EnterInv
<1>3. CASE LoginFallsBack(q) \/ SignupFallsBack(q)
  <2>1. /\ flight[q].state \in {"refused", "unreachable"} /\ flight[q].kind # "sso"
        /\ Enter(q, Session("demo", flight[q].mail))
    BY <1>3 DEF LoginFallsBack, SignupFallsBack, Thrown
  <2>2. flight[q].tab \in Tabs /\ flight[q].mail \in Mails
    BY <2>1, NoneAssumption DEF TabsInv, CallOK
  <2>3. QED
    BY <2>1, <2>2, Made, EnterInv
<1>4. CASE SsoTimer(q)
  <2>1. flight[q].state = "sent" /\ Enter(q, Session("sso", "sso-user"))
    BY <1>4 DEF SsoTimer
  <2>2. flight[q].tab \in Tabs
    BY <2>1, NoneAssumption DEF TabsInv, CallOK
  <2>3. QED
    BY <2>1, <2>2, Made, EnterInv
<1>5. CASE LoginFails(q)
  <2>1. /\ flight' = Finished(q) /\ UNCHANGED <<stored, writer, sess, path, mounted, accounts>>
        /\ busy' = [busy EXCEPT ![flight[q].tab] = IF flight[q].here THEN @ \ {"form"} ELSE @]
    BY <1>5 DEF LoginFails
  <2>2. busy' \in [Tabs -> SUBSET {"form", "sso"}]
    BY <2>1 DEF TabsInv, ConsoleOK
  <2>3. \A r \in Calls : CallOK(r)'
    BY <2>1, FinishedCalls, CallsStay
  <2>4. SessionWhole' /\ StoreFollowsWriter'
    BY <2>1, SessionsStay
  <2>5. ConsoleOK'
    BY <2>1, <2>2, FinishedCalls DEF TabsInv, ConsoleOK, CallType
  <2>6. QED
    BY <2>3, <2>4, <2>5 DEF TabsInv
<1>6. QED
  BY <1>1, <1>2, <1>3, <1>4, <1>5 DEF Answer

LEMMA UserInv == ASSUME TabsInv, NEW t \in Tabs, User(t) PROVE TabsInv'
<1>1. ASSUME NEW m \in Mails, SubmitLogin(t, m) \/ SubmitSignup(t, m) PROVE TabsInv'
  <2>1. Start(t, "login", m, "form") \/ Start(t, "register", m, "form")
    BY <1>1 DEF SubmitLogin, SubmitSignup
  <2>2. QED
    BY <2>1, StartInv
<1>2. CASE SsoLogin(t)
  <2>1. Start(t, "sso", None, "sso")
    BY <1>2 DEF SsoLogin
  <2>2. QED
    BY <2>1, StartInv
<1>3. QED
  BY <1>1, <1>2, MoveInv, LoadInv, SignOutInv DEF User

LEMMA TabsNext == TabsInv /\ [ConsoleNext]_consoleVars => TabsInv'
<1> SUFFICES ASSUME TabsInv, [ConsoleNext]_consoleVars PROVE TabsInv'
  OBVIOUS
<1>1. ASSUME NEW t \in Tabs, Effects(t) PROVE TabsInv'
  BY <1>1, MountInv, MoveInv DEF Effects
<1>2. CASE UNCHANGED consoleVars
  <2>1. UNCHANGED <<stored, writer, sess, path, mounted, busy, flight, accounts>>
    BY <1>2 DEF consoleVars
  <2>2. \A q \in Calls : CallOK(q)'
    BY <2>1, CallsStay
  <2>3. SessionWhole' /\ StoreFollowsWriter'
    BY <2>1, SessionsStay
  <2>4. ConsoleOK'
    BY <2>1 DEF TabsInv, ConsoleOK
  <2>5. QED
    BY <2>2, <2>3, <2>4 DEF TabsInv
<1>3. QED
  BY <1>1, <1>2, UserInv, AnswerInv DEF ConsoleNext

\* The session of every tab and of the store is of one sign-in, and a session
\* of the service is of an account, for any number of tabs and requests and
\* however their answers, timers, reloads and sign-outs come (useAppStore.ts).
THEOREM SessionsWhole == ConsoleSpec => []SessionWhole
<1>1. TabsInv => SessionWhole
  BY DEF TabsInv
<1>2. QED
  BY <1>1, TabsInit, TabsNext, PTL DEF ConsoleSpec

\* The tab that wrote the store last has in memory what a reload would read
\* (useAppStore.ts:48, Sidebar.tsx:30).
THEOREM WriterReloadsSame == ConsoleSpec => []StoreFollowsWriter
<1>1. TabsInv => StoreFollowsWriter
  BY DEF TabsInv
<1>2. QED
  BY <1>1, TabsInit, TabsNext, PTL DEF ConsoleSpec

-----------------------------------------------------------------------------
(***************************************************************************)
(* The screens and the theme.                                              *)
(***************************************************************************)

\* A tick has a timer running that will clear it, of its own click or of an
\* earlier one.
TickTimed == Ticked => ui.timers > 0

ScreensInv == ScreenOK /\ ThemeFits /\ TickTimed

\* The lists after each handler.
LEMMA ListFacts ==
    \A read \in Lists :
        /\ DOMAIN read \subseteq Notices
        /\ \A S : /\ Marked(read, S) \in Lists /\ DOMAIN Marked(read, S) = DOMAIN read
                  /\ \A n \in DOMAIN read : read[n] => Marked(read, S)[n]
        /\ \A n : /\ Without(read, n) \in Lists /\ DOMAIN Without(read, n) \subseteq DOMAIN read
                  /\ \A m \in DOMAIN Without(read, n) : Without(read, n)[m] = read[m]
<1> SUFFICES ASSUME NEW read \in Lists
             PROVE  /\ DOMAIN read \subseteq Notices
                    /\ \A S : /\ Marked(read, S) \in Lists /\ DOMAIN Marked(read, S) = DOMAIN read
                              /\ \A n \in DOMAIN read : read[n] => Marked(read, S)[n]
                    /\ \A n : /\ Without(read, n) \in Lists
                              /\ DOMAIN Without(read, n) \subseteq DOMAIN read
                              /\ \A m \in DOMAIN Without(read, n) : Without(read, n)[m] = read[m]
  OBVIOUS
<1>1. PICK D \in SUBSET Notices : read \in [D -> BOOLEAN]
  BY DEF Lists
<1>2. \A E \in SUBSET Notices : \A f \in [E -> BOOLEAN] : f \in Lists
  BY DEF Lists
<1>3. ASSUME NEW S
      PROVE  /\ Marked(read, S) \in [D -> BOOLEAN] /\ DOMAIN Marked(read, S) = DOMAIN read
             /\ \A n \in DOMAIN read : read[n] => Marked(read, S)[n]
  BY <1>1 DEF Marked
<1>4. ASSUME NEW n
      PROVE  /\ Without(read, n) \in [D \ {n} -> BOOLEAN]
             /\ DOMAIN Without(read, n) \subseteq DOMAIN read
             /\ \A m \in DOMAIN Without(read, n) : Without(read, n)[m] = read[m]
  BY <1>1 DEF Without
<1>5. \A n : D \ {n} \in SUBSET Notices
  OBVIOUS
<1>6. QED
  BY <1>1, <1>2, <1>3, <1>4, <1>5

LEMMA FreshTyped == \A p \in Pages : Fresh(p) \in UiType(p)
<1>1. AnyPeriod \in Periods /\ "" \in Terms
  BY ScreensAssumption DEF AnyPeriod
<1>2. Listed \in [Notices -> BOOLEAN]
  BY DEF Listed
<1>3. [Notices -> BOOLEAN] \subseteq Lists
  BY DEF Lists
<1>4. 0 \in 0..MaxTimers
  <2>1. MaxTimers \in Nat \ {0}
    BY ScreensAssumption
  <2>2. QED
    BY <2>1
<1>5. ASSUME NEW p \in Pages PROVE Fresh(p) \in UiType(p)
  <2>1. CASE p = "/overview"
    BY <1>1, <1>2, <1>3, <2>1 DEF Fresh, UiType
  <2>2. CASE p = "/alerts"
    BY <1>2, <2>2 DEF Fresh, UiType
  <2>3. CASE p = "/keys"
    BY <1>4, <2>3 DEF Fresh, UiType
  <2>4. CASE p = "/settings"
    BY <1>4, <2>4 DEF Fresh, UiType, SettingsTabs
  <2>5. CASE p = "/budgets" \/ p = "/usage" \/ p = "/audit" \/ p = "/cost" \/ p = "/reports"
    BY <1>1, <2>5 DEF Fresh, UiType
  <2>6. QED
    BY <2>1, <2>2, <2>3, <2>4, <2>5 DEF Pages
<1>6. QED
  BY <1>5

\* The state of the pages that keep more than filters.
LEMMA PageTypes ==
    ASSUME ScreenOK
    PROVE  /\ page = "/overview" => ui \in [period : Periods, drawer : BOOLEAN, read : Lists]
           /\ page = "/alerts" => ui \in [filter : Severities \cup {"all"}, read : [Notices -> BOOLEAN]]
           /\ page = "/keys" => ui \in [modal : BOOLEAN, show : BOOLEAN, ticked : Keys \cup {Unset},
                                        timers : 0..MaxTimers]
           /\ page = "/settings" => ui \in [tab : SettingsTabs, newTeam : BOOLEAN,
                                            ticked : {Unset, "saved"}, timers : 0..MaxTimers]
BY DEF ScreenOK, UiType

\* A handler of the overview or of the alerts changes the list by marking or
\* taking out notices, and nothing a tick depends on.
LEMMA ListHandlers ==
    ASSUME ScreenOK, Overview \/ Alerts
    PROVE  /\ UNCHANGED <<page, themeVars>> /\ page \in {"/overview", "/alerts"}
           /\ ui' \in UiType(page)
           /\ DOMAIN ui'.read \subseteq DOMAIN ui.read
           /\ \A n \in DOMAIN ui'.read : ui.read[n] => ui'.read[n]
<1>1. [Notices -> BOOLEAN] \subseteq Lists
  BY DEF Lists
<1>2. CASE Overview
  <2>1. page = "/overview" /\ ui \in [period : Periods, drawer : BOOLEAN, read : Lists]
    BY <1>2, PageTypes DEF Overview
  <2>2. ui.read \in Lists
    BY <2>1
  <2>3. PICK u : /\ Become(u) /\ u \in [period : Periods, drawer : BOOLEAN, read : Lists]
                 /\ \/ u.read = ui.read
                    \/ \E S : u.read = Marked(ui.read, S)
                    \/ \E n : u.read = Without(ui.read, n)
    <3>1. ASSUME NEW p \in Periods, Become([ui EXCEPT !.period = p])
          PROVE  \E u : /\ Become(u) /\ u \in [period : Periods, drawer : BOOLEAN, read : Lists]
                        /\ u.read = ui.read
      <4>1. /\ [ui EXCEPT !.period = p] \in [period : Periods, drawer : BOOLEAN, read : Lists]
            /\ [ui EXCEPT !.period = p].read = ui.read
        BY <2>1
      <4>2. QED
        BY <3>1, <4>1
    <3>2. ASSUME NEW d \in BOOLEAN, Become([ui EXCEPT !.drawer = d])
          PROVE  \E u : /\ Become(u) /\ u \in [period : Periods, drawer : BOOLEAN, read : Lists]
                        /\ u.read = ui.read
      <4>1. /\ [ui EXCEPT !.drawer = d] \in [period : Periods, drawer : BOOLEAN, read : Lists]
            /\ [ui EXCEPT !.drawer = d].read = ui.read
        BY <2>1
      <4>2. QED
        BY <3>2, <4>1
    <3>3. ASSUME NEW S, \/ Become([ui EXCEPT !.read = Marked(@, S)])
                        \/ Become([ui EXCEPT !.read = Marked(@, S), !.drawer = TRUE])
          PROVE  \E u : /\ Become(u) /\ u \in [period : Periods, drawer : BOOLEAN, read : Lists]
                        /\ u.read = Marked(ui.read, S)
      <4>1. Marked(ui.read, S) \in Lists
        BY <2>2, ListFacts
      <4>2. /\ [ui EXCEPT !.read = Marked(@, S)] \in [period : Periods, drawer : BOOLEAN, read : Lists]
            /\ [ui EXCEPT !.read = Marked(@, S)].read = Marked(ui.read, S)
            /\ [ui EXCEPT !.read = Marked(@, S), !.drawer = TRUE]
                  \in [period : Periods, drawer : BOOLEAN, read : Lists]
            /\ [ui EXCEPT !.read = Marked(@, S), !.drawer = TRUE].read = Marked(ui.read, S)
        BY <2>1, <4>1
      <4>3. QED
        BY <3>3, <4>2
    <3>4. ASSUME NEW n, Become([ui EXCEPT !.read = Without(@, n)])
          PROVE  \E u : /\ Become(u) /\ u \in [period : Periods, drawer : BOOLEAN, read : Lists]
                        /\ u.read = Without(ui.read, n)
      <4>1. Without(ui.read, n) \in Lists
        BY <2>2, ListFacts
      <4>2. /\ [ui EXCEPT !.read = Without(@, n)] \in [period : Periods, drawer : BOOLEAN, read : Lists]
            /\ [ui EXCEPT !.read = Without(@, n)].read = Without(ui.read, n)
        BY <2>1, <4>1
      <4>3. QED
        BY <3>4, <4>2
    <3>5. \/ \E p \in Periods : Become([ui EXCEPT !.period = p])
          \/ \E d \in BOOLEAN : Become([ui EXCEPT !.drawer = d])
          \/ \E S : \/ Become([ui EXCEPT !.read = Marked(@, S)])
                    \/ Become([ui EXCEPT !.read = Marked(@, S), !.drawer = TRUE])
          \/ \E n : Become([ui EXCEPT !.read = Without(@, n)])
      BY <1>2 DEF Overview, ChoosePeriod, OpenNotice, OpenDrawer, DrawerMarkAll, DrawerMark,
                  DrawerDismiss, CloseDrawer
    <3>6. QED
      BY <3>1, <3>2, <3>3, <3>4, <3>5
  <2>4. /\ DOMAIN u.read \subseteq DOMAIN ui.read
        /\ \A n \in DOMAIN u.read : ui.read[n] => u.read[n]
    BY <2>2, <2>3, ListFacts
  <2>5. ui' = u /\ UNCHANGED <<page, themeVars>>
    BY <2>3 DEF Become
  <2>6. ui' \in UiType(page)
    BY <2>1, <2>3, <2>5 DEF UiType
  <2>7. QED
    BY <2>1, <2>4, <2>5, <2>6
<1>3. CASE Alerts
  <2>1. page = "/alerts" /\ ui \in [filter : Severities \cup {"all"}, read : [Notices -> BOOLEAN]]
    BY <1>3, PageTypes DEF Alerts
  <2>2. ui.read \in [Notices -> BOOLEAN] /\ ui.read \in Lists
    BY <1>1, <2>1
  <2>3. ASSUME NEW s \in Severities \cup {"all"}, Become([ui EXCEPT !.filter = s])
        PROVE  /\ ui' \in UiType(page) /\ ui'.read = ui.read
               /\ UNCHANGED <<page, themeVars>>
    BY <2>1, <2>3 DEF Become, UiType
  <2>4. ASSUME NEW S, Become([ui EXCEPT !.read = Marked(@, S)])
        PROVE  /\ ui' \in UiType(page) /\ ui'.read = Marked(ui.read, S)
               /\ UNCHANGED <<page, themeVars>>
    <3>1. Marked(ui.read, S) \in [Notices -> BOOLEAN]
      BY <2>2 DEF Marked
    <3>2. QED
      BY <2>1, <2>4, <3>1 DEF Become, UiType
  <2>5. \/ \E s \in Severities \cup {"all"} : Become([ui EXCEPT !.filter = s])
        \/ \E S : Become([ui EXCEPT !.read = Marked(@, S)])
    BY <1>3 DEF Alerts, FilterAlerts, DismissAlert, DismissAllAlerts
  <2>6. /\ UNCHANGED <<page, themeVars>> /\ ui' \in UiType(page)
        /\ ui'.read = ui.read \/ \E S : ui'.read = Marked(ui.read, S)
    BY <2>3, <2>4, <2>5
  <2>7. QED
    BY <2>1, <2>2, <2>6, ListFacts
<1>4. QED
  BY <1>2, <1>3

\* A tick is set with a timer; the pages that tick keep their types.
LEMMA TickHandlers ==
    ASSUME ScreensInv, KeysPage \/ Settings \/ TickTimer
    PROVE  /\ UNCHANGED <<page, themeVars>> /\ page \in {"/keys", "/settings"}
           /\ ui' \in UiType(page) /\ TickTimed'
<1> DEFINE KeysType == [modal : BOOLEAN, show : BOOLEAN, ticked : Keys \cup {Unset},
                        timers : 0..MaxTimers]
           SettingsType == [tab : SettingsTabs, newTeam : BOOLEAN, ticked : {Unset, "saved"},
                            timers : 0..MaxTimers]
<1>1. MaxTimers \in Nat \ {0}
  BY ScreensAssumption
<1>2. /\ page = "/keys" => ui \in KeysType /\ UiType(page) = KeysType
      /\ page = "/settings" => ui \in SettingsType /\ UiType(page) = SettingsType
      /\ page \in {"/keys", "/settings"} /\ ui.ticked # Unset => ui.timers > 0
  BY PageTypes DEF ScreensInv, UiType, TickTimed, Ticked
<1>3. page \in {"/keys", "/settings"} /\ UNCHANGED <<page, themeVars>>
  BY DEF KeysPage, Settings, TickTimer, OpenKeyModal, ShowKey, CloseKeyModal, CopyHash, Tick,
         ChooseTab, Save, NewTeam, Become
<1>4. ui.timers \in 0..MaxTimers
  BY <1>2, <1>3
<1>5. CASE TickTimer
  <2>1. ui' = [ui EXCEPT !.ticked = Unset, !.timers = @ - 1] /\ ui.timers > 0
    BY <1>5 DEF TickTimer, Become
  <2>2. ui.timers - 1 \in 0..MaxTimers
    BY <1>1, <1>4, <2>1
  <2>3. ui'.ticked = Unset /\ ui' \in UiType(page)
    BY <1>2, <1>3, <2>1, <2>2
  <2>4. QED
    BY <1>3, <2>3 DEF TickTimed, Ticked
<1>6. CASE KeysPage
  <2>1. page = "/keys" /\ ui \in KeysType /\ UiType(page) = KeysType
    BY <1>2, <1>6 DEF KeysPage
  <2>2. CASE CopyHash
    <3>1. PICK k \in Keys : /\ ui' = [ui EXCEPT !.ticked = k, !.timers = @ + 1]
                            /\ ui.timers < MaxTimers
      BY <2>2 DEF CopyHash, Tick, Become
    <3>2. ui.timers + 1 \in 0..MaxTimers /\ ui.timers + 1 > 0
      BY <1>1, <1>4, <3>1
    <3>3. ui' \in UiType(page) /\ ui'.timers > 0
      BY <2>1, <3>1, <3>2
    <3>4. QED
      BY <1>3, <3>3 DEF TickTimed
  <2>3. CASE OpenKeyModal \/ ShowKey \/ CloseKeyModal
    <3>1. /\ ui' \in KeysType /\ ui'.ticked = ui.ticked /\ ui'.timers = ui.timers
      BY <2>1, <2>3 DEF OpenKeyModal, ShowKey, CloseKeyModal, Become
    <3>2. QED
      BY <1>2, <1>3, <2>1, <3>1 DEF TickTimed, Ticked
  <2>4. QED
    BY <1>6, <2>2, <2>3 DEF KeysPage
<1>7. CASE Settings
  <2>1. page = "/settings" /\ ui \in SettingsType /\ UiType(page) = SettingsType
    BY <1>2, <1>7 DEF Settings
  <2>2. CASE Save
    <3>1. ui' = [ui EXCEPT !.ticked = "saved", !.timers = @ + 1] /\ ui.timers < MaxTimers
      BY <2>2 DEF Save, Tick, Become
    <3>2. ui.timers + 1 \in 0..MaxTimers /\ ui.timers + 1 > 0
      BY <1>1, <1>4, <3>1
    <3>3. ui' \in UiType(page) /\ ui'.timers > 0
      BY <2>1, <3>1, <3>2
    <3>4. QED
      BY <1>3, <3>3 DEF TickTimed
  <2>3. CASE ChooseTab
    <3>1. PICK t \in SettingsTabs : ui' = [ui EXCEPT !.tab = t, !.ticked = Unset, !.timers = 0]
      BY <2>3 DEF ChooseTab, Become
    <3>2. 0 \in 0..MaxTimers
      BY <1>1
    <3>3. ui' \in UiType(page) /\ ui'.ticked = Unset
      BY <2>1, <3>1, <3>2
    <3>4. QED
      BY <1>3, <3>3 DEF TickTimed, Ticked
  <2>4. CASE NewTeam
    <3>1. /\ ui' \in SettingsType /\ ui'.ticked = ui.ticked /\ ui'.timers = ui.timers
      BY <2>1, <2>4 DEF NewTeam, Become
    <3>2. QED
      BY <1>2, <1>3, <2>1, <3>1 DEF TickTimed, Ticked
  <2>5. QED
    BY <1>7, <2>2, <2>3, <2>4 DEF Settings
<1>8. QED
  BY <1>5, <1>6, <1>7

\* The pages that only filter have no list and no tick.
LEMMA FilterHandlers ==
    ASSUME ScreensInv, Budgets \/ Usage \/ Audit \/ Cost \/ Reports
    PROVE  /\ UNCHANGED <<page, themeVars>>
           /\ page \notin {"/overview", "/alerts", "/keys", "/settings"}
           /\ ui' \in UiType(page)
<1>1. ui \in UiType(page)
  BY DEF ScreensInv, ScreenOK
<1>2. CASE Budgets
  BY <1>1, <1>2 DEF Budgets, Become, UiType
<1>3. CASE Usage
  BY <1>1, <1>3 DEF Usage, Become, UiType
<1>4. CASE Audit
  BY <1>1, <1>4 DEF Audit, Become, UiType
<1>5. CASE Cost
  BY <1>1, <1>5 DEF Cost, Become, UiType
<1>6. CASE Reports
  BY <1>1, <1>6 DEF Reports, Become, UiType
<1>7. QED
  BY <1>2, <1>3, <1>4, <1>5, <1>6

\* The theme's steps: the provider's effect, its toggle and the system's change
\* each leave the root, the provider and what is saved in agreement; the toggle
\* of another tab changes what is saved and makes it no longer this tab's.
LEMMA ThemeHandlers ==
    ASSUME ScreensInv, Theme
    PROVE  ScreensInv' /\ page' = page /\ (ui' = ui \/ PaintFirst)
<1>1. /\ page \in Pages /\ ui \in UiType(page)
      /\ saved \in {Unset, "dark", "light", "system"} /\ theme \in {"dark", "light", "system"}
      /\ prefers \in {"dark", "light"} /\ resolved \in {"dark", "light"} /\ root \in {"dark", "light"}
      /\ painted \in BOOLEAN /\ ours \in BOOLEAN
      /\ Unset \notin {"dark", "light", "system"}
  BY ScreensAssumption DEF ScreensInv, ScreenOK
<1>2. page' = page
  BY DEF Theme, PaintFirst, MountTheme, SystemChange, ToggleTheme, OtherTabToggles
<1>3. /\ saved' \in {Unset, "dark", "light", "system"} /\ theme' \in {"dark", "light", "system"}
      /\ {prefers', resolved', root'} \subseteq {"dark", "light"} /\ painted' \in BOOLEAN
      /\ ours' \in BOOLEAN
  BY <1>1 DEF Theme, PaintFirst, MountTheme, SystemChange, ToggleTheme, OtherTabToggles, Resolve
<1>4. ThemeFits'
  <2>1. CASE PaintFirst
    BY <2>1 DEF PaintFirst, ThemeFits
  <2>2. CASE MountTheme
    BY <1>1, <2>2 DEF MountTheme, ThemeFits, Resolve
  <2>3. CASE SystemChange
    BY <1>1, <2>3 DEF SystemChange, ScreensInv, ThemeFits, Resolve
  <2>4. CASE ToggleTheme
    BY <1>1, <2>4 DEF ToggleTheme, ThemeFits, Resolve
  <2>5. CASE OtherTabToggles
    BY <2>5 DEF OtherTabToggles, ScreensInv, ThemeFits, Resolve
  <2>6. QED
    BY <2>1, <2>2, <2>3, <2>4, <2>5 DEF Theme
<1>5. CASE PaintFirst
  <2>1. ui' = Fresh(page) /\ ui' \in UiType(page')
    BY <1>1, <1>2, <1>5, FreshTyped DEF PaintFirst
  <2>2. TickTimed'
    BY <1>2, <2>1 DEF TickTimed, Ticked, Fresh
  <2>3. QED
    BY <1>1, <1>2, <1>3, <1>4, <1>5, <2>1, <2>2 DEF ScreensInv, ScreenOK
<1>6. CASE ~PaintFirst
  <2>1. ui' = ui
    BY <1>6 DEF Theme, MountTheme, SystemChange, ToggleTheme, OtherTabToggles
  <2>2. TickTimed'
    BY <1>2, <2>1 DEF ScreensInv, TickTimed, Ticked
  <2>3. QED
    BY <1>1, <1>2, <1>3, <1>4, <2>1, <2>2 DEF ScreensInv, ScreenOK
<1>7. QED
  BY <1>5, <1>6

\* A step of a page leaves the theme alone.
LEMMA ThemeStays ==
    ASSUME ScreensInv, UNCHANGED themeVars
    PROVE  /\ ThemeFits' /\ saved' = saved /\ theme' = theme /\ prefers' = prefers
           /\ resolved' = resolved /\ root' = root /\ painted' = painted
           /\ ours' = ours
BY DEF ScreensInv, themeVars, ThemeFits, Resolve

LEMMA ScreensInit == ScreenInit => ScreensInv
<1> SUFFICES ASSUME ScreenInit PROVE ScreensInv
  OBVIOUS
<1>1. "/overview" \in Pages /\ ui \in UiType(page)
  BY FreshTyped DEF ScreenInit, Pages
<1>2. ScreenOK
  BY <1>1 DEF ScreenInit, ScreenOK
<1>3. ThemeFits /\ TickTimed
  BY DEF ScreenInit, ThemeFits, TickTimed, Ticked
<1>4. QED
  BY <1>2, <1>3 DEF ScreensInv

LEMMA ScreensNext == ScreensInv /\ [ScreenNext]_screenVars => ScreensInv'
<1> SUFFICES ASSUME ScreensInv, [ScreenNext]_screenVars PROVE ScreensInv'
  OBVIOUS
<1>1. ASSUME UNCHANGED themeVars, page' \in Pages, ui' \in UiType(page'), TickTimed'
      PROVE  ScreensInv'
  BY <1>1, ThemeStays DEF ScreensInv, ScreenOK
<1>2. page \in Pages
  BY DEF ScreensInv, ScreenOK
<1>3. ASSUME NEW p \in Pages, OpenPage(p) PROVE ScreensInv'
  <2>1. page' = p /\ ui' = Fresh(p) /\ UNCHANGED themeVars /\ ui' \in UiType(page')
    BY <1>3, FreshTyped DEF OpenPage
  <2>2. TickTimed'
    BY <2>1 DEF TickTimed, Ticked, Fresh
  <2>3. QED
    BY <1>1, <2>1, <2>2
<1>4. CASE Overview \/ Alerts
  <2>1. UNCHANGED <<page, themeVars>> /\ page \in {"/overview", "/alerts"} /\ ui' \in UiType(page)
    BY <1>4, ListHandlers DEF ScreensInv
  <2>2. TickTimed'
    BY <2>1 DEF TickTimed, Ticked
  <2>3. QED
    BY <1>1, <1>2, <2>1, <2>2
<1>5. CASE KeysPage \/ Settings \/ TickTimer
  BY <1>1, <1>2, <1>5, TickHandlers
<1>6. CASE Budgets \/ Usage \/ Audit \/ Cost \/ Reports
  <2>1. /\ UNCHANGED <<page, themeVars>> /\ page \notin {"/keys", "/settings"}
        /\ ui' \in UiType(page)
    BY <1>6, FilterHandlers
  <2>2. TickTimed'
    BY <2>1 DEF TickTimed, Ticked
  <2>3. QED
    BY <1>1, <1>2, <2>1, <2>2
<1>7. CASE Theme
  BY <1>7, ThemeHandlers
<1>8. CASE UNCHANGED screenVars
  <2>1. UNCHANGED <<page, ui, themeVars>>
    BY <1>8 DEF screenVars
  <2>2. ui' \in UiType(page') /\ TickTimed'
    BY <2>1 DEF ScreensInv, ScreenOK, TickTimed, Ticked
  <2>3. QED
    BY <1>1, <1>2, <2>1, <2>2
<1>9. QED
  BY <1>3, <1>4, <1>5, <1>6, <1>7, <1>8 DEF ScreenNext

LEMMA ScreensInvariance == ScreenSpec => []ScreensInv
<1>1. QED
  BY ScreensInit, ScreensNext, PTL DEF ScreenSpec

\* Every variable has its type, the state of a page that of its page.
THEOREM ScreensTyped == ScreenSpec => []ScreenOK
<1>1. ScreensInv => ScreenOK
  BY DEF ScreensInv
<1>2. QED
  BY <1>1, ScreensInvariance, PTL

\* Once mounted, the document's class is that of the provider's theme, and this
\* the one that is saved, or dark, unless another tab has saved one since,
\* through every order of loads, toggles and changes of the system
\* (ThemeProvider.tsx:31-75).
THEOREM DocumentFits == ScreenSpec => []ThemeFits
<1>1. ScreensInv => ThemeFits
  BY DEF ScreensInv
<1>2. QED
  BY <1>1, ScreensInvariance, PTL

\* A tick always has a timer left that will clear it, for any number of clicks:
\* the safety of TicksEnd (keys/page.tsx:99, settings/page.tsx:27).
THEOREM TicksAreTimed == ScreenSpec => []TickTimed
<1>1. ScreensInv => TickTimed
  BY DEF ScreensInv
<1>2. QED
  BY <1>1, ScreensInvariance, PTL

\* On the page it was done on, no reading and no dismissal is undone, for any
\* list of notices (overview/page.tsx:262-272, alerts/page.tsx:63-68).
THEOREM ReadingsStay == ScreenSpec => NothingUndone
<1> DEFINE A == (page' = page /\ ~PaintFirst /\ page \in {"/overview", "/alerts"})
                   => /\ DOMAIN ui'.read \subseteq DOMAIN ui.read
                      /\ \A n \in DOMAIN ui'.read : ui.read[n] => ui'.read[n]
<1>1. ScreensInv /\ [ScreenNext]_screenVars => [A]_screenVars
  <2> SUFFICES ASSUME ScreensInv, ScreenNext, page' = page, ~PaintFirst,
                      page \in {"/overview", "/alerts"}
               PROVE  /\ DOMAIN ui'.read \subseteq DOMAIN ui.read
                      /\ \A n \in DOMAIN ui'.read : ui.read[n] => ui'.read[n]
    OBVIOUS
  <2>1. CASE \E p \in Pages : OpenPage(p)
    BY <2>1 DEF OpenPage
  <2>2. CASE Overview \/ Alerts
    BY <2>2, ListHandlers DEF ScreensInv
  <2>3. CASE KeysPage \/ Settings \/ TickTimer
    BY <2>3, TickHandlers
  <2>4. CASE Budgets \/ Usage \/ Audit \/ Cost \/ Reports
    BY <2>4, FilterHandlers
  <2>5. CASE Theme
    BY <2>5, ThemeHandlers
  <2>6. QED
    BY <2>1, <2>2, <2>3, <2>4, <2>5 DEF ScreenNext
<1>2. QED
  BY <1>1, ScreensInvariance, PTL DEF ScreenSpec, NothingUndone

===============================================================================
