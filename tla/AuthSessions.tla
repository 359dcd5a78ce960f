------------------------------ MODULE AuthSessions -----------------------------
(***************************************************************************)
(* The auth service: registration, login, the rotation of a refresh        *)
(* session and logout (services/auth-service/src/index.ts,                 *)
(* session/refresh.ts, providers/email.ts).                                *)
(*                                                                         *)
(* A handler awaits PostgreSQL and Redis between its steps, and two        *)
(* replicas share both: any two requests interleave at each await.  A      *)
(* request may be given up at any of them (an error, a dead process), and  *)
(* an answer may not reach its client, who then still holds the cookie it  *)
(* sent.                                                                   *)
(*                                                                         *)
(* Abstracted: a registered user is named by the slug of the organization  *)
(* it was registered with, a session by the number of its creation, and a  *)
(* cookie "sessionId.token" by its session, for a client only presents     *)
(* cookies it was given: the mismatch of rotateRefreshSession              *)
(* (refresh.ts:41-45) has no such cookie.                                  *)
(***************************************************************************)
EXTENDS Naturals

CONSTANTS
    Requests,      \* HTTP requests
    Slugs,         \* slugs of organizations
    Emails,
    Passwords,
    NoUser,        \* no user
    MaxSessions    \* bound on the sessions created

ASSUME NoUserAssumption == NoUser \notin Slugs
ASSUME MaxSessionsAssumption == MaxSessions \in Nat

VARIABLES
    users,      \* the registered users: slug -> [email, password]
    inactive,   \* users whose is_active is FALSE
    redis,      \* the refresh: keys of Redis: session -> user
    created,    \* how many sessions were ever created
    expired,    \* sessions whose token is older than 30 days
    pc,         \* where the handler of a request is
    cookie,     \* the session a request presents; 0: none
    user,       \* the user a request is about
    made,       \* the session a request has created; 0: none
    held,       \* sessions whose cookie reached a client
    access,     \* the user a request was answered an access token for
    parent,     \* history: the session exchanged for a session; 0: a login
    barred,     \* history: the inactive users when a request began
    dropped,    \* history: sessions deleted by a handler
    raced,      \* history: sessions read while another request that had read
                \*   them had not deleted them yet
    closed      \* history: sessions logged out while no request was using them

dbVars == <<users, inactive>>
storeVars == <<redis, created, expired, parent, dropped>>
requestVars == <<pc, cookie, user, made, access, barred>>
vars == <<dbVars, storeVars, requestVars, held, raced, closed>>

Nothing == [x \in {} |-> x]

Sessions == 1..MaxSessions

Awaiting == {"touch", "get", "delete", "create", "check", "reply", "revoke"}

Init == /\ users = Nothing
        /\ inactive = {}
        /\ redis = Nothing
        /\ created = 0
        /\ expired = {}
        /\ pc = [r \in Requests |-> "new"]
        /\ cookie = [r \in Requests |-> 0]
        /\ user = [r \in Requests |-> NoUser]
        /\ made = [r \in Requests |-> 0]
        /\ held = {}
        /\ access = [r \in Requests |-> NoUser]
        /\ parent = [s \in Sessions |-> 0]
        /\ barred = [r \in Requests |-> {}]
        /\ dropped = {}
        /\ raced = {}
        /\ closed = {}

Goto(r, label) == pc' = [pc EXCEPT ![r] = label]

Begin(r, label) == /\ pc[r] = "new"
                   /\ Goto(r, label)
                   /\ barred' = [barred EXCEPT ![r] = inactive]

-----------------------------------------------------------------------------
(***************************************************************************)
(* POST /auth/register and /auth/login.                                    *)
(***************************************************************************)

\* registerUser: organization, user and credentials in one transaction.
\* The slug is unique; an e-mail only within its organization.
Register(r, slug, email, password) ==
    /\ Begin(r, "create")
    /\ slug \notin DOMAIN users
    /\ users' = [u \in DOMAIN users \cup {slug} |->
                   IF u = slug THEN [email |-> email, password |-> password]
                               ELSE users[u]]
    /\ user' = [user EXCEPT ![r] = slug]
    /\ UNCHANGED <<inactive, storeVars, cookie, made, access, held, raced,
                   closed>>

\* The rows of the lookup of validateCredentials.
Found(email) == {u \in DOMAIN users \ inactive : users[u].email = email}

(* Mutation of Login: the null of validateCredentials is not looked at.    *)
LoginUnchecked(r, email, password) ==
    /\ Begin(r, "touch")
    /\ UNCHANGED <<dbVars, storeVars, cookie, user, made, access, held, raced,
                   closed>>

\* The first row, in no order, and its password hash.
Login(r, email, password) ==
    /\ Begin(r, "touch")
    /\ \E u \in Found(email) : /\ users[u].password = password
                               /\ user' = [user EXCEPT ![r] = u]
    /\ UNCHANGED <<dbVars, storeVars, cookie, made, access, held, raced,
                   closed>>

\* Invalid input, a slug that is taken (409), no user of that e-mail, or
\* another password than the first row's (401).
Refuse(r) == /\ Begin(r, "done")
             /\ UNCHANGED <<dbVars, storeVars, cookie, user, made, access,
                            held, raced, closed>>

\* UPDATE users SET last_login_at.
Touch(r) == /\ pc[r] = "touch"
            /\ Goto(r, "create")
            /\ UNCHANGED <<dbVars, storeVars, cookie, user, made, access,
                           barred, held, raced, closed>>

-----------------------------------------------------------------------------
(***************************************************************************)
(* POST /auth/refresh.                                                     *)
(***************************************************************************)

\* verifyRefreshToken.  A cookie that is refused changes nothing.
Refresh(r, s) ==
    /\ Begin(r, IF s \in expired THEN "done" ELSE "get")
    /\ cookie' = [cookie EXCEPT ![r] = s]
    /\ UNCHANGED <<dbVars, storeVars, user, made, access, held, raced,
                   closed>>

\* Other requests that have read the session and will delete it.
Exchanging(s) == {r \in Requests : cookie[r] = s /\ pc[r] = "delete"}

Get(r) ==
    /\ pc[r] = "get"
    /\ cookie[r] \in DOMAIN redis
    /\ user' = [user EXCEPT ![r] = redis[cookie[r]]]
    /\ raced' = IF Exchanging(cookie[r]) = {} THEN raced
                ELSE raced \cup {cookie[r]}
    /\ Goto(r, "delete")
    /\ UNCHANGED <<dbVars, storeVars, cookie, made, access, barred, held,
                   closed>>

\* "refresh session not found or expired": 401.
GetNothing(r) ==
    /\ pc[r] = "get"
    /\ cookie[r] \notin DOMAIN redis
    /\ Goto(r, "done")
    /\ UNCHANGED <<dbVars, storeVars, cookie, user, made, access, barred,
                   held, raced, closed>>

\* redis.del
Drop(s) == /\ redis' = [t \in DOMAIN redis \ {s} |-> redis[t]]
           /\ dropped' = dropped \cup {s}
           /\ UNCHANGED <<created, expired, parent>>

(* Mutation of Delete: the old session is left in Redis.                   *)
DeleteForgotten(r) ==
    /\ pc[r] = "delete"
    /\ Goto(r, "create")
    /\ UNCHANGED <<dbVars, storeVars, cookie, user, made, access, barred,
                   held, raced, closed>>

Delete(r) ==
    /\ pc[r] = "delete"
    /\ Drop(cookie[r])
    /\ Goto(r, "create")
    /\ UNCHANGED <<dbVars, cookie, user, made, access, barred, held, raced,
                   closed>>

(* Mutation of Create: a rotation keeps the session's identifier.          *)
CreateSameId(r) ==
    /\ pc[r] = "create"
    /\ created < MaxSessions
    /\ LET s == IF cookie[r] = 0 THEN created + 1 ELSE cookie[r]
       IN  /\ created' = IF s > created THEN s ELSE created
           /\ redis' = [t \in DOMAIN redis \cup {s} |->
                          IF t = s THEN user[r] ELSE redis[t]]
           /\ made' = [made EXCEPT ![r] = s]
    /\ Goto(r, IF cookie[r] = 0 THEN "reply" ELSE "check")
    /\ UNCHANGED <<dbVars, expired, parent, dropped, cookie, user, access,
                   barred, held, raced, closed>>

\* createRefreshSession: a fresh identifier, for 30 days.
Create(r) ==
    /\ pc[r] = "create"
    /\ created < MaxSessions
    /\ LET s == created + 1
       IN  /\ created' = s
           /\ redis' = [t \in DOMAIN redis \cup {s} |->
                          IF t = s THEN user[r] ELSE redis[t]]
           /\ parent' = [parent EXCEPT ![s] = cookie[r]]
           /\ made' = [made EXCEPT ![r] = s]
    /\ Goto(r, IF cookie[r] = 0 THEN "reply" ELSE "check")
    /\ UNCHANGED <<dbVars, expired, dropped, cookie, user, access, barred,
                   held, raced, closed>>

(* Mutation of Check: the query without is_active.                         *)
CheckAnyone(r) ==
    /\ pc[r] = "check"
    /\ Goto(r, "reply")
    /\ UNCHANGED <<dbVars, storeVars, cookie, user, made, access, barred,
                   held, raced, closed>>

\* The user is looked up after the rotation: one that was deactivated has
\* lost the old session and is not told of the new one.
Check(r) ==
    /\ pc[r] = "check"
    /\ Goto(r, IF user[r] \in inactive THEN "done" ELSE "reply")
    /\ UNCHANGED <<dbVars, storeVars, cookie, user, made, access, barred,
                   held, raced, closed>>

\* The access token and the new cookie; the client may be gone.
Reply(r, arrives) ==
    /\ pc[r] = "reply"
    /\ access' = [access EXCEPT ![r] = user[r]]
    /\ held' = IF arrives THEN held \cup {made[r]} ELSE held
    /\ Goto(r, "done")
    /\ UNCHANGED <<dbVars, storeVars, cookie, user, made, barred, raced,
                   closed>>

-----------------------------------------------------------------------------
(***************************************************************************)
(* POST /auth/logout, and what ends a request early.                       *)
(***************************************************************************)

Logout(r, s) ==
    /\ Begin(r, "revoke")
    /\ cookie' = [cookie EXCEPT ![r] = s]
    /\ UNCHANGED <<dbVars, storeVars, user, made, access, held, raced,
                   closed>>

\* A request has read session s, or has made another one of it.
Used(s) == \/ \E r \in Requests : /\ cookie[r] = s
                                  /\ pc[r] \in {"delete", "create"}
           \/ \E t \in Sessions : parent[t] = s

(* Mutation of Revoke: the key without its prefix.                         *)
RevokeNoKey(r) ==
    /\ pc[r] = "revoke"
    /\ closed' = IF Used(cookie[r]) THEN closed ELSE closed \cup {cookie[r]}
    /\ Goto(r, "done")
    /\ UNCHANGED <<dbVars, storeVars, cookie, user, made, access, barred,
                   held, raced>>

Revoke(r) ==
    /\ pc[r] = "revoke"
    /\ Drop(cookie[r])
    /\ closed' = IF Used(cookie[r]) THEN closed ELSE closed \cup {cookie[r]}
    /\ Goto(r, "done")
    /\ UNCHANGED <<dbVars, cookie, user, made, access, barred, held, raced>>

\* A statement or command fails, or the process dies: the client gets an
\* error, or nothing.
Abort(r) == /\ pc[r] \in Awaiting
            /\ Goto(r, "done")
            /\ UNCHANGED <<dbVars, storeVars, cookie, user, made, access,
                           barred, held, raced, closed>>

\* The same after Redis has deleted the key.
AbortAfterDrop(r) == /\ pc[r] \in {"delete", "revoke"}
                     /\ Drop(cookie[r])
                     /\ Goto(r, "done")
                     /\ UNCHANGED <<dbVars, cookie, user, made, access,
                                    barred, held, raced, closed>>

-----------------------------------------------------------------------------

\* An administrator deactivates a user in the database.
Deactivate(u) == /\ u \notin inactive
                 /\ inactive' = inactive \cup {u}
                 /\ UNCHANGED <<users, storeVars, requestVars, held, raced,
                                closed>>

\* A token's 30 days are over, and up to a second later its key's.
Expire(s) == /\ s \notin expired
             /\ expired' = expired \cup {s}
             /\ UNCHANGED <<dbVars, redis, created, parent, dropped,
                            requestVars, held, raced, closed>>

Evict(s) == /\ s \in expired
            /\ s \in DOMAIN redis
            /\ redis' = [t \in DOMAIN redis \ {s} |-> redis[t]]
            /\ UNCHANGED <<dbVars, created, expired, parent, dropped,
                           requestVars, held, raced, closed>>

-----------------------------------------------------------------------------

\* What a client may send.
Arrive(r) ==
    \/ \E email \in Emails, password \in Passwords :
          \/ Login(r, email, password)
          \/ \E slug \in Slugs : Register(r, slug, email, password)
    \/ \E s \in held : Refresh(r, s) \/ Logout(r, s)
    \/ Refuse(r)

Handle(r) == \/ Touch(r)
             \/ Get(r)
             \/ GetNothing(r)
             \/ Delete(r)
             \/ Create(r)
             \/ Check(r)
             \/ \E arrives \in BOOLEAN : Reply(r, arrives)
             \/ Revoke(r)

Next == \/ \E r \in Requests : \/ Arrive(r)
                               \/ Handle(r)
                               \/ Abort(r)
                               \/ AbortAfterDrop(r)
        \/ \E u \in DOMAIN users : Deactivate(u)
        \/ \E s \in 1..created : Expire(s) \/ Evict(s)

Spec == Init /\ [][Next]_vars

-----------------------------------------------------------------------------

TypeOK == /\ DOMAIN users \subseteq Slugs
          /\ \A u \in DOMAIN users :
                users[u] \in [email : Emails, password : Passwords]
          /\ inactive \subseteq DOMAIN users
          /\ created \in 0..MaxSessions
          /\ DOMAIN redis \subseteq 1..created
          /\ \A s \in DOMAIN redis : redis[s] \in DOMAIN users
          /\ expired \subseteq 1..created
          /\ pc \in [Requests -> Awaiting \cup {"new", "done"}]
          /\ cookie \in [Requests -> 0..created]
          /\ user \in [Requests -> DOMAIN users \cup {NoUser}]
          /\ made \in [Requests -> 0..created]
          /\ held \subseteq 1..created
          /\ access \in [Requests -> DOMAIN users \cup {NoUser}]
          /\ parent \in [Sessions -> 0..created]
          /\ barred \in [Requests -> SUBSET DOMAIN users]
          /\ dropped \subseteq 1..created
          /\ raced \subseteq 1..created
          /\ closed \subseteq 1..created

\* A session that a rotation or a logout has deleted never works again,
\* whatever the other requests that present its cookie do.
\* (refresh.ts:36, 48, 60)
DroppedForGood == dropped \cap DOMAIN redis = {}

\* A cookie is exchanged for two sessions only by requests that were in the
\* middle of the exchange together: GET and DEL are two commands.
\* (refresh.ts:36-51)
OneSuccessor ==
    \A t, u \in Sessions :
        t # u /\ parent[t] = parent[u] /\ parent[t] # 0 => parent[t] \in raced

\* Once a session that no request was exchanging is logged out, no session
\* is ever made of it.  (refresh.ts:55-61, index.ts:145-151)
LogoutFinal == \A s \in closed : \A t \in Sessions : parent[t] # s

\* No access token for a user who was deactivated before the request was
\* made, neither by a login nor by the rotation of an older session.
\* (email.ts:101, index.ts:118-122)
InactiveLockedOut ==
    \A r \in Requests : access[r] # NoUser => access[r] \notin barred[r]
=============================================================================
