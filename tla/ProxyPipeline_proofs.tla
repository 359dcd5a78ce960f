------------------------ MODULE ProxyPipeline_proofs ------------------------
(***************************************************************************)
(* Proofs about ProxyPipeline for every set of requests, calls and         *)
(* providers, every policy document and every bound.                       *)
(***************************************************************************)
EXTENDS ProxyPipeline, TLAPS

-----------------------------------------------------------------------------
(***************************************************************************)
(* The inductive invariant: TypeOK, a conjunction of facts about each      *)
(* request that its own handler keeps, and what ties the cache to the      *)
(* requests that filled it.                                                *)
(***************************************************************************)

Permitted(r) == \E hour \in Hours : Allow(Policies, PolicyInput(call[r], hour))

\* An event and a reply are those of what happened to the request.
Agrees(r, e, w) ==
    /\ e \in Events
    /\ e.tokens <= spent[r]
    /\ e.hit \/ e.status = "blocked" => spent[r] = 0
    /\ e.status = "success" /\ ~IsStream(r) => e.tokens = spent[r]
    /\ e.status = "success" => w.code = 200
    /\ e.status = "blocked" => w = Fault(403)
    /\ e.status = "error" => w = Fault(502) \/ (IsStream(r) /\ w = Fault(200))

\* Nothing has happened to a request that has not been received.
Fresh(r) == pc[r] = "new" =>
    written[r] = NoReply /\ delivered[r] = NoReply /\ usage[r] = <<>>

Known(r) == pc[r] \notin {"new", "done", "dead"} => call[r] \in Calls

\* The events of a request that is under way report its decision.
Decided(r) == pc[r] \in {"route", "waiting", "streaming"} => action[r] = "allow"

\* The provider charges for nothing it has not been sent.
Unsent(r) == /\ pc[r] \in {"new", "lookup", "decide", "alert", "route",
                           "waiting"} => spent[r] = 0 /\ counted[r] = 0
             /\ counted[r] <= spent[r]

\* Past the policies, with a client still there, only if they permit it.
Governed(r) == (pc[r] = "route" /\ ~gone[r]) \/ Reached(r) => Permitted(r)

\* Before the handler returns the client has at most the start of a stream.
Unread(r) ==
    /\ pc[r] \notin {"done", "dead", "streaming"} =>
           \/ delivered[r] = NoReply
           \/ /\ pc[r] = "publish" /\ IsStream(r)
              /\ delivered[r] = Fault(200) /\ written[r] = Fault(200)
    /\ pc[r] = "streaming" => IsStream(r) /\ delivered[r] = Fault(200)

Prepared(r) ==
    /\ pc[r] \in {"alert", "store", "publish"} =>
           Agrees(r, event[r], written[r])
    /\ pc[r] = "store" =>
           /\ ~IsStream(r)
           /\ written[r].reply \in ProviderReplies
           /\ written[r].reply.from = call[r]
           /\ written[r].reply.tokens = spent[r]

Told(r) == usage[r] # <<>> =>
    /\ pc[r] = "done"
    /\ \A e \in Published(r) : Agrees(r, e, written[r])

Ended(r) == pc[r] = "done" =>
    \/ delivered[r] \in {NoReply, written[r]}
    \/ delivered[r] = Fault(400) /\ usage[r] = <<>>

\* The provider's reply a handler passes on answers the request's content.
Relayed(r) == written[r].reply # None =>
    /\ written[r].reply \in ProviderReplies
    /\ SameContent(written[r].reply.from, call[r])

RequestInv(r) == /\ Fresh(r)
                 /\ Known(r)
                 /\ Decided(r)
                 /\ Unsent(r)
                 /\ Governed(r)
                 /\ Unread(r)
                 /\ Prepared(r)
                 /\ Told(r)
                 /\ Ended(r)
                 /\ Relayed(r)

\* The request r filled the entry of key k and will not change any more.
Filled(r, k) == /\ call[r] = cache[k].from
                /\ CacheKey(call[r]) = k
                /\ ~IsStream(r)
                /\ spent[r] = cache[k].tokens
                /\ pc[r] \in {"publish", "done", "dead"}

CacheInv == \A k \in DOMAIN cache : \E r \in Requests : Filled(r, k)

IInv == /\ TypeOK
        /\ \A r \in Requests : RequestInv(r)
        /\ CacheInv

-----------------------------------------------------------------------------

\* A reply of the proxy itself.
LEMMA FaultFacts ==
    ASSUME NEW code \in {0, 200, 202, 400, 403, 502}
    PROVE  /\ Fault(code) \in Replies
           /\ Fault(code).code = code
           /\ Fault(code).reply = None
BY DEF Fault, Replies

\* A reply of the provider, passed on.
LEMMA OKFacts ==
    ASSUME NEW reply \in ProviderReplies
    PROVE  OK(reply) \in Replies /\ OK(reply).code = 200 /\ OK(reply).reply = reply
BY DEF OK, Replies

\* The scanner's result is a Boolean.
LEMMA ViolationType == \A c : Violation(c) \in BOOLEAN
BY DEF Violation

\* A step of another request keeps what is known of s.
LEMMA Elsewhere ==
    ASSUME NEW s \in Requests, RequestInv(s),
           call'[s] = call[s], pc'[s] = pc[s], gone'[s] = gone[s],
           action'[s] = action[s],
           written'[s] = written[s], delivered'[s] = delivered[s],
           event'[s] = event[s], spent'[s] = spent[s],
           counted'[s] = counted[s], usage'[s] = usage[s]
    PROVE  RequestInv(s)'
<1>1. Permitted(s) <=> Permitted(s)'
  BY DEF Permitted
<1>2. ASSUME NEW e, NEW w PROVE Agrees(s, e, w) <=> Agrees(s, e, w)'
  BY DEF Agrees, IsStream
<1>3. Published(s)' = Published(s)
  BY DEF Published
<1>4. Fresh(s)' /\ Known(s)' /\ Decided(s)' /\ Unsent(s)' /\ Unread(s)'
                 /\ Ended(s)' /\ Relayed(s)'
  BY DEF RequestInv, Fresh, Known, Decided, Unsent, Unread, Ended, Relayed,
         IsStream
<1>5. Governed(s)'
  BY <1>1 DEF RequestInv, Governed, Reached
<1>6. Prepared(s)'
  BY <1>2 DEF RequestInv, Prepared, IsStream, Agrees
<1>7. Told(s)'
  BY <1>2, <1>3 DEF RequestInv, Told, Agrees, IsStream
<1>8. QED
  BY <1>4, <1>5, <1>6, <1>7 DEF RequestInv

\* The entries of the cache keep the requests that filled them.
LEMMA CacheKept ==
    ASSUME CacheInv, cache' = cache,
           \A s \in Requests : pc[s] \in {"publish", "done", "dead"} =>
               /\ call'[s] = call[s] /\ spent'[s] = spent[s]
               /\ pc'[s] \in {"publish", "done", "dead"}
    PROVE  CacheInv'
BY DEF CacheInv, Filled, IsStream

\* What a step of r leaves alone.
Frame(r) == \A s \in Requests : s # r =>
    /\ call'[s] = call[s] /\ pc'[s] = pc[s] /\ gone'[s] = gone[s]
    /\ action'[s] = action[s]
    /\ written'[s] = written[s] /\ delivered'[s] = delivered[s]
    /\ event'[s] = event[s] /\ spent'[s] = spent[s]
    /\ counted'[s] = counted[s] /\ usage'[s] = usage[s]

\* A step of r that leaves the cache alone, and leaves a request whose reply
\* is settled with its call and its cost.
LEMMA OneRequest ==
    ASSUME IInv, NEW r \in Requests, Frame(r), TypeOK', RequestInv(r)',
           cache' = cache,
           pc[r] \in {"publish", "done", "dead"} =>
               /\ call'[r] = call[r] /\ spent'[r] = spent[r]
               /\ pc'[r] \in {"publish", "done", "dead"}
    PROVE  IInv'
<1>1. \A s \in Requests : RequestInv(s)'
  BY Elsewhere DEF IInv, Frame
<1>2. CacheInv'
  <2>1. ASSUME NEW s \in Requests, pc[s] \in {"publish", "done", "dead"}
        PROVE  /\ call'[s] = call[s] /\ spent'[s] = spent[s]
               /\ pc'[s] \in {"publish", "done", "dead"}
    BY <2>1 DEF Frame
  <2>2. QED
    BY <2>1, CacheKept DEF IInv
<1>3. QED
  BY <1>1, <1>2 DEF IInv


\* A received request is known, and nothing has been charged for it.
LEMMA ReceiveInv ==
    ASSUME IInv, NEW r \in Requests, NEW c \in Calls, Receive(r, c)
    PROVE  IInv'
<1>1. TypeOK'
  BY DEF Receive, Finish, Goto, IInv, TypeOK
<1>2. Frame(r)
  BY DEF Receive, Finish, Goto, IInv, TypeOK, Frame
<1>3. RequestInv(r)'
  <2>1. Fresh(r)' /\ Known(r)' /\ Decided(r)' /\ Unsent(r)' /\ Unread(r)' /\ Ended(r)'
    BY DEF Receive, Finish, Goto, IInv, TypeOK, RequestInv,
           Fresh, Known, Decided, Unsent, Unread, IsStream, Ended
  <2>2. Governed(r)'
    BY DEF Receive, Goto, IInv, TypeOK, RequestInv, Governed, Reached, Unsent
  <2>3. Prepared(r)'
    BY DEF Receive, Finish, Goto, IInv, TypeOK, RequestInv,
           Prepared, Agrees, Unsent, IsStream
  <2>4. Told(r)'
    BY DEF Receive, Finish, Goto, IInv, TypeOK, RequestInv,
           Told, Agrees, IsStream, Published
  <2>5. Relayed(r)'
    BY FaultFacts DEF Receive, Goto, IInv, TypeOK, RequestInv, Relayed, Fresh,
       NoReply
  <2>6. QED
    BY <2>1, <2>2, <2>3, <2>4, <2>5 DEF RequestInv
<1>4. QED
  BY <1>1, <1>2, <1>3, OneRequest DEF Receive, Finish, Goto, IInv, TypeOK


\* A rejected request has no event and no provider's reply.
LEMMA RejectInv ==
    ASSUME IInv, NEW r \in Requests, Reject(r)
    PROVE  IInv'
<1>1. TypeOK'
  BY FaultFacts DEF Reject, Goto, IInv, TypeOK
<1>2. Frame(r)
  BY DEF Reject, Finish, Goto, IInv, TypeOK, Frame
<1>3. RequestInv(r)'
  <2>1. Fresh(r)' /\ Known(r)' /\ Decided(r)' /\ Unsent(r)' /\ Unread(r)' /\ Ended(r)'
    BY DEF Reject, Finish, Goto, IInv, TypeOK, RequestInv,
           Fresh, Known, Decided, Unsent, Unread, IsStream, Ended
  <2>2. Governed(r)'
    BY DEF Reject, Finish, Goto, IInv, TypeOK, RequestInv,
           Governed, Reached, Permitted
  <2>3. Prepared(r)'
    BY DEF Reject, Finish, Goto, IInv, TypeOK, RequestInv,
           Prepared, Agrees, Unsent, IsStream
  <2>4. Told(r)'
    BY DEF Reject, Finish, Goto, IInv, TypeOK, RequestInv,
           Told, Agrees, IsStream, Published
  <2>5. Relayed(r)'
    BY DEF Reject, Finish, Goto, IInv, TypeOK, RequestInv,
           Relayed
  <2>6. QED
    BY <2>1, <2>2, <2>3, <2>4, <2>5 DEF RequestInv
<1>4. QED
  BY <1>1, <1>2, <1>3, OneRequest DEF Reject, Finish, Goto, IInv, TypeOK


\* A hit has the content asked for, because the key has, and costs nothing.
LEMMA CacheHitInv ==
    ASSUME IInv, NEW r \in Requests, CacheHit(r)
    PROVE  IInv'
<1>a. PICK k : k \in DOMAIN cache /\ k = CacheKey(call[r])
  BY DEF CacheHit
<1>b. cache[k] \in ProviderReplies
  BY <1>a DEF IInv, TypeOK
<1>c. written' = [written EXCEPT ![r] = OK(cache[k])]
  BY <1>a DEF CacheHit, Finish
<1>d. OK(cache[k]) \in Replies /\ OK(cache[k]).code = 200 /\ OK(cache[k]).reply = cache[k]
  BY <1>b, OKFacts
<1>x. PICK e : e = Event("success", 0, FALSE, "allow", TRUE)
  OBVIOUS
<1>e. e \in Events /\ e.status = "success" /\ e.tokens = 0
  BY <1>x DEF Event, Events, Statuses
<1>g. /\ event' = [event EXCEPT ![r] = e]
      /\ spent' = spent /\ call' = call /\ spent[r] = 0 /\ pc'[r] = "publish"
  BY <1>x DEF CacheHit, Finish, Goto, IInv, TypeOK, RequestInv, Unsent
<1>f. SameContent(cache[k].from, call[r])
  BY <1>a DEF IInv, CacheInv, Filled, CacheKey, SameContent
<1>i. PICK reply : reply = cache[k]
  OBVIOUS
<1>1. TypeOK'
  BY <1>c, <1>d, <1>e, <1>g DEF CacheHit, Goto, IInv, TypeOK
<1>2. Frame(r)
  BY DEF CacheHit, Finish, Goto, IInv, TypeOK, Frame
<1>3. RequestInv(r)'
  <2>1. Fresh(r)'
    BY DEF CacheHit, Finish, Goto, IInv, TypeOK, RequestInv,
           Fresh
  <2>2. Known(r)'
    BY DEF CacheHit, Finish, Goto, IInv, TypeOK, RequestInv,
           Known, Fresh
  <2>3. Decided(r)'
    BY DEF CacheHit, Finish, Goto, IInv, TypeOK, RequestInv,
           Decided
  <2>4. Unsent(r)'
    BY DEF CacheHit, Finish, Goto, IInv, TypeOK, RequestInv,
           Unsent
  <2>5. Unread(r)'
    BY DEF CacheHit, Finish, Goto, IInv, TypeOK, RequestInv,
           Unread, IsStream
  <2>6. Ended(r)'
    BY DEF CacheHit, Finish, Goto, IInv, TypeOK, RequestInv,
           Ended
  <2>7. Governed(r)'
    BY DEF CacheHit, Finish, Goto, IInv, TypeOK, RequestInv,
           Governed, Reached, Permitted
  <2>8. Prepared(r)'
    <3>1. event'[r] = e /\ written'[r] = OK(reply)
      BY <1>c, <1>d, <1>e, <1>g, <1>i DEF IInv, TypeOK
    <3>2. Agrees(r, e, OK(reply))'
      BY <1>c, <1>d, <1>e, <1>g, <1>i DEF Agrees, IsStream
    <3>3. QED
      BY <3>1, <3>2, <1>c, <1>d, <1>e, <1>g, <1>i DEF Prepared, IsStream
  <2>9. Told(r)'
    BY DEF CacheHit, Finish, Goto, IInv, TypeOK, RequestInv,
           Told, Agrees, IsStream, Published
  <2>10. Relayed(r)'
    BY <1>b, <1>c, <1>d, <1>f DEF CacheHit, Goto, IInv, TypeOK, RequestInv,
       Relayed, SameContent
  <2>11. QED
    BY <2>1, <2>2, <2>3, <2>4, <2>5, <2>6, <2>7, <2>8, <2>9, <2>10 DEF
       RequestInv
<1>4. QED
  BY <1>1, <1>2, <1>3, OneRequest DEF CacheHit, Finish, Goto, IInv, TypeOK


\* A miss changes nothing but where the handler is.
LEMMA CacheMissInv ==
    ASSUME IInv, NEW r \in Requests, CacheMiss(r)
    PROVE  IInv'
<1>1. TypeOK'
  BY DEF CacheMiss, Finish, Goto, IInv, TypeOK
<1>2. Frame(r)
  BY DEF CacheMiss, Finish, Goto, IInv, TypeOK, Frame
<1>3. RequestInv(r)'
  <2>1. Fresh(r)'
    BY DEF CacheMiss, Finish, Goto, IInv, TypeOK, RequestInv,
           Fresh
  <2>2. Known(r)'
    BY DEF CacheMiss, Finish, Goto, IInv, TypeOK, RequestInv,
           Known, Fresh
  <2>3. Decided(r)'
    BY DEF CacheMiss, Finish, Goto, IInv, TypeOK, RequestInv,
           Decided
  <2>4. Unsent(r)'
    BY DEF CacheMiss, Finish, Goto, IInv, TypeOK, RequestInv,
           Unsent
  <2>5. Unread(r)'
    BY DEF CacheMiss, Finish, Goto, IInv, TypeOK, RequestInv,
           Unread, IsStream
  <2>6. Ended(r)'
    BY DEF CacheMiss, Finish, Goto, IInv, TypeOK, RequestInv,
           Ended
  <2>7. Governed(r)'
    BY DEF CacheMiss, Finish, Goto, IInv, TypeOK, RequestInv,
           Governed, Reached, Permitted
  <2>8. Prepared(r)'
    BY DEF CacheMiss, Finish, Goto, IInv, TypeOK, RequestInv,
           Prepared, Agrees, Unsent, IsStream
  <2>9. Told(r)'
    BY DEF CacheMiss, Finish, Goto, IInv, TypeOK, RequestInv,
           Told, Agrees, IsStream, Published
  <2>10. Relayed(r)'
    BY DEF CacheMiss, Finish, Goto, IInv, TypeOK, RequestInv,
           Relayed
  <2>11. QED
    BY <2>1, <2>2, <2>3, <2>4, <2>5, <2>6, <2>7, <2>8, <2>9, <2>10 DEF
       RequestInv
<1>4. QED
  BY <1>1, <1>2, <1>3, OneRequest DEF CacheMiss, Finish, Goto, IInv, TypeOK


\* A denied request has cost nothing and its event says so.
LEMMA DeniedInv ==
    ASSUME IInv, NEW r \in Requests, NEW hour \in Hours, Denied(r, hour)
    PROVE  IInv'
<1>x. PICK e : e = Event("blocked", 0, Violation(call[r]), "block", FALSE)
  OBVIOUS
<1>a. e \in Events /\ e.status = "blocked" /\ e.tokens = 0
  BY <1>x, ViolationType DEF Event, Events, Statuses
<1>g. /\ event' = [event EXCEPT ![r] = e]
      /\ spent' = spent /\ call' = call /\ spent[r] = 0
      /\ pc'[r] \in {"alert", "publish"}
  BY <1>x DEF Denied, Finish, Goto, RequiresApproval, IInv, TypeOK, RequestInv,
              Unsent
<1>b. /\ written' = [written EXCEPT ![r] = Fault(403)]
      /\ action' = [action EXCEPT ![r] = "block"]
  BY DEF Denied, Finish, RequiresApproval
<1>c. Fault(403) \in Replies /\ Fault(403).reply = None
  BY FaultFacts
<1>1. TypeOK'
  BY <1>a, <1>b, <1>c, <1>g DEF Denied, Goto, IInv, TypeOK
<1>2. Frame(r)
  BY DEF Denied, Finish, Goto, IInv, TypeOK, Frame
<1>3. RequestInv(r)'
  <2>1. Fresh(r)'
    BY DEF Denied, Finish, Goto, IInv, TypeOK, RequestInv,
           Fresh
  <2>2. Known(r)'
    BY DEF Denied, Finish, Goto, IInv, TypeOK, RequestInv,
           Known, Fresh
  <2>3. Decided(r)'
    BY DEF Denied, Finish, Goto, IInv, TypeOK, RequestInv,
           Decided
  <2>4. Unsent(r)'
    BY DEF Denied, Finish, Goto, IInv, TypeOK, RequestInv,
           Unsent
  <2>5. Unread(r)'
    BY DEF Denied, Finish, Goto, IInv, TypeOK, RequestInv,
           Unread, IsStream
  <2>6. Ended(r)'
    BY DEF Denied, Finish, Goto, IInv, TypeOK, RequestInv,
           Ended
  <2>7. Governed(r)'
    BY DEF Denied, Finish, Goto, IInv, TypeOK, RequestInv,
           Governed, Reached, Permitted
  <2>8. Prepared(r)'
    <3>1. event'[r] = e /\ written'[r] = Fault(403)
      BY <1>a, <1>b, <1>g DEF IInv, TypeOK
    <3>2. Agrees(r, e, Fault(403))'
      BY <1>a, <1>b, <1>g DEF Agrees, IsStream
    <3>3. QED
      BY <3>1, <3>2, <1>a, <1>b, <1>g DEF Prepared, IsStream
  <2>9. Told(r)'
    BY DEF Denied, Finish, Goto, IInv, TypeOK, RequestInv,
           Told, Agrees, IsStream, Published
  <2>10. Relayed(r)'
    BY <1>b, <1>c DEF Denied, Goto, IInv, TypeOK, RequestInv, Relayed
  <2>11. QED
    BY <2>1, <2>2, <2>3, <2>4, <2>5, <2>6, <2>7, <2>8, <2>9, <2>10 DEF
       RequestInv
<1>4. QED
  BY <1>1, <1>2, <1>3, OneRequest DEF Denied, Finish, Goto, IInv, TypeOK


\* Only a client that has left passes the policies without their consent.
LEMMA AllowedInv ==
    ASSUME IInv, NEW r \in Requests, NEW hour \in Hours, Allowed(r, hour)
    PROVE  IInv'
<1>1. TypeOK'
  BY DEF Allowed, Finish, Goto, IInv, TypeOK
<1>2. Frame(r)
  BY DEF Allowed, Finish, Goto, IInv, TypeOK, Frame
<1>3. RequestInv(r)'
  <2>1. Fresh(r)'
    BY DEF Allowed, Finish, Goto, IInv, TypeOK, RequestInv,
           Fresh
  <2>2. Known(r)'
    BY DEF Allowed, Finish, Goto, IInv, TypeOK, RequestInv,
           Known, Fresh
  <2>3. Decided(r)'
    BY DEF Allowed, Finish, Goto, IInv, TypeOK, RequestInv,
           Decided
  <2>4. Unsent(r)'
    BY DEF Allowed, Finish, Goto, IInv, TypeOK, RequestInv,
           Unsent
  <2>5. Unread(r)'
    BY DEF Allowed, Finish, Goto, IInv, TypeOK, RequestInv,
           Unread, IsStream
  <2>6. Ended(r)'
    BY DEF Allowed, Finish, Goto, IInv, TypeOK, RequestInv,
           Ended
  <2>7. Governed(r)'
    BY DEF Allowed, Finish, Goto, IInv, TypeOK, RequestInv,
           Governed, Reached, Permitted
  <2>8. Prepared(r)'
    BY DEF Allowed, Finish, Goto, IInv, TypeOK, RequestInv,
           Prepared, Agrees, Unsent, IsStream
  <2>9. Told(r)'
    BY DEF Allowed, Finish, Goto, IInv, TypeOK, RequestInv,
           Told, Agrees, IsStream, Published
  <2>10. Relayed(r)'
    BY DEF Allowed, Finish, Goto, IInv, TypeOK, RequestInv,
           Relayed
  <2>11. QED
    BY <2>1, <2>2, <2>3, <2>4, <2>5, <2>6, <2>7, <2>8, <2>9, <2>10 DEF
       RequestInv
<1>4. QED
  BY <1>1, <1>2, <1>3, OneRequest DEF Allowed, Finish, Goto, IInv, TypeOK


\* What is sent has a client still there, so the policies permit it.
LEMMA SendInv ==
    ASSUME IInv, NEW r \in Requests, Send(r)
    PROVE  IInv'
<1>1. TypeOK'
  BY DEF Send, Finish, Goto, IInv, TypeOK
<1>2. Frame(r)
  BY DEF Send, Finish, Goto, IInv, TypeOK, Frame
<1>3. RequestInv(r)'
  <2>1. Fresh(r)' /\ Known(r)' /\ Decided(r)' /\ Unsent(r)' /\ Unread(r)' /\ Ended(r)'
    BY DEF Send, Finish, Goto, IInv, TypeOK, RequestInv,
           Fresh, Known, Decided, Unsent, Unread, IsStream, Ended
  <2>2. Governed(r)'
    BY DEF Send, Finish, Goto, IInv, TypeOK, RequestInv,
           Governed, Reached, Permitted
  <2>3. Prepared(r)'
    BY DEF Send, Finish, Goto, IInv, TypeOK, RequestInv,
           Prepared, Agrees, Unsent, IsStream
  <2>4. Told(r)'
    BY DEF Send, Finish, Goto, IInv, TypeOK, RequestInv,
           Told, Agrees, IsStream, Published
  <2>5. Relayed(r)'
    BY DEF Send, Finish, Goto, IInv, TypeOK, RequestInv,
           Relayed
  <2>6. QED
    BY <2>1, <2>2, <2>3, <2>4, <2>5 DEF RequestInv
<1>4. QED
  BY <1>1, <1>2, <1>3, OneRequest DEF Send, Finish, Goto, IInv, TypeOK


\* A failed call is reported as an error, with no token.
LEMMA RouteFailsInv ==
    ASSUME IInv, NEW r \in Requests, NEW t \in Tokens, RouteFails(r, t)
    PROVE  IInv'
<1>y. t \in Nat /\ spent[r] \in Nat /\ counted[r] \in Nat
  BY MaxTokensAssumption DEF IInv, TypeOK, Tokens
<1>z. action[r] = "allow"
  BY DEF RouteFails, IInv, TypeOK, RequestInv, Decided
<1>x. PICK e : e = Event("error", 0, FALSE, action[r], FALSE)
  OBVIOUS
<1>a. e \in Events /\ e.status = "error" /\ e.tokens = 0 /\ ~e.hit
  BY <1>x, <1>y, <1>z, ViolationType DEF Event, Events, Statuses
<1>g. /\ event' = [event EXCEPT ![r] = e]
      /\ spent'[r] = t /\ call' = call
      /\ pc'[r] \in {"publish", "store"}
  BY <1>x DEF RouteFails, Finish, Goto, IInv, TypeOK
<1>b. /\ written' = [written EXCEPT ![r] = Fault(502)]
      /\ Fault(502) \in Replies /\ Fault(502).reply = None /\ Fault(502).code = 502
  BY FaultFacts DEF RouteFails, Finish
<1>h. pc'[r] = "publish" /\ delivered[r] = NoReply /\ counted[r] = 0
  BY DEF RouteFails, Finish, Goto, IInv, TypeOK, RequestInv, Unread, Known,
     Unsent
<1>1. TypeOK'
  BY <1>a, <1>b, <1>g DEF RouteFails, Goto, IInv, TypeOK
<1>2. Frame(r)
  BY DEF RouteFails, Finish, Goto, IInv, TypeOK, Frame
<1>3. RequestInv(r)'
  <2>1. Fresh(r)'
    BY DEF RouteFails, Finish, Goto, IInv, TypeOK, RequestInv,
           Fresh
  <2>2. Known(r)'
    BY DEF RouteFails, Finish, Goto, IInv, TypeOK, RequestInv,
           Known, Fresh
  <2>3. Decided(r)'
    BY DEF RouteFails, Finish, Goto, IInv, TypeOK, RequestInv,
           Decided
  <2>4. Unsent(r)'
    BY <1>y, <1>g, <1>h DEF RouteFails, IInv, TypeOK, RequestInv, Unsent,
       Tokens
  <2>5. Unread(r)'
    BY <1>b, <1>g, <1>h DEF RouteFails, IInv, TypeOK, RequestInv, Unread,
       IsStream
  <2>6. Ended(r)'
    BY DEF RouteFails, Finish, Goto, IInv, TypeOK, RequestInv,
           Ended
  <2>7. Governed(r)'
    BY DEF RouteFails, Finish, Goto, IInv, TypeOK, RequestInv,
           Governed, Reached, Permitted
  <2>8. Prepared(r)'
    <3>1. event'[r] = e /\ written'[r] = Fault(502)
      BY <1>a, <1>b, <1>g, <1>h, <1>y DEF IInv, TypeOK
    <3>2. Agrees(r, e, Fault(502))'
      BY <1>a, <1>b, <1>g, <1>h, <1>y DEF Agrees, IsStream
    <3>3. QED
      BY <3>1, <3>2, <1>a, <1>b, <1>g, <1>h, <1>y DEF Prepared, IsStream
  <2>9. Told(r)'
    BY DEF RouteFails, Finish, Goto, IInv, TypeOK, RequestInv,
           Told, Agrees, IsStream, Published
  <2>10. Relayed(r)'
    BY <1>b DEF RouteFails, Goto, IInv, TypeOK, RequestInv, Relayed
  <2>11. QED
    BY <2>1, <2>2, <2>3, <2>4, <2>5, <2>6, <2>7, <2>8, <2>9, <2>10 DEF
       RequestInv
<1>4. QED
  BY <1>1, <1>2, <1>3, OneRequest DEF RouteFails, Finish, Goto, IInv, TypeOK


\* A reply is reported with its tokens, and is this request's.
LEMMA AnsweredInv ==
    ASSUME IInv, NEW r \in Requests, NEW ok \in BOOLEAN, NEW t \in Tokens, Answered(r, ok, t)
    PROVE  IInv'
<1>y. t \in Nat /\ spent[r] \in Nat /\ counted[r] \in Nat
  BY MaxTokensAssumption DEF IInv, TypeOK, Tokens
<1>z. action[r] = "allow"
  BY DEF Answered, IInv, TypeOK, RequestInv, Decided
<1>x. PICK e : e = Event("success", t, Violation(call[r]), action[r], FALSE)
  OBVIOUS
<1>a. e \in Events /\ e.status = "success" /\ e.tokens = t /\ ~e.hit
  BY <1>x, <1>y, <1>z, ViolationType DEF Event, Events, Statuses
<1>g. /\ event' = [event EXCEPT ![r] = e]
      /\ spent'[r] = t /\ call' = call
      /\ pc'[r] \in {"publish", "store"}
  BY <1>x DEF Answered, Finish, Goto, IInv, TypeOK
<1>b. PICK reply : reply = [from |-> call[r], ok |-> ok, tokens |-> t]
  OBVIOUS
<1>c. /\ reply \in ProviderReplies
      /\ reply.from = call[r] /\ reply.tokens = t
  BY <1>b DEF Answered, IInv, RequestInv, Known, ProviderReplies
<1>d. /\ written' = [written EXCEPT ![r] = OK(reply)]
      /\ OK(reply) \in Replies /\ OK(reply).code = 200 /\ OK(reply).reply = reply
  BY <1>b, <1>c, OKFacts DEF Answered, Finish
<1>h. ~IsStream(r) /\ counted[r] = 0
  BY DEF Answered, IsStream, IInv, RequestInv, Unsent
<1>1. TypeOK'
  BY <1>a, <1>d, <1>g DEF Answered, Goto, IInv, TypeOK
<1>2. Frame(r)
  BY DEF Answered, Finish, Goto, IInv, TypeOK, Frame
<1>3. RequestInv(r)'
  <2>1. Fresh(r)'
    BY DEF Answered, Finish, Goto, IInv, TypeOK, RequestInv,
           Fresh
  <2>2. Known(r)'
    BY DEF Answered, Finish, Goto, IInv, TypeOK, RequestInv,
           Known, Fresh
  <2>3. Decided(r)'
    BY DEF Answered, Finish, Goto, IInv, TypeOK, RequestInv,
           Decided
  <2>4. Unsent(r)'
    BY <1>y, <1>g, <1>h DEF Answered, IInv, TypeOK, RequestInv, Unsent, Tokens
  <2>5. Unread(r)'
    BY DEF Answered, Finish, Goto, IInv, TypeOK, RequestInv,
           Unread, IsStream
  <2>6. Ended(r)'
    BY DEF Answered, Finish, Goto, IInv, TypeOK, RequestInv,
           Ended
  <2>7. Governed(r)'
    BY DEF Answered, Finish, Goto, IInv, TypeOK, RequestInv,
           Governed, Reached, Permitted
  <2>8. Prepared(r)'
    <3>1. event'[r] = e /\ written'[r] = OK(reply)
      BY <1>a, <1>c, <1>d, <1>g, <1>h, <1>y DEF IInv, TypeOK
    <3>2. Agrees(r, e, OK(reply))'
      BY <1>a, <1>c, <1>d, <1>g, <1>h, <1>y DEF Agrees, IsStream
    <3>3. QED
      BY <3>1, <3>2, <1>a, <1>c, <1>d, <1>g, <1>h, <1>y DEF Prepared, IsStream
  <2>9. Told(r)'
    BY DEF Answered, Finish, Goto, IInv, TypeOK, RequestInv,
           Told, Agrees, IsStream, Published
  <2>10. Relayed(r)'
    BY <1>c, <1>d DEF Answered, Goto, IInv, TypeOK, RequestInv, Relayed,
       SameContent
  <2>11. QED
    BY <2>1, <2>2, <2>3, <2>4, <2>5, <2>6, <2>7, <2>8, <2>9, <2>10 DEF
       RequestInv
<1>4. QED
  BY <1>1, <1>2, <1>3, OneRequest DEF Answered, Finish, Goto, IInv, TypeOK


\* From here on the client has the start of the stream.
LEMMA StreamOpensInv ==
    ASSUME IInv, NEW r \in Requests, StreamOpens(r)
    PROVE  IInv'
<1>1. TypeOK'
  BY FaultFacts DEF StreamOpens, Goto, IInv, TypeOK
<1>2. Frame(r)
  BY DEF StreamOpens, Finish, Goto, IInv, TypeOK, Frame
<1>3. RequestInv(r)'
  <2>1. Fresh(r)'
    BY DEF StreamOpens, Finish, Goto, IInv, TypeOK, RequestInv,
           Fresh
  <2>2. Known(r)'
    BY DEF StreamOpens, Finish, Goto, IInv, TypeOK, RequestInv,
           Known, Fresh
  <2>3. Decided(r)'
    BY DEF StreamOpens, Finish, Goto, IInv, TypeOK, RequestInv,
           Decided
  <2>4. Unsent(r)'
    BY DEF StreamOpens, Finish, Goto, IInv, TypeOK, RequestInv,
           Unsent
  <2>5. Unread(r)'
    BY DEF StreamOpens, Finish, Goto, IInv, TypeOK, RequestInv,
           Unread, IsStream
  <2>6. Ended(r)'
    BY DEF StreamOpens, Finish, Goto, IInv, TypeOK, RequestInv,
           Ended
  <2>7. Governed(r)'
    BY DEF StreamOpens, Finish, Goto, IInv, TypeOK, RequestInv,
           Governed, Reached, Permitted
  <2>8. Prepared(r)'
    BY DEF StreamOpens, Finish, Goto, IInv, TypeOK, RequestInv,
           Prepared, Agrees, Unsent, IsStream
  <2>9. Told(r)'
    BY DEF StreamOpens, Finish, Goto, IInv, TypeOK, RequestInv,
           Told, Agrees, IsStream, Published
  <2>10. Relayed(r)'
    BY DEF StreamOpens, Finish, Goto, IInv, TypeOK, RequestInv,
           Relayed
  <2>11. QED
    BY <2>1, <2>2, <2>3, <2>4, <2>5, <2>6, <2>7, <2>8, <2>9, <2>10 DEF
       RequestInv
<1>4. QED
  BY <1>1, <1>2, <1>3, OneRequest DEF StreamOpens, Finish, Goto, IInv, TypeOK


\* A stream never adds up more than the provider charges.
LEMMA StreamPieceInv ==
    ASSUME IInv, NEW r \in Requests, NEW t \in Tokens, StreamPiece(r, t)
    PROVE  IInv'
<1>y. t \in Nat /\ spent[r] \in Nat /\ counted[r] \in Nat
  BY MaxTokensAssumption DEF IInv, TypeOK, Tokens
<1>1. TypeOK'
  BY <1>y, MaxTokensAssumption DEF StreamPiece, IInv, TypeOK, RequestInv,
     Unsent, Tokens
<1>2. Frame(r)
  BY DEF StreamPiece, Finish, Goto, IInv, TypeOK, Frame
<1>3. RequestInv(r)'
  <2>1. Fresh(r)'
    BY DEF StreamPiece, Finish, Goto, IInv, TypeOK, RequestInv,
           Fresh
  <2>2. Known(r)'
    BY DEF StreamPiece, Finish, Goto, IInv, TypeOK, RequestInv,
           Known, Fresh
  <2>3. Decided(r)'
    BY DEF StreamPiece, Finish, Goto, IInv, TypeOK, RequestInv,
           Decided
  <2>4. Unsent(r)'
    BY <1>y DEF StreamPiece, IInv, TypeOK, RequestInv, Unsent
  <2>5. Unread(r)'
    BY DEF StreamPiece, Finish, Goto, IInv, TypeOK, RequestInv,
           Unread, IsStream
  <2>6. Ended(r)'
    BY DEF StreamPiece, Finish, Goto, IInv, TypeOK, RequestInv,
           Ended
  <2>7. Governed(r)'
    BY DEF StreamPiece, Finish, Goto, IInv, TypeOK, RequestInv,
           Governed, Reached, Permitted
  <2>8. Prepared(r)'
    BY DEF StreamPiece, Finish, Goto, IInv, TypeOK, RequestInv,
           Prepared, Agrees, Unsent, IsStream
  <2>9. Told(r)'
    BY DEF StreamPiece, Finish, Goto, IInv, TypeOK, RequestInv,
           Told, Agrees, IsStream, Published
  <2>10. Relayed(r)'
    BY DEF StreamPiece, Finish, Goto, IInv, TypeOK, RequestInv,
           Relayed
  <2>11. QED
    BY <2>1, <2>2, <2>3, <2>4, <2>5, <2>6, <2>7, <2>8, <2>9, <2>10 DEF
       RequestInv
<1>4. QED
  BY <1>1, <1>2, <1>3, OneRequest DEF StreamPiece, Finish, Goto, IInv, TypeOK


\* A stream is reported with the tokens it has added up.
LEMMA StreamEndsInv ==
    ASSUME IInv, NEW r \in Requests, StreamEnds(r)
    PROVE  IInv'
<1>y. spent[r] \in Nat /\ counted[r] \in Nat
  BY MaxTokensAssumption DEF IInv, TypeOK, Tokens
<1>z. action[r] = "allow"
  BY DEF StreamEnds, IInv, TypeOK, RequestInv, Decided
<1>x. PICK e : e = Event("success", counted[r], Violation(call[r]), action[r], FALSE)
  OBVIOUS
<1>a. e \in Events /\ e.status = "success" /\ e.tokens = counted[r] /\ ~e.hit
  BY <1>x, <1>y, <1>z, ViolationType DEF Event, Events, Statuses
<1>g. /\ event' = [event EXCEPT ![r] = e]
      /\ spent'[r] = spent[r] /\ call' = call
      /\ pc'[r] \in {"publish", "store"}
  BY <1>x DEF StreamEnds, Finish, Goto, IInv, TypeOK
<1>b. /\ written' = [written EXCEPT ![r] = Fault(200)]
      /\ Fault(200) \in Replies /\ Fault(200).reply = None /\ Fault(200).code = 200
  BY FaultFacts DEF StreamEnds, Finish
<1>h. pc'[r] = "publish" /\ IsStream(r) /\ counted[r] <= spent[r] /\ delivered[r] = Fault(200)
  BY DEF StreamEnds, Finish, Goto, IInv, TypeOK, RequestInv, Unread, Known,
     Unsent
<1>1. TypeOK'
  BY <1>a, <1>b, <1>g DEF StreamEnds, Goto, IInv, TypeOK
<1>2. Frame(r)
  BY DEF StreamEnds, Finish, Goto, IInv, TypeOK, Frame
<1>3. RequestInv(r)'
  <2>1. Fresh(r)'
    BY DEF StreamEnds, Finish, Goto, IInv, TypeOK, RequestInv,
           Fresh
  <2>2. Known(r)'
    BY DEF StreamEnds, Finish, Goto, IInv, TypeOK, RequestInv,
           Known, Fresh
  <2>3. Decided(r)'
    BY DEF StreamEnds, Finish, Goto, IInv, TypeOK, RequestInv,
           Decided
  <2>4. Unsent(r)'
    BY <1>y, <1>g, <1>h DEF StreamEnds, IInv, TypeOK, RequestInv, Unsent,
       Tokens
  <2>5. Unread(r)'
    BY <1>b, <1>g, <1>h DEF StreamEnds, IInv, TypeOK, RequestInv, Unread,
       IsStream
  <2>6. Ended(r)'
    BY DEF StreamEnds, Finish, Goto, IInv, TypeOK, RequestInv,
           Ended
  <2>7. Governed(r)'
    BY DEF StreamEnds, Finish, Goto, IInv, TypeOK, RequestInv,
           Governed, Reached, Permitted
  <2>8. Prepared(r)'
    <3>1. event'[r] = e /\ written'[r] = Fault(200)
      BY <1>a, <1>b, <1>g, <1>h, <1>y DEF IInv, TypeOK
    <3>2. Agrees(r, e, Fault(200))'
      BY <1>a, <1>b, <1>g, <1>h, <1>y DEF Agrees, IsStream
    <3>3. QED
      BY <3>1, <3>2, <1>a, <1>b, <1>g, <1>h, <1>y DEF Prepared, IsStream
  <2>9. Told(r)'
    BY DEF StreamEnds, Finish, Goto, IInv, TypeOK, RequestInv,
           Told, Agrees, IsStream, Published
  <2>10. Relayed(r)'
    BY <1>b DEF StreamEnds, Goto, IInv, TypeOK, RequestInv, Relayed
  <2>11. QED
    BY <2>1, <2>2, <2>3, <2>4, <2>5, <2>6, <2>7, <2>8, <2>9, <2>10 DEF
       RequestInv
<1>4. QED
  BY <1>1, <1>2, <1>3, OneRequest DEF StreamEnds, Finish, Goto, IInv, TypeOK


\* A broken stream is reported as an error, with no token.
LEMMA StreamBreaksInv ==
    ASSUME IInv, NEW r \in Requests, StreamBreaks(r)
    PROVE  IInv'
<1>y. spent[r] \in Nat /\ counted[r] \in Nat
  BY MaxTokensAssumption DEF IInv, TypeOK, Tokens
<1>z. action[r] = "allow"
  BY DEF StreamBreaks, IInv, TypeOK, RequestInv, Decided
<1>x. PICK e : e = Event("error", 0, FALSE, action[r], FALSE)
  OBVIOUS
<1>a. e \in Events /\ e.status = "error" /\ e.tokens = 0 /\ ~e.hit
  BY <1>x, <1>y, <1>z, ViolationType DEF Event, Events, Statuses
<1>g. /\ event' = [event EXCEPT ![r] = e]
      /\ spent'[r] = spent[r] /\ call' = call
      /\ pc'[r] \in {"publish", "store"}
  BY <1>x DEF StreamBreaks, Finish, Goto, IInv, TypeOK
<1>b. /\ written' = [written EXCEPT ![r] = Fault(200)]
      /\ Fault(200) \in Replies /\ Fault(200).reply = None /\ Fault(200).code = 200
  BY FaultFacts DEF StreamBreaks, Finish
<1>h. pc'[r] = "publish" /\ IsStream(r) /\ counted[r] <= spent[r] /\ delivered[r] = Fault(200)
  BY DEF StreamBreaks, Finish, Goto, IInv, TypeOK, RequestInv, Unread, Known,
     Unsent
<1>1. TypeOK'
  BY <1>a, <1>b, <1>g DEF StreamBreaks, Goto, IInv, TypeOK
<1>2. Frame(r)
  BY DEF StreamBreaks, Finish, Goto, IInv, TypeOK, Frame
<1>3. RequestInv(r)'
  <2>1. Fresh(r)'
    BY DEF StreamBreaks, Finish, Goto, IInv, TypeOK, RequestInv,
           Fresh
  <2>2. Known(r)'
    BY DEF StreamBreaks, Finish, Goto, IInv, TypeOK, RequestInv,
           Known, Fresh
  <2>3. Decided(r)'
    BY DEF StreamBreaks, Finish, Goto, IInv, TypeOK, RequestInv,
           Decided
  <2>4. Unsent(r)'
    BY <1>y, <1>g, <1>h DEF StreamBreaks, IInv, TypeOK, RequestInv, Unsent,
       Tokens
  <2>5. Unread(r)'
    BY <1>b, <1>g, <1>h DEF StreamBreaks, IInv, TypeOK, RequestInv, Unread,
       IsStream
  <2>6. Ended(r)'
    BY DEF StreamBreaks, Finish, Goto, IInv, TypeOK, RequestInv,
           Ended
  <2>7. Governed(r)'
    BY DEF StreamBreaks, Finish, Goto, IInv, TypeOK, RequestInv,
           Governed, Reached, Permitted
  <2>8. Prepared(r)'
    <3>1. event'[r] = e /\ written'[r] = Fault(200)
      BY <1>a, <1>b, <1>g, <1>h, <1>y DEF IInv, TypeOK
    <3>2. Agrees(r, e, Fault(200))'
      BY <1>a, <1>b, <1>g, <1>h, <1>y DEF Agrees, IsStream
    <3>3. QED
      BY <3>1, <3>2, <1>a, <1>b, <1>g, <1>h, <1>y DEF Prepared, IsStream
  <2>9. Told(r)'
    BY DEF StreamBreaks, Finish, Goto, IInv, TypeOK, RequestInv,
           Told, Agrees, IsStream, Published
  <2>10. Relayed(r)'
    BY <1>b DEF StreamBreaks, Goto, IInv, TypeOK, RequestInv, Relayed
  <2>11. QED
    BY <2>1, <2>2, <2>3, <2>4, <2>5, <2>6, <2>7, <2>8, <2>9, <2>10 DEF
       RequestInv
<1>4. QED
  BY <1>1, <1>2, <1>3, OneRequest DEF StreamBreaks, Finish, Goto, IInv, TypeOK


\* A handler that panics publishes nothing.
LEMMA PanicInv ==
    ASSUME IInv, NEW r \in Requests, Panic(r)
    PROVE  IInv'
<1>1. TypeOK'
  BY DEF Panic, Finish, Goto, IInv, TypeOK
<1>2. Frame(r)
  BY DEF Panic, Finish, Goto, IInv, TypeOK, Frame
<1>3. RequestInv(r)'
  <2>1. Fresh(r)' /\ Known(r)' /\ Decided(r)' /\ Unsent(r)' /\ Unread(r)' /\ Ended(r)'
    BY DEF Panic, Finish, Goto, IInv, TypeOK, RequestInv,
           Fresh, Known, Decided, Unsent, Unread, IsStream, Ended
  <2>2. Governed(r)'
    BY DEF Panic, Finish, Goto, IInv, TypeOK, RequestInv,
           Governed, Reached, Permitted
  <2>3. Prepared(r)'
    BY DEF Panic, Finish, Goto, IInv, TypeOK, RequestInv,
           Prepared, Agrees, Unsent, IsStream
  <2>4. Told(r)'
    BY DEF Panic, Finish, Goto, IInv, TypeOK, RequestInv,
           Told, Agrees, IsStream, Published
  <2>5. Relayed(r)'
    BY DEF Panic, Finish, Goto, IInv, TypeOK, RequestInv,
           Relayed
  <2>6. QED
    BY <2>1, <2>2, <2>3, <2>4, <2>5 DEF RequestInv
<1>4. QED
  BY <1>1, <1>2, <1>3, OneRequest DEF Panic, Finish, Goto, IInv, TypeOK


\* The alert leaves the prepared event as it is.
LEMMA PublishAlertInv ==
    ASSUME IInv, NEW r \in Requests, NEW n \in Copies(r), PublishAlert(r, n)
    PROVE  IInv'
<1>1. TypeOK'
  BY DEF PublishAlert, Copies, Goto, IInv, TypeOK
<1>2. Frame(r)
  BY DEF PublishAlert, Finish, Goto, IInv, TypeOK, Frame
<1>3. RequestInv(r)'
  <2>1. Fresh(r)'
    BY DEF PublishAlert, Finish, Goto, IInv, TypeOK, RequestInv,
           Fresh
  <2>2. Known(r)'
    BY DEF PublishAlert, Finish, Goto, IInv, TypeOK, RequestInv,
           Known, Fresh
  <2>3. Decided(r)'
    BY DEF PublishAlert, Finish, Goto, IInv, TypeOK, RequestInv,
           Decided
  <2>4. Unsent(r)'
    BY DEF PublishAlert, Finish, Goto, IInv, TypeOK, RequestInv,
           Unsent
  <2>5. Unread(r)'
    BY DEF PublishAlert, Finish, Goto, IInv, TypeOK, RequestInv,
           Unread, IsStream
  <2>6. Ended(r)'
    BY DEF PublishAlert, Finish, Goto, IInv, TypeOK, RequestInv,
           Ended
  <2>7. Governed(r)'
    BY DEF PublishAlert, Finish, Goto, IInv, TypeOK, RequestInv,
           Governed, Reached, Permitted
  <2>8. Prepared(r)'
    BY DEF PublishAlert, Finish, Goto, IInv, TypeOK, RequestInv,
           Prepared, Agrees, Unsent, IsStream
  <2>9. Told(r)'
    BY DEF PublishAlert, Finish, Goto, IInv, TypeOK, RequestInv,
           Told, Agrees, IsStream, Published
  <2>10. Relayed(r)'
    BY DEF PublishAlert, Finish, Goto, IInv, TypeOK, RequestInv,
           Relayed
  <2>11. QED
    BY <2>1, <2>2, <2>3, <2>4, <2>5, <2>6, <2>7, <2>8, <2>9, <2>10 DEF
       RequestInv
<1>4. QED
  BY <1>1, <1>2, <1>3, OneRequest DEF PublishAlert, Finish, Goto, IInv, TypeOK


\* What is published, once or twice, is what was prepared.
LEMMA PublishUsageInv ==
    ASSUME IInv, NEW r \in Requests, NEW n \in Copies(r), PublishUsage(r, n)
    PROVE  IInv'
<1>a. event[r] \in Events /\ Agrees(r, event[r], written[r])
  BY DEF PublishUsage, IInv, RequestInv, Prepared, Agrees
<1>b. DEFINE u == [i \in 1..n |-> event[r]]
<1>c. n \in Nat
  BY DEF Copies
<1>d. u \in Seq(Events) /\ \A i \in DOMAIN u : u[i] = event[r]
  BY <1>a, <1>c
<1>e. usage' = [usage EXCEPT ![r] = u]
  BY DEF PublishUsage
<1> HIDE DEF u
<1>f. /\ delivered'[r] = IF gone[r] THEN delivered[r] ELSE written[r]
      /\ written' = written /\ pc'[r] = "done"
  BY DEF PublishUsage, Goto, IInv, TypeOK
<1>g. delivered[r] \in {NoReply, written[r]}
  BY DEF PublishUsage, IInv, RequestInv, Unread
<1>1. TypeOK'
  BY <1>d, <1>e DEF PublishUsage, Goto, IInv, TypeOK
<1>2. Frame(r)
  BY DEF PublishUsage, Finish, Goto, IInv, TypeOK, Frame
<1>3. RequestInv(r)'
  <2>1. Fresh(r)'
    BY DEF PublishUsage, Finish, Goto, IInv, TypeOK, RequestInv,
           Fresh
  <2>2. Known(r)'
    BY DEF PublishUsage, Finish, Goto, IInv, TypeOK, RequestInv,
           Known, Fresh
  <2>3. Decided(r)'
    BY DEF PublishUsage, Finish, Goto, IInv, TypeOK, RequestInv,
           Decided
  <2>4. Unsent(r)'
    BY DEF PublishUsage, Finish, Goto, IInv, TypeOK, RequestInv,
           Unsent
  <2>5. Unread(r)'
    BY DEF PublishUsage, Finish, Goto, IInv, TypeOK, RequestInv,
           Unread, IsStream
  <2>6. Ended(r)'
    BY <1>f, <1>g DEF Ended
  <2>7. Governed(r)'
    BY DEF PublishUsage, Finish, Goto, IInv, TypeOK, RequestInv,
           Governed, Reached, Permitted
  <2>8. Prepared(r)'
    BY DEF PublishUsage, Finish, Goto, IInv, TypeOK, RequestInv,
           Prepared, Agrees, Unsent, IsStream
  <2>9. Told(r)'
    <3>1. \A e \in Published(r)' : e = event[r]
      BY <1>d, <1>e DEF Published, IInv, TypeOK
    <3>2. Agrees(r, event[r], written[r])'
      BY <1>a DEF PublishUsage, Agrees, IsStream
    <3>3. event'[r] = event[r] /\ pc'[r] = "done"
      BY DEF PublishUsage, Goto, IInv, TypeOK
    <3>4. QED
      BY <3>1, <3>2, <3>3 DEF Told
  <2>10. Relayed(r)'
    BY DEF PublishUsage, Finish, Goto, IInv, TypeOK, RequestInv,
           Relayed
  <2>11. QED
    BY <2>1, <2>2, <2>3, <2>4, <2>5, <2>6, <2>7, <2>8, <2>9, <2>10 DEF
       RequestInv
<1>4. QED
  BY <1>1, <1>2, <1>3, OneRequest DEF PublishUsage, Finish, Goto, IInv, TypeOK


\* A process that dies leaves what is outside it.
LEMMA DieInv ==
    ASSUME IInv, NEW r \in Requests, Die(r)
    PROVE  IInv'
<1>1. TypeOK'
  BY DEF Die, Finish, Goto, IInv, TypeOK
<1>2. Frame(r)
  BY DEF Die, Finish, Goto, IInv, TypeOK, Frame
<1>3. RequestInv(r)'
  <2>1. Fresh(r)' /\ Known(r)' /\ Decided(r)' /\ Unsent(r)' /\ Unread(r)' /\ Ended(r)'
    BY DEF Die, Finish, Goto, IInv, TypeOK, RequestInv,
           Fresh, Known, Decided, Unsent, Unread, IsStream, Ended
  <2>2. Governed(r)'
    BY DEF Die, Finish, Goto, IInv, TypeOK, RequestInv,
           Governed, Reached, Permitted
  <2>3. Prepared(r)'
    BY DEF Die, Finish, Goto, IInv, TypeOK, RequestInv,
           Prepared, Agrees, Unsent, IsStream
  <2>4. Told(r)'
    BY DEF Die, Busy, Goto, IInv, TypeOK, RequestInv, Told, Published
  <2>5. Relayed(r)'
    BY DEF Die, Finish, Goto, IInv, TypeOK, RequestInv,
           Relayed
  <2>6. QED
    BY <2>1, <2>2, <2>3, <2>4, <2>5 DEF RequestInv
<1>4. QED
  BY <1>1, <1>2, <1>3, OneRequest DEF Die, Finish, Goto, IInv, TypeOK


\* A client that leaves changes nothing it has already been given.
LEMMA ClientLeavesInv ==
    ASSUME IInv, NEW r \in Requests, ClientLeaves(r)
    PROVE  IInv'
<1>1. TypeOK'
  BY DEF ClientLeaves, Finish, Goto, IInv, TypeOK
<1>2. Frame(r)
  BY DEF ClientLeaves, Finish, Goto, IInv, TypeOK, Frame
<1>3. RequestInv(r)'
  <2>1. Fresh(r)' /\ Known(r)' /\ Decided(r)' /\ Unsent(r)' /\ Unread(r)' /\ Ended(r)'
    BY DEF ClientLeaves, Finish, Goto, IInv, TypeOK, RequestInv,
           Fresh, Known, Decided, Unsent, Unread, IsStream, Ended
  <2>2. Governed(r)'
    BY DEF ClientLeaves, Finish, Goto, IInv, TypeOK, RequestInv,
           Governed, Reached, Permitted
  <2>3. Prepared(r)'
    BY DEF ClientLeaves, Finish, Goto, IInv, TypeOK, RequestInv,
           Prepared, Agrees, Unsent, IsStream
  <2>4. Told(r)'
    BY DEF ClientLeaves, Finish, Goto, IInv, TypeOK, RequestInv,
           Told, Agrees, IsStream, Published
  <2>5. Relayed(r)'
    BY DEF ClientLeaves, Finish, Goto, IInv, TypeOK, RequestInv,
           Relayed
  <2>6. QED
    BY <2>1, <2>2, <2>3, <2>4, <2>5 DEF RequestInv
<1>4. QED
  BY <1>1, <1>2, <1>3, OneRequest DEF ClientLeaves, Finish, Goto, IInv, TypeOK


\* The new entry is the reply of this request, whose handler is past it.
LEMMA StoreInv ==
    ASSUME IInv, NEW r \in Requests, Store(r)
    PROVE  IInv'
<1>1. PICK key, reply : key = CacheKey(call[r]) /\ reply = written[r].reply
  OBVIOUS
<1>2. /\ call[r] \in Calls /\ reply \in ProviderReplies /\ ~IsStream(r)
      /\ reply.from = call[r] /\ reply.tokens = spent[r]
  BY <1>1 DEF Store, IInv, RequestInv, Known, Prepared
<1>3. \/ cache' = cache
      \/ cache' = [k \in DOMAIN cache \cup {key} |->
                     IF k = key THEN reply ELSE cache[k]]
  BY <1>1 DEF Store
<1>4. TypeOK'
  <2>1. /\ DOMAIN cache' \subseteq {CacheKey(c) : c \in Calls}
        /\ \A k \in DOMAIN cache' : cache'[k] \in ProviderReplies
    BY <1>1, <1>2, <1>3 DEF IInv, TypeOK
  <2>2. QED
    BY <2>1 DEF Store, Goto, IInv, TypeOK
<1>5. Frame(r)
  BY DEF Store, Goto, IInv, TypeOK, Frame
<1>6. RequestInv(r)'
  <2>1. Fresh(r)' /\ Known(r)' /\ Decided(r)' /\ Unsent(r)'
    BY DEF Store, Goto, IInv, TypeOK, RequestInv, Fresh, Known, Decided, Unsent
  <2>2. Unread(r)' /\ Ended(r)'
    <3>1. delivered[r] = NoReply /\ delivered' = delivered /\ pc'[r] = "publish"
      BY DEF Store, Goto, IInv, TypeOK, RequestInv, Unread
    <3>2. QED
      BY <3>1 DEF Unread, Ended
  <2>3. Governed(r)'
    BY DEF Store, Goto, IInv, TypeOK, RequestInv, Governed, Reached, Permitted
  <2>4. Prepared(r)'
    BY DEF Store, Goto, IInv, TypeOK, RequestInv, Prepared, Agrees, IsStream
  <2>5. Told(r)'
    BY DEF Store, Goto, IInv, TypeOK, RequestInv, Told
  <2>6. Relayed(r)'
    BY DEF Store, Goto, IInv, TypeOK, RequestInv, Relayed
  <2>7. QED
    BY <2>1, <2>2, <2>3, <2>4, <2>5, <2>6 DEF RequestInv
<1>7. \A s \in Requests : RequestInv(s)'
  BY <1>5, <1>6, Elsewhere DEF IInv, Frame
<1>8. call' = call /\ spent' = spent /\ pc' = [pc EXCEPT ![r] = "publish"]
  BY DEF Store, Goto
<1>9. CacheInv'
  <2> SUFFICES ASSUME NEW k \in DOMAIN cache'
               PROVE  \E s \in Requests : Filled(s, k)'
    BY DEF CacheInv
  <2>1. CASE k \in DOMAIN cache /\ cache'[k] = cache[k]
    <3>1. PICK s \in Requests : Filled(s, k)
      BY <2>1 DEF IInv, CacheInv
    <3>2. Filled(s, k)'
      BY <2>1, <3>1, <1>8 DEF Filled, IsStream, Store, IInv, TypeOK
    <3>3. QED
      BY <3>2
  <2>2. CASE k = key /\ cache'[k] = reply
    <3>1. Filled(r, k)'
      BY <2>2, <1>1, <1>2, <1>8 DEF Filled, IsStream, IInv, TypeOK
    <3>2. QED
      BY <3>1
  <2>3. QED
    BY <1>3, <2>1, <2>2
<1>10. QED
  BY <1>4, <1>7, <1>9 DEF IInv

\* An entry that goes takes nothing with it.
LEMMA ExpireInv ==
    ASSUME IInv, NEW key, Expire(key)
    PROVE  IInv'
<1>1. TypeOK'
  BY DEF Expire, IInv, TypeOK
<1>2. \A s \in Requests : RequestInv(s)'
  BY Elsewhere DEF Expire, IInv
<1>3. CacheInv'
  BY DEF Expire, IInv, CacheInv, Filled, IsStream
<1>4. QED
  BY <1>1, <1>2, <1>3 DEF IInv

\* A step of nothing.
LEMMA StutterInv ==
    ASSUME IInv, UNCHANGED vars
    PROVE  IInv'
<1>1. TypeOK'
  BY DEF vars, IInv, TypeOK
<1>2. \A s \in Requests : RequestInv(s)'
  BY Elsewhere DEF vars, IInv
<1>3. CacheInv'
  BY DEF vars, IInv, CacheInv, Filled, IsStream
<1>4. QED
  BY <1>1, <1>2, <1>3 DEF IInv

\* Nothing has been received and the cache is empty.
LEMMA InitInv == Init => IInv
<1> SUFFICES ASSUME Init PROVE IInv
  OBVIOUS
<1>1. TypeOK
  BY FaultFacts, MaxTokensAssumption DEF Init, TypeOK, NoReply, Tokens, None
<1>2. ASSUME NEW r \in Requests PROVE RequestInv(r)
  <2>1. Fresh(r) /\ Known(r) /\ Decided(r) /\ Unsent(r) /\ Unread(r) /\ Ended(r)
    BY DEF Init, Fresh, Known, Decided, Unsent, Unread, Ended
  <2>2. Governed(r) /\ Prepared(r) /\ Told(r)
    BY DEF Init, Governed, Reached, Prepared, Told
  <2>3. Relayed(r)
    BY FaultFacts DEF Init, Relayed, NoReply
  <2>4. QED
    BY <2>1, <2>2, <2>3 DEF RequestInv
<1>3. CacheInv
  BY DEF Init, CacheInv, None
<1>4. QED
  BY <1>1, <1>2, <1>3 DEF IInv

\* Every step keeps the inductive invariant.
LEMMA NextInv == IInv /\ [Next]_vars => IInv'
<1> SUFFICES ASSUME IInv, [Next]_vars PROVE IInv'
  OBVIOUS
<1>1. ASSUME NEW r \in Requests, Handle(r) PROVE IInv'
  <2>1. CASE CacheHit(r) \/ CacheMiss(r) \/ Send(r) \/ Store(r) \/ Panic(r)
    BY <2>1, CacheHitInv, CacheMissInv, SendInv, StoreInv, PanicInv
  <2>2. CASE \E hour \in Hours : Denied(r, hour) \/ Allowed(r, hour)
    BY <2>2, DeniedInv, AllowedInv
  <2>3. CASE \E n \in Copies(r) : PublishAlert(r, n) \/ PublishUsage(r, n)
    BY <2>3, PublishAlertInv, PublishUsageInv
  <2>4. QED
    BY <1>1, <2>1, <2>2, <2>3 DEF Handle
<1>2. ASSUME NEW r \in Requests, Provider(r) PROVE IInv'
  BY <1>2, RouteFailsInv, AnsweredInv, StreamOpensInv, StreamEndsInv,
     StreamBreaksInv DEF Provider
<1>3. QED
  BY <1>1, <1>2, ReceiveInv, RejectInv, StreamPieceInv, DieInv,
     ClientLeavesInv, ExpireInv, StutterInv DEF Next

-----------------------------------------------------------------------------
(***************************************************************************)
(* The theorems.                                                           *)
(***************************************************************************)

\* The inductive invariant holds in every state the proxy can reach.
THEOREM Invariance == Spec => []IInv
BY InitInv, NextInv, PTL DEF Spec

\* Every variable of the proxy has its type, for every set of requests.
THEOREM TypeCorrect == Spec => []TypeOK
<1>1. IInv => TypeOK
  BY DEF IInv
<1>2. QED
  BY <1>1, Invariance, PTL

\* No request the policies deny reaches a provider, whatever the document,
\* and although an evaluation that is cancelled lets its request through.
THEOREM PoliciesHold == Spec => []PolicyHeld
<1>1. IInv => PolicyHeld
  BY DEF IInv, RequestInv, Governed, PolicyHeld, Permitted
<1>2. QED
  BY <1>1, Invariance, PTL

\* No event reports a token the provider has not charged for, and a reply read
\* whole is reported in full.
THEOREM BillingFaithful == Spec => []BilledAsServed
<1>1. IInv => BilledAsServed
  BY DEF IInv, RequestInv, Told, Agrees, BilledAsServed, Published
<1>2. QED
  BY <1>1, Invariance, PTL

\* The cache holds what the provider answered to a request with that content.
THEOREM CacheFaithful == Spec => []CacheTruth
<1>1. IInv => CacheTruth
  BY DEF IInv, CacheInv, Filled, CacheTruth, CacheKey, SameContent
<1>2. QED
  BY <1>1, Invariance, PTL

\* What the client reads agrees with what is published.
THEOREM RepliesAgree == Spec => []ReplyMatchesEvent
<1>1. ASSUME IInv, NEW r \in Requests, pc[r] = "done", delivered[r] # NoReply
      PROVE  /\ \A e \in Published(r) :
                  /\ e.status = "success" => delivered[r].code = 200
                  /\ e.status = "blocked" => delivered[r] = Fault(403)
                  /\ e.status = "error" =>
                        \/ delivered[r] = Fault(502)
                        \/ IsStream(r) /\ delivered[r] = Fault(200)
             /\ delivered[r].reply # None =>
                  SameContent(delivered[r].reply.from, call[r])
  <2>1. CASE delivered[r] = written[r]
    BY <1>1, <2>1 DEF IInv, RequestInv, Told, Agrees, Relayed, Published
  <2>2. CASE delivered[r] = Fault(400) /\ usage[r] = <<>>
    BY <2>2, FaultFacts DEF Published
  <2>3. QED
    BY <1>1, <2>1, <2>2 DEF IInv, RequestInv, Ended
<1>2. IInv => ReplyMatchesEvent
  BY <1>1 DEF ReplyMatchesEvent
<1>3. QED
  BY <1>2, Invariance, PTL

\* The policies as the proxy loads them, with no document, allow everything.
THEOREM EmptyDataAllowsAll == \A input : Allow(EmptyData, input)
BY DEF Allow, EmptyData, None, Has, ModelAllowed, WithinBudget, HardBudget,
       DlpBlocked, WithinRateLimit, TimeRestricted

-----------------------------------------------------------------------------
(***************************************************************************)
(* For every document and every request the rules' reasons are none for an *)
(* allowed request and, but for the two cases without a rule, some for a   *)
(* denied one (authz.rego:6-15, 94-113); and the client is told none of    *)
(* them, for extractReasons looks for strings among values that are true   *)
(* (evaluator.go:135-154).                                                 *)
(***************************************************************************)
THEOREM DenialsUnexplained ==
    ASSUME NEW data, NEW input
    PROVE  ReasonsStayInTheRules(data, input)
<1> DEFINE object == DenyReasons(data, input)
           Reasons == DOMAIN object
<1>1. ASSUME Allow(data, input) PROVE Reasons = {}
  <2>1. /\ ModelAllowed(data, input) /\ WithinBudget(data, input)
        /\ ~DlpBlocked(data, input) /\ WithinRateLimit(data, input)
    BY <1>1 DEF Allow
  <2>2. QED
    BY <2>1 DEF DenyReasons
<1>2. ASSUME ~Allow(data, input), ~TimeRestricted(data, input),
             HasBudget(data, input) \/ ~HardBudget(data, input.team)
      PROVE  Reasons # {}
  <2>1. CASE ~ModelAllowed(data, input)
    <3>1. "model" \in Reasons
      BY <2>1 DEF DenyReasons
    <3>2. QED
      BY <3>1
  <2>2. CASE ~WithinBudget(data, input)
    <3>1. HasBudget(data, input)
      BY <1>2, <2>2 DEF WithinBudget
    <3>2. "budget" \in Reasons
      BY <2>2, <3>1 DEF DenyReasons
    <3>3. QED
      BY <3>2
  <2>3. CASE DlpBlocked(data, input)
    <3>1. "dlp" \in Reasons
      BY <2>3 DEF DenyReasons
    <3>2. QED
      BY <3>1
  <2>4. CASE ~WithinRateLimit(data, input)
    <3>1. "rate" \in Reasons
      BY <2>4 DEF DenyReasons
    <3>2. QED
      BY <3>1
  <2>5. QED
    BY <1>2, <2>1, <2>2, <2>3, <2>4 DEF Allow
<1>3. ExtractReasons(object) = {}
  <2>1. \A k \in DOMAIN object : object[k].type = "boolean"
    BY DEF DenyReasons, True
  <2>2. QED
    BY <2>1 DEF ExtractReasons
<1>4. QED
  BY <1>1, <1>2, <1>3 DEF ReasonsStayInTheRules
=============================================================================
