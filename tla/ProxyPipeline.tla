--------------------------- MODULE ProxyPipeline ---------------------------
(***************************************************************************)
(* The AI proxy (services/proxy): each request runs                        *)
(* interceptor.Handler.ServeHTTP in a goroutine of its own, in one of any  *)
(* number of proxy processes.  The handlers share the semantic cache in    *)
(* Redis and the topics of Kafka, and call the provider.                   *)
(*                                                                         *)
(* One action per step of a handler that reads or writes something others  *)
(* share, or waits for something outside the process: the cache lookup,    *)
(* the policy decision, the call of the provider, each piece of a stream,  *)
(* the cache store and each event published.  What net/http buffers is     *)
(* written but not yet delivered: a reply that is not a stream reaches the *)
(* client when the handler returns, and not at all when it panics.         *)
(*                                                                         *)
(* Abstracted: a prompt is sensitive or not (what the scanner's patterns   *)
(* match), prompt and completion tokens are one number, and estimates,     *)
(* costs in headers and latencies are left out.                            *)
(***************************************************************************)
EXTENDS Authz, Naturals, Sequences

CONSTANTS
    Requests,       \* requests, each with the id extractMeta gives it
    Calls,          \* what a client may send: see CallOK
    Registered,     \* the providers with a key in the environment
    StreamCounters, \* those whose Stream adds up the tokens it forwards
    Policies,       \* the document the policies are evaluated with
    Kafka,          \* how NewPublisher ended, "ready", "dev" or "failed",
                    \* in the replica of the proxy that serves a request
    CacheOn,        \* Redis answered the ping of main
    MayDie,         \* whether a proxy process may be killed
    MaxTokens       \* bound on the tokens of one reply

ASSUME KafkaAssumption == Kafka \in [Requests -> {"ready", "dev", "failed"}]
ASSUME CacheOnAssumption == CacheOn \in BOOLEAN
ASSUME MaxTokensAssumption == MaxTokens \in Nat

\* body.text is what extractPromptText finds: a body in another format than
\* messages or prompt has its text elsewhere, and model is "" when the body
\* has none (Google and Azure name the model in the path).
ASSUME CallOK ==
    Calls \subseteq
        [org : STRING, team : STRING, user : STRING,
         provider : STRING, path : STRING,
         body : [model : STRING, stream : BOOLEAN,
                 found : BOOLEAN, sensitive : BOOLEAN]]

VARIABLES
    call,       \* the request's call, once it has been received
    pc,         \* where its handler is
    gone,       \* the client has closed the connection
    action,     \* decision.Action
    written,    \* the reply given to the ResponseWriter
    delivered,  \* the reply the client has read
    event,      \* the usage event the handler is about to publish
    spent,      \* tokens the provider has charged for the request
    counted,    \* tokens a Stream has added up
    cache,      \* the semantic cache: a reply for each key present
    usage,      \* the events of each request in the topic usage-events
    alerts      \* the pii_detected alerts of each request

vars == <<call, pc, gone, action, written, delivered, event, spent, counted,
          cache, usage, alerts>>

-----------------------------------------------------------------------------

Tokens == 0..MaxTokens

\* A reply of a provider: what it answers, with which status.
ProviderReplies == [from : Calls, ok : BOOLEAN, tokens : Tokens]

\* What is written to a client: a status, and the provider's reply if that
\* is what it carries.
Replies == [code : {0, 200, 202, 400, 403, 502},
            reply : ProviderReplies \cup {None}]
Fault(code) == [code |-> code, reply |-> None]
OK(reply) == [code |-> 200, reply |-> reply]
NoReply == Fault(0)

NoEvent == [status |-> "none"]
Statuses == {"success", "queued", "blocked", "error"}
Events == [status : Statuses, tokens : Nat, dlp : BOOLEAN,
           decision : {"allow", "block", "require_approval"}, hit : BOOLEAN]

Event(status, tokens, dlp, decision, hit) ==
    [status |-> status, tokens |-> tokens, dlp |-> dlp,
     decision |-> decision, hit |-> hit]

(* Mutation of CacheKey: the body is left out.                             *)
CacheKeyOfModel(c) == <<c.provider, c.body.model>>

\* buildKey: the path of the request is no part of the key.
CacheKey(c) == <<c.provider, c.body.model, c.body>>

\* Scan(extractPromptText(body)).HasViolation
Violation(c) == c.body.found /\ c.body.sensitive

PolicyInput(c, hour) ==
    [org |-> c.org, team |-> c.team, user |-> c.user,
     model |-> c.body.model, cost |-> 0, violation |-> Violation(c),
     hour |-> hour]

Hours == {3, 12}

\* The module has no rule requires_approval.
RequiresApproval == FALSE

Busy(r) == pc[r] \notin {"new", "done", "dead"}

-----------------------------------------------------------------------------

Init == /\ call = [r \in Requests |-> None]
        /\ pc = [r \in Requests |-> "new"]
        /\ gone = [r \in Requests |-> FALSE]
        /\ action = [r \in Requests |-> "none"]
        /\ written = [r \in Requests |-> NoReply]
        /\ delivered = [r \in Requests |-> NoReply]
        /\ event = [r \in Requests |-> NoEvent]
        /\ spent = [r \in Requests |-> 0]
        /\ counted = [r \in Requests |-> 0]
        /\ cache = None
        /\ usage = [r \in Requests |-> <<>>]
        /\ alerts = [r \in Requests |-> 0]

Goto(r, label) == pc' = [pc EXCEPT ![r] = label]

Finish(r, reply, e) == /\ written' = [written EXCEPT ![r] = reply]
                       /\ event' = [event EXCEPT ![r] = e]

\* extractMeta, the body, its model and its stream flag.
Receive(r, c) ==
    /\ pc[r] = "new"
    /\ call' = [call EXCEPT ![r] = c]
    /\ Goto(r, IF CacheOn /\ ~c.body.stream THEN "lookup" ELSE "decide")
    /\ UNCHANGED <<gone, action, written, delivered, event, spent, counted,
                   cache, usage, alerts>>

\* No provider in the path, or a body that cannot be read.
Reject(r) ==
    /\ pc[r] = "new"
    /\ delivered' = [delivered EXCEPT ![r] = Fault(400)]
    /\ Goto(r, "done")
    /\ UNCHANGED <<call, gone, action, written, event, spent, counted, cache,
                   usage, alerts>>

(* Mutation of CacheHit: the hit is billed like the reply it repeats.      *)
CacheHitBilled(r) ==
    /\ pc[r] = "lookup"
    /\ CacheKey(call[r]) \in DOMAIN cache
    /\ Finish(r, OK(cache[CacheKey(call[r])]),
                 Event("success", cache[CacheKey(call[r])].tokens, FALSE,
                       "allow", TRUE))
    /\ Goto(r, "publish")
    /\ UNCHANGED <<call, gone, action, delivered, spent, counted, cache,
                   usage, alerts>>

CacheHit(r) ==
    /\ pc[r] = "lookup"
    /\ CacheKey(call[r]) \in DOMAIN cache
    /\ Finish(r, OK(cache[CacheKey(call[r])]),
                 Event("success", 0, FALSE, "allow", TRUE))
    /\ Goto(r, "publish")
    /\ UNCHANGED <<call, gone, action, delivered, spent, counted, cache,
                   usage, alerts>>

\* No entry, or any error of Redis: Get reports a miss for both.
CacheMiss(r) ==
    /\ pc[r] = "lookup"
    /\ Goto(r, "decide")
    /\ UNCHANGED <<call, gone, action, written, delivered, event, spent,
                   counted, cache, usage, alerts>>

\* The scan, the evaluation, and what follows a denial up to its event.
Denied(r, hour) ==
    /\ pc[r] = "decide"
    /\ ~Allow(Policies, PolicyInput(call[r], hour))
    /\ LET decision == IF RequiresApproval THEN "require_approval" ELSE "block"
       IN  /\ action' = [action EXCEPT ![r] = decision]
           /\ Goto(r, IF Violation(call[r]) \/ RequiresApproval
                      THEN "alert" ELSE "publish")
           /\ Finish(r, Fault(IF RequiresApproval THEN 202 ELSE 403),
                 Event(IF RequiresApproval THEN "queued" ELSE "blocked", 0,
                       Violation(call[r]), decision, FALSE))
    /\ UNCHANGED <<call, gone, delivered, spent, counted, cache, usage, alerts>>

Allowed(r, hour) ==
    /\ pc[r] = "decide"
    /\ \/ Allow(Policies, PolicyInput(call[r], hour))
       \/ gone[r]           \* the evaluation is cancelled: fail open
    /\ action' = [action EXCEPT ![r] = "allow"]
    /\ Goto(r, "route")
    /\ UNCHANGED <<call, gone, written, delivered, event, spent, counted,
                   cache, usage, alerts>>

-----------------------------------------------------------------------------
(***************************************************************************)
(* The provider.  Router.Route finds it by the name in the path, and its   *)
(* Forward or Stream sends the request and reads the reply.  The status of *)
(* the reply is never looked at.                                           *)
(***************************************************************************)

(* Mutation of Send: the request goes out without its context.             *)
SendDetached(r) ==
    /\ pc[r] = "route"
    /\ call[r].provider \in Registered
    /\ Goto(r, "waiting")
    /\ UNCHANGED <<call, gone, action, written, delivered, event, spent,
                   counted, cache, usage, alerts>>

\* Do returns at once when the context of the request is done.
Send(r) ==
    /\ pc[r] = "route"
    /\ call[r].provider \in Registered
    /\ ~gone[r]
    /\ Goto(r, "waiting")
    /\ UNCHANGED <<call, gone, action, written, delivered, event, spent,
                   counted, cache, usage, alerts>>

(* Mutation of RouteFails: an unknown provider is not answered.            *)
RouteFailsAfterSend(r, t) ==
    /\ pc[r] = "waiting"
    /\ spent' = [spent EXCEPT ![r] = t]
    /\ Finish(r, Fault(502), Event("error", 0, FALSE, action[r], FALSE))
    /\ Goto(r, "publish")
    /\ UNCHANGED <<call, gone, action, delivered, counted, cache, usage, alerts>>

(* Mutation of RouteFails: the failure is reported as a success.           *)
RouteFailsSilently(r, t) ==
    /\ pc[r] \in {"route", "waiting"}
    /\ pc[r] = "route" => t = 0
    /\ spent' = [spent EXCEPT ![r] = t]
    /\ Finish(r, Fault(502), Event("success", t, FALSE, action[r], FALSE))
    /\ Goto(r, "publish")
    /\ UNCHANGED <<call, gone, action, delivered, counted, cache, usage, alerts>>

\* An unknown provider, no connection, or a reply that is lost: the provider
\* may have charged for it, the event reports no token.
RouteFails(r, t) ==
    /\ pc[r] \in {"route", "waiting"}
    /\ pc[r] = "route" => t = 0
    /\ spent' = [spent EXCEPT ![r] = t]
    /\ Finish(r, Fault(502), Event("error", 0, FALSE, action[r], FALSE))
    /\ Goto(r, "publish")
    /\ UNCHANGED <<call, gone, action, delivered, counted, cache, usage, alerts>>

\* A reply to Forward: an error reply has no usage to parse.
Answered(r, ok, t) ==
    /\ pc[r] = "waiting"
    /\ ~call[r].body.stream
    /\ ok \/ t = 0
    /\ spent' = [spent EXCEPT ![r] = t]
    /\ Finish(r, OK([from |-> call[r], ok |-> ok, tokens |-> t]),
                 Event("success", t, Violation(call[r]), action[r], FALSE))
    /\ Goto(r, IF CacheOn THEN "store" ELSE "publish")
    /\ UNCHANGED <<call, gone, action, delivered, counted, cache, usage, alerts>>

\* cache.Set, whose error is ignored.
Store(r) ==
    /\ pc[r] = "store"
    /\ LET key == CacheKey(call[r])
       IN  cache' \in {cache, [k \in DOMAIN cache \cup {key} |->
                                 IF k = key THEN written[r].reply
                                            ELSE cache[k]]}
    /\ Goto(r, "publish")
    /\ UNCHANGED <<call, gone, action, written, delivered, event, spent,
                   counted, usage, alerts>>

\* Stream has written the headers, and flushes what follows.
StreamOpens(r) ==
    /\ pc[r] = "waiting"
    /\ call[r].body.stream
    /\ delivered' = [delivered EXCEPT ![r] = Fault(200)]
    /\ Goto(r, "streaming")
    /\ UNCHANGED <<call, gone, action, written, event, spent, counted, cache,
                   usage, alerts>>

\* A piece with tokens: charged by the provider, added up by Stream.
StreamPiece(r, t) ==
    /\ pc[r] = "streaming"
    /\ t > 0
    /\ spent[r] + t <= MaxTokens
    /\ spent' = [spent EXCEPT ![r] = @ + t]
    /\ counted' = [counted EXCEPT ![r] =
                     IF call[r].provider \in StreamCounters THEN @ + t ELSE @]
    /\ UNCHANGED <<call, pc, gone, action, written, delivered, event, cache,
                   usage, alerts>>

StreamEnds(r) ==
    /\ pc[r] = "streaming"
    /\ Finish(r, Fault(200), Event("success", counted[r], Violation(call[r]),
                                   action[r], FALSE))
    /\ Goto(r, "publish")
    /\ UNCHANGED <<call, gone, action, delivered, spent, counted, cache,
                   usage, alerts>>

\* The client has left, the connection has failed or a line is too long for
\* the scanner: Stream returns the tokens with the error, Route drops them.
\* The status written first stays.
StreamBreaks(r) ==
    /\ pc[r] = "streaming"
    /\ Finish(r, Fault(200), Event("error", 0, FALSE, action[r], FALSE))
    /\ Goto(r, "publish")
    /\ UNCHANGED <<call, gone, action, delivered, spent, counted, cache,
                   usage, alerts>>

-----------------------------------------------------------------------------

\* SendMessage waits for the broker and tries again: the event may be there
\* once, twice or not at all, whatever it returns.  A publisher without
\* brokers logs.
Copies(r) == IF Kafka[r] = "ready" THEN 0..2 ELSE {0}

\* A nil *Publisher: the first field access panics, net/http closes the
\* connection and what is buffered is lost.
Panic(r) ==
    /\ pc[r] \in {"alert", "publish"}
    /\ Kafka[r] = "failed"
    /\ Goto(r, "dead")
    /\ UNCHANGED <<call, gone, action, written, delivered, event, spent,
                   counted, cache, usage, alerts>>

PublishAlert(r, n) ==
    /\ pc[r] = "alert"
    /\ Kafka[r] # "failed"
    /\ alerts' = [alerts EXCEPT ![r] = n]
    /\ Goto(r, "publish")
    /\ UNCHANGED <<call, gone, action, written, delivered, event, spent,
                   counted, cache, usage>>

\* The event, and the return of the handler.
PublishUsage(r, n) ==
    /\ pc[r] = "publish"
    /\ Kafka[r] # "failed"
    /\ usage' = [usage EXCEPT ![r] = [i \in 1..n |-> event[r]]]
    /\ delivered' = [delivered EXCEPT ![r] =
                       IF gone[r] THEN @ ELSE written[r]]
    /\ Goto(r, "done")
    /\ UNCHANGED <<call, gone, action, written, event, spent, counted, cache,
                   alerts>>

\* The process is killed, or is still busy 30 seconds after SIGTERM.  The
\* other requests of the same process die in steps of their own.
Die(r) ==
    /\ MayDie
    /\ Busy(r)
    /\ Goto(r, "dead")
    /\ UNCHANGED <<call, gone, action, written, delivered, event, spent,
                   counted, cache, usage, alerts>>

ClientLeaves(r) ==
    /\ Busy(r)
    /\ ~gone[r]
    /\ gone' = [gone EXCEPT ![r] = TRUE]
    /\ UNCHANGED <<call, pc, action, written, delivered, event, spent,
                   counted, cache, usage, alerts>>

\* An hour after its store.
Expire(key) ==
    /\ key \in DOMAIN cache
    /\ cache' = [k \in DOMAIN cache \ {key} |-> cache[k]]
    /\ UNCHANGED <<call, pc, gone, action, written, delivered, event, spent,
                   counted, usage, alerts>>

-----------------------------------------------------------------------------

\* The steps the handler of a request takes by itself.
Handle(r) == \/ CacheHit(r)
             \/ CacheMiss(r)
             \/ \E hour \in Hours : Denied(r, hour) \/ Allowed(r, hour)
             \/ Send(r)
             \/ Store(r)
             \/ Panic(r)
             \/ \E n \in Copies(r) : PublishAlert(r, n) \/ PublishUsage(r, n)

\* What the provider's side of the connection decides.
Provider(r) == \/ \E t \in Tokens : RouteFails(r, t)
               \/ \E ok \in BOOLEAN, t \in Tokens : Answered(r, ok, t)
               \/ StreamOpens(r)
               \/ StreamEnds(r)
               \/ StreamBreaks(r)

Next == \/ \E r \in Requests : \/ \E c \in Calls : Receive(r, c)
                               \/ Reject(r)
                               \/ Handle(r)
                               \/ Provider(r)
                               \/ \E t \in Tokens : StreamPiece(r, t)
                               \/ Die(r)
                               \/ ClientLeaves(r)
        \/ \E c \in Calls : Expire(CacheKey(c))

Spec == Init /\ [][Next]_vars

\* The handler's goroutine goes on, and every call of a provider ends: the
\* http.Client has no timeout, so that is the provider's part.
FairSpec == Spec /\ \A r \in Requests : WF_vars(Handle(r) \/ Provider(r))

-----------------------------------------------------------------------------

TypeOK == /\ call \in [Requests -> Calls \cup {None}]
          /\ pc \in [Requests -> {"new", "lookup", "decide", "alert", "route",
                                 "waiting", "store", "streaming", "publish",
                                 "done", "dead"}]
          /\ gone \in [Requests -> BOOLEAN]
          /\ action \in [Requests -> {"none", "allow", "block",
                                     "require_approval"}]
          /\ written \in [Requests -> Replies]
          /\ delivered \in [Requests -> Replies]
          /\ event \in [Requests -> Events \cup {NoEvent}]
          /\ spent \in [Requests -> Tokens]
          /\ counted \in [Requests -> Tokens]
          /\ DOMAIN cache \subseteq {CacheKey(c) : c \in Calls}
          /\ \A k \in DOMAIN cache : cache[k] \in ProviderReplies
          /\ usage \in [Requests -> Seq(Events)]
          /\ alerts \in [Requests -> 0..2]

Published(r) == {usage[r][i] : i \in DOMAIN usage[r]}

IsStream(r) == call[r].body.stream

\* What is billed downstream is what the provider charged for: an event never
\* carries more tokens, a request served from the cache or blocked carries
\* none and has cost none, and a reply read whole is billed in full.
\* (request.go:100, 136, 155, 175)
BilledAsServed ==
    \A r \in Requests : \A e \in Published(r) :
        /\ e.tokens <= spent[r]
        /\ e.hit \/ e.status = "blocked" => spent[r] = 0
        /\ e.status = "success" /\ ~IsStream(r) => e.tokens = spent[r]

SameContent(c, d) == c.provider = d.provider /\ c.body = d.body

\* An entry of the cache is a reply the provider gave, in one piece, to a
\* request that was really made and charged for, and whoever finds it has
\* asked that provider with the same body.
\* (request.go:94, 170, semantic_cache.go:82)
CacheTruth ==
    \A k \in DOMAIN cache :
        \E r \in Requests : /\ call[r] = cache[k].from
                            /\ ~IsStream(r)
                            /\ spent[r] = cache[k].tokens
                            /\ \A c \in Calls : CacheKey(c) = k =>
                                  SameContent(c, call[r])

\* What the client has read and what the consumers of the event are told
\* agree, and a reply the client takes for the provider's is one the
\* provider gave to this body.  (request.go:95-176)
ReplyMatchesEvent ==
    \A r \in Requests : pc[r] = "done" /\ delivered[r] # NoReply =>
        /\ \A e \in Published(r) :
              /\ e.status = "success" => delivered[r].code = 200
              /\ e.status = "blocked" => delivered[r] = Fault(403)
              /\ e.status = "error" =>
                    \/ delivered[r] = Fault(502)
                    \/ IsStream(r) /\ delivered[r] = Fault(200)
        /\ delivered[r].reply # None =>
              SameContent(delivered[r].reply.from, call[r])

\* The provider has been sent the request.
Reached(r) == pc[r] \in {"waiting", "store", "streaming"} \/ spent[r] > 0

\* A request the policies deny at every hour never reaches a provider, not
\* even when the evaluation fails open.  (evaluator.go:102-106,
\* request.go:119-138)
PolicyHeld ==
    \A r \in Requests : Reached(r) =>
        \E hour \in Hours : Allow(Policies, PolicyInput(call[r], hour))

\* Every request comes to an end.  (request.go:71-177)
EveryRequestEnds == \A r \in Requests : Busy(r) ~> ~Busy(r)

-----------------------------------------------------------------------------
(***************************************************************************)
(* What the documents say of the proxy and the code does not do.           *)
(***************************************************************************)

\* README.md:4: the proxy "blocks data leaks".
NoLeakForwarded ==
    \A r \in Requests : Reached(r) => ~call[r].body.sensitive

\* cmd/proxy/main.go:58: without Kafka "usage events will be dropped", and
\* nothing else.
ServedWithoutKafka == \A r \in Requests : pc[r] # "dead"

\* anthropic.go:84: "track token consumption during streaming".
PartialStreamCounted ==
    \A r \in Requests : \A e \in Published(r) :
        IsStream(r) /\ delivered[r].code = 200 => e.tokens = counted[r]

\* publisher.go:83: publishing is "Non-blocking": no client waits for it.
ReplyNotHeld ==
    \A r \in Requests :
        pc[r] = "publish" => gone[r] \/ delivered[r] = written[r]
=============================================================================
