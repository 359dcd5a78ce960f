-------------------------- MODULE MCProxyPipeline --------------------------
(***************************************************************************)
(* Small sets of calls and one policy document for ProxyPipeline.          *)
(***************************************************************************)
EXTENDS ProxyPipeline, TLC

Body(model, stream, found, sensitive) ==
    [model |-> model, stream |-> stream,
     found |-> found, sensitive |-> sensitive]

Call(user, provider, path, body) ==
    [org |-> "acme", team |-> "core", user |-> user,
     provider |-> provider, path |-> path, body |-> body]

\* A team with no list of models: a body without a model passes.
OfLab(c) == [c EXCEPT !.team = "lab"]

Chat    == Call("ann", "anthropic", "messages", Body("m1", FALSE, TRUE, FALSE))
Again   == Call("bob", "anthropic", "messages", Body("m1", FALSE, TRUE, FALSE))
Other   == Call("ann", "anthropic", "messages", Body("m2", FALSE, TRUE, FALSE))
Leak    == Call("ann", "anthropic", "messages", Body("m1", FALSE, TRUE, TRUE))
Stream  == Call("ann", "anthropic", "messages", Body("m1", TRUE, TRUE, FALSE))
Command == Call("ann", "cohere", "chat", Body("m1", TRUE, TRUE, FALSE))
Flash   == OfLab(Call("ann", "google", "flash", Body("", FALSE, FALSE, FALSE)))
Pro     == OfLab(Call("ann", "google", "pro", Body("", FALSE, FALSE, FALSE)))
Titan   == Call("ann", "bedrock", "titan", Body("m1", FALSE, TRUE, FALSE))

\* Requests of the same body by two users, of one body to two paths, a
\* stream whose tokens are counted, one whose are not, an unknown provider; a
\* listed and an unlisted model, a sensitive prompt, a user with few hours.
MixedCalls == {Chat, Again, Other, Leak, Stream, Command, Flash, Pro, Titan}

\* A sensitive prompt in Gemini's format.
Gemini == {Call("ann", "google", "flash", Body("", FALSE, FALSE, TRUE))}

Environment == {"anthropic", "openai", "google", "cohere", "local"}
Counters    == {"anthropic", "openai", "google", "azure", "mistral"}

\* Team core may use m1, acme blocks sensitive prompts, bob works from 9 to
\* 17.
Loaded == [lists   |-> [t \in {"core"} |-> {"m1"}],
           budgets |-> [o \in {"acme"} |-> [t \in {"core"} |->
                           [remaining |-> 1, hard |-> TRUE]]],
           dlp     |-> [o \in {"acme"} |-> "block"],
           limits  |-> None,
           hours   |-> [u \in {"bob"} |-> [start |-> 9, end |-> 17]],
           rpm     |-> [u \in {"ann"} |-> 1]]

\* acme blocks sensitive prompts, and has no other policy.
BlockLeaks == [EmptyData EXCEPT !.dlp = [o \in {"acme"} |-> "block"]]

\* Replicas that started with Kafka ready; without it; and one of each.
AllReady   == [r \in Requests |-> "ready"]
NoneReady  == [r \in Requests |-> "failed"]
OneReady   == [NoneReady EXCEPT ![CHOOSE r \in Requests : TRUE] = "ready"]
=============================================================================
