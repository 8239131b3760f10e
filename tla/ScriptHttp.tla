----------------------------- MODULE ScriptHttp -----------------------------
(***************************************************************************)
(* HTTP between scripts and the outside: inbound requests a resource       *)
(* serves with SetHttpHandler (http_handler.rs, resource_endpoint.rs) and  *)
(* outbound ones it makes with PerformHttpRequest (http_bridge.rs,         *)
(* script_http.rs, and the callback table of bootstrap.js).  The resource  *)
(* can be restarted at any time; its incarnations are numbered.            *)
(***************************************************************************)
EXTENDS Naturals, Sequences, FiniteSets

CONSTANTS MaxInbound, MaxOutbound, MaxIncarnations,
          QueueDepth,   \* REQUEST_CAPACITY
          Permits       \* http_concurrency

ASSUME HttpAssumption == MaxIncarnations \in Nat \ {0} /\ QueueDepth \in Nat /\ Permits \in Nat

VARIABLES
    incarnation, up,        \* the resource's isolate
    registered,             \* HttpHandlerRegistry.handlers
    parked,                 \* HttpHandlerRegistry.pending: request ids
    inbound,                \* per request: [id, state, held]; held by the incarnation that got it
    outQ, working, tokens,  \* HttpBridge: requests [token, by]; requests with a permit; next_token
    callbacks,              \* httpCallbacks of the present incarnation
    ran, asked              \* callbacks run [token, by, in]; tokens handed out

httpVars == <<incarnation, up, registered, parked, inbound, outQ, working, tokens, callbacks, ran, asked>>
inside == <<registered, parked, inbound>>
outside == <<outQ, working, tokens, callbacks, ran, asked>>

HttpInit ==
    /\ incarnation = 1 /\ up = TRUE /\ registered = TRUE
    /\ parked = {} /\ inbound = <<>>
    /\ outQ = <<>> /\ working = {} /\ tokens = 1 /\ callbacks = {} /\ ran = {} /\ asked = {}

----------------------------------------------------------------------------
\* The resource is unloaded: its route goes, parked requests stay.
Unload ==
    /\ up /\ up' = FALSE /\ registered' = FALSE /\ callbacks' = {}
    /\ UNCHANGED <<incarnation, parked, inbound, outQ, working, tokens, ran, asked>>

\* It is loaded again and may register its handler.
Reload ==
    /\ ~up /\ incarnation < MaxIncarnations
    /\ up' = TRUE /\ incarnation' = incarnation + 1
    /\ registered' \in BOOLEAN
    /\ UNCHANGED <<parked, inbound, outside>>

----------------------------------------------------------------------------
\* serve: 404 without a handler, otherwise the request is parked and its
\* dispatch spawned.
Serve ==
    /\ Len(inbound) < MaxInbound
    /\ IF registered
       THEN /\ parked' = parked \cup {Len(inbound) + 1}
            /\ inbound' = Append(inbound, [state |-> "waiting", held |-> 0])
       ELSE /\ inbound' = Append(inbound, [state |-> "404", held |-> 0]) /\ UNCHANGED parked
    /\ UNCHANGED <<incarnation, up, registered, outside>>

\* trigger_event_on: the isolate that is there now gets the request, or nobody
\* does.
DispatchRequest(r) ==
    /\ inbound[r].state = "waiting" /\ inbound[r].held = 0
    /\ inbound' = [inbound EXCEPT ![r].held = IF up THEN incarnation ELSE MaxIncarnations + 1]
    /\ UNCHANGED <<incarnation, up, registered, parked, outside>>

\* response.send() from the incarnation that holds the request (404 when it
\* has no handler): complete takes the waiter, if it is still there.
SendResponse(r) ==
    /\ inbound[r].held = incarnation /\ up
    /\ parked' = parked \ {r}
    /\ inbound' = [inbound EXCEPT ![r].state = IF r \in parked /\ @ = "waiting" THEN "answered" ELSE @]
    /\ UNCHANGED <<incarnation, up, registered, outside>>

\* A slip: the request is given up but not its entry.
DeadlineKeeps(r) ==
    /\ inbound[r].state = "waiting"
    /\ inbound' = [inbound EXCEPT ![r].state = "504"]
    /\ UNCHANGED <<incarnation, up, registered, parked, outside>>

\* A slip: only a request some isolate holds has a deadline.
DeadlineHeld(r) ==
    /\ inbound[r].state = "waiting" /\ inbound[r].held = incarnation
    /\ inbound' = [inbound EXCEPT ![r].state = "504"]
    /\ parked' = parked \ {r}
    /\ UNCHANGED <<incarnation, up, registered, outside>>

\* http_handler_timeout_secs: the entry is abandoned, 504.
Deadline(r) ==
    /\ inbound[r].state = "waiting"
    /\ inbound' = [inbound EXCEPT ![r].state = "504"]
    /\ parked' = parked \ {r}
    /\ UNCHANGED <<incarnation, up, registered, outside>>

\* The caller hangs up: the handler's future is dropped, its entry is not.
HangsUp(r) ==
    /\ inbound[r].state = "waiting"
    /\ inbound' = [inbound EXCEPT ![r].state = "gone"]
    /\ UNCHANGED <<incarnation, up, registered, parked, outside>>

----------------------------------------------------------------------------
\* A slip: tokens start over with the incarnation.
TokenPerIsolate == Cardinality({a \in asked : a.by = incarnation}) + 1

NextToken == tokens

\* PerformHttpRequest: a token is drawn, the request queued and its callback
\* noted; a full queue calls back at once with status 0.
SubmitRequest ==
    /\ up /\ Cardinality(asked) < MaxOutbound
    /\ tokens' = tokens + 1
    /\ LET request == [token |-> NextToken, by |-> incarnation] IN
       /\ asked' = asked \cup {request}
       /\ IF Len(outQ) < QueueDepth
          THEN outQ' = Append(outQ, request) /\ callbacks' = callbacks \cup {NextToken}
               /\ UNCHANGED ran
          ELSE ran' = ran \cup {[token |-> NextToken, by |-> incarnation, in |-> incarnation]}
               /\ UNCHANGED <<outQ, callbacks>>
    /\ UNCHANGED <<incarnation, up, inside, working>>

\* A slip: requests are started without waiting for a permit.
StartUnbounded ==
    /\ outQ # <<>> /\ outQ' = Tail(outQ) /\ working' = working \cup {Head(outQ)}
    /\ UNCHANGED <<incarnation, up, inside, tokens, callbacks, ran, asked>>

\* A slip: the permit is not released with the reply.
ReplyHoldsPermit(q) ==
    /\ q \in working /\ up /\ q.token \in callbacks
    /\ callbacks' = callbacks \ {q.token}
    /\ ran' = ran \cup {[token |-> q.token, by |-> q.by, in |-> incarnation]}
    /\ UNCHANGED <<incarnation, up, inside, outQ, working, tokens, asked>>

\* The worker starts the next request once it has a permit.
StartRequest ==
    /\ outQ # <<>> /\ Cardinality(working) < Permits
    /\ outQ' = Tail(outQ) /\ working' = working \cup {Head(outQ)}
    /\ UNCHANGED <<incarnation, up, inside, tokens, callbacks, ran, asked>>

\* perform has ended, with a response, an error or the total deadline, and the
\* outcome is dispatched to the resource as it is now: its callback for the
\* token runs, and the permit is released.
DispatchReply(q) ==
    /\ q \in working /\ working' = working \ {q}
    /\ callbacks' = IF up THEN callbacks \ {q.token} ELSE callbacks
    /\ ran' = IF up /\ q.token \in callbacks
              THEN ran \cup {[token |-> q.token, by |-> q.by, in |-> incarnation]} ELSE ran
    /\ UNCHANGED <<incarnation, up, inside, outQ, tokens, asked>>

HttpStep ==
    \/ StartRequest
    \/ \E q \in working : DispatchReply(q)
    \/ \E r \in DOMAIN inbound : DispatchRequest(r) \/ Deadline(r)

HttpNext ==
    \/ HttpStep \/ Unload \/ Reload \/ Serve \/ SubmitRequest
    \/ \E r \in DOMAIN inbound : SendResponse(r) \/ HangsUp(r)

\* Spawned tasks run, and both kinds of request have a deadline; handlers
\* promise nothing.
HttpFairness == WF_httpVars(HttpStep)

HttpSpec == HttpInit /\ [][HttpNext]_httpVars /\ HttpFairness

----------------------------------------------------------------------------
\* The bounds of the outbound queue and of the permits hold, and a callback is
\* registered only under a token already drawn.
HttpTypeOK ==
    /\ incarnation \in 1..MaxIncarnations /\ {up, registered} \subseteq BOOLEAN
    /\ parked \subseteq DOMAIN inbound
    /\ Len(outQ) <= QueueDepth /\ Cardinality(working) <= Permits
    /\ callbacks \subseteq 1..(tokens - 1)

\* http_handler.rs: "a resource that forgets to call send() costs one slow
\* request, not a leaked task": an entry is parked only for a request somebody
\* waits for; unless the caller has hung up, which abandons nothing.
ParkedIsAwaited == \A r \in parked : inbound[r].state \in {"waiting", "gone"}

\* A reply runs only the callback that was registered for its own request: a
\* request outliving its incarnation reaches no callback of the next one.
CallbackOfItsRequest == \A c \in ran : c.in = c.by

\* HTTP of scripts is answered to whom it belongs: what is parked is awaited,
\* and a callback runs for the request it was made for.
HttpSafe ==
    /\ HttpTypeOK /\ ParkedIsAwaited /\ CallbackOfItsRequest

\* While its resource stays up every outbound request calls back, through the
\* queue and the permits, failed ones included.
CallbacksRun ==
    []<>(up => \A a \in asked :
                  a.by = incarnation => [token |-> a.token, by |-> a.by, in |-> a.by] \in ran)

\* Every inbound request that is not dropped by its caller gets a response.
RequestsAnswered == []<>(\A r \in DOMAIN inbound : inbound[r].state # "waiting")
=============================================================================
