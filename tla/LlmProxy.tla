------------------------------ MODULE LlmProxy -------------------------------
(***************************************************************************)
(* The LLM proxy's passthrough surface (llmproxy/forward.py): requests are *)
(* forwarded to an upstream that may be unreachable, answer with an error, *)
(* stream, or lose the connection in the middle, while clients may hang up.*)
(***************************************************************************)
EXTENDS Naturals, FiniteSets

CONSTANT ProxyRequests

ASSUME LlmAssumption == IsFiniteSet(ProxyRequests)

VARIABLES
  rqAt,      \* rqAt[r]: "new", "read", "sent", "body", "stream", "relay" or "done"
  upstream,  \* upstream[r]: the response: "none", "open" or "closed"
  arrived,   \* arrived[r]: what came of its body: "part", "all" or "lost"
  client,    \* client[r]: what the client has: "waiting", "part", "complete", "synthesized", "failed"
             \* (the server's own 500), "aborted" in the middle of a stream, or "gone" before
             \* the generator of one began
  usage      \* the counters: requests, errors

llmVars == <<rqAt, upstream, arrived, client, usage>>

LlmInit ==
  /\ rqAt = [r \in ProxyRequests |-> "new"] /\ upstream = [r \in ProxyRequests |-> "none"]
  /\ arrived = [r \in ProxyRequests |-> "part"] /\ client = [r \in ProxyRequests |-> "waiting"]
  /\ usage = [requests |-> 0, errors |-> 0]

\* _record.
Count(counter) == usage' = [usage EXCEPT ![counter] = @ + 1]

Listening(r) == client[r] \in {"waiting", "part"}

\* The request is over: a client that is still there has c, the upstream's response
\* is u.
Over(r, c, u) ==
  /\ rqAt' = [rqAt EXCEPT ![r] = "done"]
  /\ client' = [client EXCEPT ![r] = IF Listening(r) THEN c ELSE @]
  /\ upstream' = [upstream EXCEPT ![r] = u]

\* handle up to the await of the request's body.
Forward(r) ==
  /\ rqAt[r] = "new" /\ rqAt' = [rqAt EXCEPT ![r] = "read"] /\ Count("requests")
  /\ UNCHANGED <<upstream, arrived, client>>

\* The body is there and the request goes out with the caller's credentials
\* replaced; or the client has left (ClientDisconnect), or httpx cannot build the
\* request: the server's own error.
Send(r) ==
  /\ rqAt[r] = "read"
  /\ \/ rqAt' = [rqAt EXCEPT ![r] = "sent"] /\ UNCHANGED <<upstream, client>>
     \/ Over(r, "failed", "none")
  /\ UNCHANGED <<arrived, usage>>

\* send fails, with an httpx.HTTPError or otherwise, or the response's head arrives.
HeadArrives(r) ==
  /\ rqAt[r] = "sent"
  /\ \/ Count("errors") /\ Over(r, "synthesized", "none") /\ UNCHANGED arrived
     \/ Over(r, "failed", "none") /\ UNCHANGED <<arrived, usage>>
     \/ /\ \E kind \in {"body", "stream"} : rqAt' = [rqAt EXCEPT ![r] = kind]
        /\ upstream' = [upstream EXCEPT ![r] = "open"]
        /\ UNCHANGED <<arrived, client, usage>>

\* The upstream (external) sends all of it, or the connection is lost.
UpstreamEnds(r) ==
  /\ upstream[r] = "open" /\ arrived[r] = "part"
  /\ \E e \in {"all", "lost"} : arrived' = [arrived EXCEPT ![r] = e]
  /\ UNCHANGED <<rqAt, upstream, client, usage>>

\* aread, whoever is still there to be answered: a lost body is answered by the
\* proxy; the rest, errors of the provider included, goes through as it is, unless
\* its token counts are no numbers.
ReadBody(r) ==
  /\ rqAt[r] = "body" /\ arrived[r] # "part"
  /\ \/ arrived[r] = "lost" /\ Count("errors") /\ Over(r, "synthesized", "closed")
     \/ arrived[r] = "all" /\ (Count("errors") \/ UNCHANGED usage) /\ Over(r, "complete", "closed")
     \/ arrived[r] = "all" /\ UNCHANGED usage /\ Over(r, "failed", "closed")
  /\ UNCHANGED arrived

\* The server starts on the stream's generator.
BeginRelay(r) ==
  /\ rqAt[r] = "stream" /\ rqAt' = [rqAt EXCEPT ![r] = "relay"]
  /\ UNCHANGED <<upstream, arrived, client, usage>>

\* Variant: the exception of a lost stream is swallowed.
EndStream_swallows(r) ==
  /\ rqAt[r] = "relay" /\ arrived[r] # "part"
  /\ Over(r, "complete", "closed") /\ UNCHANGED <<arrived, usage>>

\* _relay: bytes go through as they come; a lost stream is raised, so that the
\* client's connection is aborted.
RelayChunk(r) ==
  /\ rqAt[r] = "relay" /\ client[r] = "waiting"
  /\ client' = [client EXCEPT ![r] = "part"] /\ UNCHANGED <<rqAt, upstream, arrived, usage>>
EndStream(r) ==
  /\ rqAt[r] = "relay" /\ arrived[r] # "part"
  /\ Over(r, IF arrived[r] = "all" THEN "complete" ELSE "aborted", "closed")
  /\ UNCHANGED <<arrived, usage>>

\* The client hangs up.  Until there is a stream nobody looks: the handler goes on.
HangUp(r) ==
  /\ rqAt[r] \notin {"new", "done"} /\ Listening(r)
  /\ client' = [client EXCEPT ![r] = IF rqAt[r] = "relay" THEN "aborted" ELSE "gone"]
  /\ UNCHANGED <<rqAt, upstream, arrived, usage>>

\* The server finds the client of a stream gone and cancels it.  The generator
\* closes the response in its finally, if it has begun; one that has not, never runs.
CancelStream(r) ==
  /\ rqAt[r] \in {"stream", "relay"} /\ ~Listening(r)
  /\ Over(r, "aborted", IF rqAt[r] = "relay" THEN "closed" ELSE "open")
  /\ UNCHANGED <<arrived, usage>>

\* What the proxy does by itself; the upstream and the clients are the other actions.
ProxyStep(r) == \/ Forward(r) \/ Send(r) \/ ReadBody(r) \/ BeginRelay(r)
                \/ RelayChunk(r) \/ EndStream(r) \/ CancelStream(r)

LlmNext == \E r \in ProxyRequests : ProxyStep(r) \/ HeadArrives(r) \/ UpstreamEnds(r) \/ HangUp(r)

LlmSpec == LlmInit /\ [][LlmNext]_llmVars

\* The event loop runs what can run; neither the upstream nor a client has to.
LlmFairSpec == LlmSpec /\ \A r \in ProxyRequests : WF_llmVars(ProxyStep(r))

------------------------------------------------------------------------------
\* "Relaying a partial body as if complete is the forbidden shape": a client sees a
\* complete response only if the upstream completed it; a finished request holds no
\* upstream connection, unless its client left before the stream's generator began;
\* no request counts more than one error, and none is counted for a client that was
\* cut off in the middle of a stream.
RelaysTruly ==
  /\ \A r \in ProxyRequests :
       /\ client[r] = "complete" => arrived[r] = "all"
       /\ rqAt[r] = "done" /\ upstream[r] = "open" => client[r] = "gone"
  /\ usage.errors =< Cardinality({r \in ProxyRequests :
                       rqAt[r] = "done" /\ client[r] \in {"synthesized", "complete", "gone"}})

\* llmproxy-v1 3: "MUST cancel the upstream call when the client disconnects"; and
\* forward.py relies on it in place of a read timeout.
DisconnectCancels ==
  \A r \in ProxyRequests : client[r] \in {"gone", "aborted"} ~> upstream[r] # "open"
==============================================================================
