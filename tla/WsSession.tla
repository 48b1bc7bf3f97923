------------------------------ MODULE WsSession ------------------------------
(***************************************************************************)
(* One WebSocket session of service-registry: the tasks that call a        *)
(* WsClientHandle, the client's handler task with its outgoing channel and *)
(* its map of pending requests, the connection, and the server's           *)
(* ConnectionHandler.  Every clone of the handle may be used by a task of  *)
(* its own, so requests are made concurrently; each has an id of its own   *)
(* (a v4 UUID), which here is the request.                                 *)
(*                                                                         *)
(* The connection delivers in order; when it breaks, whatever part at the  *)
(* end was still under way is lost in either direction.  A future of a     *)
(* request is taken to be awaited to its end.                              *)
(***************************************************************************)
EXTENDS Naturals, Sequences

CONSTANTS
  Requests,  \* request ids
  Close,     \* ClientMessage::Close, and the close frame it becomes
  Loaded,    \* the RegistryLoaded event
  None       \* no request

ASSUME MessagesAssumption ==
  /\ Close \notin Requests /\ Loaded \notin Requests /\ None \notin Requests
  /\ Close # Loaded

VARIABLES
  call,      \* a request in its caller: idle, registered, waiting, answered, failed
  pending,   \* pending_requests
  handle,    \* held by somebody, or dropped with all its clones
  outbox,    \* the unbounded channel from the handles to the handler
  handler,   \* the client's handler: running or ended
  up, down,  \* what is under way to the server and to the client
  link,      \* the connection: up or broken
  server,    \* the server's handler: new, open or closed
  serving,   \* the request it works on
  served     \* history: how often each request has been carried out

client == <<call, pending, handle, outbox, handler>>
remote == <<server, serving, served>>
vars == <<client, up, down, link, remote>>

Outgoing == Requests \cup {Close}
Incoming == Requests \cup {Loaded}

Init ==
  /\ call = [r \in Requests |-> "idle"]
  /\ pending = {}
  /\ handle = "held"
  /\ outbox = <<>>
  /\ handler = "running"
  /\ up = <<>> /\ down = <<>>
  /\ link = "up"
  /\ server = "new"
  /\ serving = None
  /\ served = [r \in Requests |-> 0]

Elements(q) == {q[i] : i \in DOMAIN q}

-----------------------------------------------------------------------------
(* WsClientHandle.  An operator called M_... is a plausible mistake in the    *)
(* operator after it; no specification uses it.                               *)

\* request, first part: the id is registered before anything is sent.
Registered(r) == pending \cup {r}

Register(r) ==
  /\ handle = "held"
  /\ call[r] = "idle"
  /\ pending' = Registered(r)
  /\ call' = [call EXCEPT ![r] = "registered"]
  /\ UNCHANGED <<handle, outbox, handler, up, down, link, remote>>

\* request, second part: unbounded_send.  If the handler is gone the request
\* fails, and its entry stays in pending_requests.
Submit(r) ==
  /\ call[r] = "registered"
  /\ \/ /\ handler = "running"
        /\ outbox' = Append(outbox, r)
        /\ call' = [call EXCEPT ![r] = "waiting"]
     \/ /\ handler = "ended"
        /\ call' = [call EXCEPT ![r] = "failed"]
        /\ UNCHANGED outbox
  /\ UNCHANGED <<pending, handle, handler, up, down, link, remote>>

\* close; one Close in the channel at a time is enough to model (a bound).
AskClose ==
  /\ handle = "held"
  /\ handler = "running"
  /\ Close \notin Elements(outbox)
  /\ outbox' = Append(outbox, Close)
  /\ UNCHANGED <<call, pending, handle, handler, up, down, link, remote>>

\* The last clone of the handle is dropped; a request under way borrows it.
DropHandle ==
  /\ handle = "held"
  /\ \A r \in Requests : call[r] \notin {"registered", "waiting"}
  /\ handle' = "dropped"
  /\ UNCHANGED <<call, pending, outbox, handler, up, down, link, remote>>

-----------------------------------------------------------------------------
(* The client's handler *)

\* A handler that ends drops its end of the channel and the socket.
EndHandler ==
  /\ handler' = "ended"
  /\ outbox' = <<>>
  /\ down' = <<>>

ServerReachable == link = "up" /\ server # "closed"
ClientReachable == link = "up" /\ handler = "running"

\* A message is sent: it is under way, or the socket took it in vain.
M_Uplink(m) == up
Uplink(m) == IF ServerReachable THEN Append(up, m) ELSE up
Downlink(m) == IF ClientReachable THEN Append(down, m) ELSE down

\* What is left in the channel.
M_Rest(q) == q
Rest(q) == Tail(q)

\* rx.next(): a request is sent on, a Close is sent and ends the handler; so does
\* a failed send.
SendNext ==
  /\ handler = "running"
  /\ outbox # <<>>
  /\ \/ /\ Head(outbox) # Close
        /\ up' = Uplink(Head(outbox))
        /\ outbox' = Rest(outbox)
        /\ UNCHANGED <<handler, down>>
     \/ /\ Head(outbox) = Close
        /\ up' = Uplink(Close)
        /\ EndHandler
     \/ ~ ServerReachable /\ EndHandler /\ UNCHANGED up
  /\ UNCHANGED <<call, pending, handle, link, remote>>

\* rx.next() returns None: no handle is left.
HandleGone ==
  /\ handler = "running"
  /\ handle = "dropped"
  /\ outbox = <<>>
  /\ EndHandler
  /\ UNCHANGED <<call, pending, handle, up, link, remote>>

\* handle_message: a response goes to the request it names, an event is logged.
Receive ==
  LET m == Head(down) IN
  /\ handler = "running"
  /\ down # <<>>
  /\ down' = Tail(down)
  /\ IF m \in pending
     THEN pending' = pending \ {m} /\ call' = [call EXCEPT ![m] = "answered"]
     ELSE UNCHANGED <<pending, call>>
  /\ UNCHANGED <<handle, outbox, handler, up, link, remote>>

\* ws.next() returns None or an error.
M_StreamOver == FALSE
StreamOver == down = <<>> /\ ~ ServerReachable

StreamEnds ==
  /\ handler = "running"
  /\ StreamOver
  /\ EndHandler
  /\ UNCHANGED <<call, pending, handle, up, link, remote>>

-----------------------------------------------------------------------------
(* The server's ConnectionHandler *)

CloseServer == server' = "closed" /\ serving' = None /\ up' = <<>>

\* send_initial_state
SendInitial ==
  /\ server = "new"
  /\ \/ server' = "open" /\ down' = Downlink(Loaded) /\ UNCHANGED <<serving, up>>
     \/ ~ ClientReachable /\ CloseServer /\ UNCHANGED down
  /\ UNCHANGED <<client, link, served>>

\* The next frame: a request is carried out, a close frame ends the handler.
TakeFrame ==
  /\ server = "open" /\ serving = None
  /\ up # <<>>
  /\ \/ /\ Head(up) # Close
        /\ serving' = Head(up)
        /\ served' = [served EXCEPT ![Head(up)] = @ + 1]
        /\ up' = Tail(up)
        /\ UNCHANGED server
     \/ Head(up) = Close /\ CloseServer /\ UNCHANGED served
  /\ UNCHANGED <<client, down, link>>

\* The id a response carries, whether it is a result or an error.
ResponseId(r) == r

\* send_response or send_error_response; when they fail the handler ends.
Respond ==
  /\ serving # None
  /\ \/ down' = Downlink(ResponseId(serving)) /\ serving' = None /\ UNCHANGED <<server, up>>
     \/ ~ ClientReachable /\ CloseServer /\ UNCHANGED down
  /\ UNCHANGED <<client, link, served>>

\* The stream from the client ends, or fails.
ServerStreamEnds ==
  /\ server = "open" /\ serving = None
  /\ up = <<>> /\ ~ ClientReachable
  /\ CloseServer
  /\ UNCHANGED <<client, down, link, served>>

\* The connection breaks.
Break ==
  /\ link = "up"
  /\ link' = "broken"
  /\ \E i \in 0 .. Len(up), j \in 0 .. Len(down) :
       up' = SubSeq(up, 1, i) /\ down' = SubSeq(down, 1, j)
  /\ UNCHANGED <<client, remote>>

-----------------------------------------------------------------------------

Next ==
  \/ \E r \in Requests : Register(r) \/ Submit(r)
  \/ AskClose \/ DropHandle
  \/ SendNext \/ HandleGone \/ Receive \/ StreamEnds
  \/ SendInitial \/ TakeFrame \/ Respond \/ ServerStreamEnds
  \/ Break

Spec == Init /\ [][Next]_vars

\* Both handlers are polled while they have something to do; select! picks
\* between its branches at random, so neither branch waits for ever.
FairSpec ==
  /\ Spec
  /\ WF_vars(SendNext) /\ WF_vars(Receive) /\ WF_vars(StreamEnds)
  /\ WF_vars(SendInitial) /\ WF_vars(TakeFrame) /\ WF_vars(Respond)
  /\ WF_vars(ServerStreamEnds)

-----------------------------------------------------------------------------
(* Properties *)

TypeOK ==
  /\ call \in [Requests -> {"idle", "registered", "waiting", "answered", "failed"}]
  /\ pending \subseteq Requests
  /\ handle \in {"held", "dropped"}
  /\ outbox \in Seq(Outgoing)
  /\ handler \in {"running", "ended"}
  /\ up \in Seq(Outgoing) /\ down \in Seq(Incoming)
  /\ link \in {"up", "broken"}
  /\ server \in {"new", "open", "closed"}
  /\ serving \in Requests \cup {None}
  /\ served \in [Requests -> Nat]

\* A response never comes back before its request is registered, and none is
\* dropped by handle_message while its caller waits.
ResponsesExpected ==
  \A r \in Requests : r \in Elements(down) => r \in pending /\ call[r] = "waiting"

\* While both handlers run over a working connection, a waiting request is in
\* the channel, under way, being served, or on its way back: it is never lost.
NothingLost ==
  (ClientReachable /\ ServerReachable) =>
    \A r \in Requests : call[r] = "waiting" =>
      \/ r \in Elements(outbox) \/ r \in Elements(up) \/ r = serving \/ r \in Elements(down)

\* The client's view is that of a request-reply service: what is answered was
\* carried out exactly once, what failed never was.
Stage == [idle |-> "idle", registered |-> "open", waiting |-> "open",
          answered |-> "returned", failed |-> "failed"]

StageOf == [r \in Requests |-> Stage[call[r]]]

Service == INSTANCE RequestReply WITH stage <- StageOf, executed <- served

ImplementsService == Service!Spec

\* A waiting request is answered unless the session ends.
AnsweredWhileOpen ==
  \A r \in Requests : call[r] = "waiting" ~> (call[r] = "answered" \/ handler = "ended")

\* Does not hold (client.rs:298, nothing drops the senders when the handler ends):
\* "Clean up if cancelled", a request does not wait for ever.
NobodyWaitsForever == \A r \in Requests : call[r] = "waiting" ~> call[r] # "waiting"
=============================================================================
