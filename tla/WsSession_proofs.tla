-------------------------- MODULE WsSession_proofs --------------------------
(***************************************************************************)
(* Theorems about WsSession.  The inductive invariant says where a request *)
(* is: in the client's channel, under way, being served or on its way back *)
(* as a response, in one place at a time and once in that place, and       *)
(* carried out exactly from the moment the server takes it.                *)
(***************************************************************************)
EXTENDS WsSession, TLAPS

-----------------------------------------------------------------------------
(* Queues *)

\* No request is twice in a queue.
Once(q) == \A i, j \in DOMAIN q : (q[i] = q[j] /\ q[i] \in Requests) => i = j

\* An empty queue has no elements.
LEMMA EmptyQueue == Elements(<<>>) = {} /\ Once(<<>>) /\ \A S : <<>> \in Seq(S)
BY DEF Elements, Once

\* Append adds one element, and keeps a queue free of duplicates if it is new.
LEMMA AppendQueue ==
  ASSUME NEW S, NEW q \in Seq(S), NEW e \in S
  PROVE  /\ Append(q, e) \in Seq(S)
         /\ Elements(Append(q, e)) = Elements(q) \cup {e}
         /\ Once(q) /\ (e \notin Elements(q) \/ e \notin Requests) => Once(Append(q, e))
<1>1. Append(q, e) \in Seq(S)
  OBVIOUS
<1>2. DOMAIN Append(q, e) = 1 .. Len(q) + 1 /\ DOMAIN q = 1 .. Len(q) /\ Len(q) \in Nat
  OBVIOUS
<1>3. Append(q, e)[Len(q) + 1] = e
  OBVIOUS
<1>4. \A i \in 1 .. Len(q) : Append(q, e)[i] = q[i]
  OBVIOUS
<1>5. Elements(Append(q, e)) = Elements(q) \cup {e}
  <2>1. Elements(Append(q, e)) \subseteq Elements(q) \cup {e}
    BY <1>2, <1>3, <1>4 DEF Elements
  <2>2. Elements(q) \subseteq Elements(Append(q, e))
    BY <1>2, <1>4 DEF Elements
  <2>3. e \in Elements(Append(q, e))
    BY <1>2, <1>3 DEF Elements
  <2>. QED  BY <2>1, <2>2, <2>3
<1>6. ASSUME Once(q), e \notin Elements(q) \/ e \notin Requests
      PROVE  Once(Append(q, e))
  BY <1>2, <1>3, <1>4, <1>6 DEF Once, Elements
<1>. QED  BY <1>1, <1>5, <1>6

\* Tail takes the head away; a request that was at the head is then not in the queue.
LEMMA TailQueue ==
  ASSUME NEW S, NEW q \in Seq(S), q # <<>>
  PROVE  /\ Tail(q) \in Seq(S)
         /\ Head(q) \in S
         /\ Elements(q) = Elements(Tail(q)) \cup {Head(q)}
         /\ Once(q) => /\ Once(Tail(q))
                       /\ Head(q) \in Requests => Head(q) \notin Elements(Tail(q))
<1>1. Tail(q) \in Seq(S) /\ Head(q) \in S /\ Head(q) = q[1]
  OBVIOUS
<1>2. /\ Len(q) \in Nat \ {0} /\ DOMAIN q = 1 .. Len(q)
      /\ DOMAIN Tail(q) = 1 .. Len(q) - 1
  OBVIOUS
<1>3. \A i \in 1 .. Len(q) - 1 : Tail(q)[i] = q[i + 1]
  OBVIOUS
<1>4. Elements(Tail(q)) \cup {Head(q)} \subseteq Elements(q)
  BY <1>1, <1>2, <1>3 DEF Elements
<1>5. ASSUME NEW i \in 1 .. Len(q) PROVE q[i] \in Elements(Tail(q)) \cup {Head(q)}
  <2>1. CASE i = 1
    BY <2>1, <1>1
  <2>2. CASE i # 1
    <3>1. i - 1 \in 1 .. Len(q) - 1 /\ Tail(q)[i - 1] = q[i]
      BY <2>2, <1>2, <1>3
    <3>. QED  BY <3>1, <1>2 DEF Elements
  <2>. QED  BY <2>1, <2>2
<1>6. Once(q) => Once(Tail(q))
  BY <1>2, <1>3 DEF Once
<1>7. Once(q) /\ Head(q) \in Requests => Head(q) \notin Elements(Tail(q))
  BY <1>1, <1>2, <1>3 DEF Once, Elements
<1>. QED
  <2>1. Elements(q) \subseteq Elements(Tail(q)) \cup {Head(q)}
    BY <1>2, <1>5 DEF Elements
  <2>. QED  BY <1>1, <1>4, <1>6, <1>7, <2>1

\* What is left of a queue that loses its end.
LEMMA PrefixQueue ==
  ASSUME NEW S, NEW q \in Seq(S), NEW n \in 0 .. Len(q)
  PROVE  /\ SubSeq(q, 1, n) \in Seq(S)
         /\ Elements(SubSeq(q, 1, n)) \subseteq Elements(q)
         /\ Once(q) => Once(SubSeq(q, 1, n))
<1>1. /\ SubSeq(q, 1, n) \in Seq(S)
      /\ DOMAIN SubSeq(q, 1, n) = 1 .. n /\ 1 .. n \subseteq DOMAIN q
      /\ \A i \in 1 .. n : SubSeq(q, 1, n)[i] = q[i]
  OBVIOUS
<1>. QED  BY <1>1 DEF Elements, Once

\* Sending adds at most the message to what is under way.
LEMMA DownlinkQueue ==
  ASSUME down \in Seq(Incoming), NEW m \in Incoming
  PROVE  /\ Downlink(m) \in Seq(Incoming)
         /\ Elements(Downlink(m)) \subseteq Elements(down) \cup {m}
         /\ ClientReachable => m \in Elements(Downlink(m))
         /\ Elements(down) \subseteq Elements(Downlink(m))
         /\ Once(down) /\ (m \notin Elements(down) \/ m \notin Requests) => Once(Downlink(m))
<1>. DEFINE q == Append(down, m)
<1>1. /\ q \in Seq(Incoming)
      /\ Elements(q) = Elements(down) \cup {m}
      /\ Once(down) /\ (m \notin Elements(down) \/ m \notin Requests) => Once(q)
  BY AppendQueue
<1>2. Downlink(m) = IF ClientReachable THEN q ELSE down
  BY DEF Downlink
<1>. HIDE DEF q
<1>. QED  BY <1>1, <1>2

LEMMA UplinkQueue ==
  ASSUME up \in Seq(Outgoing), NEW m \in Outgoing
  PROVE  /\ Uplink(m) \in Seq(Outgoing)
         /\ Elements(Uplink(m)) \subseteq Elements(up) \cup {m}
         /\ ServerReachable => m \in Elements(Uplink(m))
         /\ Elements(up) \subseteq Elements(Uplink(m))
         /\ Once(up) /\ (m \notin Elements(up) \/ m \notin Requests) => Once(Uplink(m))
<1>. DEFINE q == Append(up, m)
<1>1. /\ q \in Seq(Outgoing)
      /\ Elements(q) = Elements(up) \cup {m}
      /\ Once(up) /\ (m \notin Elements(up) \/ m \notin Requests) => Once(q)
  BY AppendQueue
<1>2. Uplink(m) = IF ServerReachable THEN q ELSE up
  BY DEF Uplink
<1>. HIDE DEF q
<1>. QED  BY <1>1, <1>2

-----------------------------------------------------------------------------
(* Types *)

LEMMA InitTypeOK == Init => TypeOK
BY MessagesAssumption DEF Init, TypeOK, Outgoing, Incoming

LEMMA TypeOKStep == TypeOK /\ [Next]_vars => TypeOK'
<1> SUFFICES ASSUME TypeOK, [Next]_vars PROVE TypeOK'
  OBVIOUS
<1> USE DEF TypeOK, remote, client
<1>1. ASSUME NEW r \in Requests, Register(r) \/ Submit(r) PROVE TypeOK'
  <2>1. Append(outbox, r) \in Seq(Outgoing)
    BY AppendQueue DEF Outgoing
  <2>2. outbox' \in Seq(Outgoing)
    BY <1>1, <2>1 DEF Register, Submit
  <2>. QED  BY <1>1, <2>2 DEF Register, Submit, Registered
<1>2. CASE AskClose
  <2>1. outbox' \in Seq(Outgoing)
    BY <1>2, AppendQueue DEF AskClose, Outgoing
  <2>. QED  BY <1>2, <2>1 DEF AskClose
<1>3. CASE DropHandle
  BY <1>3 DEF DropHandle
<1>4. CASE SendNext
  <2>1. Tail(outbox) \in Seq(Outgoing) /\ Head(outbox) \in Outgoing
    BY <1>4, TailQueue DEF SendNext
  <2>2. outbox' \in Seq(Outgoing)
    BY <1>4, <2>1, EmptyQueue DEF SendNext, Rest, EndHandler
  <2>3. up' \in Seq(Outgoing)
    BY <1>4, <2>1, UplinkQueue DEF SendNext, Outgoing
  <2>4. handler' \in {"running", "ended"} /\ down' \in Seq(Incoming)
    BY <1>4, EmptyQueue DEF SendNext, EndHandler
  <2>. QED  BY <1>4, <2>2, <2>3, <2>4 DEF SendNext
<1>5. CASE HandleGone
  BY <1>5 DEF HandleGone, EndHandler
<1>6. CASE Receive
  <2>1. down' \in Seq(Incoming)
    BY <1>6, TailQueue DEF Receive
  <2>2. call' \in [Requests -> {"idle", "registered", "waiting", "answered", "failed"}]
        /\ pending' \subseteq Requests
    BY <1>6 DEF Receive
  <2>. QED  BY <1>6, <2>1, <2>2 DEF Receive
<1>7. CASE StreamEnds
  BY <1>7 DEF StreamEnds, EndHandler
<1>8. CASE SendInitial
  <2>1. down' \in Seq(Incoming)
    BY <1>8, DownlinkQueue DEF SendInitial, Incoming
  <2>2. /\ server' \in {"open", "closed"}
        /\ serving' \in {serving, None}
        /\ up' \in Seq(Outgoing)
    BY <1>8, EmptyQueue DEF SendInitial, CloseServer
  <2>. QED  BY <1>8, <2>1, <2>2 DEF SendInitial
<1>9. CASE TakeFrame
  <2>1. Tail(up) \in Seq(Outgoing) /\ Head(up) \in Outgoing
    BY <1>9, TailQueue DEF TakeFrame
  <2>2. up' \in Seq(Outgoing) /\ server' \in {"open", "closed"}
    BY <1>9, <2>1, EmptyQueue DEF TakeFrame, CloseServer
  <2>3. serving' \in Requests \cup {None}
    BY <1>9, <2>1 DEF TakeFrame, CloseServer, Outgoing
  <2>4. served' \in [Requests -> Nat]
    BY <1>9, <2>1 DEF TakeFrame, Outgoing
  <2>. QED  BY <1>9, <2>2, <2>3, <2>4 DEF TakeFrame
<1>10. CASE Respond
  <2>1. serving \in Incoming
    BY <1>10 DEF Respond, Incoming
  <2>2. down' \in Seq(Incoming)
    BY <1>10, <2>1, DownlinkQueue DEF Respond, ResponseId
  <2>3. /\ server' \in {server, "closed"}
        /\ serving' = None
        /\ up' \in Seq(Outgoing)
    BY <1>10, EmptyQueue DEF Respond, CloseServer
  <2>. QED  BY <1>10, <2>2, <2>3 DEF Respond
<1>11. CASE ServerStreamEnds
  BY <1>11 DEF ServerStreamEnds, CloseServer
<1>12. CASE Break
  <2>1. up' \in Seq(Outgoing) /\ down' \in Seq(Incoming)
    BY <1>12, PrefixQueue DEF Break
  <2>. QED  BY <1>12, <2>1 DEF Break
<1>13. CASE UNCHANGED vars
  BY <1>13 DEF vars
<1>. QED
  BY <1>1, <1>2, <1>3, <1>4, <1>5, <1>6, <1>7, <1>8, <1>9, <1>10, <1>11, <1>12, <1>13 DEF Next

\* TypeOK: every variable of the two ends and of the connection has its type.
THEOREM TypeCorrect == Spec => []TypeOK
<1>. QED  BY InitTypeOK, TypeOKStep, PTL DEF Spec

-----------------------------------------------------------------------------
(* Where a request is *)

Place(r) ==
  /\ r \in Elements(outbox) => call[r] = "waiting" /\ served[r] = 0 /\ r \notin Elements(up)
  /\ r \in Elements(up) => call[r] = "waiting" /\ served[r] = 0
  /\ serving = r => call[r] = "waiting" /\ served[r] = 1 /\ r \notin Elements(down)
  /\ r \in Elements(down) => call[r] = "waiting" /\ served[r] = 1
  /\ served[r] \in {0, 1}
  /\ call[r] \in {"idle", "registered", "failed"} => served[r] = 0
  /\ call[r] = "answered" => served[r] = 1
  /\ call[r] \in {"registered", "waiting"} => r \in pending

NoDuplicates == Once(outbox) /\ Once(up) /\ Once(down)

PlaceInv == TypeOK /\ NoDuplicates /\ \A r \in Requests : Place(r)

LEMMA InitPlaceInv == Init => PlaceInv
BY InitTypeOK, EmptyQueue, MessagesAssumption
   DEF Init, PlaceInv, NoDuplicates, Place

\* A step of one of the callers or of the handle.
LEMMA CallerKeepsPlaces ==
  ASSUME PlaceInv, (\E s \in Requests : Register(s) \/ Submit(s)) \/ AskClose \/ DropHandle
  PROVE  NoDuplicates' /\ \A r \in Requests : Place(r)'
<1> USE DEF PlaceInv, NoDuplicates, TypeOK, remote
<1>1. ASSUME NEW s \in Requests, Register(s)
      PROVE  NoDuplicates' /\ \A r \in Requests : Place(r)'
  BY <1>1 DEF Register, Registered, Place
<1>2. ASSUME NEW s \in Requests, Submit(s)
      PROVE  NoDuplicates' /\ \A r \in Requests : Place(r)'
  <2>1. s \notin Elements(outbox) /\ s \notin Elements(up) /\ served[s] = 0
    BY <1>2 DEF Submit, Place
  <2>2. /\ Elements(Append(outbox, s)) = Elements(outbox) \cup {s}
        /\ Once(Append(outbox, s))
    BY <2>1, AppendQueue DEF Outgoing
  <2>. QED  BY <1>2, <2>1, <2>2 DEF Submit, Place
<1>3. CASE AskClose
  <2>1. /\ Elements(Append(outbox, Close)) = Elements(outbox) \cup {Close}
        /\ Once(Append(outbox, Close))
    BY <1>3, AppendQueue, MessagesAssumption DEF Outgoing
  <2>. QED  BY <1>3, <2>1, MessagesAssumption DEF AskClose, Place
<1>4. CASE DropHandle
  BY <1>4 DEF DropHandle, Place
<1>. QED  BY <1>1, <1>2, <1>3, <1>4

\* A step of the client's handler.
LEMMA HandlerKeepsPlaces ==
  ASSUME PlaceInv, SendNext \/ HandleGone \/ Receive \/ StreamEnds
  PROVE  NoDuplicates' /\ \A r \in Requests : Place(r)'
<1> USE DEF PlaceInv, NoDuplicates, TypeOK, remote
<1>1. ASSUME SendNext
      PROVE  NoDuplicates' /\ \A r \in Requests : Place(r)'
  <2>. DEFINE m == Head(outbox)
  <2>1. /\ m \in Outgoing
        /\ Elements(outbox) = Elements(Tail(outbox)) \cup {m}
        /\ Once(Tail(outbox))
        /\ m \in Requests => m \notin Elements(Tail(outbox))
    BY <1>1, TailQueue DEF SendNext
  <2>2. m \in Requests => m \notin Elements(up)
    BY <2>1 DEF Place
  <2>3. /\ Elements(Uplink(m)) \subseteq Elements(up) \cup {m}
        /\ Once(Uplink(m))
    BY <2>1, <2>2, UplinkQueue
  <2>. HIDE DEF m
  <2>4. CASE m # Close /\ up' = Uplink(m) /\ outbox' = Tail(outbox) /\ UNCHANGED <<handler, down>>
    <3>1. m \in Requests /\ UNCHANGED <<call, pending, served, serving, down>>
      BY <1>1, <2>1, <2>4 DEF SendNext, Outgoing
    <3>. QED  BY <2>1, <2>2, <2>3, <2>4, <3>1 DEF Place
  <2>5. CASE m = Close /\ up' = Uplink(m) /\ EndHandler
    <3>1. UNCHANGED <<call, pending, served, serving>>
      BY <1>1 DEF SendNext
    <3>. QED  BY <2>3, <2>5, <3>1, EmptyQueue, MessagesAssumption DEF Place, EndHandler
  <2>6. CASE EndHandler /\ UNCHANGED up
    <3>1. UNCHANGED <<call, pending, served, serving>>
      BY <1>1 DEF SendNext
    <3>. QED  BY <2>6, <3>1, EmptyQueue DEF Place, EndHandler
  <2>. QED  BY <1>1, <2>4, <2>5, <2>6 DEF SendNext, Rest, m
<1>2. CASE HandleGone \/ StreamEnds
  BY <1>2, EmptyQueue DEF HandleGone, StreamEnds, EndHandler, Place
<1>3. ASSUME Receive
      PROVE  NoDuplicates' /\ \A r \in Requests : Place(r)'
  <2>. DEFINE m == Head(down)
  <2>1. /\ m \in Incoming
        /\ Elements(down) = Elements(Tail(down)) \cup {m}
        /\ Once(Tail(down))
        /\ m \in Requests => m \notin Elements(Tail(down))
    BY <1>3, TailQueue DEF Receive
  <2>. HIDE DEF m
  <2>2. m \in Requests => call[m] = "waiting" /\ served[m] = 1 /\ m # serving /\ m \in pending
    BY <2>1 DEF Place
  <2>3. /\ down' = Tail(down)
        /\ UNCHANGED <<outbox, up, serving, served>>
        /\ IF m \in pending
           THEN pending' = pending \ {m} /\ call' = [call EXCEPT ![m] = "answered"]
           ELSE UNCHANGED <<pending, call>>
    BY <1>3 DEF Receive, m
  <2>4. CASE m \in Requests
    BY <2>1, <2>2, <2>3, <2>4 DEF Place
  <2>5. CASE m \notin Requests
    BY <2>1, <2>3, <2>5 DEF Place
  <2>. QED  BY <2>4, <2>5
<1>. QED  BY <1>1, <1>2, <1>3

\* A step of the server's handler, or of the network.
LEMMA ServerKeepsPlaces ==
  ASSUME PlaceInv, SendInitial \/ TakeFrame \/ Respond \/ ServerStreamEnds \/ Break
  PROVE  NoDuplicates' /\ \A r \in Requests : Place(r)'
<1> USE DEF PlaceInv, NoDuplicates, TypeOK, client
<1>1. CASE SendInitial
  <2>1. /\ Elements(Downlink(Loaded)) \subseteq Elements(down) \cup {Loaded}
        /\ Once(Downlink(Loaded))
    BY DownlinkQueue, MessagesAssumption DEF Incoming
  <2>2. CASE down' = Downlink(Loaded) /\ UNCHANGED <<call, pending, outbox, serving, up, served>>
    BY <2>1, <2>2, MessagesAssumption DEF Place
  <2>3. CASE CloseServer /\ UNCHANGED <<call, pending, outbox, down, served>>
    BY <2>3, EmptyQueue, MessagesAssumption DEF CloseServer, Place
  <2>. QED  BY <1>1, <2>2, <2>3 DEF SendInitial
<1>2. CASE TakeFrame
  <2>. DEFINE m == Head(up)
  <2>1. /\ m \in Outgoing
        /\ Elements(up) = Elements(Tail(up)) \cup {m}
        /\ Once(Tail(up))
        /\ m \in Requests => m \notin Elements(Tail(up))
    BY <1>2, TailQueue DEF TakeFrame
  <2>2. serving = None /\ UNCHANGED <<call, pending, outbox, down>>
    BY <1>2 DEF TakeFrame
  <2>. HIDE DEF m
  <2>3. CASE /\ m # Close /\ serving' = m /\ up' = Tail(up)
             /\ served' = [served EXCEPT ![m] = @ + 1]
    <3>1. m \in Requests
      BY <2>1, <2>3 DEF Outgoing
    <3>2. /\ call[m] = "waiting" /\ served[m] = 0 /\ m \in pending
          /\ m \notin Elements(down) /\ m \notin Elements(outbox)
      BY <2>1, <3>1 DEF Place
    <3>. QED  BY <2>1, <2>2, <2>3, <3>1, <3>2 DEF Place
  <2>4. CASE m = Close /\ CloseServer /\ UNCHANGED served
    BY <2>2, <2>4, EmptyQueue, MessagesAssumption DEF CloseServer, Place
  <2>. QED  BY <1>2, <2>3, <2>4 DEF TakeFrame, m
<1>3. CASE Respond
  <2>1. /\ serving \in Requests
        /\ serving \notin Elements(down) /\ serving \notin Elements(up)
        /\ call[serving] = "waiting" /\ served[serving] = 1
    BY <1>3 DEF Respond, Place
  <2>2. /\ Elements(Downlink(serving)) \subseteq Elements(down) \cup {serving}
        /\ Once(Downlink(serving))
    BY <2>1, DownlinkQueue DEF Incoming
  <2>3. CASE /\ down' = Downlink(serving) /\ serving' = None
             /\ UNCHANGED <<call, pending, outbox, up, served>>
    BY <2>1, <2>2, <2>3, MessagesAssumption DEF Place
  <2>4. CASE CloseServer /\ UNCHANGED <<call, pending, outbox, down, served>>
    BY <2>4, EmptyQueue, MessagesAssumption DEF CloseServer, Place
  <2>. QED  BY <1>3, <2>3, <2>4 DEF Respond, ResponseId
<1>4. CASE ServerStreamEnds
  BY <1>4, EmptyQueue, MessagesAssumption DEF ServerStreamEnds, CloseServer, Place
<1>5. CASE Break
  <2>1. PICK i \in 0 .. Len(up), j \in 0 .. Len(down) :
          up' = SubSeq(up, 1, i) /\ down' = SubSeq(down, 1, j)
    BY <1>5 DEF Break
  <2>2. /\ Elements(up)' \subseteq Elements(up) /\ Once(up)'
        /\ Elements(down)' \subseteq Elements(down) /\ Once(down)'
    BY <2>1, PrefixQueue
  <2>3. UNCHANGED <<call, pending, outbox, serving, served>>
    BY <1>5 DEF Break, remote
  <2>. QED  BY <2>2, <2>3 DEF Place
<1>. QED  BY <1>1, <1>2, <1>3, <1>4, <1>5

LEMMA PlaceInvStep == PlaceInv /\ [Next]_vars => PlaceInv'
<1> SUFFICES ASSUME PlaceInv, [Next]_vars PROVE PlaceInv'
  OBVIOUS
<1>1. TypeOK'
  BY TypeOKStep DEF PlaceInv
<1>2. CASE Next
  BY <1>1, <1>2, CallerKeepsPlaces, HandlerKeepsPlaces, ServerKeepsPlaces DEF Next, PlaceInv
<1>3. CASE UNCHANGED vars
  BY <1>1, <1>3 DEF PlaceInv, NoDuplicates, Place, vars, client, remote
<1>. QED  BY <1>2, <1>3

LEMMA SpecPlaceInv == Spec => []PlaceInv
<1>. QED  BY InitPlaceInv, PlaceInvStep, PTL DEF Spec

\* ResponsesExpected: a response under way is that of a request that is
\* registered in pending_requests and whose caller waits in rx.await.
THEOREM ResponsesFindTheirRequest == Spec => []ResponsesExpected
<1>1. PlaceInv => ResponsesExpected
  BY DEF PlaceInv, Place, ResponsesExpected
<1>. QED  BY <1>1, SpecPlaceInv, PTL

-----------------------------------------------------------------------------
(* No request is lost while both handlers run over a working connection *)

Somewhere(r) ==
  r \in Elements(outbox) \/ r \in Elements(up) \/ r = serving \/ r \in Elements(down)

LEMMA NothingLostStep == PlaceInv /\ NothingLost /\ [Next]_vars => NothingLost'
<1> SUFFICES ASSUME PlaceInv, NothingLost, [Next]_vars,
                    ClientReachable', ServerReachable',
                    NEW r \in Requests, call'[r] = "waiting"
             PROVE  Somewhere(r)'
  BY DEF NothingLost, Somewhere
<1> USE DEF TypeOK, PlaceInv, client, remote
<1>1. link = "up" /\ handler = "running" /\ server # "closed"
      /\ handler' = "running" /\ server' # "closed" /\ link' = "up"
  BY DEF ClientReachable, ServerReachable, Next, Register, Submit, AskClose, DropHandle,
         SendNext, HandleGone, Receive, StreamEnds, EndHandler, SendInitial, TakeFrame,
         Respond, ServerStreamEnds, CloseServer, Break, vars
<1>2. ClientReachable /\ ServerReachable
  BY <1>1 DEF ClientReachable, ServerReachable
<1>3. call[r] = "waiting" => Somewhere(r)
  BY <1>2 DEF NothingLost, Somewhere
<1>4. CASE \E s \in Requests : Register(s) \/ Submit(s)
  <2>1. PICK s \in Requests : Register(s) \/ Submit(s)
    BY <1>4
  <2>2. CASE Register(s)
    BY <1>3, <2>2 DEF Register, Somewhere
  <2>3. CASE Submit(s)
    <3>1. Elements(Append(outbox, s)) = Elements(outbox) \cup {s}
      BY AppendQueue DEF Outgoing
    <3>. QED  BY <1>1, <1>3, <2>3, <3>1 DEF Submit, Somewhere
  <2>. QED  BY <2>1, <2>2, <2>3
<1>5. CASE AskClose
  <2>1. Elements(Append(outbox, Close)) = Elements(outbox) \cup {Close}
    BY AppendQueue DEF Outgoing
  <2>. QED  BY <1>3, <1>5, <2>1 DEF AskClose, Somewhere
<1>6. CASE DropHandle
  BY <1>3, <1>6 DEF DropHandle, Somewhere
<1>7. CASE SendNext
  <2>1. Head(outbox) # Close /\ up' = Uplink(Head(outbox)) /\ outbox' = Tail(outbox)
    BY <1>1, <1>2, <1>7 DEF SendNext, Rest, EndHandler
  <2>2. Head(outbox) \in Outgoing /\ Elements(outbox) = Elements(Tail(outbox)) \cup {Head(outbox)}
    BY <1>7, TailQueue DEF SendNext
  <2>3. Elements(up) \cup {Head(outbox)} \subseteq Elements(Uplink(Head(outbox)))
    BY <1>2, <2>2, UplinkQueue
  <2>4. UNCHANGED <<call, serving>> /\ Elements(down) = Elements(down)'
    BY <1>1, <1>7 DEF SendNext, EndHandler
  <2>. QED  BY <1>3, <2>1, <2>2, <2>3, <2>4 DEF Somewhere
<1>8. CASE HandleGone \/ StreamEnds \/ ServerStreamEnds \/ Break
  BY <1>1, <1>8 DEF HandleGone, StreamEnds, EndHandler, ServerStreamEnds, CloseServer, Break
<1>9. CASE Receive
  <2>. DEFINE m == Head(down)
  <2>1. m \in Incoming /\ Elements(down) = Elements(Tail(down)) \cup {m}
    BY <1>9, TailQueue DEF Receive
  <2>2. m \in Requests => m \in pending
    BY <2>1 DEF Place
  <2>3. call[r] = "waiting" /\ r # m
    BY <1>9, <2>2 DEF Receive
  <2>. QED  BY <1>3, <1>9, <2>1, <2>3 DEF Receive, Somewhere
<1>10. CASE SendInitial
  <2>1. Elements(down) \subseteq Elements(Downlink(Loaded))
    BY DownlinkQueue DEF Incoming
  <2>. QED  BY <1>1, <1>3, <1>10, <2>1 DEF SendInitial, CloseServer, Somewhere
<1>11. CASE TakeFrame
  <2>1. Elements(up) = Elements(Tail(up)) \cup {Head(up)}
    BY <1>11, TailQueue DEF TakeFrame
  <2>2. /\ serving = None /\ serving' = Head(up) /\ up' = Tail(up)
        /\ UNCHANGED <<call, outbox, down>>
    BY <1>1, <1>11 DEF TakeFrame, CloseServer
  <2>. QED  BY <1>3, <2>1, <2>2, MessagesAssumption DEF Somewhere
<1>12. CASE Respond
  <2>1. serving \in Requests
    BY <1>12 DEF Respond
  <2>2. Elements(down) \cup {serving} \subseteq Elements(Downlink(serving))
    BY <1>2, <2>1, DownlinkQueue DEF Incoming
  <2>3. down' = Downlink(serving) /\ UNCHANGED <<call, outbox, up>>
    BY <1>1, <1>12 DEF Respond, ResponseId, CloseServer
  <2>. QED  BY <1>3, <2>2, <2>3 DEF Somewhere
<1>13. CASE UNCHANGED vars
  BY <1>3, <1>13 DEF vars, Somewhere
<1>. QED
  BY <1>4, <1>5, <1>6, <1>7, <1>8, <1>9, <1>10, <1>11, <1>12, <1>13 DEF Next

\* NothingLost: while both handlers run over a working connection, a request
\* whose caller waits is in the channel, under way, served, or answered on its way.
THEOREM RequestsAreNotLost == Spec => []NothingLost
<1>1. Init => NothingLost
  BY DEF Init, NothingLost
<1>. QED  BY <1>1, NothingLostStep, SpecPlaceInv, PTL DEF Spec

-----------------------------------------------------------------------------
(* WsSession implements RequestReply *)

LEMMA InitMaps == Init => Service!Init
BY DEF Init, Service!Init, StageOf, Stage

\* A caller that goes on changes its own stage only.
LEMMA CallerMoves ==
  ASSUME TypeOK, NEW r \in Requests, NEW to \in {"registered", "waiting", "answered", "failed"},
         call' = [call EXCEPT ![r] = to]
  PROVE  /\ StageOf[r] = Stage[call[r]]
         /\ StageOf' = [StageOf EXCEPT ![r] = Stage[to]]
<1>1. \A s \in Requests : Stage[call'[s]] = IF s = r THEN Stage[to] ELSE Stage[call[s]]
  BY DEF TypeOK
<1>2. StageOf' = [s \in Requests |-> Stage[call'[s]]]
  BY DEF StageOf
<1>. QED  BY <1>1, <1>2 DEF StageOf

LEMMA StepMaps ==
  PlaceInv /\ [Next]_vars => [Service!Next]_<<StageOf, served>>
<1> SUFFICES ASSUME PlaceInv, [Next]_vars
             PROVE  [Service!Next]_<<StageOf, served>>
  OBVIOUS
<1> USE DEF PlaceInv, TypeOK, client, remote
<1>1. ASSUME UNCHANGED <<call, served>> PROVE UNCHANGED <<StageOf, served>>
  BY <1>1 DEF StageOf
<1>2. ASSUME NEW r \in Requests, Register(r) PROVE Service!Next
  <2>0. call[r] = "idle" /\ call' = [call EXCEPT ![r] = "registered"] /\ UNCHANGED served
    BY <1>2 DEF Register
  <2>1. StageOf[r] = "idle" /\ StageOf' = [StageOf EXCEPT ![r] = "open"] /\ UNCHANGED served
    <3>1. StageOf[r] = Stage["idle"] /\ StageOf' = [StageOf EXCEPT ![r] = Stage["registered"]]
      BY <2>0, CallerMoves
    <3>. QED  BY <2>0, <3>1 DEF Stage
  <2>. QED  BY <2>1 DEF Service!Next, Service!Call, Service!Move
<1>3. ASSUME NEW r \in Requests, Submit(r) PROVE [Service!Next]_<<StageOf, served>>
  <2>0. call[r] = "registered" /\ UNCHANGED served
    BY <1>3 DEF Submit
  <2>1. CASE call' = [call EXCEPT ![r] = "waiting"]
    <3>0. StageOf[r] = Stage["registered"] /\ StageOf' = [StageOf EXCEPT ![r] = Stage["waiting"]]
      BY <2>0, <2>1, CallerMoves
    <3>1. StageOf[r] = "open" /\ StageOf' = [StageOf EXCEPT ![r] = "open"] /\ UNCHANGED served
      BY <2>0, <3>0 DEF Stage
    <3>. QED  BY <3>1 DEF StageOf
  <2>2. CASE call' = [call EXCEPT ![r] = "failed"]
    <3>0. StageOf[r] = Stage["registered"] /\ StageOf' = [StageOf EXCEPT ![r] = Stage["failed"]]
      BY <2>0, <2>2, CallerMoves
    <3>1. StageOf[r] = "open" /\ StageOf' = [StageOf EXCEPT ![r] = "failed"] /\ UNCHANGED served
      BY <2>0, <3>0 DEF Stage
    <3>2. served[r] = 0
      BY <1>3 DEF Submit, Place
    <3>. QED  BY <3>1, <3>2 DEF Service!Next, Service!Fail, Service!Move
  <2>. QED  BY <1>3, <2>1, <2>2 DEF Submit
<1>4. CASE Receive
  <2>. DEFINE m == Head(down)
  <2>1. m \in Elements(down) /\ UNCHANGED served
    BY <1>4, TailQueue DEF Receive
  <2>2. CASE m \in pending
    <3>1. call[m] = "waiting" /\ served[m] = 1
      BY <2>1, <2>2 DEF Place
    <3>2. m \in Requests /\ StageOf[m] = "open" /\ StageOf' = [StageOf EXCEPT ![m] = "returned"]
      BY <1>4, <2>2, <3>1, CallerMoves DEF Receive, Stage
    <3>. QED  BY <2>1, <3>1, <3>2 DEF Service!Next, Service!Return, Service!Move
  <2>3. CASE m \notin pending
    BY <1>1, <1>4, <2>1, <2>3 DEF Receive
  <2>. QED  BY <2>2, <2>3
<1>5. CASE TakeFrame
  <2>. DEFINE m == Head(up)
  <2>1. m \in Elements(up) /\ m \in Outgoing /\ UNCHANGED call
    BY <1>5, TailQueue DEF TakeFrame
  <2>2. CASE m # Close /\ served' = [served EXCEPT ![m] = @ + 1]
    <3>1. m \in Requests /\ call[m] = "waiting" /\ served[m] = 0
      BY <2>1, <2>2 DEF Place, Outgoing
    <3>2. StageOf[m] = "open" /\ UNCHANGED StageOf
      BY <2>1, <3>1 DEF StageOf, Stage
    <3>3. served' = [served EXCEPT ![m] = 1]
      BY <2>2, <3>1
    <3>. QED  BY <3>1, <3>2, <3>3 DEF Service!Next, Service!Execute
  <2>3. CASE UNCHANGED served
    BY <1>1, <2>1, <2>3
  <2>. QED  BY <1>5, <2>2, <2>3 DEF TakeFrame
<1>6. CASE \/ AskClose \/ DropHandle \/ SendNext \/ HandleGone \/ StreamEnds \/ SendInitial
           \/ Respond \/ ServerStreamEnds \/ Break \/ UNCHANGED vars
  BY <1>1, <1>6 DEF AskClose, DropHandle, SendNext, HandleGone, StreamEnds, SendInitial,
                    Respond, ServerStreamEnds, Break, vars
<1>. QED  BY <1>2, <1>3, <1>4, <1>5, <1>6 DEF Next

\* ImplementsService: callers of a WsClientHandle see a request-reply service; what
\* is answered was carried out once, what failed was not, for any number of requests.
THEOREM SessionIsService == Spec => ImplementsService
<1>. QED
  BY InitMaps, StepMaps, SpecPlaceInv, PTL DEF Spec, ImplementsService, Service!Spec
=============================================================================
