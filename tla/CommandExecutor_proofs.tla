------------------------ MODULE CommandExecutor_proofs ------------------------
(***************************************************************************)
(* The two parts of command-executor, for every value of their constants.  *)
(*                                                                         *)
(* LocalProcess: what execute collects is complete, and a process that     *)
(* reads to the end of its input gets all of it.  Both follow from Inv: a  *)
(* stream is given up only when nothing more can come, and nobody but the  *)
(* caller's own end closes stdin or kills the process.                     *)
(*                                                                         *)
(* CommandLayers: what comes through any stack of layers.  All follows     *)
(* from LayersInv: what runs is the command as some prefix of the layers   *)
(* made it, and those after the prefix have been entered.                  *)
(***************************************************************************)
EXTENDS LocalProcess, CommandLayers, SequenceTheorems, WellFoundedInduction, TLAPS

Clean == program.bad = [s \in Streams |-> 0]

\* Where the caller is, and what it holds there.
CallerInv ==
    /\ child = "none" <=> at = "new"
    /\ at = "new" => holders = {} /\ open = Streams
    /\ termed \/ at = "terminated" => caller = "service"
    /\ Collects /\ at \in {"held", "waiting"} => holders = {"owner"}
    /\ Collects /\ at = "over" => child = "reaped"
    /\ Collects /\ at \in {"waiting", "over"} => open = {}

\* How the process ended, and what that means for its output.
ProcessInv ==
    /\ child \in {"none", "running"} <=> cause = "none"
    /\ cause = "exit" => Finished
    /\ Clean /\ Collects => cause # "signal"

\* A stream is removed after its last line, and the end told after both.
StreamInv ==
    /\ Clean => \A s \in Streams \ open :
                  child \in {"zombie", "reaped"} /\ read[s] = written[s]
    /\ ended # {} => open = {}

\* Stdin closes under a running process only when all lines are through.
InputInv ==
    caller = "interactive" =>
      /\ Running /\ stdin = "closed" => channel = "closed" /\ forwarded = sent
      /\ program.ends = "input" /\ cause = "exit" =>
            channel = "closed" /\ consumed = sent

\* TypeOK bounds the values of these; as functions they also have a domain.
Counters == read \in [Streams -> Nat] /\ written \in [Streams -> Nat]

Inv == TypeOK /\ Counters /\ CallerInv /\ ProcessInv /\ StreamInv /\ InputInv

-----------------------------------------------------------------------------
(* What a poll does, without the order in which it looks at the streams:   *)
(* it hands over a line, or it removes streams that are lost.              *)
LEMMA PollEffect ==
    ASSUME NEW r, Poll(r)
    PROVE  /\ r \in holders \ ended
           /\ UNCHANGED <<constants, at, process, holders, input>>
           /\ open' \subseteq open /\ \A t \in open \ open' : Lost(t)
           /\ \/ read' = read /\ open' = open /\ ended' = ended /\ started' = TRUE
              \/ /\ UNCHANGED <<started, ended>>
                 /\ \E s \in Streams : HasLine(s) /\ read' = [read EXCEPT ![s] = @ + 1]
              \/ /\ UNCHANGED <<read, started>>
                 /\ ended' = ended \/ (ended' = ended \cup {r} /\ open' = {})
<1>1. \A j \in Ready : j \in {1, 2} /\ HasLine(Polled[j]) /\ Polled[j] \in Streams
  BY DEF Ready, Polled, Streams
<1>2. \A n : \A t \in Passed(n) : t \in open /\ Lost(t)
  BY DEF Passed
<1>3. CASE started /\ Ready # {}
  <2> DEFINE i == CHOOSE j \in Ready : \A k \in Ready : j <= k
  <2>1. i \in Ready
    <3>1. CASE 1 \in Ready
      <4>1. \A k \in Ready : 1 <= k
        BY <1>1
      <4> QED BY <3>1, <4>1
    <3>2. CASE 1 \notin Ready
      <4> PICK k \in Ready : TRUE
        BY <1>3
      <4>1. 2 \in Ready /\ \A j \in Ready : 2 <= j
        BY <1>1, <3>2
      <4> QED BY <4>1
    <3> QED BY <3>1, <3>2
  <2>2. read' = [read EXCEPT ![Polled[i]] = @ + 1] /\ open' = open \ Passed(i - 1)
        /\ UNCHANGED <<started, ended>>
    BY <1>3 DEF Poll
  <2>3. HasLine(Polled[i]) /\ Polled[i] \in Streams
    BY <2>1, <1>1
  <2> HIDE DEF i
  <2>4. open' \subseteq open /\ \A t \in open \ open' : Lost(t)
    BY <1>2, <2>2
  <2> QED BY <2>2, <2>3, <2>4 DEF Poll
<1>4. CASE started /\ Ready = {}
  BY <1>2, <1>4 DEF Poll, Told
<1>5. CASE ~started
  BY <1>5 DEF Poll
<1> QED BY <1>3, <1>4, <1>5

LEMMA InitInv == Init => Inv
<1> SUFFICES ASSUME Init PROVE Inv
  OBVIOUS
<1>1. program.lines \in [Streams -> Nat] /\ program.bad \in [Streams -> Nat]
  BY ProgramsAssumption DEF Init
<1>2. Counters /\ \A s \in Streams : read[s] = 0 /\ written[s] = 0
  BY DEF Init, Counters
<1>3. TypeOK
  <2>1. \A s \in Streams : /\ read[s] \in 0..written[s]
                           /\ written[s] \in 0..program.lines[s]
                           /\ written[s] - read[s] <= Capacity
    BY <1>1, <1>2, BoundsAssumption
  <2>2. termed \in BOOLEAN /\ started \in BOOLEAN
    BY Zenon DEF Init
  <2> QED BY <2>1, <2>2, BoundsAssumption DEF Init, TypeOK
<1>4. CallerInv /\ ProcessInv /\ StreamInv /\ InputInv
  BY DEF Init, CallerInv, ProcessInv, StreamInv, InputInv, Running
<1> QED BY <1>2, <1>3, <1>4 DEF Inv

-----------------------------------------------------------------------------
(* One lemma for each part of the system: the process, its input, and the  *)
(* caller; in each, one step per action.                                   *)
LEMMA ChildKeeps == Inv /\ ChildStep => Inv'
<1> SUFFICES ASSUME Inv, ChildStep PROVE Inv'
  OBVIOUS
<1> USE DEF Inv, constants, process, stream, input
<1>t. /\ program.lines \in [Streams -> Nat] /\ program.bad \in [Streams -> Nat]
      /\ Capacity \in Nat
  BY ProgramsAssumption, BoundsAssumption DEF TypeOK
<1>1. ASSUME NEW s \in Streams, Write(s) PROVE Inv'
  <2>1. /\ Counters'
        /\ \A t \in Streams : written'[t] = IF t = s THEN written[t] + 1 ELSE written[t]
    BY <1>1 DEF Write, Counters
  <2>2. TypeOK'
    BY <1>1, <1>t, <2>1 DEF Write, TypeOK, Counters
  <2>3. CallerInv' /\ InputInv'
    BY <1>1 DEF Write, CallerInv, InputInv, Running, Collects
  <2>4. ProcessInv' /\ StreamInv'
    BY <1>1, <2>1
       DEF Write, ProcessInv, StreamInv, Running, Clean, Collects, Finished, TypeOK
  <2> QED BY <2>1, <2>2, <2>3, <2>4
<1>2. ASSUME NEW s \in Streams, BrokenPipe(s) PROVE Inv'
  <2>1. TypeOK' /\ Counters'
    BY <1>2 DEF BrokenPipe, Dies, TypeOK, Counters
  <2>2. CallerInv' /\ StreamInv' /\ InputInv'
    BY <1>2 DEF BrokenPipe, Dies, CallerInv, StreamInv, InputInv, Running, Collects, Clean
  <2>3. ~(Clean /\ Collects)
    BY <1>2 DEF BrokenPipe, CallerInv, StreamInv, ReadEnd, Running, TypeOK, Collects
  <2>4. ProcessInv'
    BY <1>2, <2>3 DEF BrokenPipe, Dies, ProcessInv, Running, Clean, Collects
  <2> QED BY <2>1, <2>2, <2>4
<1>3. CASE ReadLine
  <2>1. TypeOK' /\ Counters'
    BY <1>3 DEF ReadLine, TypeOK, Counters
  <2>2. CallerInv' /\ StreamInv' /\ InputInv' /\ ProcessInv'
    BY <1>3
       DEF ReadLine, CallerInv, StreamInv, InputInv, ProcessInv, Running, Collects, Clean, Finished
  <2> QED BY <2>1, <2>2
<1>4. CASE Exit
  <2>1. TypeOK' /\ Counters'
    BY <1>4 DEF Exit, Dies, TypeOK, Counters
  <2>2. CallerInv' /\ StreamInv' /\ ProcessInv'
    BY <1>4
       DEF Exit, Dies, CallerInv, StreamInv, ProcessInv, Running, Collects, Clean, Finished
  <2>3. InputInv'
    BY <1>4 DEF Exit, Dies, InputInv, EndOfInput, Running
  <2> QED BY <2>1, <2>2, <2>3
<1>5. CASE Terminated
  <2>1. TypeOK' /\ Counters'
    BY <1>5 DEF Terminated, Dies, TypeOK, Counters
  <2>2. CallerInv' /\ StreamInv' /\ InputInv'
    BY <1>5 DEF Terminated, Dies, CallerInv, StreamInv, InputInv, Running, Collects, Clean
  <2>3. ProcessInv'
    BY <1>5 DEF Terminated, Dies, ProcessInv, CallerInv, Running, Clean, Collects
  <2> QED BY <2>1, <2>2, <2>3
<1>6. CASE Reap
  <2>1. TypeOK' /\ Counters'
    BY <1>6 DEF Reap, TypeOK, Counters
  <2>2. CallerInv' /\ StreamInv' /\ InputInv' /\ ProcessInv'
    BY <1>6
       DEF Reap, CallerInv, StreamInv, InputInv, ProcessInv, Running, Collects, Clean, Finished
  <2> QED BY <2>1, <2>2
<1> QED BY <1>1, <1>2, <1>3, <1>4, <1>5, <1>6 DEF ChildStep

LEMMA InputKeeps == Inv /\ (InputStep \/ Send \/ CloseChannel) => Inv'
<1> SUFFICES ASSUME Inv, InputStep \/ Send \/ CloseChannel PROVE Inv'
  OBVIOUS
<1> USE DEF Inv, constants, process, stream, input
<1>1. UNCHANGED <<constants, at, process, stream, holders>>
  BY DEF InputStep, TakeStdin, Forward, ForwarderEnds, Send, CloseChannel
<1>2. TypeOK'
  <2>1. MaxInput \in Nat
    BY BoundsAssumption
  <2> QED BY <1>1, <2>1
             DEF InputStep, TakeStdin, Forward, ForwarderEnds, Send, CloseChannel, TypeOK
<1>3. Counters' /\ CallerInv' /\ ProcessInv' /\ StreamInv'
  BY <1>1 DEF Counters, CallerInv, ProcessInv, StreamInv, Collects, Finished, Clean
<1>4. InputInv'
  <2>1. CASE TakeStdin
    BY <2>1 DEF TakeStdin, InputInv, ProcessInv, Running
  <2>2. CASE Forward
    BY <2>2 DEF Forward, InputInv, TypeOK, Running
  <2>3. CASE ForwarderEnds
    BY <2>3 DEF ForwarderEnds, Drained, InputInv, Running
  <2>4. CASE Send
    BY <2>4 DEF Send, InputInv, Running
  <2>5. CASE CloseChannel
    BY <2>5 DEF CloseChannel, InputInv, Running
  <2> QED BY <2>1, <2>2, <2>3, <2>4, <2>5 DEF InputStep
<1> QED BY <1>2, <1>3, <1>4

LEMMA PollKeeps ==
    ASSUME Inv, NEW r \in Readers \cup {"owner"}, Poll(r)
    PROVE  Inv'
<1> USE DEF Inv
<1>1. /\ UNCHANGED <<caller, program, at, child, cause, termed, written, consumed,
                     holders, stdin, channel, sent, forwarded>>
      /\ open' \subseteq open /\ holders # {}
  BY PollEffect DEF constants, process, input
<1>2. started' \in BOOLEAN /\ ended' \subseteq Readers \cup {"owner"}
  BY PollEffect DEF TypeOK
<1>3. Counters' /\ \A s \in Streams : /\ read'[s] \in 0..written[s]
                                      /\ read'[s] >= read[s]
                                      /\ read'[s] # read[s] => HasLine(s)
  <2>1. CASE read' = read
    BY <1>1, <2>1 DEF Counters, TypeOK
  <2>2. CASE \E s \in Streams : HasLine(s) /\ read' = [read EXCEPT ![s] = @ + 1]
    <3> PICK s \in Streams : HasLine(s) /\ read' = [read EXCEPT ![s] = @ + 1]
      BY <2>2
    <3> QED BY <1>1 DEF Counters, TypeOK, HasLine
  <2> QED BY <2>1, <2>2, PollEffect
<1>4. TypeOK'
  <2>1. \A s \in Streams : /\ read'[s] \in 0..written'[s]
                           /\ written'[s] \in 0..program'.lines[s]
                           /\ written'[s] - read'[s] <= Capacity
    BY <1>1, <1>3, BoundsAssumption DEF Counters, TypeOK
  <2> QED BY <1>1, <1>2, <2>1 DEF TypeOK
<1>5. at # "new" /\ child # "none"
  BY <1>1 DEF CallerInv
<1>6. CallerInv' /\ ProcessInv' /\ InputInv'
  BY <1>1, <1>5
     DEF CallerInv, ProcessInv, InputInv, Running, Collects, Clean, Finished, TypeOK
<1>7. StreamInv'
  <2>1. ASSUME Clean, NEW s \in Streams \ open'
        PROVE  child \in {"zombie", "reaped"} /\ read'[s] = written[s]
    <3>1. CASE s \notin open
      BY <2>1, <3>1, <1>3 DEF StreamInv, HasLine
    <3>2. CASE s \in open
      <4>1. Lost(s) /\ program.bad[s] = 0
        BY <2>1, <3>2, PollEffect DEF Clean
      <4>2. read[s] = written[s] /\ ~Running
        BY <4>1 DEF Lost, Counters
      <4> QED BY <4>2, <1>3, <1>5 DEF HasLine, Running, TypeOK, Counters
    <3> QED BY <3>1, <3>2
  <2>2. ended' # {} => open' = {}
    BY PollEffect DEF StreamInv
  <2> QED BY <1>1, <2>1, <2>2 DEF StreamInv, Clean
<1> QED BY <1>3, <1>4, <1>6, <1>7

LEMMA CallerKeeps == Inv /\ CallerStep => Inv'
<1> SUFFICES ASSUME Inv, CallerStep PROVE Inv'
  OBVIOUS
<1> USE DEF Inv, constants, process, stream, input
<1>1. CASE Launch
  <2>1. TypeOK' /\ Counters'
    BY <1>1 DEF Launch, TypeOK, Counters
  <2>2. CallerInv' /\ ProcessInv' /\ StreamInv' /\ InputInv'
    BY <1>1
       DEF Launch, CallerInv, ProcessInv, StreamInv, InputInv, Running, Collects, Clean, Finished
  <2> QED BY <2>1, <2>2
<1>2. CASE OwnerPolls
  BY <1>2, PollKeeps DEF OwnerPolls
<1>3. CASE Collected
  <2>1. TypeOK' /\ Counters'
    BY <1>3 DEF Collected, TypeOK, Counters
  <2>2. CallerInv' /\ ProcessInv' /\ StreamInv' /\ InputInv'
    BY <1>3
       DEF Collected, CallerInv, ProcessInv, StreamInv, InputInv, Running, Collects, Clean, Finished
  <2> QED BY <2>1, <2>2
<1>4. CASE Wait
  <2>1. TypeOK' /\ Counters'
    BY <1>4 DEF Wait, TypeOK, Counters
  <2>2. CallerInv' /\ ProcessInv' /\ StreamInv' /\ InputInv'
    BY <1>4
       DEF Wait, CallerInv, ProcessInv, StreamInv, InputInv, Running, Collects, Clean, Finished
  <2> QED BY <2>1, <2>2
<1>5. CASE ReturnStream
  <2>1. TypeOK' /\ Counters'
    BY <1>5 DEF ReturnStream, DropHandle, Dies, TypeOK, Counters
  <2>2. CallerInv' /\ ProcessInv' /\ StreamInv' /\ InputInv'
    BY <1>5
       DEF ReturnStream, DropHandle, Dies, CallerInv, ProcessInv, StreamInv, InputInv,
                Running, Collects, Clean, Finished
  <2> QED BY <2>1, <2>2
<1>6. CASE DropInfo
  <2>1. TypeOK' /\ Counters'
    BY <1>6 DEF DropInfo, DropHandle, Dies, TypeOK, Counters
  <2>2. CallerInv' /\ ProcessInv' /\ StreamInv' /\ InputInv'
    BY <1>6 DEF DropInfo, DropHandle, Dies, CallerInv, ProcessInv, StreamInv, InputInv,
                Running, Collects, Clean, Finished
  <2> QED BY <2>1, <2>2
<1> QED BY <1>1, <1>2, <1>3, <1>4, <1>5, <1>6 DEF CallerStep

LEMMA ServiceKeeps ==
    Inv /\ (Terminate \/ \E r \in Readers : StreamEvents(r) \/ ReaderPolls(r)) => Inv'
<1> SUFFICES ASSUME Inv, Terminate \/ \E r \in Readers : StreamEvents(r) \/ ReaderPolls(r)
             PROVE  Inv'
  OBVIOUS
<1> USE DEF Inv, constants, process, stream, input
<1>1. CASE Terminate
  <2>1. TypeOK' /\ Counters'
    BY <1>1 DEF Terminate, TypeOK, Counters
  <2>2. CallerInv' /\ ProcessInv' /\ StreamInv' /\ InputInv'
    BY <1>1
       DEF Terminate, CallerInv, ProcessInv, StreamInv, InputInv, Running, Collects, Clean, Finished
  <2> QED BY <2>1, <2>2
<1>2. ASSUME NEW r \in Readers, StreamEvents(r) PROVE Inv'
  <2>1. TypeOK' /\ Counters'
    BY <1>2 DEF StreamEvents, TypeOK, Counters
  <2>2. CallerInv' /\ ProcessInv' /\ StreamInv' /\ InputInv'
    BY <1>2
       DEF StreamEvents, CallerInv, ProcessInv, StreamInv, InputInv, Running, Collects, Clean, Finished
  <2> QED BY <2>1, <2>2
<1>3. ASSUME NEW r \in Readers, ReaderPolls(r) PROVE Inv'
  BY <1>3, PollKeeps DEF ReaderPolls
<1> QED BY <1>1, <1>2, <1>3

LEMMA StepInv == Inv /\ [Next]_vars => Inv'
<1> SUFFICES ASSUME Inv, [Next]_vars PROVE Inv'
  OBVIOUS
<1>1. CASE UNCHANGED vars
  BY <1>1 DEF vars, constants, process, stream, input, Inv, Counters, TypeOK, CallerInv,
              ProcessInv, StreamInv, InputInv, Running, Collects, Clean, Finished
<1>2. CASE Next
  BY <1>2, ChildKeeps, InputKeeps, CallerKeeps, ServiceKeeps DEF Next
<1> QED BY <1>1, <1>2

LEMMA InvHolds == Spec => []Inv
BY InitInv, StepInv, PTL DEF Spec

-----------------------------------------------------------------------------
(* The declared types of the state of the process, its pipes and its       *)
(* caller, the capacity of the pipes among them.                           *)
THEOREM TypeCorrect == Spec => []TypeOK
BY InvHolds, PTL DEF Inv

(* Launcher::execute returns all the output of a process that writes text, *)
(* and does not kill it: the stream is over only when both of its pipes    *)
(* are, and these only when the process has ended and everything is read.  *)
THEOREM OutputCollected == Spec => []OutputIsComplete
<1>1. Inv => OutputIsComplete
  <2> SUFFICES ASSUME Inv, Collects, at = "over", program.bad = [s \in Streams |-> 0]
               PROVE  read = program.lines /\ cause = "exit"
    BY DEF OutputIsComplete
  <2>1. cause = "exit" /\ open = {}
    BY DEF Inv, CallerInv, ProcessInv, TypeOK, Clean
  <2>2. \A s \in Streams : read[s] = program.lines[s]
    BY <2>1 DEF Inv, ProcessInv, StreamInv, Finished, Clean
  <2>3. program.lines \in [Streams -> Nat] /\ read \in [Streams -> Nat]
    BY ProgramsAssumption DEF Inv, TypeOK, Counters
  <2> QED BY <2>1, <2>2, <2>3
<1> QED BY <1>1, InvHolds, PTL

(* StdinHandle::forward_channel: a process that reads to the end of its    *)
(* input has then had every line sent to it, as stdin closes under it only *)
(* when the channel is closed and drained.                                 *)
THEOREM InputDelivered == Spec => []InputIsComplete
<1>1. Inv => InputIsComplete
  BY DEF Inv, InputInv, InputIsComplete
<1> QED BY <1>1, InvHolds, PTL

-----------------------------------------------------------------------------
(* Layers. *)

RemoteAt(i) == layers[i].kind # "local"

\* What of a command its text is made of.
SameText(c, d) ==
    c.program = d.program /\ c.to = d.to /\ c.flags = d.flags /\ c.args = d.args
IsCommand(c) == DOMAIN c = {"program", "to", "flags", "args", "env", "dir"}
                /\ c = [f \in DOMAIN c |-> c[f]]

\* Of the first k layers, j is the remote one added last.
Outermost(j, k) == j \in 1..k /\ RemoteAt(j) /\ \A i \in (j+1)..k : ~ RemoteAt(i)
NoneRemote(k) == \A i \in 1..k : ~ RemoteAt(i)

\* The text of c is the one of the outermost remote layer, or the original's.
TextAt(w, i, c) ==
    \/ NoneRemote(i) /\ SameText(c, Original)
    \/ \E j \in 1..i : Outermost(j, i) /\ SameText(c, WrapCommand(layers[j], w[j-1]))

\* w[i] is what the first i layers make of the command.
Wrapping(w, k) ==
    /\ w = [i \in 0..k |-> w[i]] /\ w[0] = Original
    /\ \A i \in 1..k : w[i] = WrapCommand(layers[i], w[i-1])
    /\ \A i \in 0..k : IsCommand(w[i]) /\ TextAt(w, i, w[i])

\* What the caller called; before any shell has read it, or quoted where it must be.
Kept == current.program = called /\ current.args = Original.args
Reaches == (path = <<>> \/ Quotable) => Kept

\* What runs is the command as the first k layers made it.
Unwrapped(w, k) ==
    \/ NoneRemote(k) /\ current.program \notin {"ssh", "docker"} /\ Reaches
    \/ \E j \in 1..k : Outermost(j, k) /\ SameText(current, WrapCommand(layers[j], w[j-1]))

\* q names the remote layers from place m on, in the order they were added.
NamesFrom(q, m) ==
    \E place \in [DOMAIN q -> DOMAIN layers] :
      /\ \A i, k \in DOMAIN q : i < k => place[i] < place[k]
      /\ \A i \in DOMAIN layers : i >= m /\ RemoteAt(i) <=> \E x \in DOMAIN q : place[x] = i
      /\ \A i \in DOMAIN q : q[i] = layers[place[i]].name

Names == {l.name : l \in Layers} \cup {"service"}

LayersTyped ==
    /\ mode \in {"execute", "attach"} /\ line \in Lines /\ called \in {"app", "odd"}
    /\ layers \in Seq(Layers) /\ left \in Seq(Layers)
    /\ phase \in {"build", "wrap", "run", "arrived", "attached", "failed"}
    /\ path \in Seq(Names) /\ handle \in Seq(Names)
    /\ phase \in {"build", "wrap", "attached"} => path = <<>>
    /\ phase \in {"run", "arrived"} => mode = "execute"
    /\ phase = "attached" => mode = "attach" /\ left = <<>>

WrapsOK ==
    /\ phase = "build" => command = Original
    /\ phase = "wrap" /\ mode = "execute" =>
         /\ Len(left) <= Len(layers)
         /\ \A i \in DOMAIN left : left[i] = layers[Len(layers) - Len(left) + i]
         /\ \E w : /\ Wrapping(w, Len(layers) - Len(left))
                   /\ command = w[Len(layers) - Len(left)]

\* The layer entered last is the one whose settings hold.
SettingsOK ==
    path # <<>> =>
      \E i \in DOMAIN layers :
        LET l == layers[i] IN
        /\ l.name = Last(path)
        /\ ~ (l.kind = "ssh" /\ l.env /\ l.dir) =>
             current.env = EnvOf(l) /\ current.dir = DirOf(l)

RunsOK ==
    /\ phase \in {"run", "arrived"} =>
         \E w : /\ Wrapping(w, Len(layers))
                /\ \E k \in 0..Len(layers) :
                     Unwrapped(w, k) /\ NamesFrom(Reverse(path), k + 1)
    /\ SettingsOK
    /\ phase = "arrived" => current.program \notin {"ssh", "docker"}

HandleOK ==
    phase \in {"wrap", "attached"} /\ mode = "attach" =>
      /\ Len(left) <= Len(layers)
      /\ \A i \in DOMAIN left : left[i] = layers[Len(left) + 1 - i]
      /\ \E q \in Seq(Names) : handle = q \o <<"service">> /\ NamesFrom(q, Len(left) + 1)

LayersInv == LayersTyped /\ WrapsOK /\ RunsOK /\ HandleOK

-----------------------------------------------------------------------------
(* Sequences.  What FlattenSeq makes of sequences of one element each: the *)
(* least place where two functions that obey its equation differ is none.  *)

LEMMA Least ==
  ASSUME NEW D \in SUBSET Nat, D # {}
  PROVE  \E i \in D : \A m \in D : i <= m
<1>1. PICK i \in D : \A m \in D : ~ (<<m, i>> \in OpToRel(<, Nat))
  BY NatLessThanWellFounded, WFMin
<1>2. \A m \in D : ~ (m < i)
  BY <1>1 DEF OpToRel
<1> QED  BY <1>2

LEMMA FlattenSingles ==
  ASSUME NEW S, NEW x \in Seq(S)
  PROVE  FlattenSeq([i \in 1..Len(x) |-> <<x[i]>>]) = x
<1> DEFINE n == Len(x)
           q == [i \in 1..n |-> <<x[i]>>]
           P(f) == f = [i \in 1..n |-> IF i = 1 THEN q[i] ELSE f[i-1] \o q[i]]
           g == [i \in 1..n |-> [j \in 1..i |-> x[j]]]
<1>1. n \in Nat /\ Len(q) = n /\ DOMAIN q = 1..n /\ x = [j \in 1..n |-> x[j]]
  OBVIOUS
<1>2. CASE n = 0
  BY <1>1, <1>2 DEF FlattenSeq
<1>3. CASE n # 0
  <2>1. \A i \in 1..n : g[i] \in Seq(S) /\ Len(g[i]) = i
    OBVIOUS
  <2>2. \A i \in 2..n : g[i] = g[i-1] \o q[i]
    <3> SUFFICES ASSUME NEW i \in 2..n  PROVE g[i] = g[i-1] \o q[i]
      OBVIOUS
    <3>1. i - 1 \in 1..n /\ i \in 1..n /\ g[i-1] \in Seq(S) /\ q[i] = <<x[i]>> /\ x[i] \in S
      BY <1>1, <2>1
    <3>2. g[i-1] \o q[i] = [j \in 1..i |-> IF j <= i - 1 THEN g[i-1][j] ELSE q[i][j - (i-1)]]
      BY <3>1, <2>1
    <3> QED  BY <3>1, <3>2
  <2>3. P(g)
    <3>1. g[1] = q[1]
      BY <1>3
    <3>2. \A i \in 1..n : g[i] = (IF i = 1 THEN q[i] ELSE g[i-1] \o q[i])
      <4> SUFFICES ASSUME NEW i \in 1..n  PROVE g[i] = (IF i = 1 THEN q[i] ELSE g[i-1] \o q[i])
        OBVIOUS
      <4>1. i = 1 \/ i \in 2..n
        BY <1>1
      <4> HIDE DEF g, q
      <4> QED  BY <2>2, <3>1, <4>1
    <3>3. g = [i \in 1..n |-> g[i]]
      OBVIOUS
    <3> HIDE DEF g, q
    <3> QED  BY <3>2, <3>3
  <2>4. ASSUME NEW f, P(f)  PROVE f = g
    <3> DEFINE D == {i \in 1..n : f[i] # g[i]}
    <3>1. SUFFICES ASSUME D # {}  PROVE FALSE
      <4>1. f = [i \in 1..n |-> f[i]] /\ g = [i \in 1..n |-> g[i]]
        <5>1. g = [i \in 1..n |-> g[i]]
          OBVIOUS
        <5> HIDE DEF g, q
        <5> QED  BY <2>4, <5>1
      <4> HIDE DEF g, q
      <4> QED  BY <4>1
    <3>0. D \in SUBSET Nat
      BY <1>1
    <3>2. PICK i \in D : \A m \in D : i <= m
      <4> HIDE DEF D
      <4> QED  BY <3>0, <3>1, Least
    <3>3. /\ i \in 1..n /\ f[i] # g[i]
          /\ \A m \in 1..n : m < i => f[m] = g[m]
      BY <3>2, <1>1
    <3>4. /\ f[i] = (IF i = 1 THEN q[i] ELSE f[i-1] \o q[i])
          /\ g[i] = (IF i = 1 THEN q[i] ELSE g[i-1] \o q[i])
      <4> HIDE DEF g, q, D
      <4> QED  BY <2>3, <2>4, <3>3
    <3>5. i # 1 => i - 1 \in 1..n /\ i - 1 < i
      BY <3>3, <1>1
    <3> HIDE DEF g, q, D
    <3> QED  BY <3>3, <3>4, <3>5
  <2>5. (CHOOSE f : P(f)) = g
    BY <2>3, <2>4, Zenon
  <2>6. FlattenSeq(q) = (CHOOSE f : P(f))[n]
    BY <1>1, <1>3 DEF FlattenSeq
  <2>7. g[n] = x
    BY <1>1, <1>3
  <2> QED  BY <2>5, <2>6, <2>7
<1> QED  BY <1>2, <1>3

-----------------------------------------------------------------------------
(* The text of a command, and the shells. *)

LEMMA TextOnly ==
  ASSUME NEW c, NEW d, SameText(c, d)
  PROVE  CommandToShellString(c) = CommandToShellString(d)
BY DEF SameText, CommandToShellString

LEMMA RemoteText ==
  ASSUME NEW l \in Layers, l.kind # "local", NEW c, IsCommand(c)
  PROVE  LET d == WrapCommand(l, c)
             s == Script(IF l.kind = "ssh" THEN EnvOf(l) ELSE {},
                           IF l.kind = "ssh" THEN DirOf(l) ELSE None,
                           CommandToShellString(c))
         IN  /\ IsCommand(d) /\ d.to = l.name /\ d.args = <<s>>
             /\ d.program = (IF l.kind = "ssh" THEN "ssh" ELSE "docker")
             /\ l.kind # "ssh" => d.flags = [env |-> EnvOf(l), dir |-> DirOf(l)]
<1>1. l.kind \in {"ssh", "docker"}
  BY LayersAssumption
<1>2. CASE l.kind = "docker"
  BY <1>2 DEF WrapCommand, WrapDocker, Command, IsCommand
<1>3. CASE l.kind = "ssh"
  <2>1. SameText(InLayer(c, l), c)
    BY DEF InLayer, IsCommand, SameText
  <2>2. CommandToShellString(InLayer(c, l)) = CommandToShellString(c)
    BY <2>1, TextOnly
  <2> QED  BY <1>3, <2>2 DEF WrapCommand, WrapSsh, Command, IsCommand
<1> QED  BY <1>1, <1>2, <1>3

LEMMA LocalText ==
  ASSUME NEW l \in Layers, l.kind = "local", NEW c, IsCommand(c)
  PROVE  IsCommand(WrapCommand(l, c)) /\ SameText(WrapCommand(l, c), c)
BY DEF WrapCommand, WrapLocal, InLayer, IsCommand, SameText

\* A script passes a shell as it is: it is quoted, or need not be.
LEMMA ShellOfScript ==
  ASSUME NEW c, NEW a, NEW d, NEW b, c.args = <<Script(a, d, b)>>
  PROVE  Shell(CommandToShellString(c).words) = c.args
<1> DEFINE s == Script(a, d, b)
           q == [word |-> s, quoted |-> Special(s)]
           words == [i \in {1} |-> q]
<1>1. CommandToShellString(c).words = words
  BY DEF CommandToShellString
<1>2. s.text = "script"
  BY DEF Script
<1>3. ShellPasses(q) = <<s>>
  BY <1>2 DEF ShellPasses, Special
<1>4. BeforeComment(words) = words
  BY <1>2 DEF BeforeComment
<1>5. [i \in DOMAIN words |-> ShellPasses(words[i])] = [i \in 1..Len(<<s>>) |-> <<(<<s>>)[i]>>]
  <2> HIDE DEF q, s
  <2> QED  BY <1>3
<1>6. FlattenSeq([i \in 1..Len(<<s>>) |-> <<(<<s>>)[i]>>]) = <<s>>
  <2>1. <<s>> \in Seq({s})
    OBVIOUS
  <2> HIDE DEF s
  <2> QED  BY <2>1, FlattenSingles
<1> QED  BY <1>1, <1>4, <1>5, <1>6 DEF Shell

LEMMA ShellOfArguments ==
  ASSUME line \in Lines, Quotable
  PROVE  Shell(CommandToShellString(Original).words) = Original.args
<1> DEFINE x == Original.args
           words == [i \in DOMAIN x |-> [word |-> x[i], quoted |-> Special(x[i])]]
<1>1. line \in Seq(Texts)
  BY LayersAssumption
<1>2. x = [i \in 1..Len(line) |-> Word(line[i])]
  BY <1>1 DEF Original, Command
<1>3. CommandToShellString(Original).words = words
  BY DEF CommandToShellString
<1>4. x \in Seq({Word(t) : t \in Texts}) /\ DOMAIN x = 1..Len(x) /\ Len(x) = Len(line)
  BY <1>1, <1>2
<1>5. \A i \in DOMAIN x : x[i].text \in {"plain", "blank", "meta"}
  BY <1>1, <1>2 DEF Word, Texts, Quotable, Unquoted
<1>6. \A i \in DOMAIN words : words[i].word = x[i] /\ words[i].quoted = Special(x[i])
  OBVIOUS
<1>7. \A i \in DOMAIN words : ShellPasses(words[i]) = <<x[i]>>
  <2> SUFFICES ASSUME NEW i \in DOMAIN x  PROVE ShellPasses(words[i]) = <<x[i]>>
    OBVIOUS
  <2>0. i \in DOMAIN words
    OBVIOUS
  <2> HIDE DEF words, x
  <2>1. x[i].text = "plain" \/ Special(x[i])
    BY <1>5 DEF Special
  <2>2. x[i].text = "plain" \/ words[i].quoted
    BY <1>6, <2>0, <2>1
  <2>3. words[i].word = x[i]
    BY <1>6, <2>0
  <2> QED  BY <1>5, <2>2, <2>3 DEF ShellPasses
<1>8. BeforeComment(words) = words
  <2>1. DOMAIN words = DOMAIN x
    OBVIOUS
  <2> HIDE DEF words, x
  <2> QED  BY <1>5, <1>6, <2>1 DEF BeforeComment
<1>9. [i \in DOMAIN words |-> ShellPasses(words[i])] = [i \in 1..Len(x) |-> <<x[i]>>]
  <2>1. DOMAIN words = 1..Len(x)
    BY <1>4
  <2> HIDE DEF words, x
  <2> QED  BY <1>7, <2>1
<1>10. Shell(words) = x
  <2> HIDE DEF words, x
  <2>1. FlattenSeq([i \in 1..Len(x) |-> <<x[i]>>]) = x
    BY <1>4, FlattenSingles
  <2> QED  BY <1>8, <1>9, <2>1 DEF Shell
<1> QED  BY <1>3, <1>10

-----------------------------------------------------------------------------
(* Names in the order of the layers. *)

LEMMA NoNames ==
  ASSUME layers \in Seq(Layers)
  PROVE  NamesFrom(<<>>, Len(layers) + 1)
<1> DEFINE place == [i \in {} |-> 1]
<1>1. DOMAIN <<>> = {} /\ place \in [DOMAIN <<>> -> DOMAIN layers]
  OBVIOUS
<1>2. \A i \in DOMAIN layers : ~ (i >= Len(layers) + 1)
  OBVIOUS
<1> QED  BY <1>1, <1>2 DEF NamesFrom

LEMMA SkipLocal ==
  ASSUME layers \in Seq(Layers), NEW q, NEW j \in Nat, NEW k \in Nat, j <= k,
         \A i \in (j+1)..k : ~ RemoteAt(i), NamesFrom(q, k + 1)
  PROVE  NamesFrom(q, j + 1)
<1>1. \A i \in DOMAIN layers : (i >= j + 1 /\ RemoteAt(i)) <=> (i >= k + 1 /\ RemoteAt(i))
  OBVIOUS
<1> QED  BY <1>1 DEF NamesFrom

LEMMA PrependName ==
  ASSUME layers \in Seq(Layers), NEW q \in Seq(Names), NEW m \in DOMAIN layers,
         RemoteAt(m), NamesFrom(q, m + 1)
  PROVE  NamesFrom(<<layers[m].name>> \o q, m)
<1> DEFINE p == <<layers[m].name>> \o q
           n == Len(q)
<1>1. /\ n \in Nat /\ DOMAIN q = 1..n /\ DOMAIN p = 1..(n + 1) /\ p[1] = layers[m].name
      /\ \A i \in 2..(n + 1) : i - 1 \in 1..n /\ p[i] = q[i - 1]
  <2>1. layers[m].name \in Names
    BY DEF Names
  <2> QED  BY <2>1
<1>2. PICK place \in [DOMAIN q -> DOMAIN layers] :
           /\ \A i, k \in DOMAIN q : i < k => place[i] < place[k]
           /\ \A i \in DOMAIN layers : i >= m + 1 /\ RemoteAt(i) <=> \E x \in DOMAIN q : place[x] = i
           /\ \A i \in DOMAIN q : q[i] = layers[place[i]].name
  BY DEF NamesFrom
<1> DEFINE to == [i \in 1..(n + 1) |-> IF i = 1 THEN m ELSE place[i - 1]]
<1> HIDE DEF p, n
<1>3. to \in [DOMAIN p -> DOMAIN layers]
  BY <1>1, <1>2
<1>4. \A x \in DOMAIN q : place[x] \in DOMAIN layers /\ place[x] >= m + 1
  BY <1>2
<1>5. \A i, k \in DOMAIN p : i < k => to[i] < to[k]
  <2> SUFFICES ASSUME NEW i \in 1..(n+1), NEW k \in 1..(n+1), i < k  PROVE to[i] < to[k]
    BY <1>1
  <2>1. k # 1 /\ k - 1 \in 1..n /\ to[k] = place[k - 1]
    BY <1>1
  <2>2. CASE i = 1
    <3>1. to[i] = m /\ m \in Nat /\ DOMAIN layers \subseteq Nat
      BY <2>2
    <3>2. k - 1 \in DOMAIN q /\ place[k - 1] \in Nat /\ place[k - 1] >= m + 1
      BY <1>1, <1>4, <2>1, <3>1
    <3> QED  BY <2>1, <3>1, <3>2
  <2>3. CASE i # 1
    <3>1. i - 1 \in 1..n /\ to[i] = place[i - 1] /\ i - 1 < k - 1
      BY <1>1, <2>3
    <3> QED  BY <1>1, <1>2, <2>1, <3>1
  <2> QED  BY <2>2, <2>3
<1>6. \A i \in DOMAIN layers : (i >= m /\ RemoteAt(i)) <=> \E x \in DOMAIN p : to[x] = i
  <2> SUFFICES ASSUME NEW i \in DOMAIN layers
               PROVE  (i >= m /\ RemoteAt(i)) <=> \E x \in DOMAIN p : to[x] = i
    OBVIOUS
  <2>1. to[1] = m /\ 1 \in DOMAIN p
    BY <1>1
  <2>2. \A x \in DOMAIN q : x + 1 \in DOMAIN p /\ to[x + 1] = place[x]
    BY <1>1
  <2>3. \A x \in DOMAIN p : x = 1 \/ (x - 1 \in DOMAIN q /\ to[x] = place[x - 1])
    BY <1>1
  <2>4. i >= m <=> i = m \/ i >= m + 1
    OBVIOUS
  <2> HIDE DEF to
  <2> QED  BY <1>2, <2>1, <2>2, <2>3, <2>4
<1>7. \A i \in DOMAIN p : p[i] = layers[to[i]].name
  BY <1>1, <1>2
<1> QED  BY <1>3, <1>5, <1>6, <1>7 DEF NamesFrom, p

LEMMA ReverseAppend ==
  ASSUME NEW S, NEW s \in Seq(S), NEW e \in S
  PROVE  Reverse(Append(s, e)) = <<e>> \o Reverse(s) /\ Reverse(s) \in Seq(S)
BY DEF Reverse

-----------------------------------------------------------------------------
(* The steps. *)

LEMMA InitLayers == ASSUME LayersInit  PROVE LayersInv
<1>1. LayersTyped
  BY LayersAssumption DEF LayersInit, LayersTyped
<1> QED  BY <1>1 DEF LayersInit, LayersInv, WrapsOK, RunsOK, SettingsOK, HandleOK

LEMMA WithLayerOK ==
  ASSUME LayersInv, NEW l \in Layers, WithLayer(l)
  PROVE  LayersInv'
<1> USE DEF WithLayer
<1>1. LayersTyped'
  BY DEF LayersInv, LayersTyped
<1>2. WrapsOK'
  BY DEF LayersInv, WrapsOK, Original
<1>3. RunsOK'
  BY DEF LayersInv, LayersTyped, RunsOK, SettingsOK
<1>4. HandleOK'
  BY DEF HandleOK
<1> QED  BY <1>1, <1>2, <1>3, <1>4 DEF LayersInv

LEMMA OriginalOK ==
  /\ IsCommand(Original) /\ SameText(Original, Original)
  /\ Original.program = called
BY DEF IsCommand, SameText, Original, Command

LEMMA WrappingStarts ==
  Wrapping([i \in 0..0 |-> Original], 0)
<1> DEFINE w == [i \in 0..0 |-> Original]
<1>1. w = [i \in 0..0 |-> w[i]] /\ w[0] = Original
  OBVIOUS
<1>2. \A i \in 0..0 : i = 0 /\ NoneRemote(i)
  BY DEF NoneRemote
<1> HIDE DEF w
<1>3. Wrapping(w, 0)
  BY <1>1, <1>2, OriginalOK DEF Wrapping, TextAt
<1> QED  BY <1>3 DEF w

LEMMA ExecuteOK ==
  ASSUME LayersInv, Execute
  PROVE  LayersInv'
<1> USE DEF Execute, given, Fold
<1>1. LayersTyped'
  BY DEF LayersInv, LayersTyped
<1>2. WrapsOK'
  <2>1. layers \in Seq(Layers) /\ left' = layers /\ layers' = layers /\ line' = line /\ called' = called
    BY DEF LayersInv, LayersTyped
  <2>2. Len(layers') - Len(left') = 0 /\ Len(left') <= Len(layers')
        /\ \A i \in DOMAIN left' : left'[i] = layers'[0 + i]
    BY <2>1
  <2>3. command' = [i \in 0..0 |-> Original'][0]
    BY DEF LayersInv, WrapsOK, Original
  <2>4. Wrapping([i \in 0..0 |-> Original], 0)'
    BY WrappingStarts, <2>1 DEF Wrapping, TextAt, IsCommand, SameText, NoneRemote, Outermost, RemoteAt, Original, WrapCommand
  <2> HIDE DEF Execute
  <2> QED  BY <2>2, <2>3, <2>4 DEF WrapsOK
<1>3. RunsOK'
  BY DEF LayersInv, LayersTyped, RunsOK, SettingsOK
<1>4. HandleOK'
  BY DEF HandleOK
<1> QED  BY <1>1, <1>2, <1>3, <1>4 DEF LayersInv

LEMMA WrappingGrows ==
  ASSUME layers \in Seq(Layers), NEW k \in Nat, k < Len(layers),
         NEW w, Wrapping(w, k)
  PROVE  Wrapping([i \in 0..(k+1) |-> IF i <= k THEN w[i]
                                      ELSE WrapCommand(layers[k+1], w[k])], k + 1)
<1> DEFINE l == layers[k+1]
           c == WrapCommand(l, w[k])
           v == [i \in 0..(k+1) |-> IF i <= k THEN w[i] ELSE c]
<1>1. l \in Layers /\ k + 1 \in 1..Len(layers)
  OBVIOUS
<1>2. v = [i \in 0..(k+1) |-> v[i]] /\ v[k+1] = c /\ \A i \in 0..k : v[i] = w[i]
  OBVIOUS
<1>3. \A i \in 0..(k+1) : i \in 0..k \/ i = k + 1
  OBVIOUS
<1>4. IsCommand(w[k]) /\ TextAt(w, k, w[k]) /\ k \in 0..k /\ 0 \in 0..k
  BY DEF Wrapping
<1>5. \A i \in 1..(k+1) : v[i] = WrapCommand(layers[i], v[i-1])
  <2>1. \A i \in 1..k : i - 1 \in 0..k /\ i \in 0..k
    OBVIOUS
  <2>2. \A i \in 1..k : v[i] = WrapCommand(layers[i], v[i-1])
    <3> HIDE DEF v
    <3> QED  BY <1>2, <2>1 DEF Wrapping
  <2>3. v[k+1] = WrapCommand(layers[k+1], v[k]) /\ (k+1) - 1 = k
    <3>1. v[k] = w[k] /\ v[k+1] = c
      BY <1>2, <1>4
    <3>2. (k+1) - 1 = k
      OBVIOUS
    <3> HIDE DEF v
    <3> QED  BY <3>1, <3>2 DEF c, l
  <2>4. \A i \in 1..(k+1) : i \in 1..k \/ i = k + 1
    OBVIOUS
  <2> HIDE DEF v
  <2> QED  BY <2>2, <2>3, <2>4
<1>6. \A i \in 0..k : IsCommand(v[i]) /\ TextAt(v, i, v[i])
  <2> SUFFICES ASSUME NEW i \in 0..k  PROVE IsCommand(v[i]) /\ TextAt(v, i, v[i])
    OBVIOUS
  <2>1. v[i] = w[i] /\ \A j \in 1..i : v[j-1] = w[j-1]
    BY <1>2
  <2>2. IsCommand(w[i]) /\ TextAt(w, i, w[i])
    BY DEF Wrapping
  <2> HIDE DEF v
  <2> QED  BY <2>1, <2>2 DEF TextAt
<1>7. IsCommand(c) /\ TextAt(v, k + 1, c)
  <2>1. CASE l.kind = "local"
    <3>1. IsCommand(c) /\ SameText(c, w[k])
      BY <1>1, <1>4, <2>1, LocalText
    <3>2. ~ RemoteAt(k + 1)
      BY <2>1 DEF RemoteAt
    <3>3. CASE NoneRemote(k) /\ SameText(w[k], Original)
      <4>1. NoneRemote(k + 1)
        BY <3>2, <3>3 DEF NoneRemote
      <4>2. SameText(c, Original)
        <5> HIDE DEF c
        <5> QED  BY <3>1, <3>3 DEF SameText
      <4> QED  BY <3>1, <4>1, <4>2 DEF TextAt
    <3>4. ASSUME NEW j \in 1..k, Outermost(j, k), SameText(w[k], WrapCommand(layers[j], w[j-1]))
          PROVE  TextAt(v, k + 1, c)
      <4>1. Outermost(j, k + 1) /\ j \in 1..(k+1)
        BY <3>2, <3>4 DEF Outermost
      <4>2. v[j-1] = w[j-1]
        BY <1>2
      <4>3. SameText(c, WrapCommand(layers[j], v[j-1]))
        <5> HIDE DEF c, v
        <5> QED  BY <3>1, <3>4, <4>2 DEF SameText
      <4> HIDE DEF c, v
      <4> QED  BY <4>1, <4>3 DEF TextAt
    <3> QED  BY <1>4, <3>1, <3>3, <3>4 DEF TextAt
  <2>2. CASE l.kind # "local"
    <3>1. IsCommand(c) /\ SameText(c, c)
      BY <1>1, <1>4, <2>2, RemoteText DEF SameText
    <3>2. Outermost(k + 1, k + 1)
      BY <2>2 DEF Outermost, RemoteAt
    <3>3. c = WrapCommand(layers[k+1], v[(k+1)-1]) /\ k + 1 \in 1..(k+1)
      BY <1>2, <1>4, <1>5
    <3> HIDE DEF c, v
    <3> QED  BY <3>1, <3>2, <3>3 DEF TextAt
  <2> QED  BY <2>1, <2>2
<1>8. Wrapping(v, k + 1)
  <2>1. v[0] = Original
    <3> HIDE DEF v
    <3> QED  BY <1>2, <1>4 DEF Wrapping
  <2> HIDE DEF v, c
  <2> QED  BY <1>2, <1>3, <1>5, <1>6, <1>7, <2>1 DEF Wrapping
<1> QED  BY <1>8

\* The layers and the arguments are chosen once.
LEMMA SameWrapping ==
  ASSUME NEW w, NEW k, layers' = layers, line' = line, called' = called, Wrapping(w, k)
  PROVE  Wrapping(w, k)'
BY DEF Wrapping, TextAt, NoneRemote, Outermost, RemoteAt, Original

LEMMA SameNames ==
  ASSUME NEW q, NEW m, layers' = layers, NamesFrom(q, m)
  PROVE  NamesFrom(q, m)'
BY DEF NamesFrom, RemoteAt

LEMMA WrapOK ==
  ASSUME LayersInv, mode = "execute", Wrap
  PROVE  LayersInv'
<1> DEFINE n == Len(layers)
           k == n - Len(left)
<1>1. /\ phase = "wrap" /\ left # <<>> /\ left' = Tail(left) /\ path = <<>>
      /\ command' = WrapCommand(Head(left), command)
      /\ UNCHANGED <<mode, layers, line, called, phase, path, current, handle>>
  BY DEF Wrap, given, LayersInv, LayersTyped
<1>2. LayersTyped'
  BY <1>1 DEF LayersInv, LayersTyped
<1>3. WrapsOK'
  <2>1. PICK w : Wrapping(w, k) /\ command = w[k]
    BY <1>1 DEF LayersInv, WrapsOK
  <2>2. layers \in Seq(Layers) /\ left \in Seq(Layers) /\ Len(left) <= n
    BY <1>1 DEF LayersInv, LayersTyped, WrapsOK
  <2>3. \A i \in DOMAIN left : left[i] = layers[n - Len(left) + i]
    BY <1>1 DEF LayersInv, WrapsOK
  <2>4. k \in Nat /\ k < n /\ Len(left') = Len(left) - 1 /\ n - Len(left') = k + 1
    BY <1>1, <2>2
  <2>5. Head(left) = layers[k + 1]
    BY <1>1, <2>2, <2>3
  <2>6. \A i \in DOMAIN left' : left'[i] = layers[n - Len(left') + i]
    BY <1>1, <2>2, <2>3
  <2>7. PICK v, y : /\ y = k + 1
                    /\ v = [i \in 0..(k+1) |-> IF i <= k THEN w[i]
                                               ELSE WrapCommand(layers[k+1], w[k])]
    OBVIOUS
  <2>8. Wrapping(v, y)
    <3> HIDE DEF k
    <3> QED  BY <2>1, <2>2, <2>4, <2>7, WrappingGrows
  <2>9. Wrapping(v, y)' /\ command' = v[y] /\ y = Len(layers') - Len(left')
    <3>1. y \in 0..y /\ ~ (y <= k)
      BY <2>4, <2>7
    <3> HIDE DEF k
    <3> QED  BY <1>1, <2>1, <2>4, <2>5, <2>7, <2>8, <3>1, SameWrapping
  <2>10. Len(left') <= Len(layers')
    BY <1>1, <2>2, <2>4
  <2> HIDE DEF k
  <2> QED  BY <1>1, <2>6, <2>9, <2>10 DEF WrapsOK
<1>4. RunsOK'
  BY <1>1 DEF RunsOK, SettingsOK
<1>5. HandleOK'
  BY <1>1 DEF HandleOK
<1> QED  BY <1>2, <1>3, <1>4, <1>5 DEF LayersInv

LEMMA LaunchOK ==
  ASSUME LayersInv, mode = "execute", LaunchWrapped
  PROVE  LayersInv'
<1> DEFINE n == Len(layers)
<1>1. /\ phase = "wrap" /\ left = <<>> /\ phase' = "run" /\ current' = command /\ path = <<>>
      /\ UNCHANGED <<mode, layers, line, called, left, command, path, handle>>
  BY DEF LaunchWrapped, given, LayersInv, LayersTyped
<1>2. LayersTyped'
  BY <1>1 DEF LayersInv, LayersTyped
<1>3. RunsOK'
  <2>1. layers \in Seq(Layers) /\ n \in Nat /\ n - Len(left) = n
    BY <1>1 DEF LayersInv, LayersTyped
  <2>2. PICK w, k : Wrapping(w, k) /\ command = w[k] /\ k = n
    BY <1>1, <2>1 DEF LayersInv, WrapsOK
  <2>3. TextAt(w, k, current')
    BY <1>1, <2>1, <2>2 DEF Wrapping
  <2>4. Unwrapped(w, k)'
    <3>1. Original' = Original /\ Original.program = called /\ called \in {"app", "odd"}
      BY <1>1, OriginalOK DEF Original, LayersInv, LayersTyped
    <3> QED  BY <1>1, <2>3, <3>1
             DEF Unwrapped, TextAt, SameText, NoneRemote, Outermost, RemoteAt, Reaches, Kept
  <2>5. NamesFrom(<<>>, k + 1) /\ Reverse(<<>>) = <<>>
    BY <2>1, <2>2, NoNames DEF Reverse
  <2>6. NamesFrom(<<>>, k + 1)'
    BY <1>1, <2>5, SameNames
  <2>7. NamesFrom(Reverse(path), k + 1)'
    BY <1>1, <2>5, <2>6
  <2>8. Wrapping(w, k)' /\ k = Len(layers') /\ k \in 0..k
    BY <1>1, <2>1, <2>2, SameWrapping
  <2> QED  BY <1>1, <2>4, <2>7, <2>8 DEF RunsOK, SettingsOK
<1>4. WrapsOK' /\ HandleOK'
  BY <1>1 DEF WrapsOK, HandleOK
<1> QED  BY <1>2, <1>3, <1>4 DEF LayersInv

LEMMA ArriveOK ==
  ASSUME LayersInv, Arrive
  PROVE  LayersInv'
<1>1. /\ phase = "run" /\ current.program \notin {"ssh", "docker"} /\ phase' = "arrived"
      /\ UNCHANGED <<mode, layers, line, called, left, command, path, current, handle>>
  BY DEF Arrive, given
<1>2. LayersTyped'
  BY <1>1 DEF LayersInv, LayersTyped
<1>3. RunsOK'
  <2>1. PICK w, n, q : /\ n = Len(layers) /\ q = Reverse(path) /\ Wrapping(w, n)
                       /\ \E k \in 0..n : Unwrapped(w, k) /\ NamesFrom(q, k + 1)
    BY <1>1 DEF LayersInv, RunsOK
  <2>2. PICK k \in 0..n : Unwrapped(w, k) /\ NamesFrom(q, k + 1)
    BY <2>1
  <2>3. Unwrapped(w, k)'
    BY <1>1, <2>2 DEF Unwrapped, SameText, NoneRemote, Outermost, RemoteAt, Reaches, Kept, Quotable, Original
  <2>4. Wrapping(w, n)' /\ NamesFrom(q, k + 1)' /\ n = Len(layers') /\ q = Reverse(path')
    BY <1>1, <2>1, <2>2, SameWrapping, SameNames
  <2>5. SettingsOK'
    BY <1>1 DEF LayersInv, RunsOK, SettingsOK
  <2> QED  BY <1>1, <2>3, <2>4, <2>5 DEF RunsOK
<1>4. WrapsOK' /\ HandleOK'
  BY <1>1 DEF WrapsOK, HandleOK
<1> QED  BY <1>2, <1>3, <1>4 DEF LayersInv

LEMMA EnterOK ==
  ASSUME LayersInv, RemoteShell \/ DockerExec
  PROVE  LayersInv'
<1>1. /\ phase = "run" /\ current.program \in {"ssh", "docker"}
      /\ path' = Append(path, current.to)
      /\ UNCHANGED <<mode, layers, line, called, left, command, phase, handle>>
  BY DEF RemoteShell, DockerExec, Enter, given
<1>2. /\ layers \in Seq(Layers) /\ line \in Lines /\ path \in Seq(Names)
      /\ mode = "execute"
  BY <1>1 DEF LayersInv, LayersTyped
<1>3. PICK w, n, q : /\ n = Len(layers) /\ q = Reverse(path) /\ Wrapping(w, n)
                     /\ \E k \in 0..n : Unwrapped(w, k) /\ NamesFrom(q, k + 1)
  BY <1>1 DEF LayersInv, RunsOK
<1>4. PICK k \in 0..n : Unwrapped(w, k) /\ NamesFrom(q, k + 1)
  BY <1>3
<1>5. PICK j \in 1..k : Outermost(j, k) /\ SameText(current, WrapCommand(layers[j], w[j-1]))
  BY <1>1, <1>4 DEF Unwrapped
<1>6. PICK l, c, m, d : /\ l = layers[j] /\ c = w[j-1] /\ m = j - 1 /\ d = WrapCommand(l, c)
  OBVIOUS
<1>7. /\ n \in Nat /\ k \in Nat /\ j \in Nat /\ m \in Nat /\ m \in 0..n /\ m + 1 = j
      /\ j \in 1..n /\ j \in DOMAIN layers /\ l \in Layers /\ RemoteAt(j) /\ l.kind # "local"
  BY <1>2, <1>3, <1>4, <1>5, <1>6 DEF Outermost, RemoteAt
<1>8. IsCommand(c) /\ TextAt(w, m, c)
  BY <1>3, <1>6, <1>7 DEF Wrapping
<1>9. PICK a, e, b : /\ b = CommandToShellString(c)
                     /\ a = (IF l.kind = "ssh" THEN EnvOf(l) ELSE {})
                     /\ e = (IF l.kind = "ssh" THEN DirOf(l) ELSE None)
  OBVIOUS
<1>10. /\ d.to = l.name /\ d.args = <<Script(a, e, b)>>
       /\ d.program = (IF l.kind = "ssh" THEN "ssh" ELSE "docker")
       /\ l.kind # "ssh" => d.flags = [env |-> EnvOf(l), dir |-> DirOf(l)]
  BY <1>6, <1>7, <1>8, <1>9, RemoteText
<1>11. /\ current.program = d.program /\ current.to = d.to /\ current.flags = d.flags
       /\ current.args = d.args
  BY <1>5, <1>6 DEF SameText
<1>12. LET s == current.args[1].script[1] IN s.body = b /\ s.assigned = a /\ s.cd = e
  BY <1>10, <1>11 DEF Script
<1>13. /\ current'.to = c.to /\ current'.flags = c.flags
       /\ c.program # "odd" => current'.program = c.program /\ current'.args = Shell(b.words)
       /\ c.program = "odd" => current'.program = "misread"
  <2>1. b.program = c.program /\ b.to = c.to /\ b.flags = c.flags
    BY <1>9 DEF CommandToShellString
  <2>2. PICK x, y : current' = Program(b, x, y)
    BY <1>12 DEF RemoteShell, DockerExec, Enter
  <2> QED  BY <2>1, <2>2 DEF Program
<1>14. ~ (l.kind = "ssh" /\ l.env /\ l.dir) =>
         current'.env = EnvOf(l) /\ current'.dir = DirOf(l)
  <2>1. CASE l.kind = "ssh"
    <3>1. current' = Program(b, {} \cup (IF a # {} /\ e = None THEN a ELSE {}),
                               IF e = None THEN None ELSE e)
      BY <1>10, <1>11, <1>12, <2>1 DEF RemoteShell, DockerExec, Enter
    <3>2. a = EnvOf(l) /\ e = DirOf(l)
      BY <1>9, <2>1
    <3>3. ~ (l.env /\ l.dir) => a = {} \/ e = None
      BY <3>2 DEF EnvOf, DirOf
    <3> QED  BY <2>1, <3>1, <3>2, <3>3 DEF Program
  <2>2. CASE l.kind # "ssh"
    <3>1. a = {} /\ e = None
      BY <1>9, <2>2
    <3>2. current.program = "docker" /\ current.flags = [env |-> EnvOf(l), dir |-> DirOf(l)]
      BY <1>10, <1>11, <2>2
    <3>3. current' = Program(b, EnvOf(l) \cup {}, DirOf(l))
      BY <1>12, <3>1, <3>2 DEF RemoteShell, DockerExec, Enter
    <3> QED  BY <3>3 DEF Program
  <2> QED  BY <2>1, <2>2
<1>15. path' = Append(path, l.name) /\ l.name \in Names
  BY <1>1, <1>7, <1>10, <1>11 DEF Names
<1>16. Unwrapped(w, m)'
  <2>1. CASE NoneRemote(m) /\ SameText(c, Original)
    <3>1. c.program = called /\ called \in {"app", "odd"}
      BY <2>1, OriginalOK DEF SameText, LayersInv, LayersTyped
    <3>2. current'.program \notin {"ssh", "docker"}
      BY <1>13, <3>1
    <3>3. ASSUME Quotable  PROVE current'.program = called /\ current'.args = Original.args
      <4>1. called = "app" /\ current'.program = called /\ current'.args = Shell(b.words)
        BY <1>13, <3>1, <3>3 DEF Quotable
      <4>2. b = CommandToShellString(Original)
        BY <1>9, <2>1, TextOnly
      <4> QED  BY <1>2, <3>3, <4>1, <4>2, ShellOfArguments
    <3>4. path' # <<>> /\ Original' = Original /\ Quotable' = Quotable /\ called' = called
      BY <1>1, <1>2, <1>15 DEF Original, Quotable
    <3>5. Reaches'
      BY <3>3, <3>4 DEF Reaches, Kept
    <3>6. NoneRemote(m)'
      BY <1>1, <2>1 DEF NoneRemote, RemoteAt
    <3> QED  BY <3>2, <3>5, <3>6 DEF Unwrapped
  <2>2. ASSUME NEW i \in 1..m, Outermost(i, m), SameText(c, WrapCommand(layers[i], w[i-1]))
        PROVE  Unwrapped(w, m)'
    <3>1. layers[i] \in Layers /\ layers[i].kind # "local" /\ i - 1 \in 0..n
      BY <1>2, <1>3, <1>7, <2>2 DEF Outermost, RemoteAt
    <3>2. IsCommand(w[i-1])
      BY <1>3, <3>1 DEF Wrapping
    <3>3. PICK x, y, z : WrapCommand(layers[i], w[i-1]).args = <<Script(x, y, z)>>
      <4>1. WrapCommand(layers[i], w[i-1]).args =
              <<Script(IF layers[i].kind = "ssh" THEN EnvOf(layers[i]) ELSE {},
                         IF layers[i].kind = "ssh" THEN DirOf(layers[i]) ELSE None,
                         CommandToShellString(w[i-1]))>>
        BY <3>1, <3>2, RemoteText
      <4> QED  BY <4>1
    <3>0. c.program # "odd"
      BY <3>1, <3>2, <2>2, RemoteText DEF SameText
    <3>4. Shell(b.words) = c.args
      BY <1>9, <2>2, <3>3, ShellOfScript DEF SameText
    <3>5. SameText(current', WrapCommand(layers[i], w[i-1]))
      BY <1>13, <2>2, <3>0, <3>4 DEF SameText
    <3> QED  BY <1>1, <2>2, <3>5 DEF Unwrapped, SameText, Outermost, RemoteAt
  <2> QED  BY <1>8, <2>1, <2>2 DEF TextAt
<1>17. PICK p : p = <<l.name>> \o q
  OBVIOUS
<1>18. NamesFrom(p, m + 1)
  <2>1. q \in Seq(Names)
    BY <1>2, <1>3 DEF Reverse
  <2>2. NamesFrom(q, j + 1)
    BY <1>2, <1>4, <1>5, <1>7, SkipLocal DEF Outermost
  <2> QED  BY <1>2, <1>6, <1>7, <1>17, <2>1, <2>2, PrependName
<1>19. p = Reverse(path')
  BY <1>2, <1>3, <1>15, <1>17, ReverseAppend
<1>20. Wrapping(w, n)' /\ n = Len(layers') /\ NamesFrom(p, m + 1)'
  BY <1>1, <1>3, <1>18, SameWrapping, SameNames
<1>21. SettingsOK'
  <2>1. Last(path') = l.name
    BY <1>2, <1>15 DEF Last
  <2> QED  BY <1>1, <1>6, <1>7, <1>14, <2>1 DEF SettingsOK
<1>22. RunsOK'
  BY <1>1, <1>7, <1>16, <1>19, <1>20, <1>21 DEF RunsOK
<1>23. LayersTyped'
  BY <1>1, <1>2, <1>15 DEF LayersInv, LayersTyped
<1>24. WrapsOK' /\ HandleOK'
  BY <1>1 DEF WrapsOK, HandleOK
<1> QED  BY <1>22, <1>23, <1>24 DEF LayersInv

LEMMA AttachInnerOK ==
  ASSUME LayersInv, AttachInner
  PROVE  LayersInv'
<1>1. /\ phase = "build" /\ mode = "attach" /\ phase' = "wrap"
      /\ handle' = <<"service">> /\ left' = Reverse(layers)
      /\ UNCHANGED <<mode, layers, line, called, command, path, current>>
  BY DEF AttachInner, given
<1>2. layers \in Seq(Layers) /\ left' \in Seq(Layers) /\ Len(left') = Len(layers)
      /\ \A i \in DOMAIN left' : left'[i] = layers[Len(layers) + 1 - i]
  BY <1>1 DEF LayersInv, LayersTyped, Reverse
<1>3. LayersTyped'
  <2>1. handle' \in Seq(Names)
    BY <1>1 DEF Names
  <2> QED  BY <1>1, <1>2, <2>1 DEF LayersInv, LayersTyped
<1>4. HandleOK'
  <2>1. PICK q, m : q = <<>> /\ m = Len(layers) + 1
    OBVIOUS
  <2>2. NamesFrom(q, m)'
    BY <1>1, <1>2, <2>1, NoNames, SameNames
  <2>3. q \in Seq(Names) /\ handle' = q \o <<"service">> /\ m = Len(left') + 1
    BY <1>1, <1>2, <2>1
  <2>4. NamesFrom(q, Len(left) + 1)'
    BY <2>2, <2>3
  <2>5. \E x \in Seq(Names) : handle' = x \o <<"service">> /\ NamesFrom(x, Len(left) + 1)'
    BY <2>3, <2>4
  <2>6. /\ Len(left') <= Len(layers')
        /\ \A i \in DOMAIN left' : left'[i] = layers'[Len(left') + 1 - i]
    BY <1>1, <1>2
  <2> QED  BY <2>5, <2>6 DEF HandleOK
<1>5. RunsOK'
  BY <1>1 DEF LayersInv, LayersTyped, RunsOK, SettingsOK
<1>6. WrapsOK'
  BY <1>1 DEF WrapsOK
<1> QED  BY <1>3, <1>4, <1>5, <1>6 DEF LayersInv

LEMMA WrapHandleOK ==
  ASSUME LayersInv, WrapHandle
  PROVE  LayersInv'
<1>1. /\ phase = "wrap" /\ mode = "attach" /\ left # <<>> /\ left' = Tail(left)
      /\ handle' = WrapId(Head(left), handle)
      /\ UNCHANGED <<mode, layers, line, called, command, phase, path, current>>
  BY DEF WrapHandle, given
<1>2. /\ layers \in Seq(Layers) /\ left \in Seq(Layers) /\ Len(left) <= Len(layers)
      /\ \A i \in DOMAIN left : left[i] = layers[Len(left) + 1 - i]
  BY <1>1 DEF LayersInv, LayersTyped, HandleOK
<1>3. PICK q \in Seq(Names) : handle = q \o <<"service">> /\ NamesFrom(q, Len(left) + 1)
  BY <1>1 DEF LayersInv, HandleOK
<1>4. PICK k, l : k = Len(left) /\ l = layers[k]
  OBVIOUS
<1>5. /\ k \in Nat /\ k \in DOMAIN layers /\ l \in Layers /\ Head(left) = l
      /\ left' \in Seq(Layers) /\ Len(left') = k - 1 /\ Len(left') <= Len(layers)
      /\ \A i \in DOMAIN left' : left'[i] = layers[Len(left') + 1 - i]
  <2>1. k \in Nat /\ k # 0 /\ k \in DOMAIN layers /\ 1 \in DOMAIN left
    BY <1>1, <1>2, <1>4
  <2>2. l \in Layers /\ Head(left) = l
    BY <1>2, <1>4, <2>1
  <2>3. /\ left' \in Seq(Layers) /\ Len(left') = k - 1
        /\ \A i \in DOMAIN left' : i + 1 \in DOMAIN left /\ left'[i] = left[i + 1]
    BY <1>1, <1>2, <1>4
  <2>4. \A i \in DOMAIN left' : left'[i] = layers[Len(left') + 1 - i]
    <3> SUFFICES ASSUME NEW i \in DOMAIN left'  PROVE left'[i] = layers[Len(left') + 1 - i]
      OBVIOUS
    <3>1. i \in Nat /\ Len(left) + 1 - (i + 1) = Len(left') + 1 - i
      BY <1>4, <2>1, <2>3
    <3> QED  BY <1>2, <2>3, <3>1
  <2> QED  BY <1>2, <1>4, <2>1, <2>2, <2>3, <2>4
<1>6. \E p \in Seq(Names) : handle' = p \o <<"service">> /\ NamesFrom(p, k)
  <2>1. CASE l.kind = "local"
    <3>1. handle' = handle
      BY <1>1, <1>5, <2>1 DEF WrapId
    <3>2. NamesFrom(q, k)
      <4>1. PICK j : j = k - 1
        OBVIOUS
      <4>2. j \in Nat /\ j <= k /\ j + 1 = k
        BY <1>5, <4>1
      <4>3. \A i \in (j+1)..k : ~ RemoteAt(i)
        BY <1>4, <1>5, <2>1, <4>2 DEF RemoteAt
      <4>4. NamesFrom(q, j + 1)
        BY <1>2, <1>3, <1>4, <1>5, <4>2, <4>3, SkipLocal
      <4> QED  BY <4>2, <4>4
    <3> QED  BY <1>3, <1>5, <3>1, <3>2
  <2>2. CASE l.kind # "local"
    <3>1. handle' = <<l.name>> \o (q \o <<"service">>)
      BY <1>1, <1>3, <1>5, <2>2 DEF WrapId
    <3>2. l.name \in Names /\ "service" \in Names
      BY <1>5 DEF Names
    <3>3. <<l.name>> \o q \in Seq(Names) /\ handle' = (<<l.name>> \o q) \o <<"service">>
      BY <3>1, <3>2, ConcatAssociative, ConcatProperties
    <3>4. NamesFrom(<<l.name>> \o q, k)
      BY <1>2, <1>3, <1>4, <1>5, <2>2, PrependName DEF RemoteAt
    <3> QED  BY <3>3, <3>4
  <2> QED  BY <2>1, <2>2
<1>7. PICK p \in Seq(Names) : handle' = p \o <<"service">> /\ NamesFrom(p, k)
  BY <1>6
<1>8. HandleOK'
  <2>1. NamesFrom(p, k)' /\ k = Len(left') + 1
    BY <1>1, <1>5, <1>7, SameNames
  <2> QED  BY <1>1, <1>5, <1>7, <2>1 DEF HandleOK
<1>9. LayersTyped'
  <2>1. handle' \in Seq(Names)
    BY <1>7, ConcatProperties DEF Names
  <2> QED  BY <1>1, <1>5, <2>1 DEF LayersInv, LayersTyped
<1>10. RunsOK'
  BY <1>1 DEF LayersInv, LayersTyped, RunsOK, SettingsOK
<1>11. WrapsOK'
  BY <1>1 DEF WrapsOK
<1> QED  BY <1>8, <1>9, <1>10, <1>11 DEF LayersInv

LEMMA StatusOK ==
  ASSUME LayersInv, Status
  PROVE  LayersInv'
<1>1. /\ phase = "wrap" /\ mode = "attach" /\ left = <<>> /\ phase' = "attached"
      /\ UNCHANGED <<mode, layers, line, called, left, command, path, handle>>
  BY DEF Status, given
<1>2. LayersTyped'
  BY <1>1 DEF LayersInv, LayersTyped
<1>3. HandleOK'
  <2>1. PICK q, m : /\ q \in Seq(Names) /\ m = Len(left) + 1
                    /\ handle = q \o <<"service">> /\ NamesFrom(q, m)
    BY <1>1 DEF LayersInv, HandleOK
  <2>2. NamesFrom(q, m)' /\ m = Len(left') + 1
    BY <1>1, <2>1, SameNames
  <2> QED  BY <1>1, <2>1, <2>2 DEF LayersInv, HandleOK
<1>4. RunsOK'
  BY <1>1 DEF LayersInv, LayersTyped, RunsOK, SettingsOK
<1>5. WrapsOK'
  BY <1>1 DEF WrapsOK
<1> QED  BY <1>2, <1>3, <1>4, <1>5 DEF LayersInv

LEMMA FailsOK ==
  ASSUME LayersInv, LaunchFails \/ EntryFails \/ AttachFails
  PROVE  LayersInv'
<1>1. /\ phase \in {"build", "wrap", "run"} /\ phase' = "failed"
      /\ UNCHANGED <<mode, layers, line, called, left, command, path, current, handle>>
  BY DEF LaunchFails, EntryFails, AttachFails, given
<1>2. LayersTyped'
  BY <1>1 DEF LayersInv, LayersTyped
<1>3. RunsOK'
  BY <1>1 DEF LayersInv, RunsOK, SettingsOK
<1>4. WrapsOK' /\ HandleOK'
  BY <1>1 DEF WrapsOK, HandleOK
<1> QED  BY <1>2, <1>3, <1>4 DEF LayersInv

LEMMA StutterOK ==
  ASSUME LayersInv, UNCHANGED <<mode, layers, line, called, left, command, phase, path, current, handle>>
  PROVE  LayersInv'
<1>1. LayersTyped' /\ SettingsOK'
  BY DEF LayersInv, LayersTyped, RunsOK, SettingsOK
<1>2. WrapsOK'
  <2>1. ASSUME phase = "wrap", mode = "execute"
        PROVE  \E w : /\ Wrapping(w, Len(layers) - Len(left))'
                      /\ command = w[Len(layers) - Len(left)]
    <3>1. PICK w, k : Wrapping(w, k) /\ command = w[k] /\ k = Len(layers) - Len(left)
      BY <2>1 DEF LayersInv, WrapsOK
    <3>2. Wrapping(w, k)' /\ k = Len(layers') - Len(left')
      BY <3>1, SameWrapping
    <3> QED  BY <3>1, <3>2
  <2>2. Original' = Original
    BY DEF Original
  <2> QED  BY <2>1, <2>2 DEF LayersInv, WrapsOK
<1>3. RunsOK'
  <2>1. ASSUME phase \in {"run", "arrived"}
        PROVE  \E w : /\ Wrapping(w, Len(layers))'
                      /\ \E k \in 0..Len(layers) :
                           Unwrapped(w, k)' /\ NamesFrom(Reverse(path), k + 1)'
    <3>1. PICK w, n, q : /\ n = Len(layers) /\ q = Reverse(path) /\ Wrapping(w, n)
                         /\ \E k \in 0..n : Unwrapped(w, k) /\ NamesFrom(q, k + 1)
      BY <2>1 DEF LayersInv, RunsOK
    <3>2. PICK k \in 0..n : Unwrapped(w, k) /\ NamesFrom(q, k + 1)
      BY <3>1
    <3>3. Unwrapped(w, k)'
      BY <3>2 DEF Unwrapped, SameText, NoneRemote, Outermost, RemoteAt, Reaches, Kept, Quotable, Original
    <3>4. Wrapping(w, n)' /\ NamesFrom(q, k + 1)' /\ n = Len(layers') /\ q = Reverse(path')
      BY <3>1, <3>2, SameWrapping, SameNames
    <3> QED  BY <3>1, <3>3, <3>4
  <2> QED  BY <1>1, <2>1 DEF LayersInv, RunsOK
<1>4. HandleOK'
  <2>1. ASSUME phase \in {"wrap", "attached"}, mode = "attach"
        PROVE  \E q \in Seq(Names) : handle = q \o <<"service">> /\ NamesFrom(q, Len(left) + 1)'
    <3>1. PICK q, m : /\ q \in Seq(Names) /\ m = Len(left) + 1
                      /\ handle = q \o <<"service">> /\ NamesFrom(q, m)
      BY <2>1 DEF LayersInv, HandleOK
    <3>2. NamesFrom(q, m)' /\ m = Len(left') + 1
      BY <3>1, SameNames
    <3> QED  BY <3>1, <3>2
  <2> QED  BY <2>1 DEF LayersInv, HandleOK
<1> QED  BY <1>1, <1>2, <1>3, <1>4 DEF LayersInv

LEMMA LayersStep == LayersInv /\ [LayersNext]_layersVars => LayersInv'
<1> SUFFICES ASSUME LayersInv, [LayersNext]_layersVars  PROVE LayersInv'
  OBVIOUS
<1>1. ASSUME NEW l \in Layers, WithLayer(l)  PROVE LayersInv'
  BY <1>1, WithLayerOK
<1>2. CASE Execute
  BY <1>2, ExecuteOK
<1>3. CASE mode = "execute" /\ Wrap
  BY <1>3, WrapOK
<1>4. CASE mode = "execute" /\ LaunchWrapped
  BY <1>4, LaunchOK
<1>5. CASE RemoteShell \/ DockerExec
  BY <1>5, EnterOK
<1>6. CASE Arrive
  BY <1>6, ArriveOK
<1>7. CASE AttachInner
  BY <1>7, AttachInnerOK
<1>8. CASE WrapHandle
  BY <1>8, WrapHandleOK
<1>9. CASE Status
  BY <1>9, StatusOK
<1>10. CASE LaunchFails \/ EntryFails \/ AttachFails
  BY <1>10, FailsOK
<1>11. CASE UNCHANGED layersVars
  BY <1>11, StutterOK DEF layersVars
<1> QED
  BY <1>1, <1>2, <1>3, <1>4, <1>5, <1>6, <1>7, <1>8, <1>9, <1>10, <1>11 DEF LayersNext

LEMMA LayersInvariance == LayersSpec => []LayersInv
BY InitLayers, LayersStep, PTL DEF LayersSpec

\* Where the program runs, every layer has been entered.
LEMMA AllEntered ==
  ASSUME LayersInv, phase = "arrived"
  PROVE  /\ Reaches
         /\ \E k \in Nat : NoneRemote(k) /\ NamesFrom(Reverse(path), k + 1)
<1>1. PICK w, n : /\ n = Len(layers) /\ Wrapping(w, n)
                  /\ \E k \in 0..n : Unwrapped(w, k) /\ NamesFrom(Reverse(path), k + 1)
  BY DEF LayersInv, RunsOK
<1>2. PICK k \in 0..n : Unwrapped(w, k) /\ NamesFrom(Reverse(path), k + 1)
  BY <1>1
<1>3. current.program \notin {"ssh", "docker"} /\ layers \in Seq(Layers)
  BY DEF LayersInv, RunsOK, LayersTyped
<1>4. ASSUME NEW j \in 1..k, Outermost(j, k), SameText(current, WrapCommand(layers[j], w[j-1]))
      PROVE  FALSE
  <2>1. layers[j] \in Layers /\ layers[j].kind # "local" /\ j - 1 \in 0..n
    BY <1>1, <1>2, <1>3, <1>4 DEF Outermost, RemoteAt
  <2>2. IsCommand(w[j-1])
    BY <1>1, <2>1 DEF Wrapping
  <2>3. WrapCommand(layers[j], w[j-1]).program \in {"ssh", "docker"}
    BY <2>1, <2>2, RemoteText
  <2> QED  BY <1>3, <1>4, <2>3 DEF SameText
<1>5. NoneRemote(k) /\ Reaches
  BY <1>2, <1>4 DEF Unwrapped
<1>6. k \in Nat
  BY <1>1, <1>3
<1> QED  BY <1>2, <1>5, <1>6

\* Through any stack of layers the program gets the arguments the caller gave,
\* each as one word.  Behind a remote layer an argument that is empty or has a #
\* or ~ where the shell reads it is left out, and a program that is no plain name.
THEOREM ArgumentsSurvive == LayersSpec => []ArgumentsArrive
<1>1. LayersInv => ArgumentsArrive
  BY AllEntered DEF ArgumentsArrive, Reaches, Kept
<1> QED  BY <1>1, LayersInvariance, PTL

\* The program runs inside the remote layer added first, which is inside the one
\* added next, and so on; each is entered once.
THEOREM LayersAreNested == LayersSpec => []LayersNested
<1>1. LayersInv => LayersNested
  <2> SUFFICES ASSUME LayersInv, phase = "arrived"  PROVE NamesRemote(Reverse(path))
    BY DEF LayersNested
  <2>1. PICK k \in Nat : NoneRemote(k) /\ NamesFrom(Reverse(path), k + 1)
    BY AllEntered
  <2>2. layers \in Seq(Layers)
    BY DEF LayersInv, LayersTyped
  <2>3. \A i \in DOMAIN layers : RemoteAt(i) => i >= k + 1
    BY <2>1, <2>2 DEF NoneRemote
  <2> QED  BY <2>1, <2>3 DEF NamesFrom, NamesRemote, IsRemote, RemoteAt, Range
<1> QED  BY <1>1, LayersInvariance, PTL

\* What runs inside a layer has that layer's environment and directory and no
\* other's; an ssh layer with both is left out.
THEOREM SettingsAreTheLayers == LayersSpec => []SettingsHold
<1>1. LayersInv => SettingsHold
  <2> SUFFICES ASSUME LayersInv, path # <<>>,
                      ~ (Inside.kind = "ssh" /\ Inside.env /\ Inside.dir)
               PROVE  current.env = EnvOf(Inside) /\ current.dir = DirOf(Inside)
    BY DEF SettingsHold
  <2>1. layers \in Seq(Layers)
    BY DEF LayersInv, LayersTyped
  <2>2. PICK i \in DOMAIN layers :
               /\ layers[i].name = Last(path)
               /\ ~ (layers[i].kind = "ssh" /\ layers[i].env /\ layers[i].dir) =>
                    current.env = EnvOf(layers[i]) /\ current.dir = DirOf(layers[i])
    BY DEF LayersInv, RunsOK, SettingsOK
  <2>3. layers[i] \in Range(layers) /\ Range(layers) \subseteq Layers
    BY <2>1, <2>2 DEF Range
  <2>4. \A l \in Range(layers) : l.name = Last(path) => l = layers[i]
    BY <2>2, <2>3, LayersAssumption
  <2>5. Inside = layers[i]
    BY <2>2, <2>3, <2>4 DEF Inside
  <2> QED  BY <2>2, <2>5
<1> QED  BY <1>1, LayersInvariance, PTL

\* The id of an attached service names the remote layers in the order they were
\* added, and then the service.
THEOREM HandlesNameLayers == LayersSpec => []HandleNamesLayers
<1>1. LayersInv => HandleNamesLayers
  <2> SUFFICES ASSUME LayersInv, phase = "attached"
               PROVE  NamesRemote(Front(handle)) /\ Last(handle) = "service"
    BY DEF HandleNamesLayers
  <2>1. mode = "attach" /\ left = <<>> /\ layers \in Seq(Layers) /\ Len(left) + 1 = 1
    BY DEF LayersInv, LayersTyped
  <2>2. PICK q \in Seq(Names) : handle = q \o <<"service">> /\ NamesFrom(q, 1)
    BY <2>1 DEF LayersInv, HandleOK
  <2>3. Front(handle) = q /\ Last(handle) = "service"
    BY <2>2 DEF Front, Last
  <2>4. \A i \in DOMAIN layers : i >= 1
    BY <2>1
  <2> QED  BY <2>2, <2>3, <2>4 DEF NamesFrom, NamesRemote, IsRemote, RemoteAt, Range
<1> QED  BY <1>1, LayersInvariance, PTL
=============================================================================
