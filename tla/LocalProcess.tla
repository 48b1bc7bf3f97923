---------------------------- MODULE LocalProcess ----------------------------
(***************************************************************************)
(* One process launched by LocalLauncher (command-executor/src/backends/   *)
(* launcher.rs) and what its callers do with the two values they get, the  *)
(* event stream and the handle:                                            *)
(*   "execute"      Launcher::execute: collect all events, then wait       *)
(*   "interactive"  the same, with lines forwarded to stdin                *)
(*   "service"      ProcessExecutor: keep both in a map until stop         *)
(*   "logs"         stream_events of the attached executors: return the    *)
(*                  stream and drop the handle                             *)
(* The process has no children of its own that inherit its pipes.          *)
(***************************************************************************)
EXTENDS Naturals, Sequences, FiniteSets

CONSTANTS
    Programs,           \* what the launched processes may do
    Capacity,           \* lines a pipe holds
    MaxInput,           \* lines sent to a process at most
    Readers             \* who may call stream_events of a service

Streams == {"stdout", "stderr"}
Callers == {"execute", "interactive", "service", "logs"}

(* lines: how many a program writes; bad: the one of them that is not text *)
(* (0: none); ends: by itself, at the end of its input, or never; deaf: it *)
(* ignores SIGTERM.                                                        *)
ASSUME ProgramsAssumption ==
    \A p \in Programs :
      /\ p.lines \in [Streams -> Nat] /\ p.bad \in [Streams -> Nat]
      /\ p.ends \in {"done", "input", "never"} /\ p.deaf \in BOOLEAN
ASSUME BoundsAssumption == Capacity \in Nat \ {0} /\ MaxInput \in Nat

VARIABLES
    caller, program,
    at,                 \* "new", "held", "waiting", "terminated", "over"
    child, cause,       \* the process, and how it ended
    termed,             \* SIGTERM is pending
    written, read,      \* lines per stream
    open,               \* which of stdout, stderr the event stream still has
    started,            \* started_sent
    holders,            \* who may poll the event stream
    ended,              \* who was told that it is over
    stdin,              \* who holds it: "handle", "forwarder", "closed"
    channel,            \* of lines for stdin: "none", "open", "closed"
    sent, forwarded, consumed

process == <<child, cause, termed, written, consumed>>
stream == <<read, open, started, ended>>
input == <<stdin, channel, sent, forwarded>>
constants == <<caller, program>>
vars == <<constants, at, process, stream, holders, input>>

Init ==
    /\ caller \in Callers /\ program \in Programs
    /\ at = "new"
    /\ child = "none" /\ cause = "none" /\ termed = FALSE
    /\ written = [s \in Streams |-> 0] /\ read = written
    /\ open = Streams /\ started = FALSE
    /\ holders = {} /\ ended = {}
    /\ stdin = "closed" /\ channel = "none"
    /\ sent = 0 /\ forwarded = 0 /\ consumed = 0

-----------------------------------------------------------------------------
(* The process: it writes while there is room, dies of SIGPIPE when nobody *)
(* holds the other end, and ends when its program says so.                 *)
Running == child = "running"
ReadEnd(s) == holders # {} /\ s \in open
Finished == \A s \in Streams : written[s] = program.lines[s]
EndOfInput == stdin = "closed" /\ consumed = forwarded

Write(s) ==
    /\ Running /\ written[s] < program.lines[s]
    /\ ReadEnd(s) /\ written[s] - read[s] < Capacity
    /\ written' = [written EXCEPT ![s] = @ + 1]
    /\ UNCHANGED <<constants, at, child, cause, termed, consumed, stream, holders, input>>

Dies(how) ==
    /\ child' = "zombie" /\ cause' = how
    /\ UNCHANGED <<termed, written, consumed>>

BrokenPipe(s) ==
    /\ Running /\ written[s] < program.lines[s] /\ ~ReadEnd(s)
    /\ Dies("signal")
    /\ UNCHANGED <<constants, at, stream, holders, input>>

ReadLine ==
    /\ Running /\ consumed < forwarded
    /\ consumed' = consumed + 1
    /\ UNCHANGED <<constants, at, child, cause, termed, written, stream, holders, input>>

Exit ==
    /\ Running /\ Finished
    /\ program.ends = "done" \/ (program.ends = "input" /\ EndOfInput)
    /\ Dies("exit")
    /\ UNCHANGED <<constants, at, stream, holders, input>>

Terminated ==
    /\ Running /\ termed /\ ~program.deaf
    /\ Dies("signal")
    /\ UNCHANGED <<constants, at, stream, holders, input>>

\* The async runtime reaps a process whose handle is gone.
Reap ==
    /\ child = "zombie" /\ at = "over"
    /\ child' = "reaped"
    /\ UNCHANGED <<constants, at, cause, termed, written, consumed, stream, holders, input>>

-----------------------------------------------------------------------------
(* Command::take_stdin_channel: only an interactive caller sets one. *)
Launch ==
    /\ at = "new"
    /\ at' = "held"
    /\ child' = "running"
    /\ holders' = {"owner"}
    /\ stdin' = "handle"
    /\ channel' = IF caller = "interactive" THEN "open" ELSE "none"
    /\ UNCHANGED <<constants, cause, termed, written, consumed, stream, sent, forwarded>>

(* Drop for LocalProcessHandle: kill_on_drop is always set.  Its stdin, if *)
(* it still has it, closes.                                                *)
M_DropHandle == UNCHANGED process /\ stdin' = "closed"
DropHandle ==
    /\ IF Running THEN Dies("signal") ELSE UNCHANGED process
    /\ stdin' = IF stdin = "handle" THEN "closed" ELSE stdin

\* take_stdin_for_forwarding, and forward_channel in a task of its own.
TakeStdin ==
    /\ at = "held" /\ stdin = "handle" /\ channel # "none"
    /\ stdin' = "forwarder"
    /\ UNCHANGED <<constants, at, process, stream, holders, channel, sent, forwarded>>

Send ==
    /\ channel = "open" /\ sent < MaxInput
    /\ sent' = sent + 1
    /\ UNCHANGED <<constants, at, process, stream, holders, stdin, channel, forwarded>>

CloseChannel ==
    /\ channel = "open"
    /\ channel' = "closed"
    /\ UNCHANGED <<constants, at, process, stream, holders, stdin, sent, forwarded>>

\* forward_channel: a line that cannot be written ends it.
Forward ==
    /\ stdin = "forwarder" /\ forwarded < sent
    /\ IF Running
       THEN /\ forwarded - consumed < Capacity
            /\ forwarded' = forwarded + 1 /\ UNCHANGED stdin
       ELSE stdin' = "closed" /\ UNCHANGED forwarded
    /\ UNCHANGED <<constants, at, process, stream, holders, channel, sent>>

M_Drained == channel = "closed"
Drained == channel = "closed" /\ forwarded = sent

ForwarderEnds ==
    /\ stdin = "forwarder" /\ Drained
    /\ stdin' = "closed"
    /\ UNCHANGED <<constants, at, process, stream, holders, channel, sent, forwarded>>

-----------------------------------------------------------------------------
(* ProcessEventStream::poll_next.  A stream whose writer is gone, or whose *)
(* next line is not text, is removed.                                      *)
HasLine(s) == s \in open /\ read[s] < written[s] /\ program.bad[s] # read[s] + 1
Lost(s) == \/ read[s] < written[s] /\ program.bad[s] = read[s] + 1
           \/ read[s] = written[s] /\ ~Running

M_Polled == IF "stdout" \in open THEN <<"stdout">> ELSE <<"stderr">>
Polled == <<"stdout", "stderr">>

\* What a poll finds: the first of the polled streams that has a line.
Ready == {i \in DOMAIN Polled : HasLine(Polled[i])}
M_Passed(n) == {s \in open : \E i \in 1..n : Lost(Polled[i])}
Passed(n) == {s \in open : Lost(s) /\ \E i \in 1..n : Polled[i] = s}

Told(r) == ended' = ended \cup {r}

Poll(r) ==
    /\ r \in holders \ ended
    /\ \/ /\ ~started
          /\ started' = TRUE
          /\ UNCHANGED <<read, open, ended>>
       \/ /\ started /\ Ready # {}
          /\ LET i == CHOOSE j \in Ready : \A k \in Ready : j <= k
             IN  /\ read' = [read EXCEPT ![Polled[i]] = @ + 1]
                 /\ open' = open \ Passed(i - 1)
          /\ UNCHANGED <<started, ended>>
       \/ /\ started /\ Ready = {}
          /\ open' = open \ Passed(Len(Polled))
          /\ IF open' = {} THEN Told(r) ELSE UNCHANGED ended
          /\ open' # open \/ ended' # ended
          /\ UNCHANGED <<read, started>>
    /\ UNCHANGED <<constants, at, process, holders, input>>

-----------------------------------------------------------------------------
Collects == caller \in {"execute", "interactive"}
OwnerPolls == at = "held" /\ Collects /\ Poll("owner")

\* Launcher::execute: the events are over, and the handle waits.
Collected ==
    /\ at = "held" /\ Collects /\ "owner" \in ended
    /\ at' = "waiting"
    /\ UNCHANGED <<constants, process, stream, holders, input>>

\* It returns with the status; stream and handle go out of scope.
Wait ==
    /\ at = "waiting" /\ child = "zombie"
    /\ at' = "over"
    /\ holders' = {}
    /\ stdin' = IF stdin = "handle" THEN "closed" ELSE stdin
    /\ child' = "reaped"
    /\ UNCHANGED <<constants, cause, termed, written, consumed, stream, channel, sent, forwarded>>

\* stream_events of an attached executor returns: the handle is dropped.
ReturnStream ==
    /\ at = "held" /\ caller = "logs"
    /\ at' = "over"
    /\ DropHandle
    /\ \E r \in Readers : holders' = {r}
    /\ UNCHANGED <<constants, stream, channel, sent, forwarded>>

\* ProcessExecutor::stream_events, create_forwarding_stream: the stream is shared.
StreamEvents(r) ==
    /\ at = "held" /\ caller = "service" /\ r \notin holders
    /\ holders' = holders \cup {r}
    /\ UNCHANGED <<constants, at, process, stream, input>>

\* ProcessExecutor::stop takes both out of its map, terminates the process...
Terminate ==
    /\ at = "held" /\ caller = "service"
    /\ at' = "terminated"
    /\ termed' = TRUE
    /\ UNCHANGED <<constants, child, cause, written, consumed, stream, holders, input>>

\* ... and drops them.
DropInfo ==
    /\ at = "terminated"
    /\ at' = "over"
    /\ DropHandle
    /\ holders' = holders \ {"owner"}
    /\ UNCHANGED <<constants, stream, channel, sent, forwarded>>

ReaderPolls(r) == r # "owner" /\ Poll(r)

ChildStep ==
    \/ \E s \in Streams : Write(s) \/ BrokenPipe(s)
    \/ ReadLine \/ Exit \/ Terminated \/ Reap
InputStep == TakeStdin \/ Forward \/ ForwarderEnds
CallerStep == Launch \/ OwnerPolls \/ Collected \/ Wait \/ ReturnStream \/ DropInfo

Next ==
    \/ ChildStep \/ InputStep \/ CallerStep
    \/ Send \/ CloseChannel \/ Terminate
    \/ \E r \in Readers : StreamEvents(r) \/ ReaderPolls(r)

Spec == Init /\ [][Next]_vars

(* The scheduler runs processes and tasks; nobody need send, close, stop   *)
(* or ask for the events of a service.                                     *)
FairSpec ==
    /\ Spec
    /\ \A s \in Streams : WF_vars(Write(s)) /\ WF_vars(BrokenPipe(s))
    /\ WF_vars(ReadLine) /\ WF_vars(Exit) /\ WF_vars(Terminated)
    /\ WF_vars(InputStep) /\ WF_vars(CallerStep)
    /\ \A r \in Readers : WF_vars(ReaderPolls(r))

-----------------------------------------------------------------------------
(* Every reachable state has the declared types; a pipe never holds more   *)
(* than it can, and no more is consumed than was sent.                     *)
TypeOK ==
    /\ caller \in Callers /\ program \in Programs
    /\ at \in {"new", "held", "waiting", "terminated", "over"}
    /\ child \in {"none", "running", "zombie", "reaped"}
    /\ cause \in {"none", "exit", "signal"} /\ termed \in BOOLEAN
    /\ \A s \in Streams : /\ read[s] \in 0..written[s]
                          /\ written[s] \in 0..program.lines[s]
                          /\ written[s] - read[s] <= Capacity
    /\ open \subseteq Streams /\ started \in BOOLEAN
    /\ holders \subseteq Readers \cup {"owner"} /\ ended \subseteq Readers \cup {"owner"}
    /\ stdin \in {"handle", "forwarder", "closed"}
    /\ channel \in {"none", "open", "closed"}
    /\ consumed \in 0..forwarded /\ forwarded \in 0..sent /\ sent \in 0..MaxInput

(* What execute returns as output is all the process wrote (launcher.rs:    *)
(* "capturing output"), unless a line is not text: a poll that finds stdout *)
(* closed must not end the stream while stderr has lines, and waiting comes *)
(* after both are over.  A process execute waits for is not disturbed.      *)
OutputIsComplete ==
    (Collects /\ at = "over" /\ program.bad = [s \in Streams |-> 0]) =>
       /\ read = program.lines
       /\ cause = "exit"

(* A process that reads to the end of its input gets every line sent to it  *)
(* before the channel was closed (StdinHandle::forward_channel).            *)
InputIsComplete ==
    (caller = "interactive" /\ program.ends = "input" /\ cause = "exit") => consumed = sent

(* execute comes back: reading one stream never lets the process block on   *)
(* the other.  Not if it waits for the end of its input, which the handle   *)
(* of execute holds open, and an interactive caller need not close.         *)
Answerable == program.ends = "done" \/ (program.ends = "input" /\ channel = "closed")
Returns == (Collects /\ at # "new" /\ Answerable) ~> at = "over"

(* Once a service is stopped or a handle dropped the process ends, even one *)
(* that ignores SIGTERM, and everyone who follows its events is told so.    *)
DroppedEnds ==
    \A r \in Readers :
       (at = "over") ~> (~Running /\ (r \in holders => r \in ended))

=============================================================================
