--------------------------- MODULE CommandLayers ---------------------------
(***************************************************************************)
(* What execution layers make of a command (command-executor/src/layered): *)
(* each layer that was added wraps the command of the layer before it, and *)
(* the wrapped command is then unwrapped by the programs it is handed to,  *)
(* ssh and its remote shell, docker exec and its sh -c, until the program  *)
(* itself runs.  The attacher's layers wrap the handle of a service.       *)
(***************************************************************************)
EXTENDS Naturals, Sequences, SequencesExt

CONSTANTS
    Layers,         \* the layers that can be added
    MaxLayers,      \* how many are added at most
    Lines,          \* the argument lists a command is built with
    CalledPrograms  \* the programs it is built with

None == "none"

(* What a shell would do to a text: nothing; split it; act on a character  *)
(* of shell_escape's list; lose it, being empty; take a leading # for a    *)
(* comment; expand a ~ (a leading one, or behind the = of what looks like  *)
(* an assignment).                                                         *)
Texts == {"plain", "blank", "meta", "nothing", "hash", "tilde"}
\* Of these, what shell_escape should have quoted and does not.
Unquoted == {"nothing", "hash", "tilde"}

(* kind and name of a layer, and whether it sets an environment and a      *)
(* directory.  The name stands for all that tells two layers apart.        *)
ASSUME LayersAssumption ==
    /\ \A l \in Layers : l.kind \in {"local", "ssh", "docker"}
                         /\ l.env \in BOOLEAN /\ l.dir \in BOOLEAN
    /\ \A l, m \in Layers : l.name = m.name => l = m
    /\ MaxLayers \in Nat /\ Lines \subseteq Seq(Texts)
    /\ CalledPrograms \subseteq {"app", "odd"}    \* odd: not plain

VARIABLES
    mode,           \* "execute" or "attach"
    layers,         \* in the order they were added
    line,           \* the caller's arguments
    called,         \* the caller's program
    left,           \* of layers, those that have not wrapped yet
    command,        \* the command wrapped so far
    phase,          \* "build", "wrap", "run", "arrived", "attached", "failed"
    path,           \* where the process runs: the machines entered so far
    current,        \* what runs there
    handle          \* of an attached service: the parts of its id

layersVars == <<mode, layers, line, called, left, command, phase, path, current, handle>>
given == <<mode, layers, line, called>>

(* A word is a text, or a script made of a whole command.  An environment  *)
(* or a directory is the name of the layer it comes from.                  *)
Word(t) == [text |-> t, script |-> <<>>]
Script(assigned, cd, body) ==
    [text |-> "script",
     script |-> <<[assigned |-> assigned, cd |-> cd, body |-> body]>>]

(* Command::new and its builder methods. *)
Command(program, to, env, dir, args) ==
    [program |-> program, to |-> to, flags |-> [env |-> env, dir |-> dir],
     args |-> args, env |-> {}, dir |-> None]
Original == Command(called, None, {}, None, [i \in DOMAIN line |-> Word(line[i])])

EnvOf(l) == IF l.env THEN {l.name} ELSE {}
DirOf(l) == IF l.dir THEN l.name ELSE None

(***************************************************************************)
(* Text of a command.  shell_escape quotes what holds white space or a     *)
(* character of its list, which has neither # nor ~; an empty text it does *)
(* not quote either.                                                       *)
(***************************************************************************)
IsLong(s) == s.assigned # {} \/ s.cd # None
             \/ s.body.program # "app" \/ s.body.words # <<>>

\* The mistake of a list that holds white space only.
M_Special(w) == w.text = "blank" \/ (w.text = "script" /\ IsLong(w.script[1]))
Special(w) == w.text \in {"blank", "meta"}
              \/ (w.text = "script" /\ IsLong(w.script[1]))

(* command_to_shell_string: the environment and directory of the command   *)
(* itself, and its stdin channel, are not part of the text.  The program   *)
(* is never quoted.                                                        *)
\* The mistake of arguments joined as they are.
M_CommandToShellString(c) ==
    [program |-> c.program, to |-> c.to, flags |-> c.flags,
     words |-> [i \in DOMAIN c.args |-> [word |-> c.args[i], quoted |-> FALSE]]]
CommandToShellString(c) ==
    [program |-> c.program, to |-> c.to, flags |-> c.flags,
     words |-> [i \in DOMAIN c.args |->
                  [word |-> c.args[i], quoted |-> Special(c.args[i])]]]

(* What a POSIX shell passes on of such a text. *)
ShellPasses(q) ==
    CASE q.quoted \/ q.word.text = "plain" -> <<q.word>>
      [] q.word.text = "nothing" -> <<>>
      [] q.word.text = "script" /\ ~IsLong(q.word.script[1]) -> <<q.word>>
      [] OTHER -> <<Word("garbled")>>
BeforeComment(words) ==
    LET hash == {i \in DOMAIN words :
                   ~words[i].quoted /\ words[i].word.text = "hash"}
    IN IF hash = {} THEN words
       ELSE SubSeq(words, 1, (CHOOSE i \in hash : \A j \in hash : i <= j) - 1)
Shell(words) == FlattenSeq([i \in DOMAIN BeforeComment(words) |-> ShellPasses(words[i])])

(***************************************************************************)
(* The layers                                                              *)
(***************************************************************************)
LayersInit ==
    /\ mode \in {"execute", "attach"} /\ line \in Lines /\ called \in CalledPrograms
    /\ layers = <<>> /\ left = <<>> /\ phase = "build"
    /\ command = Original /\ current = Original
    /\ path = <<>> /\ handle = <<>>

WithLayer(l) ==
    /\ phase = "build" /\ Len(layers) < MaxLayers
    /\ layers' = Append(layers, l)
    /\ UNCHANGED <<mode, line, called, left, command, phase, path, current, handle>>

\* The mistake of folding from the layer added last.
M_Fold(ls) == Reverse(ls)
Fold(ls) == ls

Execute ==
    /\ phase = "build" /\ mode = "execute"
    /\ phase' = "wrap" /\ left' = Fold(layers)
    /\ UNCHANGED <<given, command, path, current, handle>>

InLayer(c, l) == [c EXCEPT !.env = @ \cup EnvOf(l),
                           !.dir = IF l.dir THEN l.name ELSE @]

WrapLocal(l, c) == InLayer(c, l)

(* The assignments stand before the cd, which therefore is the one command *)
(* they are made for.                                                      *)
WrapSsh(l, c) ==
    Command("ssh", l.name, {}, None,
            <<Script(EnvOf(l), DirOf(l), CommandToShellString(InLayer(c, l)))>>)

\* The mistake of a docker exec without its -e flags.
M_WrapDocker(l, c) ==
    Command("docker", l.name, {}, DirOf(l),
            <<Script({}, None, CommandToShellString(c))>>)
WrapDocker(l, c) ==
    Command("docker", l.name, EnvOf(l), DirOf(l),
            <<Script({}, None, CommandToShellString(c))>>)

(* The execution context is handed to every layer and used by none. *)
WrapCommand(l, c) == CASE l.kind = "local" -> WrapLocal(l, c)
                       [] l.kind = "ssh" -> WrapSsh(l, c)
                       [] l.kind = "docker" -> WrapDocker(l, c)

Wrap ==
    /\ phase = "wrap" /\ left # <<>>
    /\ command' = WrapCommand(Head(left), command) /\ left' = Tail(left)
    /\ UNCHANGED <<given, phase, path, current, handle>>

(* prepare and spawn. *)
LaunchWrapped ==
    /\ phase = "wrap" /\ left = <<>>
    /\ phase' = "run" /\ current' = command
    /\ UNCHANGED <<given, left, command, path, handle>>

\* The launch fails: execute returns the error.
LaunchFails ==
    /\ phase = "wrap" /\ mode = "execute" /\ left = <<>>
    /\ phase' = "failed"
    /\ UNCHANGED <<given, left, command, path, current, handle>>

(***************************************************************************)
(* The programs that unwrap the command again                              *)
(***************************************************************************)
(* A program that is not plain is read as something else, with what is     *)
(* left as its arguments.                                                  *)
Program(body, env, dir) ==
    LET misread == body.program = "odd"
    IN  [program |-> IF misread THEN "misread" ELSE body.program,
         to |-> body.to, flags |-> body.flags,
         args |-> IF misread THEN <<Word("garbled")>> ELSE Shell(body.words),
         env |-> env, dir |-> dir]

Enter(env, dir) ==
    LET s == current.args[1].script[1]
        inSh == s.assigned # {} /\ s.cd = None
    IN /\ phase = "run" /\ current.args # <<>> /\ current.args[1].text = "script"
       /\ path' = Append(path, current.to)
       /\ current' = Program(s.body, env \cup (IF inSh THEN s.assigned ELSE {}),
                             IF s.cd = None THEN dir ELSE s.cd)
       /\ UNCHANGED <<given, left, command, phase, handle>>

RemoteShell == current.program = "ssh" /\ Enter({}, None)
DockerExec == current.program = "docker" /\ Enter(current.flags.env, current.flags.dir)

\* No connection, no such container, no such program.
EntryFails ==
    /\ phase = "run"
    /\ phase' = "failed"
    /\ UNCHANGED <<given, left, command, path, current, handle>>

Arrive ==
    /\ phase = "run" /\ current.program \notin {"ssh", "docker"}
    /\ phase' = "arrived"
    /\ UNCHANGED <<given, left, command, path, current, handle>>

(***************************************************************************)
(* LayeredAttacher::attach.  The target is handed to the inner attacher as *)
(* it is (transform_target has no caller), no layer changes the stream.    *)
(***************************************************************************)
AttachInner ==
    /\ phase = "build" /\ mode = "attach"
    /\ phase' = "wrap" /\ handle' = <<"service">>
    /\ left' = Reverse(layers)
    /\ UNCHANGED <<given, command, path, current>>

\* The inner attacher returns an error.
AttachFails ==
    /\ phase = "build" /\ mode = "attach"
    /\ phase' = "failed"
    /\ UNCHANGED <<given, left, command, path, current, handle>>

\* The mistake of a wrapper whose id puts the inner one first.
M_WrapId(l, id) == IF l.kind = "local" THEN id ELSE Append(id, l.name)
WrapId(l, id) == IF l.kind = "local" THEN id ELSE <<l.name>> \o id

WrapHandle ==
    /\ phase = "wrap" /\ mode = "attach" /\ left # <<>>
    /\ handle' = WrapId(Head(left), handle) /\ left' = Tail(left)
    /\ UNCHANGED <<given, command, phase, path, current>>

(* The handle's status goes through the wrappers to the target's own       *)
(* status command, which runs here.                                        *)
Status ==
    /\ phase = "wrap" /\ mode = "attach" /\ left = <<>>
    /\ phase' = "attached" /\ current' = command
    /\ UNCHANGED <<given, left, command, path, handle>>

LayersNext ==
    \/ \E l \in Layers : WithLayer(l)
    \/ Execute \/ (mode = "execute" /\ (Wrap \/ LaunchWrapped))
    \/ RemoteShell \/ DockerExec \/ Arrive
    \/ AttachInner \/ WrapHandle \/ Status
    \/ LaunchFails \/ EntryFails \/ AttachFails

Unwrapping == Execute \/ (mode = "execute" /\ (Wrap \/ LaunchWrapped))
              \/ RemoteShell \/ DockerExec \/ Arrive

LayersSpec == LayersInit /\ [][LayersNext]_layersVars
(* Nobody waits for anything but the end of a step. *)
LayersFairSpec == LayersSpec /\ WF_layersVars(Unwrapping)

----------------------------------------------------------------------------
IsRemote(l) == l.kind # "local"

(* names are those of the remote layers, in the order they were added.     *)
NamesRemote(names) ==
    \E place \in [DOMAIN names -> DOMAIN layers] :
      /\ \A i, k \in DOMAIN names : i < k => place[i] < place[k]
      /\ Range(place) = {m \in DOMAIN layers : IsRemote(layers[m])}
      /\ \A i \in DOMAIN names : names[i] = layers[place[i]].name

(* Through any stack of layers the program gets the arguments the caller   *)
(* gave, each as one word: every layer's text is quoted once more by the   *)
(* next (shell_escape, command_to_shell_string).  Without a remote layer   *)
(* that holds of every argument; behind one, not of a command with an      *)
(* argument that is empty or has a # or ~ where the shell reads it, which  *)
(* are not quoted, nor of a program that is not a plain name.              *)
Quotable == called = "app" /\ \A i \in DOMAIN line : line[i] \notin Unquoted
ArgumentsArrive ==
    (phase = "arrived" /\ (path = <<>> \/ Quotable))
      => current.program = called /\ current.args = Original.args

(* The command is wrapped in the order the layers were added, so the layer *)
(* added last is entered first, each exactly once, and the program runs    *)
(* inside the one added first (LayeredExecutor::execute).  The README has  *)
(* it the other way round: EnteredInOrder, below.                          *)
LayersNested == phase = "arrived" => NamesRemote(Reverse(path))

(* What command-executor/README.md:86 says of with_layer(ssh) followed by  *)
(* with_layer(docker), "SSH to remote-host, then docker exec", and the     *)
(* comment at executor.rs:278, "first added = outermost": the layers are   *)
(* entered in the order they were added.  Does not hold of execute.        *)
EnteredInOrder == phase = "arrived" => NamesRemote(path)

(* What runs inside a layer runs with that layer's environment and in its  *)
(* directory, and with no other layer's.  An ssh layer that also has a     *)
(* directory is left out: its assignments are made for the cd alone        *)
(* (SshLayer::wrap_command, DockerLayer::wrap_command).                    *)
Inside == CHOOSE l \in Range(layers) : l.name = Last(path)
SettingsHold ==
    (path # <<>> /\ ~(Inside.kind = "ssh" /\ Inside.env /\ Inside.dir))
      => current.env = EnvOf(Inside) /\ current.dir = DirOf(Inside)

(* Whatever the layers are, the command comes to run, unless the launch, a *)
(* connection or a container fails: no layer produces a text that the shell*)
(* it is meant for cannot read back (ExecutionLayer::wrap_command).        *)
Arrives == (phase = "wrap" /\ mode = "execute") ~> (phase \in {"arrived", "failed"})

(* The id of an attached service names the layers in the order they were   *)
(* added, then the service (LayeredAttacher::attach, wrap_handle).         *)
HandleNamesLayers ==
    phase = "attached" => NamesRemote(Front(handle)) /\ Last(handle) = "service"
=============================================================================
