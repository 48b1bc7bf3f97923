--------------------------- MODULE MCLocalProcess ---------------------------
(* An instance of LocalProcess for TLC. *)
EXTENDS LocalProcess, TLC

Lines(out, err) == ("stdout" :> out) @@ ("stderr" :> err)
Quiet == Lines(0, 0)
P(lines, bad, ends, deaf) ==
    [lines |-> lines, bad |-> bad, ends |-> ends, deaf |-> deaf]

(* Writers that fill the pipe of either stream, with and without an ear for *)
(* SIGTERM, and two whose output is not text.                               *)
MCPrograms ==
    {P(l, Quiet, e, d) : l \in {Lines(1, 3), Lines(3, 0)},
                         e \in {"done", "input", "never"}, d \in BOOLEAN}
    \cup {P(Lines(2, 1), Lines(1, 0), "done", FALSE),
          P(Lines(1, 2), Lines(0, 2), "never", TRUE)}

=============================================================================
