--------------------------- MODULE MCCommandLayers --------------------------
(* An instance of CommandLayers for TLC. *)
EXTENDS CommandLayers, TLC

L(kind, name, env, dir) == [kind |-> kind, name |-> name, env |-> env, dir |-> dir]

(* Two local layers, two remote machines and two containers, with every    *)
(* combination of settings among them.                                     *)
MCLayers == {
    L("local", "here", TRUE, FALSE), L("local", "there", FALSE, TRUE),
    L("ssh", "host", TRUE, FALSE), L("ssh", "jump", FALSE, TRUE),
    L("ssh", "both", TRUE, TRUE),
    L("docker", "box", TRUE, TRUE), L("docker", "bare", FALSE, FALSE)}

MCLines == {
    <<>>, <<"plain">>, <<"blank">>, <<"meta">>, <<"nothing">>, <<"hash">>,
    <<"tilde">>, <<"plain", "tilde">>,
    <<"meta", "plain">>, <<"blank", "meta">>, <<"plain", "nothing", "plain">>,
    <<"plain", "hash", "meta">>}
=============================================================================
