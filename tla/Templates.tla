------------------------------ MODULE Templates ------------------------------
(***************************************************************************)
(* The values of a service's environment (harness-config/src/resolver.rs): *)
(* find_variables scans a string for ${...}, resolve_string puts in what a *)
(* context knows.  A string is a sequence of tokens; a word stands for any *)
(* word of its class: "NAME" for an upper-case one, "svc" for a lower-case *)
(* one that is no property, "ip" for one that is.  Two words never touch.  *)
(***************************************************************************)
EXTENDS Integers, Sequences, FiniteSets, SequencesExt

CONSTANT MaxPieces      \* how many pieces a template is written from
ASSUME PiecesAssumption == MaxPieces \in Nat

Open == "${"
Close == "}"
Words == {"NAME", "svc", "ip"}
Properties == {"ip"}                   \* ip, port, host
Malformed == [is |-> "malformed"]

Env(default) == [is |-> "env", default |-> default]
NoDefault == <<"none">>
Ref(service) == [is |-> "ref", service |-> service]

(* What a user writes: text, variables with and without a default, service *)
(* references, an expression that is neither, and a ${ never closed.       *)
Text == [is |-> "text"]
Unclosed == [is |-> "unclosed"]
Pieces == {Text, Malformed, Unclosed, Env(NoDefault), Ref("svc")}
          \cup {Env(d) : d \in {<<>>, <<"_">>, <<"_", ".", "_">>, <<Open>>}}

Written(p) ==
    CASE p.is = "text"      -> <<"_", Close>>
      [] p.is = "unclosed"  -> <<Open, "_">>
      [] p.is = "malformed" -> <<Open, "svc", Close>>
      [] p.is = "env"       -> <<Open, "NAME">>
                               \o (IF p.default = NoDefault THEN <<>>
                                   ELSE <<":-">> \o p.default) \o <<Close>>
      [] p.is = "ref"       -> <<Open, p.service, ".", "ip", Close>>

Opened(p) == p = Unclosed
Templates == {t \in UNION {[1..n -> Pieces] : n \in 0..MaxPieces} :
                \A i \in DOMAIN t : Opened(t[i]) => i = Len(t)}
Flat(t) == FlattenSeq([i \in DOMAIN t |-> Written(t[i])])

VARIABLES
    template, input,     \* what is written, and the string of it
    provided,            \* what the ResolutionContext knows: "NAME", "svc"
    remaining,           \* find_variables: what is left to scan
    output, missing,     \* resolve_string: result, errors
    verdict              \* "scanning", "malformed", "missing" or "resolved"

templateVars == <<template, input, provided, remaining, output, missing, verdict>>

TemplateInit ==
    /\ template \in Templates
    /\ input = Flat(template)
    /\ provided \in SUBSET {"NAME", "svc"}
    /\ remaining = input
    /\ output = <<>> /\ missing = {} /\ verdict = "scanning"

-----------------------------------------------------------------------------
(* parse_variable_expr: with a dot it can only be a reference. *)
M_IsReference(content) == ":-" \notin Range(content)
IsReference(content) == Contains(content, ".")

Default(content) == SubSeq(content, 3, Len(content))

Parse(content) ==
    IF content = <<>> THEN Malformed
    ELSE IF IsReference(content)
    THEN IF Len(content) = 3 /\ content[1] \in Words /\ content[2] = "."
              /\ content[3] \in Properties
         THEN Ref(content[1])
         ELSE Malformed
    ELSE IF content[1] # "NAME" THEN Malformed
    ELSE IF Len(content) = 1 THEN Env(NoDefault)
    ELSE IF content[2] = ":-" THEN Env(Default(content))
    ELSE Malformed

\* A variable of the environment wins over its default.
Value(v) == IF v.is = "ref" THEN <<"address">>
            ELSE IF "NAME" \in provided THEN <<"value">> ELSE v.default

M_Known(v) == IF v.is = "ref" THEN v.service \in provided ELSE "NAME" \in provided
Known(v) == IF v.is = "ref" THEN v.service \in provided
            ELSE "NAME" \in provided \/ v.default # NoDefault

First(token, q) == SelectInSeq(q, LAMBDA t : t = token)

\* No ${ is left: the rest is copied.
Complete ==
    /\ verdict = "scanning"
    /\ First(Open, remaining) = 0
    /\ output' = output \o remaining
    /\ remaining' = <<>>
    /\ verdict' = IF missing = {} THEN "resolved" ELSE "missing"
    /\ UNCHANGED <<template, input, provided, missing>>

\* The expression reaches to the first } after the ${, whatever is between.
Expression(from) ==
    LET rest == SubSeq(remaining, from + 1, Len(remaining))
    IN  SubSeq(rest, 1, First(Close, rest) - 1)

M_After(from, content) == from + Len(content) + 1
After(from, content) == from + Len(content) + 2

Variable ==
    LET from == First(Open, remaining)
        content == Expression(from)
        v == Parse(content)
    IN
    /\ verdict = "scanning"
    /\ from # 0
    /\ \E i \in from..Len(remaining) : remaining[i] = Close
    /\ IF v = Malformed
       THEN verdict' = "malformed" /\ UNCHANGED <<remaining, output, missing>>
       ELSE /\ remaining' = SubSeq(remaining, After(from, content), Len(remaining))
            /\ output' = output \o SubSeq(remaining, 1, from - 1)
                         \o (IF Known(v) THEN Value(v) ELSE <<>>)
            /\ missing' = missing \cup (IF Known(v) THEN {} ELSE {v})
            /\ UNCHANGED verdict
    /\ UNCHANGED <<template, input, provided>>

\* A ${ that is never closed is text.
NotClosed ==
    LET from == First(Open, remaining) IN
    /\ verdict = "scanning"
    /\ from # 0
    /\ \A i \in from..Len(remaining) : remaining[i] # Close
    /\ remaining' = SubSeq(remaining, from + 1, Len(remaining))
    /\ output' = output \o SubSeq(remaining, 1, from)
    /\ UNCHANGED <<template, input, provided, missing, verdict>>

TemplateNext == Complete \/ Variable \/ NotClosed
TemplateSpec == TemplateInit /\ [][TemplateNext]_templateVars

-----------------------------------------------------------------------------
Dotted(p) == p.is = "env" /\ Contains(p.default, ".")

(* What README.md of harness says of each piece: the variable or else its  *)
(* default, the address of a started service, or the text itself.          *)
Meaning(p) ==
    CASE p.is = "env" /\ "NAME" \in provided    -> <<"value">>
      [] p.is = "env" /\ "NAME" \notin provided -> p.default
      [] p.is = "ref"                          -> <<"address">>
      [] OTHER                                 -> Written(p)
Meaningless == {p \in Range(template) :
                  \/ p = Env(NoDefault) /\ "NAME" \notin provided
                  \/ p = Ref("svc") /\ "svc" \notin provided}

(* The string resolve_string makes is the one written with each variable's *)
(* value in its place: nothing of the text is lost, repeated or moved, and *)
(* a default, or a ${ inside one, is taken as it is.                       *)
ResolvedIsMeant ==
    verdict = "resolved" =>
      output = FlattenSeq([i \in DOMAIN template |-> Meaning(template[i])])

(* A variable is reported missing exactly if the template has one that the *)
(* context does not know and that has no default, never for part of a text.*)
MissingIsMissing ==
    verdict \in {"missing", "resolved"} => missing = Meaningless

(* What is written according to the grammar is accepted, defaults with a   *)
(* dot left aside.                                                         *)
WellFormedAccepted ==
    verdict = "malformed" =>
      \E i \in DOMAIN template : template[i] = Malformed \/ Dotted(template[i])

(* Does not hold (parse_env_var takes no dot, resolver.rs:105):            *)
(* the README of harness says of ${VAR:-default} that it stands for VAR or *)
(* the default, and a configuration of the repository has                  *)
(* ${API_HOST:-0.0.0.0}; the dot makes it a malformed service reference.   *)
AnyDefaultAccepted ==
    verdict = "malformed" => \E i \in DOMAIN template : template[i] = Malformed
=============================================================================
