-------------------------- MODULE MCServiceManager --------------------------
(* Small instances of ServiceManager for TLC. *)
EXTENDS ServiceManager, TLC

CONSTANTS a, b, d, dt, r

\* a and b are process services, r is one no executor handles, d and dt docker
\* services of which dt's container name contains what d's detection looks for
\* (services "db" and "db-harness-test").
MCKind == [n \in Names |-> CASE n \in {a, b} -> "process"
                           [] n \in {d, dt} -> "docker"
                           [] OTHER -> "remote"]
MCDetectMatches == {<<d, dt>>} \cap (Names \X Names)

Symmetry == Permutations(Clients) \cup Permutations(Instances)
=============================================================================
