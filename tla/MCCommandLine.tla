---------------------------- MODULE MCCommandLine ----------------------------
(***************************************************************************)
(* A database, an API that depends on it and an application that depends   *)
(* on the API; the application reads the address of the database.  The     *)
(* same with a variable of the API's environment that is not set.  Then a  *)
(* diamond's half where two services need the database, one with its port; *)
(* references that no dependency backs; and a cycle.                       *)
(***************************************************************************)
EXTENDS CommandLine, TLC

CONSTANTS db, api, app

Depends(onApi, onApp, onDb) ==
    [n \in Names |-> CASE n = api -> onApi [] n = app -> onApp
                       [] n = db -> onDb [] OTHER -> {}]
Refers(ofApi, ofApp) ==
    [s \in Services |-> CASE s = api -> ofApi [] s = app -> ofApp [] OTHER -> {}]
Address(s) == [service |-> s, what |-> "address"]
Port(s) == [service |-> s, what |-> "port"]

MCConfigurations ==
    {[deps |-> Depends({db}, {api}, {}), checked |-> {db}, unset |-> {},
      refs |-> Refers({Address(db)}, {Address(db), Address(api)})],
     [deps |-> Depends({db}, {api}, {}), checked |-> {}, unset |-> {api},
      refs |-> Refers({}, {Address(api)})],
     [deps |-> Depends({db}, {db}, {}), checked |-> {}, unset |-> {},
      refs |-> Refers({Port(db)}, {Address(db)})],
     [deps |-> Depends({db}, {}, {}), checked |-> {api}, unset |-> {},
      refs |-> Refers({}, {Address(api)})],
     [deps |-> Depends({db}, {api}, {app}), checked |-> {}, unset |-> {},
      refs |-> Refers({}, {})]}
=============================================================================
