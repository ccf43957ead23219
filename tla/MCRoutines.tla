------------------------------ MODULE MCRoutines ------------------------------
(***************************************************************************)
(* The routines and programs that nothing else writes to while they run,   *)
(* in one run: a behaviour chooses one of them and stays with it.          *)
(***************************************************************************)
EXTENDS ArgUtil, Lib, KeyMap, Grep, Fish

VARIABLE job

PatternSet == {<<"a">>, <<"a", "b">>}
OnOff == <<3, 1>>

RoutinesInit == job = "none" /\ ArgInit /\ LibInit /\ KeyInit /\ GrepInit /\ FishInit

On(name) == job \in {"none", name} /\ job' = name

RoutinesNext ==
    \/ On("arg_util") /\ ArgNext /\ UNCHANGED <<lVars, kVars, gVars, fVars>>
    \/ On("lib") /\ LibNext /\ UNCHANGED <<argument_string, kVars, gVars, fVars>>
    \/ On("keyboard") /\ KeyNext /\ UNCHANGED <<argument_string, lVars, gVars, fVars>>
    \/ On("grep") /\ GrepNext /\ UNCHANGED <<argument_string, lVars, kVars, fVars>>
    \/ On("fish") /\ FishNext /\ UNCHANGED <<argument_string, lVars, kVars, gVars>>

RoutinesSpec ==
    RoutinesInit /\ [][RoutinesNext]_<<job, argument_string, lVars, kVars, gVars, fVars>>
=============================================================================
