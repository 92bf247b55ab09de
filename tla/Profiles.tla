------------------------------- MODULE Profiles --------------------------------
(* The profile package and its users in this repository: the operations on a   *)
(* profile (ProfileOperations) and the call graphs that the profilers make of  *)
(* the profiles they read (CallGraph). They share nothing but definitions; in  *)
(* a behaviour at most one of them has something to do.                        *)
EXTENDS ProfileOperations, CallGraph

Init == OperationsInit /\ GraphInit /\ (operations = 0 \/ records = MaxRecords)
Next ==
    \/ OperationsNext /\ UNCHANGED graphVars
    \/ GraphNext /\ UNCHANGED operationVars
Spec == Init /\ [][Next]_<<operationVars, graphVars>>

TypeOK == ProfileTypeOK /\ GraphTypeOK
================================================================================
