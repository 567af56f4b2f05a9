-------------------------------- MODULE MCPicker --------------------------------
(***************************************************************************)
(* Two environments, two launches, one dialog with two tokens and another  *)
(* dialog with one; a week of one tick, and a clock with two.              *)
(***************************************************************************)
EXTENDS Picker

CONSTANTS t1, t2, other, h1, h2

MCTargets == {1, 2}
MCInstances == {1, 2}
MCTargetOf == [i \in MCInstances |-> 1]
MCMeshOrder == (h1 :> 1) @@ (h2 :> 2)
MCHostOf == <<h1, h2>>
MCStoredAs == <<2, 1>>
================================================================================
