----------------------------- MODULE MCJobQueue -----------------------------
(***************************************************************************)
(* Constants for TLC: how often each external event may happen in a run.   *)
(* Everything that is not named happens never.  See the .cfg files.        *)
(***************************************************************************)
EXTENDS JobQueue, TLC

Sym == Permutations(Threads) \cup Permutations(Starters)

Once(kinds) == [k \in Kinds |-> IF k \in kinds THEN 1 ELSE 0]

Operation == Once({"crash", "deploy", "other"})
Disturbed == Once({"crash", "deploy", "other", "unheard"})
Restarts == [Once({"deploy", "other", "unheard"}) EXCEPT !["start"] = 2]
Faults == [Once({"deploy", "other", "interrupt", "timeout"}) EXCEPT !["fault"] = 2]
Reload == [Once({"start"}) EXCEPT !["crash"] = 2]
SlotTimeout == Once({"other", "timeout"})
OneDeploy == Once({"deploy"})
OneStart == Once({"start"})
Unheard == Once({"deploy", "unheard"})
=============================================================================
