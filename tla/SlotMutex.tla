------------------------------ MODULE SlotMutex ------------------------------
(***************************************************************************)
(* What the shared slot promises to the instances of Podkladarna that run  *)
(* on one machine (docstring of app/slot_lock.py): one of them at a time   *)
(* may compute, and the slot is free again when that one has let it go,    *)
(* however it ended.  SharedSlot and JobQueue implement this.              *)
(***************************************************************************)
CONSTANTS Instances, Nobody

VARIABLE holder   \* the instance that may compute

Init == holder = Nobody

Take(p) == holder = Nobody /\ holder' = p

Drop(p) == holder = p /\ holder' = Nobody

Next == \E p \in Instances : Take(p) \/ Drop(p)

Spec == Init /\ [][Next]_holder
=============================================================================
