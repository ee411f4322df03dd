------------------------------ MODULE KeepLatest ------------------------------
(* What the state writer promises, whatever its slot, its clock and its       *)
(* thread are doing: a register that follows the newest accepted snapshot.    *)
(* It may skip snapshots; it never returns to an older one and never shows    *)
(* one nobody handed over.  Snapshots are named by their sequence number and  *)
(* 0 stands for "nothing yet".                                                *)
EXTENDS Naturals

VARIABLES accepted,   \* the newest snapshot handed over
          saved       \* the snapshot on disk

vars == <<accepted, saved>>

Init == accepted = 0 /\ saved = 0

Accept == accepted' \in Nat /\ accepted' > accepted /\ UNCHANGED saved

Save == saved' \in Nat /\ saved' > saved /\ saved' <= accepted
        /\ UNCHANGED accepted

Next == Accept \/ Save

Spec == Init /\ [][Next]_vars
=============================================================================
