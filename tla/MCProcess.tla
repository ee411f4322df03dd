-------------------------------- MODULE MCProcess --------------------------------
(* Small instances of the engine under all its commands and of the run of the *)
(* program around it, in one run.  Lifecycle has the engine's worker as one of *)
(* the threads that may panic and are joined, whatever it does, so the two     *)
(* share no state: a behaviour follows one of them and the other stands still. *)
EXTENDS PlaybackEngine, Lifecycle

VARIABLE inside

ProcessVars == <<inside, vars, LifeVars>>

ProcessInit == inside \in {"engine", "run"} /\ Init /\ LifeInit

ProcessNext ==
    \/ inside = "engine" /\ Next /\ UNCHANGED <<inside, LifeVars>>
    \/ inside = "run" /\ LifeNext /\ UNCHANGED <<inside, vars>>

ProcessSpec == ProcessInit /\ [][ProcessNext]_ProcessVars
=============================================================================
