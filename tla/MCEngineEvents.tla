----------------------------- MODULE MCEngineEvents -----------------------------
(* Small instances of the engine, for what it must get to, and of the events  *)
(* it hands to the application, in one run.  EventOutbox takes the engine for *)
(* a script of handlers and their events, so the two share no state: a        *)
(* behaviour follows one of them and the other stands still, and what the     *)
(* modules assume of fairness is assumed of the one that runs.                *)
EXTENDS PlaybackEngine, EventOutbox

VARIABLE side

sideVars == <<side, vars, outboxVars>>
InEngine(action) == side = "engine" /\ action /\ UNCHANGED <<side, outboxVars>>
InOutbox(action) == side = "outbox" /\ action /\ UNCHANGED <<side, vars>>

SidesInit == side \in {"engine", "outbox"} /\ Init /\ OutboxInit

SidesNext ==
    \/ side = "engine" /\ Next /\ UNCHANGED <<side, outboxVars>>
    \/ side = "outbox" /\ OutboxNext /\ UNCHANGED <<side, vars>>

(* Fairness of PlaybackEngine and OutboxFairSpec of EventOutbox. *)
SidesSpec ==
    /\ SidesInit /\ [][SidesNext]_sideVars
    /\ WF_sideVars(InEngine(Interrupt \/ RaiseFlag \/ Send \/ ReachOut))
    /\ WF_sideVars(InEngine(LocalStep))
    /\ WF_sideVars(InEngine(Answered /\ NetworkStep))
    /\ SF_sideVars(InEngine(Dispatch))
    /\ WF_sideVars(InOutbox(Progress)) /\ WF_sideVars(InOutbox(Receive))
    /\ SF_sideVars(InOutbox(HearsNobody))
=============================================================================
