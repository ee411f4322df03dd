------------------------------- MODULE Lifecycle -------------------------------
(* tui/mod.rs (run, start_and_loop, run_loop, teardown) and lifecycle/: what   *)
(* one run of `tenuto tui` changes about the terminal and fd 2, who puts it    *)
(* back, and how the run ends.  Three sides: the main thread; a thread that    *)
(* panics, whose hook restores the terminal while the main thread is anywhere; *)
(* the signal listener.                                                        *)
(*                                                                            *)
(* A change is made first and marked for cleanup after; the restoration       *)
(* takes the mark first and undoes after.  The redirect of fd 2 is such a     *)
(* change, and the take-once slot its mark.                                   *)
EXTENDS Naturals, Sequences

CONSTANTS Numbers,     \* signals that are caught
          Joined,      \* threads the shutdown joins: the decode worker
          Detached,    \* threads nothing waits for: browsing, artwork, input
          MaxPanics, MaxSignals, MaxToggles   \* bounds

ASSUME LifecycleAssumption ==
    /\ MaxPanics \in Nat /\ MaxSignals \in Nat /\ MaxToggles \in Nat
    /\ Numbers \subseteq Nat \ {0}
    /\ Joined \intersect Detached = {} /\ "main" \notin Joined \union Detached

VARIABLES
    mainAt,      \* main: a stage, a place of the loop or of the teardown
    checked,     \* it has passed the check before this stage
    making,      \* the change it is making, and how far it is; or NoChange
    ending,      \* Ending, "none" while it runs
    kitty, drawn,               \* the picker's protocol; the terminal has drawn
    profileLock, runtime,       \* Stages
    altered,     \* what is different about the terminal and fd 2
    marked,      \* TerminalCleanup's flags, and the slot being full
    renderingDisabled, fatalRequested,
    hook,        \* per thread: running, in the hook or restoring, over
    next, owes,  \* per thread: the next mark to take, and whether it took it
    inJob,       \* IN_CONTAINED_JOB, per thread
    listener,    \* the steps of the signal it still has to take
    caught,      \* the signal it has in hand
    firstSignal, stopRequested,
    outcome,     \* RunOutcome as teardown read it, then what the run returns
    panics, signals, toggles,
    quitPressed, \* history: the key was used
    fatal,       \* history: threads that panicked outside a contained job
    lateDraw     \* history: a frame was drawn after rendering was disabled

Picture == <<kitty, drawn, lateDraw>>
KeyState == <<toggles, quitPressed>>
Held == <<profileLock, runtime>>
Main == <<mainAt, checked, making, ending, Picture, Held, KeyState>>
Terminal == <<altered, marked>>
RunFlags == <<renderingDisabled, fatalRequested>>
Hooks == <<RunFlags, hook, next, owes, inJob, panics, fatal>>
Listening == <<listener, caught, firstSignal, signals>>
LifeVars == <<Main, Terminal, Hooks, Listening, stopRequested, outcome>>

RunThreads == {"main"} \union Joined \union Detached
NoSignal == 0
NoChange == [change |-> "none", step |-> 1]

(* The order restore_now undoes in. *)
RestoreOrder == <<"images", "mouse", "cursor", "alternate", "raw", "stderr">>

(* The order in which start_and_loop goes, and where it looks at stage!. *)
Startup == <<"lock", "stderr", "runtime", "raw", "alternate", "cursor", "mouse", "images",
             "loop">>
Stages == {"lock", "stderr", "runtime", "raw", "images", "loop"}
After(stage) == Startup[1 + CHOOSE k \in 1..Len(Startup) - 1 : Startup[k] = stage]

(* Mutant: marked before the change is made. *)
EnteringMarkedFirst == <<"mark", "make">>

Entering == <<"make", "mark">>

ListenerSteps == <<"record", "request", "wake">>

LifeInit ==
    /\ mainAt = "lock" /\ checked = FALSE /\ making = NoChange /\ ending = "none"
    /\ kitty = FALSE /\ drawn = FALSE /\ profileLock = FALSE /\ runtime = FALSE
    /\ altered = {} /\ marked = {}
    /\ renderingDisabled = FALSE /\ fatalRequested = FALSE
    /\ hook = [t \in RunThreads |-> "running"]
    /\ next = [t \in RunThreads |-> 1] /\ owes = [t \in RunThreads |-> FALSE]
    /\ inJob = [t \in RunThreads |-> FALSE]
    /\ listener = <<>> /\ caught = NoSignal
    /\ firstSignal = NoSignal /\ stopRequested = FALSE
    /\ outcome = "none"
    /\ panics = 0 /\ signals = 0 /\ toggles = 0
    /\ quitPressed = FALSE /\ fatal = {} /\ lateDraw = FALSE

-----------------------------------------------------------------------------
(* The main thread: startup. *)

MainRuns == hook["main"] = "running" /\ ending = "none" /\ making = NoChange

RunInterrupted == fatalRequested \/ stopRequested

EndsAs(how) ==
    /\ ending' = how /\ mainAt' = "drop" /\ checked' = FALSE
    /\ UNCHANGED <<making, Picture, Held, KeyState>>
    /\ UNCHANGED Terminal /\ UNCHANGED Hooks /\ UNCHANGED Listening
    /\ UNCHANGED <<stopRequested, outcome>>

EndsInterrupted == RunInterrupted /\ EndsAs(IF fatalRequested THEN "worker" ELSE "requested")

MainStep(vars) ==
    /\ UNCHANGED vars
    /\ UNCHANGED Hooks /\ UNCHANGED Listening /\ UNCHANGED <<ending, outcome>>

(* stage!: a request or a fatal panic skips the rest. *)
StageCheck ==
    /\ MainRuns /\ mainAt \in Stages /\ ~checked
    /\ \/ EndsInterrupted
       \/ /\ ~RunInterrupted /\ checked' = TRUE
          /\ mainAt' = IF mainAt = "loop" THEN "input" ELSE mainAt
          /\ MainStep(<<making, Picture, Held, KeyState, Terminal, stopRequested>>)

AtStage == MainRuns /\ (checked \/ mainAt \notin Stages)

(* The lock is contended; the log cannot be opened; the terminal refuses.    *)
StageFails ==
    /\ \/ AtStage /\ mainAt \in {"lock", "stderr", "raw", "alternate", "cursor", "mouse"}
       \/ MainRuns /\ mainAt = "images" /\ ~checked
    /\ EndsAs("failed")

Advance(stage) == mainAt' = After(stage) /\ checked' = FALSE

AcquireLock ==
    /\ AtStage /\ mainAt = "lock" /\ profileLock' = TRUE /\ Advance("lock")
    /\ MainStep(<<making, Picture, runtime, KeyState, Terminal, stopRequested>>)

StartRuntime ==
    /\ AtStage /\ mainAt = "runtime" /\ runtime' = TRUE /\ Advance("runtime")
    /\ MainStep(<<making, Picture, profileLock, KeyState, Terminal, stopRequested>>)

StartChange ==
    /\ AtStage /\ mainAt \in {"stderr", "raw", "alternate", "cursor", "mouse"}
    /\ making' = [change |-> mainAt, step |-> 1] /\ Advance(mainAt)
    /\ MainStep(<<Picture, Held, KeyState, Terminal, stopRequested>>)

(* --mouse off; and the picker's protocol, asked for in the alternate screen. *)
SkipMouse ==
    /\ AtStage /\ mainAt = "mouse" /\ Advance("mouse")
    /\ MainStep(<<making, Picture, Held, KeyState, Terminal, stopRequested>>)

FindProtocol ==
    /\ AtStage /\ mainAt = "images" /\ Advance("images")
    /\ kitty' \in BOOLEAN
    /\ marked' = IF kitty' THEN marked \union {"images"} ELSE marked
    /\ MainStep(<<making, drawn, lateDraw, Held, KeyState, altered, stopRequested>>)

(* One of the two steps of a change; nothing fallible lies between them. *)
MakeChange ==
    /\ hook["main"] = "running" /\ making # NoChange
    /\ LET c == making.change IN
       IF Entering[making.step] = "make"
         THEN altered' = altered \union {c} /\ UNCHANGED marked
         ELSE marked' = marked \union {c} /\ UNCHANGED altered
    /\ making' = IF making.step = 2 THEN NoChange ELSE [making EXCEPT !.step = 2]
    /\ MainStep(<<mainAt, checked, Picture, Held, KeyState, stopRequested>>)

-----------------------------------------------------------------------------
(* The main thread: the loop. *)

InLoop(place) == MainRuns /\ mainAt = place

LoopTo(place) ==
    /\ mainAt' = place
    /\ MainStep(<<checked, making, Picture, Held, KeyState, Terminal, stopRequested>>)

NoInput == InLoop("input") /\ LoopTo("check")

QuitKey ==
    /\ InLoop("input") /\ quitPressed' = TRUE /\ stopRequested' = TRUE /\ mainAt' = "check"
    /\ MainStep(<<checked, making, Picture, Held, toggles, Terminal>>)

(* SetMouseCapture: not once fatal cleanup has begun, as far as it can tell. *)
EnableMouse ==
    /\ InLoop("input") /\ ~renderingDisabled /\ toggles < MaxToggles
    /\ toggles' = toggles + 1
    /\ making' = [change |-> "mouse", step |-> 1] /\ mainAt' = "check"
    /\ MainStep(<<checked, Picture, Held, quitPressed, Terminal, stopRequested>>)

DisableMouse ==
    /\ InLoop("input") /\ ~renderingDisabled /\ toggles < MaxToggles
    /\ toggles' = toggles + 1 /\ mainAt' = "unmark"
    /\ altered' = altered \ {"mouse"}
    /\ MainStep(<<checked, making, Picture, Held, quitPressed, marked, stopRequested>>)

UnmarkMouse ==
    /\ InLoop("unmark") /\ mainAt' = "check"
    /\ marked' = marked \ {"mouse"}
    /\ MainStep(<<checked, making, Picture, Held, KeyState, altered, stopRequested>>)

LoopInterrupted == InLoop("check") /\ EndsInterrupted

LoopContinues ==
    /\ InLoop("check") /\ ~RunInterrupted
    /\ LoopTo(IF renderingDisabled THEN "input" ELSE "frame")

(* The frame is prepared, placements of an earlier one deleted if need be;    *)
(* then the last look before it is drawn.                                     *)
ClearPlacement ==
    /\ InLoop("frame") /\ kitty /\ ~renderingDisabled
    /\ altered' = altered \ {"images"}
    /\ MainStep(<<mainAt, checked, making, Picture, Held, KeyState, marked, stopRequested>>)

LastLook == InLoop("frame") /\ LoopTo(IF renderingDisabled THEN "input" ELSE "draw")

(* A frame hides the cursor and places the cover. *)
Draw ==
    /\ InLoop("draw") /\ mainAt' = "input" /\ drawn' = TRUE
    /\ altered' = altered \union {"cursor"} \union (IF kitty THEN {"images"} ELSE {})
    /\ lateDraw' = (lateDraw \/ renderingDisabled)
    /\ MainStep(<<checked, making, kitty, Held, KeyState, marked, stopRequested>>)

(* A write to a terminal that is gone, or a reader that stopped. *)
LoopFails == (InLoop("input") \/ InLoop("frame") \/ InLoop("draw")) /\ EndsAs("failed")

-----------------------------------------------------------------------------
(* The main thread: teardown, whatever was initialized. *)

TearsDown(place) == ending # "none" /\ hook["main"] = "running" /\ mainAt = place

TeardownStep(place, vars) ==
    /\ mainAt' = place
    /\ UNCHANGED <<checked, making, ending, Picture, KeyState>>
    /\ UNCHANGED vars

(* ratatui shows the cursor it hid when its terminal drops. *)
DropTerminal ==
    /\ TearsDown("drop")
    /\ altered' = IF drawn THEN altered \ {"cursor"} ELSE altered
    /\ TeardownStep("join", <<Held, marked, Hooks, Listening, stopRequested, outcome>>)

(* PlayerRuntime::shutdown: the worker is joined, its hook with it. *)
ShutDownRuntime ==
    /\ TearsDown("join") /\ \A t \in Joined : hook[t] \in {"running", "over"}
    /\ hook' = [t \in RunThreads |-> IF t \in Joined THEN "over"
                                  ELSE IF t = "main" THEN "restore" ELSE hook[t]]
    /\ next' = [next EXCEPT !["main"] = 1]
    /\ TeardownStep("outcome", <<RunFlags, owes, inJob, panics, fatal,
                                 Held, Terminal, Listening, stopRequested, outcome>>)

ReadOutcome ==
    /\ TearsDown("outcome")
    /\ outcome' = IF firstSignal = NoSignal THEN "completed" ELSE "signalled"
    /\ TeardownStep("close", <<Held, Terminal, Hooks, Listening, stopRequested>>)

(* The listener is joined once it has dealt with what it caught. *)
CloseSignals ==
    /\ TearsDown("close") /\ listener = <<>>
    /\ TeardownStep("unlock", <<Held, Terminal, Hooks, Listening, stopRequested, outcome>>)

Unlock ==
    /\ TearsDown("unlock") /\ profileLock' = FALSE
    /\ outcome' = CASE ending = "panicked" -> "panicked"
                    [] ending = "worker" -> "workerPanicked"
                    [] ending = "failed" /\ outcome = "completed" -> "error"
                    [] OTHER -> outcome
    /\ TeardownStep("over", <<runtime, Terminal, Hooks, Listening, stopRequested>>)

-----------------------------------------------------------------------------
(* Panics, and the hook. *)

Alive(t) ==
    /\ hook[t] = "running" /\ mainAt # "over"
    /\ t = "main" => ending = "none" /\ making = NoChange
    /\ t # "main" => runtime
    /\ t \in Joined => ending = "none" \/ mainAt \in {"drop", "join"}

HookStep(vars) == UNCHANGED <<Main, Listening, stopRequested, outcome>> /\ UNCHANGED vars

(* run_contained, around metadata and artwork.  A panic in it is a failed     *)
(* result, and the hook does nothing but log it; so is one of the encoding,   *)
(* which the main thread runs inside a step of its own.                       *)
EnterJob(t) ==
    /\ Alive(t) /\ t \in Detached /\ ~inJob[t] /\ inJob' = [inJob EXCEPT ![t] = TRUE]
    /\ HookStep(<<Terminal, RunFlags, hook, next, owes, panics, fatal>>)

LeaveJob(t) ==
    /\ Alive(t) /\ inJob[t] /\ inJob' = [inJob EXCEPT ![t] = FALSE]
    /\ HookStep(<<Terminal, RunFlags, hook, next, owes, panics, fatal>>)

ThreadPanics(t) ==
    /\ Alive(t) /\ panics < MaxPanics /\ panics' = panics + 1
    /\ IF inJob[t]
         THEN inJob' = [inJob EXCEPT ![t] = FALSE] /\ UNCHANGED <<hook, fatal>>
         ELSE /\ hook' = [hook EXCEPT ![t] = "disable"] /\ fatal' = fatal \union {t}
              /\ UNCHANGED inJob
    /\ HookStep(<<Terminal, RunFlags, next, owes>>)

DisableRendering(t) ==
    /\ hook[t] = "disable" /\ mainAt # "over"
    /\ renderingDisabled' = TRUE /\ hook' = [hook EXCEPT ![t] = "request"]
    /\ HookStep(<<Terminal, fatalRequested, next, owes, inJob, panics, fatal>>)

RequestFatal(t) ==
    /\ hook[t] = "request" /\ mainAt # "over"
    /\ fatalRequested' = TRUE /\ hook' = [hook EXCEPT ![t] = "restore"]
    /\ next' = [next EXCEPT ![t] = 1]
    /\ HookStep(<<Terminal, renderingDisabled, owes, inJob, panics, fatal>>)

(* restore_now, in the hook or in teardown: take a mark, then undo what it    *)
(* stood for.  A slot found busy is being emptied by its holder.              *)
TakeMark(t) ==
    /\ hook[t] = "restore" /\ mainAt # "over" /\ next[t] <= Len(RestoreOrder) /\ ~owes[t]
    /\ LET c == RestoreOrder[next[t]] IN
       IF c \in marked
         THEN /\ marked' = marked \ {c} /\ owes' = [owes EXCEPT ![t] = TRUE]
              /\ UNCHANGED next
         ELSE next' = [next EXCEPT ![t] = @ + 1] /\ UNCHANGED <<marked, owes>>
    /\ HookStep(<<altered, RunFlags, hook, inJob, panics, fatal>>)

Undo(t) ==
    /\ owes[t] /\ mainAt # "over"
    /\ altered' = altered \ {RestoreOrder[next[t]]}
    /\ owes' = [owes EXCEPT ![t] = FALSE] /\ next' = [next EXCEPT ![t] = @ + 1]
    /\ HookStep(<<marked, RunFlags, hook, inJob, panics, fatal>>)

(* The previous hook prints the message; a thread unwinds to its end, main to *)
(* catch_unwind and teardown.  Teardown itself goes on.                       *)
Restored(t) ==
    /\ hook[t] = "restore" /\ mainAt # "over" /\ next[t] > Len(RestoreOrder)
    /\ hook' = [hook EXCEPT ![t] = IF t = "main" THEN "running" ELSE "over"]
    /\ IF t = "main" /\ ending = "none" THEN ending' = "panicked" /\ mainAt' = "drop"
                                        ELSE UNCHANGED <<ending, mainAt>>
    /\ UNCHANGED <<checked, making, Picture, Held, KeyState>>
    /\ UNCHANGED <<Terminal, RunFlags, next, owes, inJob, panics, fatal,
                   Listening, stopRequested, outcome>>

-----------------------------------------------------------------------------
(* The signal listener. *)

SignalArrives ==
    /\ listener = <<>> /\ signals < MaxSignals /\ mainAt \notin {"unlock", "over"}
    /\ caught' \in Numbers /\ signals' = signals + 1 /\ listener' = ListenerSteps
    /\ UNCHANGED <<Main, Terminal, Hooks, firstSignal, stopRequested, outcome>>

ListenerStep ==
    /\ listener # <<>> /\ listener' = Tail(listener)
    /\ firstSignal' = IF Head(listener) = "record" /\ firstSignal = NoSignal
                        THEN caught ELSE firstSignal
    /\ stopRequested' = (stopRequested \/ Head(listener) = "request")
    /\ UNCHANGED <<Main, Terminal, Hooks, caught, signals, outcome>>

LifeNext ==
    \/ StageCheck \/ StageFails \/ AcquireLock \/ StartRuntime \/ StartChange \/ SkipMouse
    \/ FindProtocol \/ MakeChange
    \/ NoInput \/ QuitKey \/ EnableMouse \/ DisableMouse \/ UnmarkMouse
    \/ LoopInterrupted \/ LoopContinues \/ ClearPlacement \/ LastLook \/ Draw \/ LoopFails
    \/ DropTerminal \/ ShutDownRuntime \/ ReadOutcome \/ CloseSignals \/ Unlock
    \/ \E t \in RunThreads :
         \/ EnterJob(t) \/ LeaveJob(t) \/ ThreadPanics(t)
         \/ DisableRendering(t) \/ RequestFatal(t) \/ TakeMark(t) \/ Undo(t) \/ Restored(t)
    \/ SignalArrives \/ ListenerStep

LifeSpec == LifeInit /\ [][LifeNext]_LifeVars

-----------------------------------------------------------------------------
(* Properties *)

(* When the run is over the terminal and fd 2 are as they were found, by     *)
(* whichever of the hooks and teardown got to each change, unless a thread    *)
(* nothing waits for died with the mark in its hand, or a frame already past  *)
(* its last look was drawn over a restored terminal and left its cover there. *)
TerminalReturned ==
    mainAt = "over" =>
        \A c \in altered :
          \/ c = "images" /\ lateDraw
          \/ \E t \in Detached : owes[t] /\ RestoreOrder[next[t]] = c

(* A run that was asked to end by signals alone reports a signal, whatever    *)
(* the listener had done by then; one that reports a panic had one on that    *)
(* side and outside every contained job.                                      *)
ExitIsTrue ==
    mainAt = "over" =>
        /\ ending = "requested" /\ ~quitPressed => outcome = "signalled"
        /\ outcome = "signalled" => firstSignal # NoSignal
        /\ outcome = "workerPanicked" => fatal \ {"main"} # {}
        /\ outcome = "panicked" <=> "main" \in fatal

(* A run leaves things as it found them, and tells how it went.               *)
LeavesAsFound == TerminalReturned /\ ExitIsTrue
=============================================================================
