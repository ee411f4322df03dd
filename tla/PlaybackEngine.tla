----------------------------- MODULE PlaybackEngine -----------------------------
(* playback/engine.rs: the decode worker, its command queue, the interrupt   *)
(* word, and the out-of-band half of EngineHandle::submit, together with the *)
(* wait hook of playback/wait.rs and the generation and freeze level of      *)
(* http/channel.rs that they share.                                          *)
(*                                                                           *)
(* The worker is one thread.  Its fields are the record w, and every helper  *)
(* below maps such a record to the next one, so that a handler composes the  *)
(* helpers in the order the code calls them.  A handler runs in one step up  *)
(* to the next point where it can block - an open, a seek, a read, a device  *)
(* call - and job/at say which handler stands where.  The front end and, in  *)
(* a blocked remote read, the wait hook act in between.                      *)
(*                                                                           *)
(* Left to other modules or to data: positions (a landing is "at the target" *)
(* or not), the outbox, the ring and the handshake under a transport.        *)
EXTENDS Naturals, Sequences

CONSTANTS Media,        \* the kinds of media that can be loaded
          Commands,     \* the commands the front end submits
          QueueCap,     \* COMMAND_CAPACITY
          MaxSubmits,   \* bound: submissions in one run
          MaxLoads,     \* bound: loads accepted in one run
          DeviceFails   \* whether the audio device can fail

MediaKinds == {"local", "episode", "fixed", "station"}
CommandKinds == {"Load", "PlayLoaded", "Play", "Pause", "Toggle", "Seek",
                 "Restart", "Stop", "Shutdown"}

ASSUME EngineAssumption ==
    /\ Media \subseteq MediaKinds
    /\ Commands \subseteq CommandKinds
    /\ QueueCap \in Nat /\ MaxSubmits \in Nat /\ MaxLoads \in Nat
    /\ DeviceFails \in BOOLEAN

VARIABLES
    queue,     \* the bounded command channel
    tail,      \* the submission in progress: what submit has still to do
    stop,      \* the STOP bit of the interrupt word
    shutdown,  \* the SHUTDOWN bit
    submits,   \* history: submissions begun
    loads,     \* history: loads accepted; a load's token is its number
    job, at,   \* the handler the worker is in, and where it stands
    resume,    \* the handler's `playing`/`primed` argument
    mending,   \* whether rebuild() runs inside the handler
    w          \* the worker's fields, and what it shares under locks

front == <<queue, tail, stop, shutdown, submits, loads>>
vars == <<queue, tail, stop, shutdown, submits, loads, job, at, resume,
          mending, w>>

Tokens == 1 .. MaxLoads
NoTail == [cmd |-> "none", phase |-> "idle", kind |-> "local"]

Init ==
    /\ queue = <<>> /\ tail = NoTail
    /\ stop = FALSE /\ shutdown = FALSE
    /\ submits = 0 /\ loads = 0
    /\ job = "loop" /\ at = "top" /\ resume = FALSE /\ mending = FALSE
    /\ w = [state     |-> "Idle",    \* Worker.state
            shown     |-> "Idle",    \* history: the last StateChanged emitted
            media     |-> "none",    \* descriptor
            cont      |-> "unresolved", \* capabilities.continuity
            fixed     |-> FALSE,     \* capabilities.seek = Unsupported
            traits    |-> TRUE,      \* SourceTraits shows the capabilities
            source    |-> "none",    \* none, open, dead (latched), broken
            transport |-> "none",    \* none, parked, running
            byHook    |-> FALSE,     \* SessionFacts.frozen_by_hook
            pending   |-> "none",    \* a stored seek or restart
            outage    |-> "none",    \* none, waiting, window (stability)
            loading   |-> 0, adopted |-> 0,
            outcome   |-> [r \in Tokens |-> 0],   \* history: outcomes emitted
            attempt   |-> "no",      \* attempting, and attempt_failure
            eof       |-> FALSE,     \* decoder_drained
            retired   |-> FALSE,     \* SourceInterrupt.retired
            frozen    |-> FALSE,     \* SourceInterrupt.frozen
            aim       |-> FALSE]     \* the generation a submit observed lives

Remote(x) == x.media \in {"episode", "fixed", "station"}
Indefinite(x) == x.cont = "indefinite"
Interrupted == stop \/ shutdown

-----------------------------------------------------------------------------
(* SourceInterrupt: a generation ends by retire() or by the next begin(). *)
Retire(x) == [x EXCEPT !.retired = TRUE, !.aim = FALSE]
Begin(x) == [x EXCEPT !.retired = FALSE, !.aim = FALSE]
(* Mutant: the retirement is not aimed. *)
RetireUnaimed(x) == Retire(x)

RetireAimed(x) == IF x.aim THEN Retire(x) ELSE x

(* Dropping an HttpMediaSource retires the interrupt. *)
CloseSource(x) ==
    IF Remote(x) /\ x.source # "none" THEN Retire([x EXCEPT !.source = "none"])
                                      ELSE [x EXCEPT !.source = "none"]

(* retire_remote_source: a local decoder survives. *)
RetireRemoteSource(x) == IF Remote(x) THEN CloseSource(x) ELSE x

(* adopt_state writes the state, set_state also announces a change.  The     *)
(* flags pausable and recovering are written with it: see Pausable.          *)
AdoptState(x, s) == [x EXCEPT !.state = s]
SetState(x, s) ==
    IF x.state = s THEN x ELSE [x EXCEPT !.state = s, !.shown = s]

Pausable(x) == x.state \in {"Playing", "Reconnecting"}
Recovering(x) == x.state = "Reconnecting" /\ ~Indefinite(x)

Teardown(x) == [x EXCEPT !.transport = "none", !.eof = FALSE]

(* freeze_and_capture silences the callback. *)
CapturePosition(x) ==
    IF x.transport = "none" THEN x ELSE [x EXCEPT !.transport = "parked"]

(* A load's one outcome: Loaded, LoadCancelled or Failed{request}. *)
Conclude(x) ==
    IF x.loading = 0 THEN x
    ELSE [x EXCEPT !.outcome[x.loading] = @ + 1, !.loading = 0]

FailWith(x) ==
    IF x.state = "Failed" THEN x
    ELSE SetState(Conclude(RetireRemoteSource(Retire(Teardown(
             [x EXCEPT !.outage = "none"])))), "Failed")

AbandonAttempt(x) == RetireRemoteSource(Retire(Teardown(x)))

(* Mutant: a stop keeps the device stream. *)
DoStopKeepsStream(x) ==
    IF x.state \in {"Idle", "Stopped", "Failed"} THEN x
    ELSE SetState(RetireRemoteSource(Retire(CapturePosition(
             [x EXCEPT !.outage = "none"]))), "Stopped")

DoStop(x) ==
    IF x.state \in {"Idle", "Stopped", "Failed"} THEN x
    ELSE SetState(RetireRemoteSource(Retire(Teardown(
             [x EXCEPT !.outage = "none"]))), "Stopped")

PauseClosing(x) ==
    LET closed == RetireRemoteSource(Retire(Teardown(
            [x EXCEPT !.outage = "none", !.byHook = FALSE, !.frozen = FALSE])))
    IN IF ~Pausable(x) THEN x
       ELSE IF x.byHook THEN AdoptState(closed, "Paused")
       ELSE SetState(closed, "Paused")

(* The next attempt is scheduled, or a standing outage's budget is spent. *)
EnterReconnecting(x) ==
    LET gone == RetireRemoteSource(Retire([x EXCEPT !.outage = "waiting"]))
    IN {SetState(gone, "Reconnecting")}
       \union (IF x.outage = "none" THEN {} ELSE {FailWith(x)})

StartRunning(x) ==
    IF x.transport = "none" THEN x ELSE [x EXCEPT !.transport = "running"]

AnnouncePlaying(x) == IF x.transport = "none" THEN x ELSE SetState(x, "Playing")

ReconcileFrozenByHook(x) == IF x.frozen THEN [x EXCEPT !.byHook = TRUE] ELSE x

(* A finite session holding its intent with nothing open. *)
HoldsIntentOffline(x) ==
    /\ ~Indefinite(x) /\ Remote(x)
    /\ \/ x.state = "Reconnecting"
       \/ x.state = "Paused" /\ x.source = "none" /\ x.transport = "none"

LostSourceWhilePlaying(x) ==
    x.state = "Playing" /\ Remote(x) /\ (x.source = "none" \/ x.retired)

(* How pump_audio answers a read error that is not a retirement. *)
SourceDies(x, cause) ==
    CASE x.attempt # "no" /\ Remote(x) -> {[x EXCEPT !.attempt = cause]}
      [] x.attempt = "no" /\ Indefinite(x) ->
            IF cause = "retry" THEN EnterReconnecting(x) ELSE {FailWith(x)}
      [] x.attempt = "no" /\ ~Indefinite(x) /\ Remote(x) ->
            IF cause = "retry" /\ x.state = "Playing" /\ x.cont = "finite" /\ ~x.fixed
            THEN IF x.frozen THEN {PauseClosing(x)} ELSE EnterReconnecting(x)
            ELSE {FailWith(x)}
      [] OTHER -> {[x EXCEPT !.eof = TRUE]}

-----------------------------------------------------------------------------
(* EngineHandle::submit.  One thread submits.  A load, a seek and a pause    *)
(* first observe the live generation, then send, and only then reach out of  *)
(* band; the worker may run between any two of these.                        *)
Closing == shutdown \/ job = "gone"

Aimed == {"Load", "Seek", "Pause"}

ObserveGeneration(x) == [x EXCEPT !.aim = ~x.retired]

Observe(cmd, kind) ==
    /\ tail = NoTail /\ ~Closing
    /\ submits < MaxSubmits
    /\ submits' = submits + 1
    /\ LET sent == IF cmd # "Toggle" THEN cmd
                   ELSE IF Pausable(w) THEN "Pause" ELSE "Play"
       IN /\ tail' = [cmd |-> sent, phase |-> "send", kind |-> kind]
          /\ w' = IF sent \in Aimed THEN ObserveGeneration(w) ELSE w
    /\ UNCHANGED <<queue, stop, shutdown, loads, job, at, resume, mending>>

(* Stop and Shutdown retire first and set their bit second, and never queue. *)
Interrupt ==
    /\ tail.phase = "send" /\ tail.cmd \in {"Stop", "Shutdown"}
    /\ w' = Retire(w)
    /\ tail' = [tail EXCEPT !.phase = "act"]
    /\ UNCHANGED <<queue, stop, shutdown, submits, loads, job, at, resume,
                   mending>>

RaiseFlag ==
    /\ tail.phase = "act" /\ tail.cmd \in {"Stop", "Shutdown"}
    /\ stop' = (stop \/ tail.cmd = "Stop")
    /\ shutdown' = (shutdown \/ tail.cmd = "Shutdown")
    /\ tail' = NoTail
    /\ UNCHANGED <<queue, submits, loads, job, at, resume, mending, w>>

(* try_send: a full queue answers Busy, a dead worker Gone. *)
Send ==
    /\ tail.phase = "send" /\ tail.cmd \notin {"Stop", "Shutdown"}
    /\ IF Len(queue) < QueueCap /\ job # "gone" /\ (tail.cmd = "Load" => loads < MaxLoads)
       THEN /\ loads' = IF tail.cmd = "Load" THEN loads + 1 ELSE loads
            /\ queue' = Append(queue, [cmd |-> tail.cmd, kind |-> tail.kind,
                                       token |-> loads'])
            /\ tail' = IF tail.cmd \in Aimed \union {"Play"}
                       THEN [tail EXCEPT !.phase = "act"] ELSE NoTail
       ELSE /\ tail' = NoTail
            /\ UNCHANGED <<queue, loads>>
    /\ UNCHANGED <<stop, shutdown, submits, job, at, resume, mending, w>>

(* What reaches a worker blocked in a read.  The published traits read as    *)
(* "finite and seekable" while they are reset.                               *)
ReachOut ==
    /\ tail.phase = "act" /\ tail.cmd \in Aimed \union {"Play"}
    /\ w' = CASE tail.cmd = "Load" -> RetireAimed(w)
              [] tail.cmd = "Seek" ->
                    IF w.fixed /\ w.traits THEN w ELSE RetireAimed(w)
              [] tail.cmd = "Pause" ->
                    IF (Indefinite(w) /\ w.traits) \/ Recovering(w)
                    THEN RetireAimed(w) ELSE [w EXCEPT !.frozen = TRUE]
              [] OTHER -> [w EXCEPT !.frozen = FALSE]
    /\ tail' = NoTail
    /\ UNCHANGED <<queue, stop, shutdown, submits, loads, job, at, resume,
                   mending>>

FrontEnd ==
    \/ \E cmd \in Commands \ {"Load"} : Observe(cmd, "local")
    \/ \E kind \in Media : "Load" \in Commands /\ Observe("Load", kind)
    \/ Interrupt \/ RaiseFlag \/ Send \/ ReachOut

-----------------------------------------------------------------------------
(* The wait hook: runs on the worker's thread, inside a blocked remote read. *)
Blocked ==
    /\ Remote(w)
    /\ \/ at \in {"open", "seek", "confirm"}
       \/ at \in {"prime", "read"} /\ w.source = "open"

Hook ==
    /\ Blocked
    /\ \/ /\ w.frozen /\ ~w.byHook
          /\ w' = [CapturePosition(w) EXCEPT !.byHook = TRUE, !.shown = "Paused"]
       \/ /\ ~w.frozen /\ w.byHook
          /\ w' = [StartRunning(w) EXCEPT !.byHook = FALSE, !.shown = "Playing"]
    /\ UNCHANGED <<queue, tail, stop, shutdown, submits, loads, job, at, resume,
                   mending>>

-----------------------------------------------------------------------------
(* Worker steps: Go says where the handler stands next, Finish where the     *)
(* loop goes on when a handler returns.                                      *)
Stand(j, a, x) == /\ job' = j /\ at' = a /\ w' = x
Go(j, a, x) == Stand(j, a, x) /\ UNCHANGED <<resume, mending>>
GoWith(j, a, x, playing) ==
    Stand(j, a, x) /\ resume' = playing /\ UNCHANGED mending

Finish(x) ==
    /\ Stand("loop", CASE job = "rebuild" -> "admit"
                       [] job \in {"retry", "recover"} -> "pump"
                       [] OTHER -> "reconnect", x)
    /\ resume' = FALSE /\ mending' = FALSE

Quietly(x) == [x EXCEPT !.attempt = "no"]

(* A remote open begins its own generation. *)
StartOpen(j, x) == Go(j, "open", IF Remote(x) THEN Begin(x) ELSE x)

(* rebuild(): tear down, land again unless the media is a station. *)
StartRebuild(j, x, playing) ==
    /\ Stand(j, IF Indefinite(x) THEN "device" ELSE "land", Teardown(x))
    /\ resume' = playing /\ mending' = TRUE

-----------------------------------------------------------------------------
(* The loop. *)

TopOfLoop ==
    /\ job = "loop" /\ at = "top"
    /\ stop' = FALSE
    /\ IF shutdown
       THEN (* shutdown(): drain, then let everything go, quietly *)
            LET owed == {queue[i].token : i \in
                             {i \in DOMAIN queue : queue[i].cmd = "Load"}}
                x == CloseSource(Teardown([w EXCEPT !.outage = "none"]))
            IN /\ Go("gone", "gone",
                     [AdoptState(x, "Idle") EXCEPT
                         !.media = "none",
                         !.outcome = [r \in Tokens |-> IF r \in owed THEN @[r] + 1
                                                                    ELSE @[r]]])
               /\ queue' = <<>>
       ELSE /\ Go("loop", "fault", IF stop THEN DoStop(w) ELSE w)
            /\ UNCHANGED queue
    /\ UNCHANGED <<tail, shutdown, submits, loads>>

(* service_faults: only an open device reports one. *)
ServiceFaults ==
    /\ job = "loop" /\ at = "fault"
    /\ \/ Go("loop", "admit", w)
       \/ /\ DeviceFails /\ w.transport # "none"
          /\ \/ Go("loop", "admit", FailWith(w))
             \/ /\ w.source = "none"
                /\ Go("loop", "admit", Teardown(w))
             \/ /\ w.source # "none"
                /\ StartRebuild("rebuild", w, w.state = "Playing")
    /\ UNCHANGED front

(* The select may answer the wake or the tick although a command waits. *)
AdmitNothing ==
    /\ job = "loop" /\ at = "admit"
    /\ Go("loop", "reconnect", w)
    /\ UNCHANGED front

(* service_reconnect.  A backoff that has not passed is ReconnectNothing. *)
ReconnectNothing ==
    /\ job = "loop" /\ at = "reconnect"
    /\ Go("loop", "pump", w)
    /\ UNCHANGED front

StartAttempt ==
    /\ job = "loop" /\ at = "reconnect"
    /\ w.state = "Reconnecting" /\ w.outage = "waiting"
    /\ ~Interrupted /\ queue = <<>>
    /\ IF Indefinite(w) THEN StartOpen("retry", RetireRemoteSource(Retire(w)))
                        ELSE StartOpen("recover", Teardown(w))
    /\ UNCHANGED front

OutageOver ==
    /\ job = "loop" /\ at = "reconnect"
    /\ w.state = "Playing" /\ w.outage = "window"
    /\ Go("loop", "pump", [w EXCEPT !.outage = "none"])
    /\ UNCHANGED front

(* pump_audio in the loop: a full ring, or nothing to decode yet, ends it. *)
PumpNothing ==
    /\ job = "loop" /\ at = "pump"
    /\ Go("loop", "end", w)
    /\ UNCHANGED front

PumpReads ==
    /\ job = "loop" /\ at = "pump"
    /\ w.state = "Playing" /\ w.transport # "none"
    /\ w.source # "none" /\ ~w.eof
    /\ Go("loop", "read", w)
    /\ UNCHANGED front

(* check_end_of_track: the last frame was heard, the callback is parked, and *)
(* a remote body must still confirm that it ended. *)
EndOfTrack(x) == SetState(x, "Ended")

NotAtEnd ==
    /\ job = "loop" /\ at = "end"
    /\ Go("loop", "top", w)
    /\ UNCHANGED front

CheckEndOfTrack ==
    /\ job = "loop" /\ at = "end"
    /\ w.state = "Playing" /\ ~Indefinite(w) /\ w.eof /\ w.transport # "none"
    /\ IF Remote(w) THEN Go("loop", "confirm", CapturePosition(w))
                    ELSE Go("loop", "top", EndOfTrack(CapturePosition(w)))
    /\ UNCHANGED front

ConfirmRemoteCompletion ==
    /\ job = "loop" /\ at = "confirm"
    /\ \/ w.retired /\ Go("loop", "top", w)
       \/ ~w.retired /\ \E x \in {EndOfTrack(w), FailWith(w)} : Go("loop", "top", x)
    /\ UNCHANGED front

-----------------------------------------------------------------------------
(* dispatch *)

Load(c) ==
    LET torn == CloseSource(Teardown([w EXCEPT !.outage = "none"]))
        x == [torn EXCEPT !.traits = FALSE, !.pending = "none", !.adopted = 0,
                          !.loading = c.token, !.media = c.kind]
    IN StartOpen("load", SetState(x, "Loading"))

(* restore(), from Play.  A station rejoins the live edge; a source that     *)
(* cannot seek cannot restore a position other than zero. *)
Restore(x) ==
    IF Indefinite(x)
    THEN StartOpen("rejoin", RetireRemoteSource(Retire([x EXCEPT !.pending = "none"])))
    ELSE \/ x.fixed /\ Finish(SetState(x, "Stopped"))
         \/ x.source # "none" /\ Go("restore", "land", CapturePosition(x))
         \/ x.source = "none" /\ StartOpen("restore", x)

Play(primed) ==
    CASE w.state = "Paused" /\ Indefinite(w) /\ ~primed -> Restore(w)
      [] w.state \in {"Playing", "Reconnecting", "Ended", "Idle"} ->
            Finish(w)
      [] w.state = "Failed" ->
            IF Remote(w) THEN Restore(SetState(w, "Loading"))
                         ELSE Finish(w)
      [] w.state = "Paused" /\ (~Indefinite(w) \/ primed) /\ w.transport # "none"
            /\ w.pending = "none" ->
            /\ Finish(SetState(StartRunning([w EXCEPT !.byHook = FALSE]), "Playing"))
      [] OTHER -> Restore(w)

Pause ==
    \/ /\ Indefinite(w) \/ w.state = "Reconnecting" \/ LostSourceWhilePlaying(w)
       /\ Finish(PauseClosing(w))
    \/ /\ ~(Indefinite(w) \/ w.state = "Reconnecting" \/ LostSourceWhilePlaying(w))
       /\ LET x == [w EXCEPT !.outage = "none"]
          IN CASE w.state # "Playing" -> Finish(w)
               [] w.state = "Playing" /\ w.byHook ->
                     Finish(AdoptState(x, "Paused"))
               [] OTHER ->
                     \/ /\ Finish(SetState(ReconcileFrozenByHook(CapturePosition(x)),
                                          "Paused"))
                     \/ /\ DeviceFails /\ w.transport # "none"   \* the park timed out
                        /\ IF w.source = "none"
                           THEN Finish(FailWith(Teardown(x)))
                           ELSE StartRebuild("pausing", x, FALSE)

(* A stopped seek is stored, after a trial when the demuxer is unproven. *)
SeekOpened(x) ==
    IF x.state \in {"Idle", "Stopped"}
    THEN \/ Finish([x EXCEPT !.pending = "seek"])
         \/ Go("trial", "land", x)
    ELSE GoWith("seek", "land", CapturePosition(x), x.state = "Playing")

Seek ==
    CASE w.state = "Failed" -> Finish(w)
      [] w.state # "Failed" /\ HoldsIntentOffline(w) ->
            Finish([w EXCEPT !.pending = "seek"])
      [] OTHER ->
            IF w.fixed \/ w.media = "none" THEN Finish(w)
            ELSE IF w.source = "none"
                 THEN StartOpen("seek", w)
                 ELSE SeekOpened(w)

Restart ==
    CASE Indefinite(w) \/ w.media = "none" -> Finish(w)
      [] ~Indefinite(w) /\ HoldsIntentOffline(w) -> Finish([w EXCEPT !.pending = "restart"])
      [] OTHER -> IF w.source = "none" THEN StartOpen("restart", w)
                                       ELSE Go("restart", "land", CapturePosition(w))

Dispatch ==
    /\ job = "loop" /\ at = "admit" /\ queue # <<>>
    /\ queue' = Tail(queue)
    /\ UNCHANGED <<tail, stop, shutdown, submits, loads>>
    /\ LET c == Head(queue)
       IN CASE c.cmd = "Load"    -> Load(c)
            [] c.cmd = "Play"    -> Play(FALSE)
            [] c.cmd = "Pause"   -> Pause
            [] c.cmd = "Seek"    -> Seek
            [] c.cmd = "Restart" -> Restart
            [] c.cmd = "PlayLoaded" ->
                  IF w.adopted = c.token /\ c.token # 0 /\ w.state = "Paused"
                  THEN Play(TRUE) ELSE Finish(w)

-----------------------------------------------------------------------------
(* Openings: prepare() answers, or fails, or finds itself retired. *)

Probed(x) == IF x.media = "station" THEN "indefinite" ELSE "finite"

(* PrepareContext.expected: a changed continuity is refused. *)
Expects(x) ==
    CASE job \in {"rejoin", "retry"} -> "indefinite"
      [] job # "load" /\ x.cont = "finite" -> "finite"
      [] OTHER -> Probed(x)

Adopted(x) ==
    [x EXCEPT !.source = "open", !.cont = Probed(x), !.traits = TRUE,
              !.fixed = x.media \in {"fixed", "station"}]

(* Mutant: Loaded leaves the request open. *)
LoadedKeepsRequest(x) ==
    [Conclude(x) EXCEPT !.loading = x.loading, !.adopted = x.loading]

Loaded(x) == [Conclude(x) EXCEPT !.adopted = x.loading]

(* What each handler does with a source it just opened.  fresh_open looks    *)
(* at the interrupts once more before it adopts anything.                    *)
Opened(x) ==
    CASE job = "load" ->
            \/ Go("load", "device", Loaded(Adopted(x)))
            \/ x.media \in {"local", "episode"} /\ Go("load", "land", Adopted(x))
      [] job \in {"rejoin", "retry"} ->
            IF Interrupted THEN Finish(Retire(x))
            ELSE Go(job, "device", [Teardown(Adopted(x)) EXCEPT !.attempt = "ok"])
      [] job = "restart" ->
            Go("restart", "device", [CapturePosition(Adopted(x)) EXCEPT !.pending = "none"])
      [] OTHER -> Go(job, "land", CapturePosition(Adopted(x)))

AttemptFails(x, cause) ==
    IF cause = "retry" THEN EnterReconnecting(AdoptState(x, "Reconnecting"))
                       ELSE {FailWith(x)}

(* An error that is not a cancellation, where the handler reports it. *)
Refused(x, cause) ==
    CASE job \in {"retry", "recover"} ->
            \E y \in AttemptFails(IF job = "recover" THEN AbandonAttempt(x) ELSE x, cause) :
                Finish(y)
      [] job \in {"seek", "trial"} -> Finish(x)           \* SeekRejected
      [] OTHER -> Finish(FailWith(x))

(* A cancelled load still owes its outcome; everything else ends quietly. *)
Cancelled(x) ==
    CASE job = "load" -> Finish(Conclude(x))
      [] job = "recover" -> Finish(AbandonAttempt(x))
      [] OTHER -> Finish(x)

OpenEnds ==
    /\ at = "open"
    /\ UNCHANGED front
    /\ IF Remote(w) /\ w.retired
       THEN Cancelled(w)
       ELSE \/ /\ Expects(w) = Probed(w)
               /\ IF job = "seek" THEN SeekOpened(Adopted(w))
                                  ELSE Opened(w)
            \/ /\ \E cause \in {"retry", "fatal"} :
                     /\ cause = "retry" => Expects(w) = Probed(w) /\ Remote(w)
                     /\ Refused(IF Remote(w) THEN Retire(w) ELSE w, cause)

-----------------------------------------------------------------------------
(* land(): a decoder already at its target is not seeked.  A remote seek     *)
(* opens a range of its own unless the reader's buffer holds the target.  A  *)
(* read that found itself retired leaves the source latched: dead.           *)
Landed(x) ==
    CASE mending \/ job \in {"undo", "reject"} -> Go(job, "device", x)
      [] ~mending /\ job = "trial" -> Finish([x EXCEPT !.pending = "seek"])
      [] ~mending /\ job = "load" -> Go("load", "device", Loaded(x))
      [] ~mending /\ job \in {"restore", "recover"} ->
            Go(job, "device", [x EXCEPT !.attempt = "ok"])
      [] OTHER -> Go(job, "device", [x EXCEPT !.pending = "none"])

LandCancelled(x) ==
    CASE mending /\ job \in {"restore", "recover"} ->
            Finish(Quietly(AbandonAttempt(x)))
      [] ~mending /\ job = "seek" -> Go("undo", "land", x)
      [] ~mending /\ job = "load" -> Cancelled(CloseSource(x))
      [] OTHER -> Cancelled(x)

(* Mutant: the stored intent is taken before the landing. *)
LandFailedTaken(x, cause) ==
    CASE mending -> Finish(FailWith(Quietly(x)))
      [] ~mending /\ job = "seek" -> Go("reject", "land", x)
      [] ~mending /\ job = "load" -> Refused(CloseSource(x), cause)
      [] ~mending /\ job \in {"undo", "restart"} -> Finish(x)
      [] OTHER -> Refused([x EXCEPT !.pending = "none"], cause)

LandFailed(x, cause) ==
    CASE mending -> Finish(FailWith(Quietly(x)))
      [] ~mending /\ job = "seek" -> Go("reject", "land", x)
      [] ~mending /\ job = "load" -> Refused(CloseSource(x), cause)
      [] ~mending /\ job \in {"undo", "restart"} -> Finish(x)
      [] OTHER -> Refused(x, cause)

StartLanding ==
    /\ at = "land"
    /\ \/ Landed(w)
       \/ Go(job, "seek", w)
       \/ Remote(w) /\ Go(job, "seek", Begin(w))
    /\ UNCHANGED front

SeekLands ==
    /\ at = "seek"
    /\ w.source = "open"
    /\ Landed(w)
    /\ UNCHANGED front

SeekCancelled ==
    /\ at = "seek"
    /\ \/ Interrupted /\ LandCancelled(w)
       \/ /\ Remote(w) /\ (w.retired \/ w.source = "dead")
          /\ LandCancelled([w EXCEPT !.source = "dead"])
       \/ Remote(w) /\ w.retired /\ LandCancelled(w)   \* waiting for headers
    /\ UNCHANGED front

SeekFails ==
    /\ at = "seek"
    /\ \E cause \in {"retry", "fatal"}, retires \in BOOLEAN :
          /\ ~Remote(w) => cause = "fatal" /\ ~retires
          /\ LandFailed(IF retires THEN Retire(w) ELSE w, cause)
    /\ UNCHANGED front

-----------------------------------------------------------------------------
(* The device: open_transport, or reinstall over a standing transport.  A    *)
(* handshake that times out there rebuilds the device.                       *)
DeviceAnswers ==
    /\ at = "device"
    /\ Go(job, "prime", [w EXCEPT !.transport = "parked", !.eof = FALSE])
    /\ UNCHANGED front

DeviceTimesOut ==
    /\ DeviceFails /\ at = "device"
    /\ w.transport # "none" /\ ~mending
    /\ StartRebuild(job, w, resume)
    /\ UNCHANGED front

(* An attempt looks for a cancellation before it looks at the error. *)
AttemptCancelled(x) == Interrupted \/ (Remote(x) /\ x.retired)

DeviceDoesNotOpen ==
    /\ DeviceFails /\ at = "device" /\ w.transport = "none"
    /\ UNCHANGED front
    /\ Finish(CASE mending -> FailWith(Quietly(w))
                 [] ~mending /\ job = "undo" -> w
                 [] ~mending /\ w.attempt # "no" ->
                       IF AttemptCancelled(w) THEN Quietly(AbandonAttempt(w))
                       ELSE FailWith(Quietly(AbandonAttempt(w)))
                 [] OTHER -> FailWith(w))

-----------------------------------------------------------------------------
(* Decoder reads: pump_audio in the loop ("read") and while priming.         *)
AfterRead(x) == IF at = "read" THEN Go("loop", "end", x) ELSE Go(job, "done", x)

(* A handler reads only with a source open: the early return of pump_audio   *)
(* for a session without one is not reached from here.                       *)
Reading == at \in {"prime", "read"}

ReadFills ==
    /\ Reading /\ w.source = "open"
    /\ AfterRead(w)
    /\ UNCHANGED front

ReadEndsOfFile ==
    /\ Reading /\ w.source = "open" /\ ~Indefinite(w)
    /\ AfterRead([w EXCEPT !.eof = TRUE])
    /\ UNCHANGED front

(* Mutant: a retired read is tried again. *)
ReadRetiredAgain ==
    /\ Reading /\ Remote(w)
    /\ \/ w.source = "dead"
       \/ w.source # "none" /\ w.retired
    /\ UNCHANGED vars

ReadRetired ==
    /\ Reading /\ Remote(w)
    /\ \/ w.source = "dead"
       \/ w.source # "none" /\ w.retired
    /\ AfterRead(RetireRemoteSource(w))
    /\ UNCHANGED front

(* fail_with over a session already Failed changes nothing and pump_audio    *)
(* reads on; the channel then keeps its outcome.                             *)
ReadFails ==
    /\ Reading /\ w.source \in {"open", "broken"}
    /\ \E cause \in {"retry", "fatal"} :
          /\ Remote(w) \/ cause = "fatal"
          /\ \E x \in SourceDies(w, cause) :
                IF x = w THEN Go(job, at, [w EXCEPT !.source = "broken"])
                         ELSE AfterRead(x)
    /\ UNCHANGED front

-----------------------------------------------------------------------------
(* What a handler does once its transport is primed. *)
Released(x) == IF resume \/ job = "restart" THEN StartRunning(x) ELSE x

Committed(x) ==
    [AnnouncePlaying(StartRunning(Quietly(x))) EXCEPT !.pending = "none"]

(* Mutant: a cancelled attempt keeps its source. *)
AttemptDoneKeepsSource(x) ==
    IF AttemptCancelled(x) THEN {Quietly(x)} ELSE {Committed(x)}

AttemptDone(x) ==
    CASE AttemptCancelled(x) -> {Quietly(AbandonAttempt(x))}
      [] ~AttemptCancelled(x) /\ x.attempt # "ok" ->
            LET y == Quietly(AbandonAttempt(x))
            IN IF job \in {"restore", "rejoin"} THEN {FailWith(y)}
                                               ELSE AttemptFails(y, x.attempt)
      [] OTHER -> {IF job \in {"retry", "recover"}
                   THEN [Committed(x) EXCEPT !.outage = "window"] ELSE Committed(x)}

Primed(x) ==
    CASE job = "load" -> {SetState(x, "Paused")}
      [] job \in {"restore", "rejoin", "retry", "recover"} -> AttemptDone(x)
      [] job = "seek" ->
            {IF x.state = "Ended" THEN SetState(Released(x), "Paused") ELSE Released(x)}
      [] job = "restart" ->
            {CASE x.state = "Reconnecting" -> [Released(x) EXCEPT !.pending = "restart"]
               [] x.state # "Reconnecting" -> AnnouncePlaying(Released(x))}
      [] job = "pausing" ->
            {IF x.state = "Playing" THEN SetState(ReconcileFrozenByHook(x), "Paused")
                                    ELSE x}
      [] OTHER -> {Released(x)}

HandlerDone ==
    /\ at = "done"
    /\ \E x \in Primed(w) : Finish(x)
    /\ UNCHANGED front

-----------------------------------------------------------------------------
NetworkStep ==
    \/ OpenEnds \/ SeekLands \/ SeekCancelled \/ SeekFails
    \/ ReadFills \/ ReadEndsOfFile \/ ReadFails \/ ConfirmRemoteCompletion

LocalStep ==
    \/ TopOfLoop \/ ServiceFaults \/ AdmitNothing \/ Dispatch
    \/ ReconnectNothing \/ StartAttempt \/ OutageOver
    \/ PumpNothing \/ PumpReads \/ NotAtEnd \/ CheckEndOfTrack
    \/ StartLanding \/ DeviceAnswers \/ DeviceTimesOut \/ DeviceDoesNotOpen
    \/ ReadRetired \/ HandlerDone

Next == FrontEnd \/ Hook \/ NetworkStep \/ LocalStep

Spec == Init /\ [][Next]_vars

(* A thread that has begun a submission finishes it.  The worker thread is   *)
(* scheduled; its device calls return within their deadlines.  A read, an    *)
(* open and a seek end by the stall, header and seek deadlines, unless the   *)
(* freeze level suspends the stall budget, and by a retirement even then.    *)
(* The select draws its ready channel at random, so a command that stays     *)
(* queued is admitted in the end.                                            *)
Answered == ~w.frozen \/ w.retired \/ w.source = "dead" \/ ~Remote(w)

Fairness ==
    /\ WF_vars(Interrupt \/ RaiseFlag \/ Send \/ ReachOut)
    /\ WF_vars(LocalStep)
    /\ WF_vars(Answered /\ NetworkStep)
    /\ SF_vars(Dispatch)

FairSpec == Spec /\ Fairness

-----------------------------------------------------------------------------
(* Properties *)

AtTop == job = "loop" /\ at = "top"

States == {"Idle", "Loading", "Playing", "Paused", "Reconnecting", "Stopped", "Ended",
           "Failed"}

WorkerRecord ==
    [state : States, shown : States, media : MediaKinds \union {"none"},
     cont : {"unresolved", "finite", "indefinite"},
     fixed : BOOLEAN, traits : BOOLEAN, byHook : BOOLEAN, eof : BOOLEAN,
     retired : BOOLEAN, frozen : BOOLEAN, aim : BOOLEAN,
     source : {"none", "open", "dead", "broken"},
     transport : {"none", "parked", "running"},
     pending : {"none", "seek", "restart"},
     outage : {"none", "waiting", "window"},
     loading : 0 .. MaxLoads, adopted : 0 .. MaxLoads, outcome : [Tokens -> Nat],
     attempt : {"no", "ok", "retry", "fatal"}]

(* A stop and a shutdown are never queued, and a toggle is sent as the play  *)
(* or the pause it stands for.                                               *)
QueuedCommand ==
    [cmd : CommandKinds \ {"Toggle", "Stop", "Shutdown"}, kind : MediaKinds,
     token : 0 .. MaxLoads]

Submission ==
    [cmd : CommandKinds \ {"Toggle"}, phase : {"send", "act"}, kind : MediaKinds]

TypeOK ==
    /\ queue \in Seq(QueuedCommand) /\ Len(queue) <= QueueCap
    /\ tail \in {NoTail} \union Submission
    /\ {stop, shutdown, resume, mending} \subseteq BOOLEAN
    /\ submits \in 0 .. MaxSubmits /\ loads \in 0 .. MaxLoads
    /\ job \in {"loop", "load", "restore", "rejoin", "retry", "recover", "seek", "undo",
                "reject", "trial", "restart", "rebuild", "pausing", "gone"}
    /\ at \in {"top", "fault", "admit", "reconnect", "pump", "end", "confirm", "read",
               "open", "land", "seek", "device", "prime", "done", "gone"}
    /\ w \in WorkerRecord

(* Every accepted Load is answered exactly once - Loaded, LoadCancelled or   *)
(* Failed naming it - and not while it is still queued or being opened, also *)
(* when it is replaced, stopped, or still queued at the shutdown.            *)
LoadAnsweredOnce ==
    \A r \in 1 .. loads :
        w.outcome[r] = IF w.loading = r \/ \E i \in DOMAIN queue :
                               queue[i].cmd = "Load" /\ queue[i].token = r
                       THEN 0 ELSE 1

(* A session shown as Reconnecting at the top of the loop has an attempt     *)
(* scheduled, and has let the connection it lost go.                         *)
RecoveryIsScheduled ==
    AtTop /\ w.state = "Reconnecting" => w.outage = "waiting" /\ w.source = "none"

(* The other way round: an outage whose next attempt is scheduled belongs to *)
(* a session in Reconnecting, the only state in which service_reconnect      *)
(* makes the attempt.                                                        *)
ScheduledIsRecovering == AtTop /\ w.outage = "waiting" => w.state = "Reconnecting"

(* No device stream stays open behind a session that is idle, stopped or     *)
(* failed.  Media whose server cannot seek are excepted: a refused restore   *)
(* stops such a session and leaves its stream as it is.                      *)
ClosedHoldsNothing ==
    AtTop /\ w.state \in {"Idle", "Stopped", "Failed"} /\ w.media # "fixed"
        => w.transport = "none"

(* Between handlers no fetch generation of a remote session is live without  *)
(* a source that reads it: the fetch of a dropped source was retired.        *)
NoOrphanFetch == AtTop /\ Remote(w) /\ w.source = "none" => w.retired

(* The state is well typed, and nothing is left open between handlers.       *)
NothingLeftOpen == TypeOK /\ ClosedHoldsNothing /\ NoOrphanFetch

(* An open in progress is retired only for a request the worker has not      *)
(* dispatched yet.  A retirement that its submitter aimed at an earlier      *)
(* generation does not cancel the reopen that serves the submission.         *)
CancelledByARequest ==
    at = "open" /\ Remote(w) /\ w.retired
        => Interrupted \/ tail # NoTail \/ queue # <<>>

(* A seek or restart stored during an outage or while stopped is given up    *)
(* only to a landing, to another load or to a station's live edge: an        *)
(* attempt that fails or is cancelled keeps it.                              *)
IntentKept ==
    [][w.pending # "none" /\ w'.pending = "none"
         => w'.loading # 0 \/ Indefinite(w) \/ w'.source # "none"]_vars

(* Paused at the top of the loop, the callback is parked.                    *)
PausedIsSilent == AtTop /\ w.state = "Paused" => w.transport # "running"

(* A raised stop is taken, whatever the worker is blocked in.                *)
StopHeard == stop ~> ~stop

(* A raised shutdown ends the worker, whatever it is blocked in.             *)
ShutdownHeard == shutdown ~> job = "gone"

(* Every accepted Load is answered in the end.                               *)
LoadConcluded == \A r \in Tokens : (loads >= r) ~> (w.outcome[r] = 1)

(* Whatever is asked of the worker comes to its end.                         *)
RequestsConclude == StopHeard /\ ShutdownHeard /\ LoadConcluded
=============================================================================
