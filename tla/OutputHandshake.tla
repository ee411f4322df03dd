----------------------------- MODULE OutputHandshake -----------------------------
(* playback/callback.rs, handshake.rs, link.rs and timeline.rs, driven the   *)
(* way playback/engine.rs and the wait hook drive them: the decode worker    *)
(* parks, freezes, discards and releases the realtime callback through one   *)
(* control word and one acknowledgement word, and rebuilds what was played   *)
(* from the spans the callback publishes.                                    *)
(*                                                                           *)
(* Every callback plays one frame or none, so a span is one frame.  The      *)
(* device plays the submitted spans one after the other, any time later: a   *)
(* span's predicted instants are its place in that order, the first that is  *)
(* not over is sounding, and a played position counts two for a frame that   *)
(* is over and one for the frame that sounds.  The hook runs on the worker's *)
(* thread, inside a blocked read.                                            *)
EXTENDS Naturals, Sequences, FiniteSetsExt

CONSTANTS SpanCap,     \* SPAN_CAPACITY
          PcmCap,      \* frames the PCM ring holds
          Gens,        \* generations before the u16 wraps
          Frames,      \* frames of media after any landing
          MaxEpoch,    \* bound: handshakes asked of one transport; a Run may follow
          MaxOpens     \* bound: transports opened

ASSUME HandshakeAssumption ==
    /\ SpanCap \in Nat \ {0} /\ PcmCap \in Nat \ {0} /\ Gens \in Nat \ {0, 1}
    /\ Frames \in Nat /\ MaxEpoch \in Nat /\ MaxOpens \in Nat

VARIABLES
    control, ack,   \* OutputLink: what the worker wants, what the callback did
    spansDropped,   \* OutputLink.spans_dropped, as a flag
    spans, pcm,     \* the two rings; a frame is the generation it belongs to
    mapping,        \* TapRegistry: the live mapping of the transport's tap
    cpc, ctl,       \* the callback: idle or filling, under which control
    cgen, total,    \* CallbackCore.generation, media_total
    late,           \* CallbackCore.pending, and OutputLink.rescue_* with it
    submitted, ended, \* history: spans handed to the device, played out
    base,           \* history: submitted when the callback adopted cgen
    gen, epoch,     \* Worker.generation, Handshake.epoch
    opens,          \* history: transports opened
    mode,           \* history: what the last handshake established
    wpc, wait,      \* where the worker stands, and in which handshake
    at,             \* what it reads for: loop, priming or landing
    state,          \* the state the operation under way leads to
    byHook,         \* SessionFacts.frozen_by_hook
    timeline,       \* Timeline
    voided,         \* history: the timeline lost part of its generation
    pushed          \* Worker.pushed_total

words == <<control, ack>>
callback == <<cpc, ctl, cgen, total, late>>
device == <<opens, submitted, ended, base>>
rings == <<spans, pcm, spansDropped>>
output == <<words, rings, callback, device>>
session == <<at, state, byHook, pushed>>
position == <<timeline, voided>>
vars == <<output, mapping, gen, epoch, mode, wpc, wait, session, position>>

NoSpan == [gen |-> 0, total |-> 0, n |-> 0]
Running(c) == c.phase = "Run"
Label(g, e) == [gen |-> g, epoch |-> e]
NoLabel == Label(0, 0)
Silent == [gen |-> 0, epoch |-> 0, phase |-> "Park"]

(* Timeline::reset *)
Fresh(g) == [gen |-> g, floor |-> 0, total |-> 0, last |-> 0, pending |-> <<>>,
             degraded |-> FALSE]

Init ==
    /\ control = Silent /\ ack = [gen |-> 0, epoch |-> 0, adopted |-> "Parked"]
    /\ spansDropped = FALSE /\ spans = <<>> /\ pcm = <<>> /\ mapping = NoLabel
    /\ cpc = "idle" /\ ctl = Silent /\ cgen = 0 /\ total = 0 /\ late = NoSpan
    /\ submitted = 0 /\ ended = 0 /\ base = 0
    /\ gen = 0 /\ epoch = 0 /\ opens = 0 /\ mode = "none" /\ wpc = "idle" /\ wait = "none"
    /\ at = "loop" /\ state = "Idle" /\ byHook = FALSE /\ pushed = 0
    /\ timeline = Fresh(0) /\ voided = FALSE

-----------------------------------------------------------------------------
(* The callback: CallbackCore::fill, up to the load of the control word, and *)
(* what it does under it.  A stream that is closing begins no fill.          *)

FillBegin ==
    /\ mode # "none" /\ wpc # "joining" /\ cpc = "idle"
    /\ cpc' = "filling" /\ ctl' = control
    /\ IF late # NoSpan /\ Len(spans) < SpanCap
       THEN spans' = Append(spans, late) /\ late' = NoSpan
       ELSE UNCHANGED <<spans, late>>
    /\ IF control.gen # cgen
       THEN cgen' = control.gen /\ total' = 0 /\ base' = submitted
       ELSE UNCHANGED <<cgen, total, base>>
    /\ UNCHANGED <<words, pcm, spansDropped, mapping, opens, submitted, ended,
                   gen, epoch, mode, wpc, wait, session, position>>

Acknowledge(adopted) ==
    ack' = [gen |-> ctl.gen, epoch |-> ctl.epoch, adopted |-> adopted]

Publish(record) ==
    IF Len(spans) < SpanCap
    THEN spans' = Append(spans, record) /\ UNCHANGED <<late, spansDropped>>
    ELSE /\ spansDropped' = (spansDropped \/ late # NoSpan)
         /\ late' = record
         /\ UNCHANGED spans

(* Phase Run: play what the ring holds and publish its span. *)
FillRun ==
    /\ cpc = "filling" /\ Running(ctl)
    /\ IF pcm = <<>>
       THEN UNCHANGED <<pcm, total, submitted, spans, late, spansDropped>>
       ELSE /\ pcm' = Tail(pcm)
            /\ total' = total + 1 /\ submitted' = submitted + 1
            /\ Publish([gen |-> ctl.gen, total |-> total + 1, n |-> submitted + 1])
    /\ Acknowledge("Running") /\ cpc' = "idle" /\ ctl' = Silent
    /\ UNCHANGED <<control, mapping, cgen, opens, ended, base, gen, epoch,
                   mode, wpc, wait, session, position>>

Adopted == IF ctl.phase = "Freeze" THEN "Frozen" ELSE "Parked"

AcknowledgeWhenDrained(adopted) ==
    IF late = NoSpan THEN Acknowledge(adopted) ELSE UNCHANGED ack

(* Phases Freeze, Discard and Park: silence. *)
FillSilence ==
    /\ cpc = "filling" /\ ~Running(ctl)
    /\ pcm' = IF ctl.phase = "Discard" THEN <<>> ELSE pcm
    /\ AcknowledgeWhenDrained(Adopted)
    /\ cpc' = "idle" /\ ctl' = Silent
    /\ UNCHANGED <<control, spans, spansDropped, mapping, cgen, total,
                   late, device, gen, epoch, mode, wpc, wait, session, position>>

Callback == FillBegin \/ FillRun \/ FillSilence

-----------------------------------------------------------------------------
(* The device. *)

PlaysOut ==
    /\ ended < submitted /\ ended' = ended + 1
    /\ UNCHANGED <<words, rings, mapping, callback, opens, submitted, base, gen,
                   epoch, mode, wpc, wait, session, position>>

started == Min({submitted, ended + 1})

-----------------------------------------------------------------------------
(* The timeline. *)

NoteDropped(t) == [t EXCEPT !.degraded = @ \/ spansDropped]

Accept(t, r) ==
    IF r.gen # t.gen THEN t
    ELSE [t EXCEPT !.degraded = @ \/ (t.total > 0 /\ ~(r.total - 1 >= t.total
                                                        /\ r.n > t.last)),
                   !.total = r.total, !.last = r.n,
                   !.pending = Append(@, r)]

(* played_frames: a span is over when it played out or its successor began. *)
Over(t, i) ==
    \/ t.pending[i].n <= ended
    \/ i < Len(t.pending) /\ t.pending[i + 1].n <= started

Finished(t) == Max({k \in 0 .. Len(t.pending) : \A i \in 1 .. k : Over(t, i)})

Advanced(t) ==
    LET k == Finished(t)
    IN [t EXCEPT !.floor = Max({@} \union {t.pending[i].total : i \in 1 .. k}),
                 !.pending = SubSeq(@, k + 1, Len(@))]

(* Mutant: a span counts from the instant it was handed to the device. *)
SubmittedFrames(t) == 2 * t.total

PlayedFrames(t) ==
    LET a == Advanced(t)
    IN IF a.pending = <<>> \/ a.degraded \/ a.pending[1].n > started
       THEN 2 * a.floor
       ELSE 2 * (a.pending[1].total - 1) + 1

-----------------------------------------------------------------------------
(* The worker's waits: Handshake::await_ack and drain_spans. *)

Idle == mode # "none" /\ wpc = "idle"

PublishControl(phase) ==
    /\ epoch' = epoch + 1
    /\ control' = [gen |-> gen', epoch |-> epoch + 1, phase |-> phase]

Await(op) == wpc' = "drain" /\ wait' = op

(* park, freeze_and_capture: await_ack hands the spans it drains to the      *)
(* timeline; in discard and install it throws them away.                     *)
Preserving == {"park", "hookPark", "freeze", "close", "end"}

(* The handshakes that publish a phase and wait for it. *)
Request(phase, op) ==
    /\ epoch < MaxEpoch \/ op = "close"
    /\ gen' = gen /\ PublishControl(phase) /\ Await(op)
    /\ UNCHANGED <<ack, rings, mapping, callback, device, mode>>

Drain ==
    /\ wpc \in {"drain", "final", "observe"} /\ spans # <<>>
    /\ spans' = Tail(spans)
    /\ timeline' = IF wpc = "drain" /\ wait \notin Preserving THEN timeline
                   ELSE Accept(timeline, Head(spans))
    /\ UNCHANGED <<words, pcm, spansDropped, mapping, callback, device, gen,
                   epoch, mode, wpc, wait, session, voided>>

(* Mutant: one look at the ring before the first look at the word. *)
DrainedOnce ==
    /\ wpc = "drain" /\ wpc' = "check"
    /\ UNCHANGED <<output, mapping, gen, epoch, mode, wait, session, position>>

Drained ==
    /\ wpc = "drain" /\ spans = <<>> /\ wpc' = "check"
    /\ UNCHANGED <<output, mapping, gen, epoch, mode, wait, session, position>>

Expected == IF wait \in {"freeze", "close"} THEN "Frozen" ELSE "Parked"

(* Mutant: any acknowledgement of a silent phase will do. *)
AckedAny == ack.adopted = Expected

Acked == ack = [gen |-> gen, epoch |-> epoch, adopted |-> Expected]

LookAgain ==
    /\ wpc = "check" /\ ~Acked /\ wpc' = "drain"
    /\ UNCHANGED <<output, mapping, gen, epoch, mode, wait, session, position>>

(* The final drain of a preserving handshake takes the counters first. *)
PreservingAcked ==
    /\ wpc = "check" /\ Acked /\ wait \in Preserving
    /\ wpc' = "final" /\ timeline' = NoteDropped(timeline) /\ spansDropped' = FALSE
    /\ UNCHANGED <<words, spans, pcm, mapping, callback, device, gen, epoch,
                   mode, wait, session, voided>>

(* Mutant: nothing is drained after the acknowledgement. *)
NotDrained == wpc = "final"

FinallyDrained == wpc = "final" /\ spans = <<>>

-----------------------------------------------------------------------------
(* Generations: open_transport, reinstall and the teardown. *)

(* install, as open_transport and reinstall call it. *)
NextGeneration ==
    /\ gen' = (gen + 1) % Gens /\ pushed' = 0
    /\ timeline' = Fresh(gen') /\ voided' = FALSE
    /\ PublishControl("Park") /\ Await("install")

OpenTransport ==
    /\ mode = "none" /\ opens < MaxOpens /\ opens' = opens + 1
    /\ mode' = "opening" /\ state' \in {"Playing", "Paused"}
    /\ NextGeneration
    /\ UNCHANGED <<ack, rings, mapping, callback, submitted, ended, base, at, byHook>>

(* seek_to, restart: capture, then read for the target. *)
Capture ==
    /\ Idle /\ at = "loop" /\ state' \in {state, "Playing"}
    /\ Request("Freeze", "freeze")
    /\ UNCHANGED <<at, byHook, pushed, position>>

(* A seek that was cancelled leaves the transport frozen. *)
Abandon ==
    /\ Idle /\ at = "landing" /\ at' = "loop"
    /\ UNCHANGED <<output, mapping, gen, epoch, mode, wpc, wait, state, byHook,
                   pushed, position>>

(* Mutant: reinstall goes straight to the next generation. *)
InstallUndiscarded ==
    /\ Idle /\ at = "landing" /\ epoch < MaxEpoch
    /\ mode' = "loose" /\ NextGeneration
    /\ UNCHANGED <<ack, rings, mapping, callback, device, at, state, byHook>>

Discard ==
    /\ Idle /\ at = "landing"
    /\ Request("Discard", "discard")
    /\ UNCHANGED <<session, position>>

DiscardAcked ==
    /\ wpc = "check" /\ Acked /\ wait = "discard"
    /\ mode' = "loose" /\ NextGeneration
    /\ UNCHANGED <<ack, rings, mapping, callback, device, at, state, byHook>>

InstallAcked ==
    /\ wpc = "check" /\ Acked /\ wait = "install"
    /\ mode' = "parked" /\ wpc' = "idle" /\ wait' = "none" /\ at' = "priming"
    /\ UNCHANGED <<output, mapping, gen, epoch, state, byHook, pushed, position>>

(* pump_audio. *)
Push ==
    /\ Idle /\ at # "landing" /\ pushed < Frames /\ Len(pcm) < PcmCap
    /\ pcm' = Append(pcm, gen) /\ pushed' = pushed + 1
    /\ UNCHANGED <<words, spans, spansDropped, mapping, callback, device,
                   gen, epoch, mode, wpc, wait, at, state, byHook, position>>

(* do_stop, load, shutdown, rebuild: capture_and_teardown. *)
CloseTransport ==
    /\ Idle /\ Request("Freeze", "close")
    /\ UNCHANGED <<session, position>>

(* The stream is closed, its thread joined, and every transport field goes.  *)
TearDown ==
    /\ wpc = "joining" /\ cpc = "idle"
    /\ control' = Silent /\ ack' = [gen |-> 0, epoch |-> 0, adopted |-> "Parked"]
    /\ spansDropped' = FALSE /\ spans' = <<>> /\ pcm' = <<>> /\ mapping' = NoLabel
    /\ cpc' = "idle" /\ ctl' = Silent /\ cgen' = 0 /\ total' = 0 /\ late' = NoSpan
    /\ submitted' = 0 /\ ended' = 0 /\ base' = 0
    /\ gen' = gen /\ epoch' = 0 /\ mode' = "none" /\ wpc' = "idle" /\ wait' = "none"
    /\ at' = "loop" /\ state' = "Idle" /\ pushed' = 0
    /\ timeline' = Fresh(0) /\ voided' = FALSE
    /\ UNCHANGED <<opens, byHook>>

-----------------------------------------------------------------------------
(* Running, parking and the end of the track. *)

PublishMapping(op) ==
    /\ epoch <= MaxEpoch
    /\ mapping' = Label(gen, epoch + 1)
    /\ wpc' = "mapped" /\ wait' = op
    /\ UNCHANGED <<output, gen, epoch, mode, position>>

(* prime_and_run: the end of priming. *)
StartRunning ==
    /\ Idle /\ at = "priming" /\ state = "Playing"
    /\ PublishMapping("start") /\ at' = "loop"
    /\ UNCHANGED <<state, byHook, pushed>>

StayParked ==
    /\ Idle /\ at = "priming" /\ state # "Playing" /\ at' = "loop" /\ state' = "Paused"
    /\ UNCHANGED <<output, mapping, gen, epoch, mode, wpc, wait, byHook, pushed,
                   position>>

(* play, with a parked transport. *)
Resume ==
    /\ Idle /\ at = "loop" /\ state = "Paused"
    /\ PublishMapping("release") /\ byHook' = FALSE /\ state' = "Playing"
    /\ UNCHANGED <<at, pushed>>

(* service_as: the level was lowered while a read is blocked. *)
HookRelease ==
    /\ Idle /\ byHook /\ PublishMapping("release") /\ byHook' = FALSE
    /\ UNCHANGED <<at, state, pushed>>

(* Handshake::start_running and release, after the mapping. *)
Run ==
    /\ wpc = "mapped" /\ gen' = gen /\ PublishControl("Run")
    /\ wpc' = "idle" /\ wait' = "none" /\ mode' = "running"
    /\ IF wait = "start"
       THEN timeline' = Fresh(gen) /\ voided' = (voided \/ (cgen = gen /\ total > 0))
       ELSE UNCHANGED <<timeline, voided>>
    /\ UNCHANGED <<ack, rings, mapping, callback, device, session>>

(* pause; one the hook already parked for is adopted. *)
Park ==
    /\ Idle /\ at = "loop" /\ state = "Playing" /\ ~byHook
    /\ Request("Park", "park")
    /\ UNCHANGED <<session, position>>

AdoptPause ==
    /\ Idle /\ at = "loop" /\ state = "Playing" /\ byHook /\ state' = "Paused"
    /\ UNCHANGED <<output, mapping, gen, epoch, mode, wpc, wait, at, byHook, pushed,
                   position>>

(* service_as: the level was raised while a read is blocked. *)
HookPark ==
    /\ Idle /\ ~byHook /\ Request("Park", "hookPark")
    /\ UNCHANGED <<session, position>>

(* check_end_of_track, once the decoder has run dry. *)
EndOfTrack ==
    /\ Idle /\ at = "loop" /\ state = "Playing" /\ pushed = Frames
    /\ PlayedFrames(timeline) >= 2 * pushed
    /\ timeline' = Advanced(timeline) /\ Request("Park", "end")
    /\ UNCHANGED <<session, voided>>

(* What follows a preserving handshake. *)
Settle ==
    /\ FinallyDrained /\ wait # "close"
    /\ wpc' = "idle" /\ wait' = "none"
    /\ mode' = IF wait = "freeze" THEN "frozen" ELSE "parked"
    /\ \/ /\ wait = "freeze" /\ at' = "landing" /\ timeline' = Advanced(timeline)
          /\ UNCHANGED <<state, byHook>>
       \/ /\ wait = "hookPark" /\ byHook' = TRUE
          /\ UNCHANGED <<at, state, timeline>>
       \/ /\ wait = "park" /\ state' = "Paused" /\ byHook' \in {byHook, TRUE}
          /\ UNCHANGED <<at, timeline>>
       \/ /\ wait = "end" /\ state' = "Ended"
          /\ UNCHANGED <<at, byHook, timeline>>
    /\ UNCHANGED <<output, mapping, gen, epoch, pushed, voided>>

SettleClose ==
    /\ FinallyDrained /\ wait = "close" /\ wpc' = "joining"
    /\ timeline' = Advanced(timeline)
    /\ UNCHANGED <<output, mapping, gen, epoch, mode, wait, session, voided>>

(* publish_progress, from the loop or from a blocked read. *)
Observe ==
    /\ Idle /\ state # "Ended" /\ wpc' = "observe"
    /\ timeline' = NoteDropped(timeline) /\ spansDropped' = FALSE
    /\ UNCHANGED <<words, spans, pcm, mapping, callback, device, gen, epoch,
                   mode, wait, session, voided>>

Observed ==
    /\ wpc = "observe" /\ spans = <<>> /\ wpc' = "idle"
    /\ timeline' = Advanced(timeline)
    /\ UNCHANGED <<output, mapping, gen, epoch, mode, wait, session, voided>>

(* A handshake misses its DEADLINE, which is looked at after the word. *)
TimesOut ==
    /\ wpc = "check" /\ ~Acked
    /\ \/ /\ wait = "close" \/ (wait = "install" /\ mode = "opening")
          /\ wpc' = "joining"
          /\ UNCHANGED <<words, gen, epoch, mode, wait, session>>
       \/ /\ wait \in {"park", "discard"} \/ (wait = "install" /\ mode # "opening")
          /\ gen' = gen /\ PublishControl("Freeze") /\ Await("close") \* rebuild
          /\ UNCHANGED <<ack, mode, session>>
       \/ /\ wait \in {"hookPark", "freeze", "end"} \* carried on regardless
          /\ wpc' = "idle" /\ wait' = "none" /\ mode' = "loose"
          /\ at' = IF wait = "freeze" THEN "landing" ELSE at
          /\ state' = IF wait = "end" THEN "Ended" ELSE state
          /\ UNCHANGED <<words, gen, epoch, byHook, pushed>>
    /\ UNCHANGED <<rings, mapping, callback, device, position>>

-----------------------------------------------------------------------------
Waiting == Drain \/ Drained \/ LookAgain \/ PreservingAcked
Concluding == DiscardAcked \/ InstallAcked \/ Run \/ Settle \/ SettleClose
              \/ Observed \/ TearDown
Choosing == OpenTransport \/ Capture \/ Abandon \/ Discard \/ Push \/ CloseTransport
            \/ StartRunning \/ StayParked \/ Resume \/ HookRelease \/ Park
            \/ AdoptPause \/ HookPark \/ EndOfTrack \/ Observe

Next == Callback \/ PlaysOut \/ Waiting \/ Concluding \/ TimesOut \/ Choosing

(* An open stream keeps calling back, and the worker's thread keeps running; *)
(* what the listener asks for, and what the device plays, is not promised.   *)
Fairness == WF_vars(Callback) /\ WF_vars(Waiting \/ Concluding)

Spec == Init /\ [][Next]_vars /\ Fairness

-----------------------------------------------------------------------------
Phases == {"Park", "Run", "Freeze", "Discard"}
Modes == {"none", "opening", "loose", "parked", "frozen", "running"}
Generation == 0 .. Gens - 1
Records == [gen : Generation, total : Nat, n : Nat]
Words == [gen : Generation, epoch : Nat, phase : Phases]

(* Types, with the capacities of the two rings. *)
TypeOK ==
    /\ control \in Words /\ ctl \in Words
    /\ ack \in [gen : Generation, epoch : Nat,
                adopted : {"Parked", "Frozen", "Running"}]
    /\ spansDropped \in BOOLEAN /\ late \in Records
    /\ spans \in Seq(Records) /\ Len(spans) <= SpanCap
    /\ pcm \in Seq(Generation) /\ Len(pcm) <= PcmCap
    /\ mapping \in [gen : Generation, epoch : Nat]
    /\ cpc \in {"idle", "filling"} /\ cgen \in Generation /\ total \in Nat
    /\ submitted \in Nat /\ ended \in 0 .. submitted /\ base \in 0 .. submitted
    /\ gen \in Generation /\ epoch \in Nat /\ opens \in Nat /\ mode \in Modes
    /\ wpc \in {"idle", "drain", "check", "final", "mapped", "observe",
                "joining"}
    /\ wait \in Preserving \union {"none", "install", "discard", "start",
                                   "release"}
    /\ at \in {"loop", "priming", "landing"}
    /\ state \in {"Idle", "Playing", "Paused", "Ended"} /\ byHook \in BOOLEAN
    /\ timeline \in [gen : Generation, floor : Nat, total : Nat, last : Nat,
                     pending : Seq(Records), degraded : BOOLEAN]
    /\ voided \in BOOLEAN /\ pushed \in 0 .. Frames

(* Once park, freeze or install returned, and until the next handshake, the  *)
(* callback plays nothing and holds no span back: no fill of an earlier Run  *)
(* is still under way (acknowledge_when_drained, await_ack).                 *)
ParkedIsStill ==
    mode \in {"parked", "frozen"} /\ wpc = "idle" =>
        /\ ~Running(control) /\ ~(cpc = "filling" /\ Running(ctl))
        /\ late = NoSpan

(* Whatever the callback plays under Run belongs to the generation it        *)
(* accounts it to: nothing decoded before a seek is heard, or counted, after *)
(* it (discard before install, and the wait for both).                       *)
NoStaleAudio ==
    cpc = "filling" /\ Running(ctl) => \A i \in DOMAIN pcm : pcm[i] = ctl.gen

(* Decision 18: the mapping of a Run goes out before the callback can label  *)
(* a block with it: a block the analysis worker cannot place is one whose    *)
(* mapping was retired, never one whose mapping is still to come.            *)
MappedBeforeHeard ==
    cpc = "filling" /\ Running(ctl) =>
        mapping = Label(ctl.gen, ctl.epoch) \/ mapping.epoch > ctl.epoch

(* The state is well typed, and what is heard is accounted and mapped to the  *)
(* generation it belongs to.                                                 *)
HeardIsCurrent == TypeOK /\ NoStaleAudio /\ MappedBeforeHeard

Sure == ~timeline.degraded /\ ~voided

(* Parking preserves the position: when it is acknowledged the timeline      *)
(* accounts for every frame the callback took from the ring in this          *)
(* generation, however few spans the ring holds (handshake.rs, park).        *)
ParkLosesNothing ==
    mode \in {"parked", "frozen"} /\ wpc = "idle" /\ Sure =>
        timeline.total = total /\ cgen = gen

(* What the device has played of the callback's generation, in half frames. *)
Heard ==
    IF started <= base THEN 0 ELSE (ended - base) + (started - base)

(* The position read from the timeline never runs ahead of what was heard,   *)
(* and the end of the track is not declared before its last frame was,       *)
(* unless spans were lost, when it is published as degraded (played_frames,  *)
(* check_end_of_track).                                                      *)
NotAheadOfHeard ==
    mode # "none" /\ Sure =>
        /\ PlayedFrames(timeline) <= (IF cgen = gen THEN Heard ELSE 0)
        /\ wait = "end" => Heard = 2 * Frames

(* Every handshake ends, with an acknowledgement or at its deadline: the     *)
(* worker and the callback never wait for each other (await_ack drains the   *)
(* ring the callback needs for its pending span).                            *)
HandshakesEnd == wait # "none" ~> wait = "none"

(* What release's comment asks of a generation that is already playing: its  *)
(* timeline is left alone, so that the position does not drop to where the   *)
(* generation started and jump forward with the next span (handshake.rs).    *)
NeverBack ==
    [][mode # "none" /\ mode' # "none" /\ gen' = gen /\ ~timeline'.degraded
        => PlayedFrames(timeline)' >= PlayedFrames(timeline)]_vars
=============================================================================
