------------------------------- MODULE EventOutbox -------------------------------
(* playback/outbox.rs, driven by the passes of Worker::run: the event        *)
(* channel with its reserved tail, the pending queue behind it, and the      *)
(* admission rules - one command only over an empty queue, a fault only when *)
(* its events fit - that keep the two within their bounds.                   *)
(*                                                                           *)
(* An event is its kind and its number.  What a handler emits is a script,   *)
(* emitted one event at a time, because inside a dispatched handler the wait *)
(* hook may announce and flush in between.                                   *)
EXTENDS Naturals, Sequences, SequencesExt, FiniteSets

CONSTANTS Capacity,     \* EVENT_CAPACITY
          Reserved,     \* RESERVED_EVENT_SLOTS
          PendingCap,   \* PENDING_CAP
          FaultBudget,  \* FAULT_EVENT_BUDGET
          MaxStimuli    \* bound: commands, stops, faults, drops, announcements
                        \* and warnings in one run

ASSUME OutboxAssumption ==
    /\ {Capacity, Reserved, PendingCap, FaultBudget, MaxStimuli} \subseteq Nat
    /\ Reserved < Capacity /\ FaultBudget <= PendingCap
    \* What one handler and the pass around it may owe fits the queue.
    /\ 4 <= PendingCap /\ 2 <= FaultBudget

VARIABLES
    channel,       \* sent, and not received yet
    pending,       \* Inner.pending
    disconnected,  \* Inner.disconnected
    receiversGone, \* Worker.receivers_gone
    report,        \* take_remaining(): what the joined worker hands back
    gone,          \* the application dropped its receiver
    waiting,       \* commands in the command channel
    stimuli,       \* history: what happened to the worker so far
    flag,          \* the interrupt word: none, stop or shutdown
    pc,            \* where the pass stands
    script,        \* the kinds the current handler has still to emit
    emitSession,       \* idle, open, playing, ended, stopped or failed
    emitted,       \* history: events emitted, dropped ones included
    owed           \* history: of those, the terminal and protected ones

outboxVars == <<channel, pending, disconnected, receiversGone, report, gone, waiting,
          stimuli, flag, pc, script, emitSession, emitted, owed>>
unheard == <<receiversGone, report, gone, waiting, flag>>
outside == <<report, gone, waiting, flag>>
count == <<emitted, owed>>
queues == <<channel, pending, disconnected, count>>

Privileged(e) == e.kind # "ordinary"

Stimulus == stimuli < MaxStimuli /\ stimuli' = stimuli + 1
EmitsNothing == UNCHANGED stimuli

OutboxInit ==
    /\ channel = <<>> /\ pending = <<>> /\ report = <<>>
    /\ disconnected = FALSE /\ receiversGone = FALSE /\ gone = FALSE
    /\ waiting = 0 /\ stimuli = 0 /\ flag = "none"
    /\ pc = "interrupt" /\ script = <<>> /\ emitSession = "idle"
    /\ emitted = 0 /\ owed = 0

-----------------------------------------------------------------------------
(* The outbox. *)

(* displacement_victim: the oldest ordinary event. *)
Victims == {i \in DOMAIN pending : ~Privileged(pending[i])}
Victim == CHOOSE i \in Victims : \A j \in Victims : i <= j

Queued(kind) == [kind |-> kind, n |-> emitted + 1]
Counted(kind) ==
    /\ emitted' = emitted + 1
    /\ owed' = IF kind = "ordinary" THEN owed ELSE owed + 1

(* Mutant: at the cap the newest goes, whatever it is. *)
EmitDropping(kind) ==
    /\ Counted(kind)
    /\ pending' = IF Len(pending) < PendingCap THEN Append(pending, Queued(kind))
                                               ELSE pending

Emit(kind) ==
    /\ Counted(kind)
    /\ pending' =
         CASE Len(pending) < PendingCap \/ kind = "protected" ->
                 Append(pending, Queued(kind))
           [] Len(pending) >= PendingCap /\ kind = "terminal" /\ Victims # {} ->
                 Append(RemoveAt(pending, Victim), Queued(kind))
           [] OTHER -> pending

(* Mutant: all of the backlog or nothing. *)
SendableWhole(n) ==
    n \in {0, Len(pending)} /\ Len(channel) + n <= Capacity

(* The first n pending events fit, each in what the ones before it leave. *)
Sendable(n) ==
    \A i \in 1 .. n : LET free == Capacity - (Len(channel) + i - 1)
                      IN free > 0 /\ (Privileged(pending[i]) \/ free > Reserved)

(* flush: a receiver that is gone latches disconnected and moves nothing. *)
Flush ==
    LET fitting == {k \in 0 .. Len(pending) : Sendable(k)}
        n == CHOOSE k \in fitting : \A j \in fitting : j <= k
    IN IF gone
       THEN /\ disconnected' = (disconnected \/ n > 0)
            /\ UNCHANGED <<channel, pending>>
       ELSE /\ channel' = channel \o SubSeq(pending, 1, n)
            /\ pending' = SubSeq(pending, n + 1, Len(pending))
            /\ UNCHANGED disconnected

-----------------------------------------------------------------------------
(* The application. *)

Receive ==
    /\ channel # <<>> /\ ~gone
    /\ channel' = Tail(channel)
    /\ UNCHANGED <<pending, disconnected, count, unheard, stimuli, pc, script, emitSession>>

Submit ==
    /\ Stimulus /\ waiting' = waiting + 1
    /\ UNCHANGED <<queues, receiversGone, report, gone, flag, pc, script, emitSession>>

Stop ==
    /\ flag = "none" /\ Stimulus /\ flag' = "stop"
    /\ UNCHANGED <<queues, receiversGone, report, gone, waiting, pc, script, emitSession>>

RaiseShutdown ==
    /\ flag # "shutdown" /\ flag' = "shutdown"
    /\ UNCHANGED <<queues, receiversGone, report, gone, waiting, stimuli, pc, script,
                   emitSession>>

DropReceiver ==
    /\ ~gone /\ gone' = TRUE
    /\ UNCHANGED <<queues, receiversGone, report, waiting, flag, stimuli, pc, script,
                   emitSession>>

-----------------------------------------------------------------------------
(* One pass.  Run starts a script and says where the session is after it. *)
OutboxRun(events, s, next) == script' = events /\ emitSession' = s /\ pc' = next
Pass(next) == OutboxRun(<<>>, emitSession, next) /\ EmitsNothing

EmitNext ==
    /\ script # <<>>
    /\ Emit(Head(script)) /\ script' = Tail(script)
    /\ UNCHANGED <<channel, disconnected, unheard, stimuli, pc, emitSession>>

(* Inside a dispatched handler's blocked read: announce, flush. *)
HookAnnounces ==
    /\ pc = "work" /\ script # <<>>
    /\ Stimulus /\ Emit("ordinary")
    /\ UNCHANGED <<channel, disconnected, unheard, pc, script, emitSession>>

HookFlushes ==
    /\ pc = "work" /\ script # <<>>
    /\ Flush
    /\ UNCHANGED <<count, unheard, stimuli, pc, script, emitSession>>

At(place) == pc = place /\ script = <<>>

Interrupts ==
    /\ At("interrupt") /\ flag # "shutdown"
    /\ flag' = "none"
    /\ IF flag = "stop" /\ emitSession \in {"open", "playing", "ended"}
       THEN OutboxRun(<<"terminal">>, "stopped", "fault") /\ EmitsNothing
       ELSE Pass("fault")
    /\ UNCHANGED <<queues, receiversGone, report, gone, waiting>>

(* A rebuild reports itself in two ordinary events, a fatal fault fails the  *)
(* session unless it already failed. *)
Fault ==
    \/ OutboxRun(<<"ordinary", "ordinary">>, emitSession, "flush")
    \/ emitSession # "failed" /\ OutboxRun(<<"terminal", "terminal">>, "failed", "flush")

OutboxFaults ==
    /\ At("fault")
    /\ \/ Pass("flush")
       \/ Len(pending) + FaultBudget <= PendingCap /\ Stimulus /\ Fault
    /\ UNCHANGED <<queues, unheard>>

FlushEvents ==
    /\ At("flush") /\ Flush
    /\ pc' = "offer" /\ receiversGone' = (receiversGone \/ disconnected')
    /\ UNCHANGED <<count, outside, stimuli, script, emitSession>>

(* offer: the aggregated warning, past the queue. *)
Offer ==
    /\ At("offer")
    /\ \/ Pass("admit") /\ UNCHANGED queues
       \/ /\ pending = <<>> /\ Capacity - Len(channel) > Reserved
          /\ Stimulus /\ OutboxRun(<<>>, emitSession, "admit")
          /\ IF gone
             THEN disconnected' = TRUE /\ UNCHANGED <<channel, count>>
             ELSE /\ channel' = Append(channel, Queued("ordinary"))
                  /\ Counted("ordinary")
                  /\ UNCHANGED disconnected
          /\ UNCHANGED pending
    /\ receiversGone' = (receiversGone \/ disconnected')
    /\ UNCHANGED outside

(* What a command emits, and where it leaves the session. *)
Loads ==
    {<<<<"ordinary", "ordinary", "protected", "ordinary">>, "open">>,
     <<<<"ordinary", "ordinary", "protected", "terminal", "terminal">>, "failed">>,
     <<<<"ordinary", "protected", "terminal">>, "failed">>,
     <<<<"ordinary", "protected">>, "open">>}

Dispatches ==
    Loads \union {<<<<"ordinary">>, emitSession>>, <<<<"terminal">>, emitSession>>}
          \union (IF emitSession \in {"open", "stopped"} THEN {<<<<"ordinary">>, "playing">>}
                                                     ELSE {})

OutboxDispatch ==
    /\ waiting > 0 /\ waiting' = waiting - 1
    /\ \/ \E d \in Dispatches : OutboxRun(d[1], d[2], "work")
       \/ OutboxRun(<<>>, emitSession, "gone")
    /\ UNCHANGED <<queues, receiversGone, report, gone, flag, stimuli>>

(* Mutant: admission does not look at the backlog. *)
AdmitOverBacklog == At("admit") /\ OutboxDispatch

Admit == At("admit") /\ pending = <<>> /\ OutboxDispatch

OutboxAdmitsNothing ==
    /\ At("admit") /\ Pass("work")
    /\ UNCHANGED <<queues, unheard>>

(* The liveness arm of the wait: ready only when the receiver is gone. *)
HearsNobody ==
    /\ At("admit") /\ gone /\ Pass("work")
    /\ receiversGone' = TRUE
    /\ UNCHANGED <<queues, outside>>

(* service_reconnect and pump_audio: a drop and a recovery announce          *)
(* themselves with no command behind them; a failure is terminal. *)
Work ==
    /\ At("work")
    /\ \/ Pass("end")
       \/ /\ emitSession = "playing" /\ Stimulus
          /\ \/ OutboxRun(<<"ordinary">>, emitSession, "end")
             \/ OutboxRun(<<"terminal", "terminal">>, "failed", "end")
    /\ UNCHANGED <<queues, unheard>>

OutboxEndOfTrack ==
    /\ At("end") /\ EmitsNothing
    /\ LET next == IF receiversGone THEN "gone" ELSE "interrupt"
       IN \/ OutboxRun(<<>>, emitSession, next)
          \/ emitSession = "playing" /\ OutboxRun(<<"terminal", "terminal">>, "ended", next)
    /\ UNCHANGED <<queues, unheard>>

(* shutdown(): the loads still queued are cancelled; what could not be sent  *)
(* is handed to whoever joins the worker. *)
Shutdown ==
    /\ \/ At("interrupt") /\ flag = "shutdown"
       \/ At("gone")
    /\ \E n \in 0 .. waiting : OutboxRun([i \in 1 .. n |-> "protected"], "idle", "report")
    /\ waiting' = 0
    /\ UNCHANGED <<queues, receiversGone, report, gone, flag, stimuli>>

TakeRemaining ==
    /\ At("report")
    /\ report' = pending /\ pending' = <<>> /\ pc' = "joined"
    /\ UNCHANGED <<channel, disconnected, count, receiversGone, gone, waiting, flag,
                   stimuli, script, emitSession>>

Worker ==
    \/ EmitNext \/ HookAnnounces \/ HookFlushes
    \/ Interrupts \/ OutboxFaults \/ FlushEvents \/ Offer
    \/ Admit \/ OutboxAdmitsNothing \/ HearsNobody \/ Work \/ OutboxEndOfTrack
    \/ Shutdown \/ TakeRemaining

OutboxNext == Receive \/ Submit \/ Stop \/ RaiseShutdown \/ DropReceiver \/ Worker

OutboxSpec == OutboxInit /\ [][OutboxNext]_outboxVars

(* The worker runs on, a blocked read included; select! takes a ready arm at *)
(* random, so a wait that can hear of a dropped receiver again and again does*)
(* hear of it; and the application's loop drains its receiver. *)
Progress == EmitNext \/ (Worker /\ script = <<>>)
OutboxFairSpec ==
    OutboxSpec /\ WF_outboxVars(Progress) /\ SF_outboxVars(HearsNobody) /\ WF_outboxVars(Receive)

-----------------------------------------------------------------------------
(* Properties *)

Event == [kind : {"ordinary", "terminal", "protected"}, n : Nat]

OutboxTypeOK ==
    /\ {channel, pending, report} \subseteq Seq(Event)
    /\ Len(channel) <= Capacity
    /\ Cardinality({i \in DOMAIN pending : pending[i].kind # "protected"}) <= PendingCap
    /\ {disconnected, receiversGone, gone} \subseteq BOOLEAN
    /\ waiting \in 0 .. MaxStimuli /\ stimuli \in 0 .. MaxStimuli
    /\ emitted \in Nat /\ owed \in 0 .. emitted
    /\ flag \in {"none", "stop", "shutdown"}
    /\ pc \in {"interrupt", "fault", "flush", "offer", "admit", "work", "end",
               "gone", "report", "joined"}
    /\ script \in Seq({"ordinary", "terminal", "protected"})
    /\ emitSession \in {"idle", "open", "playing", "ended", "stopped", "failed"}

(* What the application receives, and then finds in the report, is the       *)
(* emitted sequence, in order, with every terminal and protected event:      *)
(* emit, flush, offer and take_remaining together lose ordinary events only. *)
Ordered == INSTANCE OrderedEvents WITH q <- channel \o pending \o report
DeliversInOrder == Ordered!Spec

(* Ordinary events never fill the reserved tail of the channel, whether they *)
(* went by flush or by offer.                                                *)
ReserveKept ==
    Cardinality({i \in DOMAIN channel : ~Privileged(channel[i])}) <= Capacity - Reserved

(* The backlog of an application that does not drain stays bounded.  A load  *)
(* outcome ignores the cap, so it is admission that bounds it: no more than  *)
(* one is ever pending while the worker runs, and the queue exceeds its cap  *)
(* by no more than that one.                                                 *)
BacklogBounded ==
    pc \notin {"report", "joined"} =>
        /\ Cardinality({i \in DOMAIN pending : pending[i].kind = "protected"}) <= 1
        /\ Len(pending) <= PendingCap + 1

(* The state is well typed, and channel and backlog keep within their limits. *)
LimitsKept == OutboxTypeOK /\ ReserveKept /\ BacklogBounded

(* While the application drains, the backlog that closes admission clears,   *)
(* or the worker ends and reports it.                                        *)
BacklogClears == (pending # <<>>) ~> (pending = <<>>)
=============================================================================
