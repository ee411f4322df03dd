--------------------------- MODULE EngineEndsProofs ---------------------------
(* The ends of the playback engine, at every size: the outbox, by which its      *)
(* events reach the application, the handshake, by which its worker masters the  *)
(* realtime callback, and the HTTP source, from which its decoder reads.  The    *)
(* three share no state.                                                        *)
EXTENDS EventOutbox, OutputHandshake, HttpSource, Counting, FiniteSetTheorems,
        SequenceTheorems, TLAPS

-----------------------------------------------------------------------------
(* What the outbox promises of the engine's events, for channels and queues of  *)
(* every size: the limits of both, and that the application receives what was   *)
(* emitted, in order, with every terminal and protected event.                  *)
(*                                                                             *)
(* The argument: the queue never holds more of the events it must not lose than  *)
(* it has room for, because what the session can still owe without being asked   *)
(* (Potential) is counted against the queue as well as what a handler has still  *)
(* to emit, and a command is admitted only over an empty queue.                  *)

(* The inductive invariant. *)

Kinds == {"ordinary", "terminal", "protected"}
Ordinaries == [kind : {"ordinary"}, n : Nat]
Owing == [kind : {"terminal", "protected"}, n : Nat]
Protecteds == [kind : {"protected"}, n : Nat]
Unprotecteds == [kind : {"ordinary", "terminal"}, n : Nat]

(* The terminal events a session may still come to without a command. *)
Potential ==
    IF emitSession = "playing" THEN 3 ELSE IF emitSession \in {"open", "ended"} THEN 1 ELSE 0

Working == pc \notin {"report", "joined"}

QueueTypes ==
    channel \in Seq(Event) /\ pending \in Seq(Event) /\ report \in Seq(Event)

PassTypes ==
    /\ disconnected \in BOOLEAN /\ receiversGone \in BOOLEAN /\ gone \in BOOLEAN
    /\ waiting \in 0 .. stimuli /\ stimuli \in 0 .. MaxStimuli
    /\ emitted \in Nat /\ owed \in 0 .. emitted
    /\ flag \in {"none", "stop", "shutdown"}
    /\ pc \in {"interrupt", "fault", "flush", "offer", "admit", "work", "end",
               "gone", "report", "joined"}
    /\ emitSession \in {"idle", "open", "playing", "ended", "stopped", "failed"}

ScriptTypes ==
    /\ script \in Seq(Kinds)
    /\ pc = "report" => \A i \in DOMAIN script : script[i] = "protected"
    /\ pc = "joined" => script = <<>>
    /\ pc # "joined" => report = <<>>

ChannelInv ==
    Len(channel) <= Capacity /\ CountIn(channel, Ordinaries) <= Capacity - Reserved

CapInv == CountIn(pending, Unprotecteds) <= PendingCap

(* One load outcome at most, queued or still to be emitted. *)
LoadInv ==
    Working => CountIn(pending, Protecteds) + CountIn(script, {"protected"}) <= 1

(* The queue has room for all that may not be lost. *)
RoomInv ==
    Working => CountIn(pending, Owing) + CountIn(script, {"terminal", "protected"}) + Potential
                 <= PendingCap

OutboxInv ==
    QueueTypes /\ PassTypes /\ ScriptTypes /\ ChannelInv /\ CapInv /\ LoadInv /\ RoomInv

-----------------------------------------------------------------------------
(* Flushing and emitting. *)

(* A flush moves as many events from the front as fit. *)
LEMMA FlushIs ==
  ASSUME QueueTypes, Flush
  PROVE  \/ gone /\ UNCHANGED <<channel, pending>> /\ disconnected' \in BOOLEAN
         \/ /\ UNCHANGED disconnected
            /\ \E n \in 0 .. Len(pending) :
                  /\ Sendable(n)
                  /\ channel' = channel \o SubSeq(pending, 1, n)
                  /\ pending' = SubSeq(pending, n + 1, Len(pending))
<1> DEFINE fitting == {k \in 0 .. Len(pending) : Sendable(k)}
           n == CHOOSE k \in fitting : \A j \in fitting : j <= k
<1>1. Len(pending) \in Nat
  BY DEF QueueTypes
<1>2. 0 \in fitting
  BY <1>1 DEF Sendable
<1>3. Max(fitting) \in fitting /\ \A j \in fitting : j <= Max(fitting)
  <2>1. fitting \in SUBSET (0 .. Len(pending)) /\ fitting # {}
    BY <1>2
  <2> HIDE DEF fitting
  <2> QED BY <1>1, <2>1, MaxBelow
<1>4. n \in fitting
  <2> HIDE DEF fitting
  <2> QED BY <1>3
<1>5. IF gone
      THEN disconnected' = (disconnected \/ n > 0) /\ UNCHANGED <<channel, pending>>
      ELSE /\ channel' = channel \o SubSeq(pending, 1, n)
           /\ pending' = SubSeq(pending, n + 1, Len(pending))
           /\ UNCHANGED disconnected
  BY DEF Flush
<1> HIDE DEF n
<1>6. n \in 0 .. Len(pending) /\ Sendable(n)
  BY <1>4
<1>7. CASE gone
  <2>1. disconnected' \in BOOLEAN
    BY <1>5, <1>7
  <2> QED BY <1>5, <1>7, <2>1
<1>8. CASE ~gone
  BY <1>5, <1>6, <1>8
<1> QED BY <1>7, <1>8

(* The front of a sequence, and the rest behind it. *)
LEMMA FrontIs ==
  ASSUME NEW S, NEW s \in Seq(S), NEW n \in 0 .. Len(s)
  PROVE  /\ SubSeq(s, 1, n) \in Seq(S) /\ Len(SubSeq(s, 1, n)) = n
         /\ \A i \in 1 .. n : SubSeq(s, 1, n)[i] = s[i]
         /\ SubSeq(s, 1, n) \o SubSeq(s, n + 1, Len(s)) = s
<1>1. Len(s) \in Nat /\ n \in Int /\ 1 \in Int /\ n >= 0 /\ n <= Len(s)
  OBVIOUS
<1>2. \A i \in 1 .. n : s[i] \in S /\ 1 + i - 1 = i
  BY <1>1
<1>3. /\ SubSeq(s, 1, n) \in Seq(S) /\ Len(SubSeq(s, 1, n)) = IF 1 <= n THEN n - 1 + 1 ELSE 0
      /\ \A i \in 1 .. n - 1 + 1 : SubSeq(s, 1, n)[i] = s[1 + i - 1]
  BY <1>1, <1>2, SubSeqProperties
<1>4. n - 1 + 1 = n
  BY <1>1
<1>5. SubSeq(s, 1, n) \o SubSeq(s, n + 1, Len(s)) = SubSeq(s, 1, Len(s))
  <2>1. 1 \in 1 .. Len(s) + 1 /\ n \in 1 - 1 .. Len(s) /\ Len(s) \in n .. Len(s)
    BY <1>1
  <2> QED BY <2>1, ConcatAdjacentSubSeq
<1>6. SubSeq(s, 1, Len(s)) = s
  BY SubSeqFull
<1> DEFINE front == SubSeq(s, 1, n)
<1>7. front \in Seq(S) /\ Len(front) = n /\ \A i \in 1 .. n : front[i] = s[i]
  <2> HIDE DEF front
  <2>1. /\ front \in Seq(S) /\ Len(front) = IF 1 <= n THEN n - 1 + 1 ELSE 0
        /\ \A i \in 1 .. n - 1 + 1 : front[i] = s[1 + i - 1]
    BY <1>3 DEF front
  <2> QED BY <1>1, <1>2, <1>4, <2>1
<1> QED BY <1>5, <1>6, <1>7

(* Flushing keeps the bounds of the channel, adds nothing to the queue, and      *)
(* leaves the two together as they were.                                        *)
LEMMA FlushKeeps ==
  ASSUME QueueTypes, ChannelInv, disconnected \in BOOLEAN, Flush
  PROVE  /\ channel' \in Seq(Event) /\ pending' \in Seq(Event)
         /\ ChannelInv'
         /\ \A K : CountIn(pending', K) <= CountIn(pending, K)
         /\ channel' \o pending' = channel \o pending
         /\ disconnected' \in BOOLEAN
<1>1. CASE gone /\ UNCHANGED <<channel, pending>> /\ disconnected' \in BOOLEAN
  <2>1. \A K : CountIn(pending, K) \in Int
    <3> TAKE K
    <3>1. CountIn(pending, K) \in 0 .. Len(pending)
      BY CountIsNat DEF QueueTypes
    <3> QED BY <3>1
  <2>2. \A K : CountIn(pending', K) <= CountIn(pending, K)
    BY <1>1, <2>1
  <2> QED BY <1>1, <2>2 DEF QueueTypes, ChannelInv
<1>2. ASSUME NEW n \in 0 .. Len(pending), Sendable(n), UNCHANGED disconnected,
             channel' = channel \o SubSeq(pending, 1, n),
             pending' = SubSeq(pending, n + 1, Len(pending))
      PROVE  /\ channel' \in Seq(Event) /\ pending' \in Seq(Event)
             /\ ChannelInv'
             /\ \A K : CountIn(pending', K) <= CountIn(pending, K)
             /\ channel' \o pending' = channel \o pending
  <2> DEFINE front == SubSeq(pending, 1, n)
             rest == SubSeq(pending, n + 1, Len(pending))
  <2>0. channel \in Seq(Event) /\ pending \in Seq(Event)
    BY DEF QueueTypes
  <2>1. /\ front \in Seq(Event) /\ Len(front) = n /\ \A i \in 1 .. n : front[i] = pending[i]
        /\ front \o rest = pending
    BY <2>0, FrontIs
  <2>2. rest \in Seq(Event)
    BY <2>0, DropFront
  <2>3. \A K : CountIn(rest, K) <= CountIn(pending, K)
    BY <2>0, CountDrop
  <2> HIDE DEF front, rest
  <2>4. /\ channel \o front \in Seq(Event) /\ Len(channel \o front) = Len(channel) + n
        /\ \A i \in 1 .. Len(channel) + n :
              (channel \o front)[i] = IF i <= Len(channel) THEN channel[i]
                                      ELSE front[i - Len(channel)]
    BY <2>0, <2>1, ConcatProperties
  <2>5. channel' = channel \o front /\ pending' = rest
    BY <1>2 DEF front, rest
  <2>6. channel' \o pending' = channel \o pending
    <3>1. (channel \o front) \o rest = channel \o (front \o rest)
      <4>1. front \in Seq(Event) /\ channel \in Seq(Event) /\ rest \in Seq(Event)
        BY <2>0, <2>1, <2>2
      <4> QED BY SMTT(60), <4>1, ConcatAssociative
    <3> QED BY <2>1, <2>5, <3>1
  <2>7. /\ n \in Nat /\ Len(channel) \in Nat /\ Capacity \in Nat /\ Reserved \in Nat
        /\ Len(channel) <= Capacity /\ n <= Len(pending) /\ Len(pending) \in Nat
    BY <2>0, OutboxAssumption DEF ChannelInv
  <2>8. \A i \in 1 .. n : /\ Capacity - (Len(channel) + i - 1) > 0
                          /\ ~Privileged(pending[i]) => Capacity - (Len(channel) + i - 1) > Reserved
    BY <1>2 DEF Sendable
  <2>9. Len(channel') <= Capacity
    <3>1. CASE n = 0
      BY <2>4, <2>5, <2>7, <3>1
    <3>2. CASE n # 0
      <4>1. Capacity - (Len(channel) + n - 1) > 0
        BY <2>7, <2>8, <3>2
      <4> QED BY <2>4, <2>5, <2>7, <4>1
    <3> QED BY <3>1, <3>2
  <2>10. CountIn(channel', Ordinaries) <= Capacity - Reserved
    <3>0. DOMAIN channel' = 1 .. Len(channel) + n /\ DOMAIN channel = 1 .. Len(channel)
      BY <2>0, <2>4, <2>5
    <3>1. CASE \E i \in 1 .. n : ~Privileged(pending[i])
      <4> DEFINE sent == {i \in 1 .. n : ~Privileged(pending[i])}
                 last == Max(sent)
      <4>1. sent \in SUBSET (0 .. n) /\ sent # {}
        BY <2>7, <3>1
      <4>2. last \in sent /\ \A i \in sent : i <= last
        <5> HIDE DEF sent
        <5> QED BY <2>7, <4>1, MaxBelow
      <4> HIDE DEF last
      <4>3. last \in 1 .. n /\ Capacity - (Len(channel) + last - 1) > Reserved
        BY <2>8, <4>2
      <4>4. Places(channel', Ordinaries) \subseteq 1 .. Capacity - Reserved
        <5> SUFFICES ASSUME NEW i \in 1 .. Len(channel) + n, channel'[i] \in Ordinaries
                     PROVE  i \in 1 .. Capacity - Reserved
          BY <3>0 DEF Places
        <5>1. CASE i <= Len(channel)
          BY <2>7, <4>3, <5>1
        <5>2. CASE i > Len(channel)
          <6>1. i - Len(channel) \in 1 .. n
            BY <2>7, <5>2
          <6>2. channel'[i] = pending[i - Len(channel)]
            BY <2>1, <2>4, <2>5, <2>7, <5>2, <6>1
          <6>3. i - Len(channel) \in sent
            BY <6>1, <6>2 DEF Ordinaries, Privileged
          <6>4. i - Len(channel) <= last
            BY <4>2, <6>3
          <6> QED BY <2>7, <4>3, <6>1, <6>4
        <5> QED BY <2>7, <5>1, <5>2
      <4>5. Capacity - Reserved \in Int /\ Capacity - Reserved > 0
        BY <2>7, OutboxAssumption
      <4>6. CountIn(channel', Ordinaries) <= IF 1 > Capacity - Reserved THEN 0
                                                 ELSE (Capacity - Reserved) - 1 + 1
        <5>1. channel' \in Seq(Event) /\ 1 \in Int
          BY <2>4, <2>5
        <5> QED BY <4>4, <4>5, <5>1, CountWithin
      <4> QED BY <4>5, <4>6
    <3>2. CASE \A i \in 1 .. n : Privileged(pending[i])
      <4>1. Places(channel', Ordinaries) = Places(channel, Ordinaries)
        <5>1. ASSUME NEW i \in 1 .. Len(channel) + n
              PROVE  channel'[i] \in Ordinaries <=> i <= Len(channel) /\ channel[i] \in Ordinaries
          <6>1. CASE i <= Len(channel)
            BY <2>4, <2>5, <6>1
          <6>2. CASE i > Len(channel)
            <7>1. i - Len(channel) \in 1 .. n
              BY <2>7, <6>2
            <7>2. channel'[i] = pending[i - Len(channel)]
              BY <2>1, <2>4, <2>5, <2>7, <6>2, <7>1
            <7> QED BY <2>7, <3>2, <6>2, <7>1, <7>2 DEF Privileged, Ordinaries
          <6> QED BY <2>7, <6>1, <6>2
        <5>2. 1 .. Len(channel) \subseteq 1 .. Len(channel) + n
          BY <2>7
        <5> QED BY <2>7, <3>0, <5>1, <5>2 DEF Places
      <4> QED BY <4>1 DEF CountIn, ChannelInv
    <3> QED BY <3>1, <3>2
  <2> QED BY <2>2, <2>3, <2>4, <2>5, <2>6, <2>9, <2>10 DEF ChannelInv
<1> QED BY <1>1, <1>2, FlushIs

(* The victim is an ordinary event of the queue. *)
LEMMA VictimIs ==
  ASSUME pending \in Seq(Event), Victims # {}
  PROVE  Victim \in Victims /\ Victim \in 1 .. Len(pending)
<1>1. Victims \in SUBSET Nat /\ Victims \subseteq 1 .. Len(pending)
  BY DEF Victims
<1>2. \E v \in Victims : \A j \in Victims : v <= j
  BY <1>1, LeastOfNat
<1> QED BY <1>1, <1>2 DEF Victim

(* Emitting drops the event, queues it, or queues it in a victim's place. *)
LEMMA EmitIs ==
  ASSUME QueueTypes, emitted \in Nat, NEW kind \in Kinds, Emit(kind)
  PROVE  LET e == [kind |-> kind, n |-> emitted + 1] IN
         /\ e \in Event
         /\ \/ /\ Len(pending) < PendingCap \/ kind = "protected"
               /\ pending' = Append(pending, e)
            \/ /\ kind = "terminal" /\ Len(pending) >= PendingCap
               /\ Victim \in Victims /\ Victim \in 1 .. Len(pending)
               /\ pending' = Append(RemoveAt(pending, Victim), e)
            \/ /\ kind # "protected" /\ Len(pending) >= PendingCap
               /\ kind = "terminal" => Victims = {}
               /\ pending' = pending
<1>1. Len(pending) \in Nat /\ PendingCap \in Nat /\ emitted + 1 \in Nat
  BY OutboxAssumption DEF QueueTypes
<1>2. Victims # {} => Victim \in Victims /\ Victim \in 1 .. Len(pending)
  BY VictimIs DEF QueueTypes
<1>3. [kind |-> kind, n |-> emitted + 1] \in Event
  BY <1>1 DEF Event, Kinds
<1>4. CASE Len(pending) < PendingCap \/ kind = "protected"
  <2>1. ~(Len(pending) >= PendingCap /\ kind = "terminal" /\ Victims # {})
    BY <1>1, <1>4
  <2>2. pending' = Append(pending, Queued(kind))
    BY <1>4, <2>1 DEF Emit
  <2> QED BY <1>3, <1>4, <2>2 DEF Queued
<1>5. CASE Len(pending) >= PendingCap /\ kind = "terminal" /\ Victims # {}
  <2>1. kind # "protected" /\ ~(Len(pending) < PendingCap)
    BY <1>1, <1>5
  <2> QED BY <1>2, <1>3, <1>5, <2>1 DEF Emit, Queued
<1>6. CASE /\ ~(Len(pending) < PendingCap \/ kind = "protected")
           /\ ~(Len(pending) >= PendingCap /\ kind = "terminal" /\ Victims # {})
  BY <1>1, <1>3, <1>6 DEF Emit
<1> QED BY <1>4, <1>5, <1>6

(* What an emitted event adds to the queue. *)
LEMMA EmitCounts ==
  ASSUME QueueTypes, emitted \in Nat, CapInv, NEW kind \in Kinds, Emit(kind)
  PROVE  /\ pending' \in Seq(Event) /\ CapInv'
         /\ CountIn(pending', Protecteds)
              <= CountIn(pending, Protecteds) + (IF kind = "protected" THEN 1 ELSE 0)
         /\ CountIn(pending', Owing)
              <= CountIn(pending, Owing) + (IF kind # "ordinary" THEN 1 ELSE 0)
<1> DEFINE e == [kind |-> kind, n |-> emitted + 1]
<1>1. /\ e \in Event
      /\ e \in Protecteds <=> kind = "protected"
      /\ e \in Unprotecteds <=> kind # "protected"
      /\ e \in Owing <=> kind # "ordinary"
  BY DEF Event, Protecteds, Unprotecteds, Owing, Kinds
<1>2. /\ pending \in Seq(Event) /\ Len(pending) \in Nat /\ PendingCap \in Nat
  BY OutboxAssumption DEF QueueTypes
<1>3. ASSUME NEW s \in Seq(Event), NEW K PROVE CountIn(s, K) \in 0 .. Len(s) /\ CountIn(s, K) \in Nat
  <2>1. CountIn(s, K) \in 0 .. Len(s) /\ Len(s) \in Nat
    BY CountIsNat
  <2> QED BY <2>1
<1> HIDE DEF e
<1>4. ASSUME pending' = Append(pending, e), Len(pending) < PendingCap \/ kind = "protected"
      PROVE  /\ pending' \in Seq(Event) /\ CapInv'
             /\ CountIn(pending', Protecteds)
                  <= CountIn(pending, Protecteds) + (IF kind = "protected" THEN 1 ELSE 0)
             /\ CountIn(pending', Owing)
                  <= CountIn(pending, Owing) + (IF kind # "ordinary" THEN 1 ELSE 0)
  <2>1. CountIn(pending', Protecteds)
          = CountIn(pending, Protecteds) + (IF e \in Protecteds THEN 1 ELSE 0)
    BY <1>1, <1>2, <1>4, CountAppend
  <2>2. CountIn(pending', Owing) = CountIn(pending, Owing) + (IF e \in Owing THEN 1 ELSE 0)
    BY <1>1, <1>2, <1>4, CountAppend
  <2>3. CountIn(pending', Unprotecteds)
          = CountIn(pending, Unprotecteds) + (IF e \in Unprotecteds THEN 1 ELSE 0)
    BY <1>1, <1>2, <1>4, CountAppend
  <2>4. CountIn(pending, Unprotecteds) \in 0 .. Len(pending) /\ CountIn(pending, Owing) \in Nat
        /\ CountIn(pending, Protecteds) \in Nat
    BY <1>2, <1>3
  <2>5. CapInv'
    <3>1. CountIn(pending', Unprotecteds) <= PendingCap
      BY <1>1, <1>2, <1>4, <2>3, <2>4 DEF CapInv
    <3> QED BY <3>1 DEF CapInv
  <2> QED BY <1>1, <1>2, <1>4, <2>1, <2>2, <2>4, <2>5
<1>5. ASSUME pending' = Append(RemoveAt(pending, Victim), e), kind = "terminal",
             Victim \in Victims, Victim \in 1 .. Len(pending)
      PROVE  /\ pending' \in Seq(Event) /\ CapInv'
             /\ CountIn(pending', Protecteds)
                  <= CountIn(pending, Protecteds) + (IF kind = "protected" THEN 1 ELSE 0)
             /\ CountIn(pending', Owing)
                  <= CountIn(pending, Owing) + (IF kind # "ordinary" THEN 1 ELSE 0)
  <2> DEFINE t == RemoveAt(pending, Victim)
  <2>1. pending[Victim] \notin Protecteds /\ pending[Victim] \notin Owing
        /\ pending[Victim] \in Unprotecteds
    <3>1. pending[Victim] \in Event /\ pending[Victim].kind = "ordinary"
      BY <1>2, <1>5 DEF Victims, Privileged
    <3> QED BY <3>1 DEF Event, Protecteds, Owing, Unprotecteds
  <2>2. t \in Seq(Event)
    BY <1>2, <1>5, RemovedIs
  <2>3. /\ CountIn(t, Protecteds) = CountIn(pending, Protecteds) - 0
        /\ CountIn(t, Owing) = CountIn(pending, Owing) - 0
        /\ CountIn(t, Unprotecteds) = CountIn(pending, Unprotecteds) - 1
    BY <1>2, <1>5, <2>1, CountRemoved
  <2> HIDE DEF t
  <2>4. pending' = Append(t, e)
    BY <1>5 DEF t
  <2>5. /\ CountIn(pending', Protecteds) = CountIn(t, Protecteds) + 0
        /\ CountIn(pending', Owing) = CountIn(t, Owing) + 1
        /\ CountIn(pending', Unprotecteds) = CountIn(t, Unprotecteds) + 1
    BY <1>1, <1>5, <2>2, <2>4, CountAppend
  <2>6. CountIn(pending, Unprotecteds) \in Nat /\ CountIn(pending, Owing) \in Nat
        /\ CountIn(pending, Protecteds) \in Nat
    BY <1>2, <1>3
  <2>7. CapInv'
    <3>1. CountIn(pending', Unprotecteds) <= PendingCap
      BY <1>2, <2>3, <2>5, <2>6 DEF CapInv
    <3> QED BY <3>1 DEF CapInv
  <2> QED BY <1>1, <1>5, <2>2, <2>3, <2>4, <2>5, <2>6, <2>7
<1>6. CASE pending' = pending
  <2>1. CountIn(pending, Unprotecteds) \in Nat /\ CountIn(pending, Owing) \in Nat
        /\ CountIn(pending, Protecteds) \in Nat
    BY <1>2, <1>3
  <2> QED BY <1>2, <1>6, <2>1 DEF CapInv
<1> QED BY <1>4, <1>5, <1>6, EmitIs DEF e

-----------------------------------------------------------------------------
(* The scripts of the handlers, and what of them may not be lost. *)
LEMMA Scripts ==
  /\ <<"ordinary", "ordinary", "protected", "ordinary">> \in Seq(Kinds)
  /\ CountIn(<<"ordinary", "ordinary", "protected", "ordinary">>, {"protected"}) <= 1
  /\ CountIn(<<"ordinary", "ordinary", "protected", "ordinary">>, {"terminal", "protected"}) <= 1
  /\ <<"ordinary", "ordinary", "protected", "terminal", "terminal">> \in Seq(Kinds)
  /\ CountIn(<<"ordinary", "ordinary", "protected", "terminal", "terminal">>, {"protected"}) <= 1
  /\ CountIn(<<"ordinary", "ordinary", "protected", "terminal", "terminal">>, {"terminal", "protected"}) <= 3
  /\ <<"ordinary", "protected", "terminal">> \in Seq(Kinds)
  /\ CountIn(<<"ordinary", "protected", "terminal">>, {"protected"}) <= 1
  /\ CountIn(<<"ordinary", "protected", "terminal">>, {"terminal", "protected"}) <= 2
  /\ <<"ordinary", "protected">> \in Seq(Kinds)
  /\ CountIn(<<"ordinary", "protected">>, {"protected"}) <= 1
  /\ CountIn(<<"ordinary", "protected">>, {"terminal", "protected"}) <= 1
  /\ <<"ordinary">> \in Seq(Kinds)
  /\ CountIn(<<"ordinary">>, {"protected"}) <= 0
  /\ CountIn(<<"ordinary">>, {"terminal", "protected"}) <= 0
  /\ <<"terminal">> \in Seq(Kinds)
  /\ CountIn(<<"terminal">>, {"protected"}) <= 0
  /\ CountIn(<<"terminal">>, {"terminal", "protected"}) <= 1
  /\ <<"ordinary", "ordinary">> \in Seq(Kinds)
  /\ CountIn(<<"ordinary", "ordinary">>, {"protected"}) <= 0
  /\ CountIn(<<"ordinary", "ordinary">>, {"terminal", "protected"}) <= 0
  /\ <<"terminal", "terminal">> \in Seq(Kinds)
  /\ CountIn(<<"terminal", "terminal">>, {"protected"}) <= 0
  /\ CountIn(<<"terminal", "terminal">>, {"terminal", "protected"}) <= 2
<1>1. /\ <<"ordinary", "ordinary", "protected", "ordinary">> \in Seq(Kinds)
      /\ CountIn(<<"ordinary", "ordinary", "protected", "ordinary">>, {"protected"}) <= 1
      /\ CountIn(<<"ordinary", "ordinary", "protected", "ordinary">>, {"terminal", "protected"}) <= 1
  <2> DEFINE s == <<"ordinary", "ordinary", "protected", "ordinary">>
  <2>1. s \in Seq(Kinds) /\ Len(s) = 4 /\ DOMAIN s = 1 .. 4
    BY DEF Kinds
  <2>2. s[1] = "ordinary" /\ s[2] = "ordinary" /\ s[3] = "protected" /\ s[4] = "ordinary"
    OBVIOUS
  <2> HIDE DEF s
  <2>3. Places(s, {"protected"}) \subseteq 3 .. 3
    BY <2>1, <2>2 DEF Places
  <2>4. Places(s, {"terminal", "protected"}) \subseteq 3 .. 3
    BY <2>1, <2>2 DEF Places
  <2>5. CountIn(s, {"protected"}) <= IF 3 > 3 THEN 0 ELSE 3 - 3 + 1
    BY <2>1, <2>3, CountWithin
  <2>6. CountIn(s, {"terminal", "protected"}) <= IF 3 > 3 THEN 0 ELSE 3 - 3 + 1
    BY <2>1, <2>4, CountWithin
  <2>7. CountIn(s, {"protected"}) <= 1
    BY <2>5
  <2>8. CountIn(s, {"terminal", "protected"}) <= 1
    BY <2>6
  <2> QED BY <2>1, <2>7, <2>8 DEF s
<1>2. /\ <<"ordinary", "ordinary", "protected", "terminal", "terminal">> \in Seq(Kinds)
      /\ CountIn(<<"ordinary", "ordinary", "protected", "terminal", "terminal">>, {"protected"}) <= 1
      /\ CountIn(<<"ordinary", "ordinary", "protected", "terminal", "terminal">>, {"terminal", "protected"}) <= 3
  <2> DEFINE s == <<"ordinary", "ordinary", "protected", "terminal", "terminal">>
  <2>1. s \in Seq(Kinds) /\ Len(s) = 5 /\ DOMAIN s = 1 .. 5
    BY DEF Kinds
  <2>2. s[1] = "ordinary" /\ s[2] = "ordinary" /\ s[3] = "protected" /\ s[4] = "terminal" /\ s[5] = "terminal"
    OBVIOUS
  <2> HIDE DEF s
  <2>3. Places(s, {"protected"}) \subseteq 3 .. 3
    BY <2>1, <2>2 DEF Places
  <2>4. Places(s, {"terminal", "protected"}) \subseteq 3 .. 5
    BY <2>1, <2>2 DEF Places
  <2>5. CountIn(s, {"protected"}) <= IF 3 > 3 THEN 0 ELSE 3 - 3 + 1
    BY <2>1, <2>3, CountWithin
  <2>6. CountIn(s, {"terminal", "protected"}) <= IF 3 > 5 THEN 0 ELSE 5 - 3 + 1
    <3>1. s \in Seq(Kinds) /\ 3 \in Int /\ 5 \in Int
      BY <2>1
    <3> QED BY <2>4, <3>1, CountWithin
  <2>7. CountIn(s, {"protected"}) <= 1
    BY <2>5
  <2>8. CountIn(s, {"terminal", "protected"}) <= 3
    BY <2>6
  <2> QED BY <2>1, <2>7, <2>8 DEF s
<1>3. /\ <<"ordinary", "protected", "terminal">> \in Seq(Kinds)
      /\ CountIn(<<"ordinary", "protected", "terminal">>, {"protected"}) <= 1
      /\ CountIn(<<"ordinary", "protected", "terminal">>, {"terminal", "protected"}) <= 2
  <2> DEFINE s == <<"ordinary", "protected", "terminal">>
  <2>1. s \in Seq(Kinds) /\ Len(s) = 3 /\ DOMAIN s = 1 .. 3
    BY DEF Kinds
  <2>2. s[1] = "ordinary" /\ s[2] = "protected" /\ s[3] = "terminal"
    OBVIOUS
  <2> HIDE DEF s
  <2>3. Places(s, {"protected"}) \subseteq 2 .. 2
    BY <2>1, <2>2 DEF Places
  <2>4. Places(s, {"terminal", "protected"}) \subseteq 2 .. 3
    BY <2>1, <2>2 DEF Places
  <2>5. CountIn(s, {"protected"}) <= IF 2 > 2 THEN 0 ELSE 2 - 2 + 1
    BY SMTT(60), <2>1, <2>3, CountWithin
  <2>6. CountIn(s, {"terminal", "protected"}) <= IF 2 > 3 THEN 0 ELSE 3 - 2 + 1
    <3>1. s \in Seq(Kinds) /\ 2 \in Int /\ 3 \in Int
      BY <2>1
    <3> QED BY <2>4, <3>1, CountWithin
  <2>7. CountIn(s, {"protected"}) <= 1
    BY <2>5
  <2>8. CountIn(s, {"terminal", "protected"}) <= 2
    BY <2>6
  <2> QED BY <2>1, <2>7, <2>8 DEF s
<1>4. /\ <<"ordinary", "protected">> \in Seq(Kinds)
      /\ CountIn(<<"ordinary", "protected">>, {"protected"}) <= 1
      /\ CountIn(<<"ordinary", "protected">>, {"terminal", "protected"}) <= 1
  <2> DEFINE s == <<"ordinary", "protected">>
  <2>1. s \in Seq(Kinds) /\ Len(s) = 2 /\ DOMAIN s = 1 .. 2
    BY DEF Kinds
  <2>2. s[1] = "ordinary" /\ s[2] = "protected"
    OBVIOUS
  <2> HIDE DEF s
  <2>3. Places(s, {"protected"}) \subseteq 2 .. 2
    BY <2>1, <2>2 DEF Places
  <2>4. Places(s, {"terminal", "protected"}) \subseteq 2 .. 2
    BY <2>1, <2>2 DEF Places
  <2>5. CountIn(s, {"protected"}) <= IF 2 > 2 THEN 0 ELSE 2 - 2 + 1
    BY SMTT(60), <2>1, <2>3, CountWithin
  <2>6. CountIn(s, {"terminal", "protected"}) <= IF 2 > 2 THEN 0 ELSE 2 - 2 + 1
    BY SMTT(60), <2>1, <2>4, CountWithin
  <2>7. CountIn(s, {"protected"}) <= 1
    BY <2>5
  <2>8. CountIn(s, {"terminal", "protected"}) <= 1
    BY <2>6
  <2> QED BY <2>1, <2>7, <2>8 DEF s
<1>5. /\ <<"ordinary">> \in Seq(Kinds)
      /\ CountIn(<<"ordinary">>, {"protected"}) <= 0
      /\ CountIn(<<"ordinary">>, {"terminal", "protected"}) <= 0
  <2> DEFINE s == <<"ordinary">>
  <2>1. s \in Seq(Kinds) /\ Len(s) = 1 /\ DOMAIN s = 1 .. 1
    BY DEF Kinds
  <2>2. s[1] = "ordinary"
    OBVIOUS
  <2> HIDE DEF s
  <2>3. Places(s, {"protected"}) \subseteq 1 .. 0
    BY <2>1, <2>2 DEF Places
  <2>4. Places(s, {"terminal", "protected"}) \subseteq 1 .. 0
    BY <2>1, <2>2 DEF Places
  <2>5. CountIn(s, {"protected"}) <= IF 1 > 0 THEN 0 ELSE 0 - 1 + 1
    <3>1. \A i \in DOMAIN s : s[i] \notin {"protected"}
      BY <2>1, <2>3 DEF Places
    <3>2. CountIn(s, {"protected"}) = 0
      BY <2>1, <3>1, CountIsNat
    <3> QED BY <3>2
  <2>6. CountIn(s, {"terminal", "protected"}) <= IF 1 > 0 THEN 0 ELSE 0 - 1 + 1
    <3>1. \A i \in DOMAIN s : s[i] \notin {"terminal", "protected"}
      BY <2>1, <2>4 DEF Places
    <3>2. CountIn(s, {"terminal", "protected"}) = 0
      BY <2>1, <3>1, CountIsNat
    <3> QED BY <3>2
  <2>7. CountIn(s, {"protected"}) <= 0
    BY <2>5
  <2>8. CountIn(s, {"terminal", "protected"}) <= 0
    BY <2>6
  <2> QED BY <2>1, <2>7, <2>8 DEF s
<1>6. /\ <<"terminal">> \in Seq(Kinds)
      /\ CountIn(<<"terminal">>, {"protected"}) <= 0
      /\ CountIn(<<"terminal">>, {"terminal", "protected"}) <= 1
  <2> DEFINE s == <<"terminal">>
  <2>1. s \in Seq(Kinds) /\ Len(s) = 1 /\ DOMAIN s = 1 .. 1
    BY DEF Kinds
  <2>2. s[1] = "terminal"
    OBVIOUS
  <2> HIDE DEF s
  <2>3. Places(s, {"protected"}) \subseteq 1 .. 0
    BY <2>1, <2>2 DEF Places
  <2>4. Places(s, {"terminal", "protected"}) \subseteq 1 .. 1
    BY <2>1, <2>2 DEF Places
  <2>5. CountIn(s, {"protected"}) <= IF 1 > 0 THEN 0 ELSE 0 - 1 + 1
    <3>1. \A i \in DOMAIN s : s[i] \notin {"protected"}
      BY <2>1, <2>3 DEF Places
    <3>2. CountIn(s, {"protected"}) = 0
      BY <2>1, <3>1, CountIsNat
    <3> QED BY <3>2
  <2>6. CountIn(s, {"terminal", "protected"}) <= IF 1 > 1 THEN 0 ELSE 1 - 1 + 1
    BY <2>1, <2>4, CountWithin
  <2>7. CountIn(s, {"protected"}) <= 0
    BY <2>5
  <2>8. CountIn(s, {"terminal", "protected"}) <= 1
    BY <2>6
  <2> QED BY <2>1, <2>7, <2>8 DEF s
<1>7. /\ <<"ordinary", "ordinary">> \in Seq(Kinds)
      /\ CountIn(<<"ordinary", "ordinary">>, {"protected"}) <= 0
      /\ CountIn(<<"ordinary", "ordinary">>, {"terminal", "protected"}) <= 0
  <2> DEFINE s == <<"ordinary", "ordinary">>
  <2>1. s \in Seq(Kinds) /\ Len(s) = 2 /\ DOMAIN s = 1 .. 2
    BY DEF Kinds
  <2>2. s[1] = "ordinary" /\ s[2] = "ordinary"
    OBVIOUS
  <2> HIDE DEF s
  <2>3. Places(s, {"protected"}) \subseteq 1 .. 0
    BY <2>1, <2>2 DEF Places
  <2>4. Places(s, {"terminal", "protected"}) \subseteq 1 .. 0
    BY <2>1, <2>2 DEF Places
  <2>5. CountIn(s, {"protected"}) <= IF 1 > 0 THEN 0 ELSE 0 - 1 + 1
    <3>1. \A i \in DOMAIN s : s[i] \notin {"protected"}
      BY <2>1, <2>3 DEF Places
    <3>2. CountIn(s, {"protected"}) = 0
      BY <2>1, <3>1, CountIsNat
    <3> QED BY <3>2
  <2>6. CountIn(s, {"terminal", "protected"}) <= IF 1 > 0 THEN 0 ELSE 0 - 1 + 1
    <3>1. \A i \in DOMAIN s : s[i] \notin {"terminal", "protected"}
      BY <2>1, <2>4 DEF Places
    <3>2. CountIn(s, {"terminal", "protected"}) = 0
      BY <2>1, <3>1, CountIsNat
    <3> QED BY <3>2
  <2>7. CountIn(s, {"protected"}) <= 0
    BY <2>5
  <2>8. CountIn(s, {"terminal", "protected"}) <= 0
    BY <2>6
  <2> QED BY <2>1, <2>7, <2>8 DEF s
<1>8. /\ <<"terminal", "terminal">> \in Seq(Kinds)
      /\ CountIn(<<"terminal", "terminal">>, {"protected"}) <= 0
      /\ CountIn(<<"terminal", "terminal">>, {"terminal", "protected"}) <= 2
  <2> DEFINE s == <<"terminal", "terminal">>
  <2>1. s \in Seq(Kinds) /\ Len(s) = 2 /\ DOMAIN s = 1 .. 2
    BY DEF Kinds
  <2>2. s[1] = "terminal" /\ s[2] = "terminal"
    OBVIOUS
  <2> HIDE DEF s
  <2>3. Places(s, {"protected"}) \subseteq 1 .. 0
    BY <2>1, <2>2 DEF Places
  <2>4. Places(s, {"terminal", "protected"}) \subseteq 1 .. 2
    BY <2>1, <2>2 DEF Places
  <2>5. CountIn(s, {"protected"}) <= IF 1 > 0 THEN 0 ELSE 0 - 1 + 1
    <3>1. \A i \in DOMAIN s : s[i] \notin {"protected"}
      BY <2>1, <2>3 DEF Places
    <3>2. CountIn(s, {"protected"}) = 0
      BY <2>1, <3>1, CountIsNat
    <3> QED BY <3>2
  <2>6. CountIn(s, {"terminal", "protected"}) <= IF 1 > 2 THEN 0 ELSE 2 - 1 + 1
    <3>1. s \in Seq(Kinds) /\ 1 \in Int /\ 2 \in Int
      BY <2>1
    <3> QED BY <2>4, <3>1, CountWithin
  <2>7. CountIn(s, {"protected"}) <= 0
    BY <2>5
  <2>8. CountIn(s, {"terminal", "protected"}) <= 2
    BY <2>6
  <2> QED BY <2>1, <2>7, <2>8 DEF s
<1> QED BY <1>1, <1>2, <1>3, <1>4, <1>5, <1>6, <1>7, <1>8

(* The counts are numbers. *)
LEMMA Numbers ==
  ASSUME QueueTypes, script \in Seq(Kinds)
  PROVE  /\ CountIn(pending, Protecteds) \in Nat /\ CountIn(pending, Owing) \in Nat
         /\ CountIn(pending, Owing) <= Len(pending) /\ Len(pending) \in Nat
         /\ CountIn(script, {"protected"}) \in Nat
         /\ CountIn(script, {"terminal", "protected"}) \in Nat
         /\ PendingCap \in Nat
<1>1. CountIn(pending, Protecteds) \in 0 .. Len(pending) /\ Len(pending) \in Nat
  BY CountIsNat DEF QueueTypes
<1>2. CountIn(pending, Owing) \in 0 .. Len(pending)
  BY CountIsNat DEF QueueTypes
<1>3. CountIn(script, {"protected"}) \in 0 .. Len(script) /\ Len(script) \in Nat
  BY CountIsNat
<1>4. CountIn(script, {"terminal", "protected"}) \in 0 .. Len(script)
  BY CountIsNat
<1>5. PendingCap \in Nat
  BY OutboxAssumption
<1> QED BY <1>1, <1>2, <1>3, <1>4, <1>5

(* A handler starts its script when the one before has emitted all of its own. *)
LEMMA HandlerStarts ==
  ASSUME OutboxInv, UNCHANGED <<pending, report>>, script = <<>>, Working, Working',
         script' \in Seq(Kinds), NEW p \in Nat, NEW w \in Nat,
         CountIn(script', {"protected"}) <= p,
         CountIn(script', {"terminal", "protected"}) <= w,
         CountIn(pending, Protecteds) + p <= 1,
         CountIn(pending, Owing) + w + Potential' <= PendingCap
  PROVE  ScriptTypes' /\ LoadInv' /\ RoomInv'
<1>1. pc # "joined" /\ pc' # "report" /\ pc' # "joined"
  BY DEF Working
<1>2. ScriptTypes'
  BY <1>1 DEF OutboxInv, ScriptTypes
<1> DEFINE a == CountIn(script', {"protected"})
           b == CountIn(script', {"terminal", "protected"})
           pot == Potential'
<1>3. a \in Nat /\ b \in Nat /\ pot \in Nat
  <2>1. a \in 0 .. Len(script') /\ Len(script') \in Nat
    BY CountIsNat
  <2>2. b \in 0 .. Len(script')
    BY CountIsNat
  <2>3. pot \in Nat
    BY DEF Potential
  <2> QED BY <2>1, <2>2, <2>3
<1>4. CountIn(pending, Protecteds) \in Nat /\ CountIn(pending, Owing) \in Nat /\ PendingCap \in Nat
  BY Numbers DEF OutboxInv, ScriptTypes
<1> HIDE DEF a, b, pot
<1>5. CountIn(pending, Protecteds) + a <= 1
  BY <1>3, <1>4 DEF a
<1>6. CountIn(pending, Owing) + b + pot <= PendingCap
  BY <1>3, <1>4 DEF b, pot
<1> QED BY <1>2, <1>5, <1>6 DEF LoadInv, RoomInv, a, b, pot

(* Nothing is started, nothing emitted. *)
LEMMA PassGoesOn ==
  ASSUME OutboxInv, UNCHANGED <<pending, report, emitSession>>, script = <<>>, script' = <<>>,
         Working, Working'
  PROVE  ScriptTypes' /\ LoadInv' /\ RoomInv'
<1>1. CountIn(script, {"protected"}) = 0 /\ CountIn(script, {"terminal", "protected"}) = 0
      /\ CountIn(script', {"protected"}) = 0 /\ CountIn(script', {"terminal", "protected"}) = 0
  BY CountEmpty
<1>2. CountIn(pending, Protecteds) \in Nat /\ CountIn(pending, Owing) \in Nat /\ Potential \in Nat
  BY Numbers DEF OutboxInv, ScriptTypes, Potential
<1>3. CountIn(pending, Protecteds) + 0 <= 1
  BY <1>1 DEF OutboxInv, LoadInv
<1>4. CountIn(pending, Owing) + 0 + Potential <= PendingCap
  BY <1>1 DEF OutboxInv, RoomInv
<1>5. CountIn(pending, Owing) + 0 + Potential' <= PendingCap
  BY <1>4 DEF Potential
<1>6. CountIn(script', {"protected"}) <= 0 /\ CountIn(script', {"terminal", "protected"}) <= 0
  BY <1>1
<1>7. script' \in Seq(Kinds) /\ 0 \in Nat
  OBVIOUS
<1> QED BY <1>3, <1>5, <1>6, <1>7, HandlerStarts

(* Channel, queue and report are left alone. *)
LEMMA QueuesKept ==
  ASSUME OutboxInv, UNCHANGED <<channel, pending, report>>
  PROVE  QueueTypes' /\ ChannelInv' /\ CapInv'
BY DEF OutboxInv, QueueTypes, ChannelInv, CapInv

(* What is queued and what is still to be emitted are left alone. *)
LEMMA LoadKept ==
  ASSUME OutboxInv, UNCHANGED <<pending, report, script, pc, emitSession>>
  PROVE  ScriptTypes' /\ LoadInv' /\ RoomInv'
BY DEF OutboxInv, ScriptTypes, LoadInv, RoomInv, Working, Potential

(* With no script running, the queue alone is bounded. *)
LEMMA BetweenScripts ==
  ASSUME OutboxInv, Working, script = <<>>
  PROVE  /\ CountIn(pending, Protecteds) <= 1
         /\ CountIn(pending, Owing) + Potential <= PendingCap
         /\ CountIn(pending, Protecteds) \in Nat /\ CountIn(pending, Owing) \in Nat
         /\ CountIn(pending, Owing) <= Len(pending) /\ Len(pending) \in Nat
         /\ PendingCap \in Nat /\ Potential \in Nat
<1>1. CountIn(script, {"protected"}) = 0 /\ CountIn(script, {"terminal", "protected"}) = 0
  BY CountEmpty
<1>2. /\ CountIn(pending, Protecteds) \in Nat /\ CountIn(pending, Owing) \in Nat
      /\ CountIn(pending, Owing) <= Len(pending) /\ Len(pending) \in Nat
      /\ PendingCap \in Nat /\ Potential \in Nat
  BY Numbers DEF OutboxInv, ScriptTypes, Potential
<1>3. CountIn(pending, Protecteds) + 0 <= 1
  BY <1>1 DEF OutboxInv, LoadInv
<1>4. CountIn(pending, Owing) + 0 + Potential <= PendingCap
  BY <1>1 DEF OutboxInv, RoomInv
<1> QED BY <1>2, <1>3, <1>4

(* An event is emitted: the whole invariant, but for what is left of the script. *)
LEMMA EmitKeeps ==
  ASSUME OutboxInv, NEW kind \in Kinds, Emit(kind), script # <<>>,
         UNCHANGED <<channel, disconnected, unheard, pc, emitSession>>,
         stimuli' \in stimuli .. MaxStimuli,
         \/ kind = Head(script) /\ script' = Tail(script)
         \/ kind = "ordinary" /\ script' = script
  PROVE  OutboxInv'
<1>1. /\ pending' \in Seq(Event) /\ CapInv'
      /\ CountIn(pending', Protecteds)
           <= CountIn(pending, Protecteds) + (IF kind = "protected" THEN 1 ELSE 0)
      /\ CountIn(pending', Owing)
           <= CountIn(pending, Owing) + (IF kind # "ordinary" THEN 1 ELSE 0)
  BY EmitCounts DEF OutboxInv, PassTypes
<1>2. QueueTypes' /\ ChannelInv'
  BY <1>1 DEF OutboxInv, QueueTypes, ChannelInv, unheard
<1>3. PassTypes'
  <2>1. emitted' \in Nat /\ owed' \in 0 .. emitted'
    BY DEF OutboxInv, PassTypes, Emit, Counted
  <2>2. waiting' \in 0 .. stimuli' /\ stimuli' \in 0 .. MaxStimuli
    BY OutboxAssumption DEF OutboxInv, PassTypes, unheard
  <2> QED BY <2>1, <2>2 DEF OutboxInv, PassTypes, unheard
<1>4. script \in Seq(Kinds) /\ pc # "joined"
  BY DEF OutboxInv, ScriptTypes
<1>5. /\ script' \in Seq(Kinds)
      /\ CountIn(script', {"protected"})
           = CountIn(script, {"protected"}) - (IF kind = "protected" THEN 1 ELSE 0)
      /\ CountIn(script', {"terminal", "protected"})
           = CountIn(script, {"terminal", "protected"}) - (IF kind # "ordinary" THEN 1 ELSE 0)
  <2>1. CASE kind = Head(script) /\ script' = Tail(script)
    <3>1. /\ CountIn(Tail(script), {"protected"})
               = CountIn(script, {"protected"}) - (IF Head(script) \in {"protected"} THEN 1 ELSE 0)
          /\ CountIn(Tail(script), {"terminal", "protected"})
               = CountIn(script, {"terminal", "protected"})
                   - (IF Head(script) \in {"terminal", "protected"} THEN 1 ELSE 0)
      BY <1>4, CountTail
    <3>2. Tail(script) \in Seq(Kinds)
      BY <1>4, HeadTailProperties
    <3> QED BY <2>1, <3>1, <3>2 DEF Kinds
  <2>2. CASE kind = "ordinary" /\ script' = script
    <3>1. CountIn(script, {"protected"}) \in Nat /\ CountIn(script, {"terminal", "protected"}) \in Nat
      BY <1>4, Numbers DEF OutboxInv
    <3> QED BY <1>4, <2>2, <3>1
  <2> QED BY <2>1, <2>2
<1>6. ScriptTypes'
  <2>1. pc' = pc /\ report' = report
    BY DEF unheard
  <2>2. pc = "report" => \A i \in DOMAIN script' : script'[i] = "protected"
    <3>1. ASSUME pc = "report", NEW i \in DOMAIN Tail(script) PROVE Tail(script)[i] = "protected"
      <4>1. Tail(script)[i] = script[i + 1] /\ i + 1 \in DOMAIN script
        <5>1. Len(Tail(script)) = Len(script) - 1 /\ i \in 1 .. Len(Tail(script))
              /\ Len(script) \in Nat /\ \A j \in 1 .. Len(Tail(script)) : Tail(script)[j] = script[j + 1]
          BY <1>4, <3>1, HeadTailProperties
        <5> QED BY <1>4, <5>1
      <4> QED BY <3>1, <4>1 DEF OutboxInv, ScriptTypes
    <3> QED BY <3>1 DEF OutboxInv, ScriptTypes
  <2> QED BY <1>4, <1>5, <2>1, <2>2 DEF OutboxInv, ScriptTypes
<1> DEFINE p == CountIn(pending', Protecteds)
           w == CountIn(pending', Owing)
           sp == CountIn(script', {"protected"})
           sw == CountIn(script', {"terminal", "protected"})
<1>7. /\ CountIn(pending, Protecteds) \in Nat /\ CountIn(pending, Owing) \in Nat
      /\ CountIn(script, {"protected"}) \in Nat /\ CountIn(script, {"terminal", "protected"}) \in Nat
      /\ PendingCap \in Nat /\ Potential \in Nat
  BY <1>4, Numbers DEF OutboxInv, Potential
<1>8. p \in Nat /\ w \in Nat
  <2>1. p \in 0 .. Len(pending') /\ Len(pending') \in Nat
    BY <1>1, CountIsNat
  <2>2. w \in 0 .. Len(pending')
    BY <1>1, CountIsNat
  <2> QED BY <2>1, <2>2
<1>9. /\ p <= CountIn(pending, Protecteds) + (IF kind = "protected" THEN 1 ELSE 0)
      /\ w <= CountIn(pending, Owing) + (IF kind # "ordinary" THEN 1 ELSE 0)
      /\ sp = CountIn(script, {"protected"}) - (IF kind = "protected" THEN 1 ELSE 0)
      /\ sw = CountIn(script, {"terminal", "protected"}) - (IF kind # "ordinary" THEN 1 ELSE 0)
  BY <1>1, <1>5
<1> HIDE DEF p, w, sp, sw
<1>10. Working => p + sp <= 1
  <2>1. Working => CountIn(pending, Protecteds) + CountIn(script, {"protected"}) <= 1
    BY DEF OutboxInv, LoadInv
  <2> QED BY SMTT(60), <1>7, <1>8, <1>9, <2>1
<1>11. Working => w + sw + Potential <= PendingCap
  <2>1. Working => CountIn(pending, Owing) + CountIn(script, {"terminal", "protected"}) + Potential
                     <= PendingCap
    BY DEF OutboxInv, RoomInv
  <2> QED BY SMTT(60), <1>7, <1>8, <1>9, <2>1
<1>12. Working' = Working /\ Potential' = Potential
  BY DEF Working, Potential
<1>13. LoadInv'
  BY <1>10, <1>12 DEF LoadInv, p, sp
<1>14. RoomInv'
  BY <1>11, <1>12 DEF RoomInv, w, sw
<1> QED BY <1>1, <1>2, <1>3, <1>6, <1>13, <1>14 DEF OutboxInv

(* The queue is flushed while the script and the session stand. *)
LEMMA FlushedInv ==
  ASSUME OutboxInv, Flush, Working, Working',
         UNCHANGED <<count, report, gone, waiting, flag, stimuli, script, emitSession>>,
         receiversGone' \in BOOLEAN,
         pc' \in {"interrupt", "fault", "flush", "offer", "admit", "work", "end", "gone"}
  PROVE  OutboxInv'
<1>1. disconnected \in BOOLEAN /\ QueueTypes /\ ChannelInv
  BY DEF OutboxInv, PassTypes
<1>2. /\ channel' \in Seq(Event) /\ pending' \in Seq(Event) /\ ChannelInv'
      /\ \A K : CountIn(pending', K) <= CountIn(pending, K)
      /\ disconnected' \in BOOLEAN
  BY <1>1, FlushKeeps
<1>3. QueueTypes'
  BY <1>2 DEF OutboxInv, QueueTypes
<1>4. PassTypes'
  BY <1>2 DEF OutboxInv, PassTypes, count
<1>5. ScriptTypes'
  BY DEF OutboxInv, ScriptTypes, Working
<1> DEFINE p == CountIn(pending', Protecteds)
           w == CountIn(pending', Owing)
           u == CountIn(pending', Unprotecteds)
<1>6. p \in Nat /\ w \in Nat /\ u \in Nat
  <2>1. p \in 0 .. Len(pending') /\ Len(pending') \in Nat
    BY <1>2, CountIsNat
  <2>2. w \in 0 .. Len(pending') /\ u \in 0 .. Len(pending')
    BY <1>2, CountIsNat
  <2> QED BY <2>1, <2>2
<1>7. /\ CountIn(pending, Protecteds) \in Nat /\ CountIn(pending, Owing) \in Nat
      /\ CountIn(script, {"protected"}) \in Nat /\ CountIn(script, {"terminal", "protected"}) \in Nat
      /\ PendingCap \in Nat /\ Potential \in Nat
  BY Numbers DEF OutboxInv, ScriptTypes, Potential
<1>8. CountIn(pending, Unprotecteds) \in 0 .. Len(pending) /\ Len(pending) \in Nat
  BY <1>1, CountIsNat DEF QueueTypes
<1>9. /\ p <= CountIn(pending, Protecteds) /\ w <= CountIn(pending, Owing)
      /\ u <= CountIn(pending, Unprotecteds)
  BY <1>2
<1> HIDE DEF p, w, u
<1>10. CapInv'
  <2>1. u <= PendingCap
    BY <1>6, <1>7, <1>8, <1>9 DEF OutboxInv, CapInv
  <2> QED BY <2>1 DEF CapInv, u
<1>11. LoadInv'
  <2>1. CountIn(pending, Protecteds) + CountIn(script, {"protected"}) <= 1
    BY DEF OutboxInv, LoadInv
  <2>2. p + CountIn(script, {"protected"}) <= 1
    BY <1>6, <1>7, <1>9, <2>1
  <2> QED BY <2>2 DEF LoadInv, p
<1>12. RoomInv'
  <2>1. CountIn(pending, Owing) + CountIn(script, {"terminal", "protected"}) + Potential
          <= PendingCap
    BY DEF OutboxInv, RoomInv
  <2>2. w + CountIn(script, {"terminal", "protected"}) + Potential <= PendingCap
    BY <1>6, <1>7, <1>9, <2>1
  <2>3. Potential' = Potential
    BY DEF Potential
  <2> QED BY <2>2, <2>3 DEF RoomInv, w
<1> QED BY <1>2, <1>3, <1>4, <1>5, <1>10, <1>11, <1>12 DEF OutboxInv

(* Every step keeps the invariant. *)
LEMMA OutboxStep == OutboxInv /\ [OutboxNext]_outboxVars => OutboxInv'
<1> SUFFICES ASSUME OutboxInv, [OutboxNext]_outboxVars PROVE OutboxInv'
  OBVIOUS
<1> USE DEF unheard, outside, count, queues, Stimulus, EmitsNothing, At, OutboxRun, Pass
<1>0. MaxStimuli \in Nat /\ Capacity \in Nat /\ Reserved \in Nat /\ Reserved < Capacity
      /\ PendingCap \in Nat /\ FaultBudget \in Nat /\ 4 <= PendingCap /\ 2 <= FaultBudget
  BY OutboxAssumption
<1>1. CASE Receive
  <2>1. channel \in Seq(Event) /\ channel' = Tail(channel) /\ channel # <<>>
    BY <1>1 DEF Receive, OutboxInv, QueueTypes
  <2>2. Tail(channel) \in Seq(Event) /\ Len(Tail(channel)) = Len(channel) - 1 /\ Len(channel) \in Nat
    BY <2>1, HeadTailProperties
  <2>3. CountIn(Tail(channel), Ordinaries)
          = CountIn(channel, Ordinaries) - (IF Head(channel) \in Ordinaries THEN 1 ELSE 0)
    BY <2>1, CountTail
  <2>4. CountIn(channel, Ordinaries) \in 0 .. Len(channel)
    BY <2>1, CountIsNat
  <2>5. ChannelInv'
    <3>1. Len(Tail(channel)) <= Capacity
      BY <1>0, <2>2 DEF OutboxInv, ChannelInv
    <3>2. CountIn(Tail(channel), Ordinaries) <= Capacity - Reserved
      BY <1>0, <2>2, <2>3, <2>4 DEF OutboxInv, ChannelInv
    <3> QED BY <2>1, <3>1, <3>2 DEF ChannelInv
  <2>6. QueueTypes' /\ CapInv'
    BY <1>1, <2>1, <2>2 DEF Receive, OutboxInv, QueueTypes, CapInv
  <2>7. PassTypes'
    BY <1>1 DEF Receive, OutboxInv, PassTypes
  <2>8. ScriptTypes' /\ LoadInv' /\ RoomInv'
    BY <1>1, LoadKept DEF Receive
  <2> QED BY <2>5, <2>6, <2>7, <2>8 DEF OutboxInv

<1>2. CASE Submit
  <2>1. QueueTypes' /\ ChannelInv' /\ CapInv'
    BY <1>2, QueuesKept DEF Submit
  <2>2. PassTypes'
    BY <1>0, <1>2 DEF Submit, OutboxInv, PassTypes
  <2>3. ScriptTypes' /\ LoadInv' /\ RoomInv'
    BY <1>2, LoadKept DEF Submit
  <2> QED BY <2>1, <2>2, <2>3 DEF OutboxInv
<1>3. CASE Stop
  <2>1. QueueTypes' /\ ChannelInv' /\ CapInv'
    BY <1>3, QueuesKept DEF Stop
  <2>2. PassTypes'
    BY <1>0, <1>3 DEF Stop, OutboxInv, PassTypes
  <2>3. ScriptTypes' /\ LoadInv' /\ RoomInv'
    BY <1>3, LoadKept DEF Stop
  <2> QED BY <2>1, <2>2, <2>3 DEF OutboxInv
<1>4. CASE RaiseShutdown
  <2>1. QueueTypes' /\ ChannelInv' /\ CapInv'
    BY <1>4, QueuesKept DEF RaiseShutdown
  <2>2. PassTypes'
    BY <1>0, <1>4 DEF RaiseShutdown, OutboxInv, PassTypes
  <2>3. ScriptTypes' /\ LoadInv' /\ RoomInv'
    BY <1>4, LoadKept DEF RaiseShutdown
  <2> QED BY <2>1, <2>2, <2>3 DEF OutboxInv
<1>5. CASE DropReceiver
  <2>1. QueueTypes' /\ ChannelInv' /\ CapInv'
    BY <1>5, QueuesKept DEF DropReceiver
  <2>2. PassTypes'
    BY <1>0, <1>5 DEF DropReceiver, OutboxInv, PassTypes
  <2>3. ScriptTypes' /\ LoadInv' /\ RoomInv'
    BY <1>5, LoadKept DEF DropReceiver
  <2> QED BY <2>1, <2>2, <2>3 DEF OutboxInv
<1>6. CASE EmitNext
  <2>1. Head(script) \in Kinds
    BY <1>6 DEF EmitNext, OutboxInv, ScriptTypes
  <2>2. stimuli' \in stimuli .. MaxStimuli
    BY <1>0, <1>6 DEF EmitNext, OutboxInv, PassTypes
  <2> QED BY <1>6, <2>1, <2>2, EmitKeeps DEF EmitNext
<1>7. CASE HookAnnounces
  <2>1. stimuli' \in stimuli .. MaxStimuli
    BY <1>0, <1>7 DEF HookAnnounces, OutboxInv, PassTypes
  <2>2. "ordinary" \in Kinds
    BY DEF Kinds
  <2> QED BY <1>7, <2>1, <2>2, EmitKeeps DEF HookAnnounces
<1>8. CASE HookFlushes
  <2>1. receiversGone' \in BOOLEAN /\ pc' = "work" /\ Working /\ Working'
    BY <1>8 DEF HookFlushes, OutboxInv, PassTypes, Working
  <2> QED BY <1>8, <2>1, FlushedInv DEF HookFlushes
<1>9. CASE Interrupts
  <2>1. /\ UNCHANGED <<pending, report>> /\ UNCHANGED channel /\ script = <<>>
        /\ Working /\ Working'
    BY <1>9 DEF Interrupts, Working
  <2>2. QueueTypes' /\ ChannelInv' /\ CapInv'
    BY <2>1, QueuesKept
  <2>3. PassTypes'
    BY <1>0, <1>9 DEF Interrupts, OutboxInv, PassTypes
  <2>4. /\ CountIn(pending, Protecteds) <= 1
        /\ CountIn(pending, Owing) + Potential <= PendingCap
        /\ CountIn(pending, Protecteds) \in Nat /\ CountIn(pending, Owing) \in Nat
        /\ CountIn(pending, Owing) <= Len(pending) /\ Len(pending) \in Nat
        /\ PendingCap \in Nat /\ Potential \in Nat
    BY <2>1, BetweenScripts
  <2>5. ScriptTypes' /\ LoadInv' /\ RoomInv'
    <3>1. CASE script' = <<>> /\ emitSession' = emitSession
      BY <2>1, <3>1, PassGoesOn
    <3>2. CASE /\ script' = <<"terminal">> /\ emitSession' = "stopped"
             /\ emitSession \in {"open", "playing", "ended"}
      <4>1. /\ <<"terminal">> \in Seq(Kinds) /\ CountIn(<<"terminal">>, {"protected"}) <= 0
            /\ CountIn(<<"terminal">>, {"terminal", "protected"}) <= 1 /\ 0 \in Nat /\ 1 \in Nat
        BY Scripts
      <4>2. CountIn(pending, Protecteds) + 0 <= 1 /\ CountIn(pending, Owing) + 1 + Potential' <= PendingCap
        <5>1. Potential' = 0 /\ Potential >= 1
          BY <3>2 DEF Potential
        <5> QED BY <1>0, <2>4, <5>1
      <4> QED BY <2>1, <3>2, <4>1, <4>2, HandlerStarts
    <3> QED BY <1>9, <3>1, <3>2 DEF Interrupts
  <2> QED BY <2>2, <2>3, <2>5 DEF OutboxInv
<1>10. CASE OutboxFaults
  <2>1. /\ UNCHANGED <<pending, report>> /\ UNCHANGED channel /\ script = <<>>
        /\ Working /\ Working'
    BY <1>10 DEF OutboxFaults, Working, Fault
  <2>2. QueueTypes' /\ ChannelInv' /\ CapInv'
    BY <2>1, QueuesKept
  <2>3. PassTypes'
    BY <1>0, <1>10 DEF OutboxFaults, OutboxInv, PassTypes, Fault
  <2>4. /\ CountIn(pending, Protecteds) <= 1
        /\ CountIn(pending, Owing) + Potential <= PendingCap
        /\ CountIn(pending, Protecteds) \in Nat /\ CountIn(pending, Owing) \in Nat
        /\ CountIn(pending, Owing) <= Len(pending) /\ Len(pending) \in Nat
        /\ PendingCap \in Nat /\ Potential \in Nat
    BY <2>1, BetweenScripts
  <2>5. ScriptTypes' /\ LoadInv' /\ RoomInv'
    <3>1. CASE script' = <<>> /\ emitSession' = emitSession
      BY <2>1, <3>1, PassGoesOn
    <3>2. CASE script' = <<"ordinary", "ordinary">> /\ emitSession' = emitSession
      <4>1. /\ <<"ordinary", "ordinary">> \in Seq(Kinds) /\ CountIn(<<"ordinary", "ordinary">>, {"protected"}) <= 0
            /\ CountIn(<<"ordinary", "ordinary">>, {"terminal", "protected"}) <= 0 /\ 0 \in Nat /\ 0 \in Nat
        BY Scripts
      <4>2. CountIn(pending, Protecteds) + 0 <= 1 /\ CountIn(pending, Owing) + 0 + Potential' <= PendingCap
        <5>1. Potential' = Potential
          BY <3>2 DEF Potential
        <5> QED BY <1>0, <2>4, <5>1
      <4> QED BY <2>1, <3>2, <4>1, <4>2, HandlerStarts
    <3>3. CASE /\ script' = <<"terminal", "terminal">> /\ emitSession' = "failed"
             /\ Len(pending) + FaultBudget <= PendingCap
      <4>1. /\ <<"terminal", "terminal">> \in Seq(Kinds) /\ CountIn(<<"terminal", "terminal">>, {"protected"}) <= 0
            /\ CountIn(<<"terminal", "terminal">>, {"terminal", "protected"}) <= 2 /\ 0 \in Nat /\ 2 \in Nat
        BY Scripts
      <4>2. CountIn(pending, Protecteds) + 0 <= 1 /\ CountIn(pending, Owing) + 2 + Potential' <= PendingCap
        <5>1. Potential' = 0
          BY <3>3 DEF Potential
        <5> QED BY <1>0, <3>3, <2>4, <5>1
      <4> QED BY <2>1, <3>3, <4>1, <4>2, HandlerStarts
    <3> QED BY <1>10, <3>1, <3>2, <3>3 DEF OutboxFaults, Fault
  <2> QED BY <2>2, <2>3, <2>5 DEF OutboxInv
<1>11. CASE FlushEvents
  <2>1. Working /\ Working' /\ pc' = "offer"
    BY <1>11 DEF FlushEvents, Working
  <2>2. disconnected' \in BOOLEAN
    <3>1. disconnected \in BOOLEAN /\ QueueTypes /\ ChannelInv
      BY DEF OutboxInv, PassTypes
    <3> QED BY <1>11, <3>1, FlushKeeps DEF FlushEvents
  <2>3. receiversGone' \in BOOLEAN
    <3>1. receiversGone' = (receiversGone \/ disconnected')
      BY <1>11 DEF FlushEvents
    <3> QED BY <2>2, <3>1
  <2> QED BY <1>11, <2>1, <2>3, FlushedInv DEF FlushEvents
<1>12. CASE Offer
  <2>1. Working /\ Working' /\ script = <<>> /\ script' = <<>> /\ UNCHANGED <<pending, report, emitSession>>
    BY <1>12 DEF Offer, Working
  <2>2. ScriptTypes' /\ LoadInv' /\ RoomInv'
    BY <2>1, PassGoesOn
  <2>3. disconnected' \in BOOLEAN /\ receiversGone' \in BOOLEAN
    <3>1. disconnected' \in {disconnected, TRUE}
      BY <1>12 DEF Offer
    <3>2. disconnected' \in BOOLEAN
      BY <3>1 DEF OutboxInv, PassTypes
    <3>3. receiversGone' = (receiversGone \/ disconnected')
      BY <1>12 DEF Offer
    <3> QED BY <3>2, <3>3
  <2>4. /\ gone \in BOOLEAN /\ gone' = gone /\ emitted' \in Nat /\ owed' \in 0 .. emitted'
        /\ waiting' \in 0 .. stimuli' /\ stimuli' \in 0 .. MaxStimuli
        /\ flag' = flag /\ pc' = "admit" /\ emitSession' = emitSession
    BY <1>0, <1>12 DEF Offer, OutboxInv, PassTypes, Counted
  <2>5. PassTypes'
    BY <2>3, <2>4 DEF OutboxInv, PassTypes
  <2>6. CapInv'
    BY <2>1 DEF OutboxInv, CapInv
  <2>7. QueueTypes' /\ ChannelInv'
    <3>1. CASE UNCHANGED channel
      BY <2>1, <3>1 DEF OutboxInv, QueueTypes, ChannelInv
    <3>2. CASE /\ channel' = Append(channel, Queued("ordinary"))
               /\ Capacity - Len(channel) > Reserved
      <4> DEFINE e == Queued("ordinary")
      <4>1. e \in Event
        BY DEF Queued, Event, OutboxInv, PassTypes
      <4>2. channel \in Seq(Event) /\ Len(channel) \in Nat
        BY DEF OutboxInv, QueueTypes
      <4> HIDE DEF e
      <4>3. channel' = Append(channel, e)
        BY <3>2 DEF e
      <4>4. channel' \in Seq(Event) /\ Len(channel') = Len(channel) + 1
        BY <4>1, <4>2, <4>3
      <4>5. CountIn(channel', Ordinaries) = CountIn(channel, Ordinaries) + (IF e \in Ordinaries THEN 1 ELSE 0)
        BY <4>1, <4>2, <4>3, CountAppend
      <4>6. CountIn(channel, Ordinaries) \in 0 .. Len(channel)
        BY <4>2, CountIsNat
      <4>7. CountIn(channel', Ordinaries) <= Capacity - Reserved /\ Len(channel') <= Capacity
        BY <1>0, <3>2, <4>2, <4>4, <4>5, <4>6
      <4> QED BY <2>1, <4>4, <4>7 DEF OutboxInv, QueueTypes, ChannelInv
    <3> QED BY <1>12, <3>1, <3>2 DEF Offer
  <2> QED BY <2>2, <2>5, <2>6, <2>7 DEF OutboxInv
<1>13. CASE Admit
  <2>1. /\ UNCHANGED <<pending, report>> /\ UNCHANGED channel /\ script = <<>>
        /\ Working /\ Working'
    BY <1>13 DEF Admit, Working, OutboxDispatch, Dispatches, Loads
  <2>2. QueueTypes' /\ ChannelInv' /\ CapInv'
    BY <2>1, QueuesKept
  <2>3. PassTypes'
    BY <1>0, <1>13 DEF Admit, OutboxInv, PassTypes, OutboxDispatch, Dispatches, Loads
  <2>4. /\ CountIn(pending, Protecteds) <= 1
        /\ CountIn(pending, Owing) + Potential <= PendingCap
        /\ CountIn(pending, Protecteds) \in Nat /\ CountIn(pending, Owing) \in Nat
        /\ CountIn(pending, Owing) <= Len(pending) /\ Len(pending) \in Nat
        /\ PendingCap \in Nat /\ Potential \in Nat
    BY <2>1, BetweenScripts
  <2>6. CountIn(pending, Protecteds) = 0 /\ CountIn(pending, Owing) = 0
    <3>1. pending = <<>>
      BY <1>13 DEF Admit
    <3> QED BY <3>1, CountEmpty
  <2>5. ScriptTypes' /\ LoadInv' /\ RoomInv'
    <3>1. CASE script' = <<>> /\ emitSession' = emitSession
      BY <2>1, <3>1, PassGoesOn
    <3>2. CASE script' = <<"ordinary", "ordinary", "protected", "ordinary">> /\ emitSession' = "open"
      <4>1. /\ <<"ordinary", "ordinary", "protected", "ordinary">> \in Seq(Kinds) /\ CountIn(<<"ordinary", "ordinary", "protected", "ordinary">>, {"protected"}) <= 1
            /\ CountIn(<<"ordinary", "ordinary", "protected", "ordinary">>, {"terminal", "protected"}) <= 1 /\ 1 \in Nat /\ 1 \in Nat
        BY Scripts
      <4>2. CountIn(pending, Protecteds) + 1 <= 1 /\ CountIn(pending, Owing) + 1 + Potential' <= PendingCap
        <5>1. Potential' = 1
          BY <3>2 DEF Potential
        <5> QED BY <1>0, <2>6, <2>4, <5>1
      <4> QED BY <2>1, <3>2, <4>1, <4>2, HandlerStarts
    <3>3. CASE script' = <<"ordinary", "ordinary", "protected", "terminal", "terminal">> /\ emitSession' = "failed"
      <4>1. /\ <<"ordinary", "ordinary", "protected", "terminal", "terminal">> \in Seq(Kinds) /\ CountIn(<<"ordinary", "ordinary", "protected", "terminal", "terminal">>, {"protected"}) <= 1
            /\ CountIn(<<"ordinary", "ordinary", "protected", "terminal", "terminal">>, {"terminal", "protected"}) <= 3 /\ 1 \in Nat /\ 3 \in Nat
        BY Scripts
      <4>2. CountIn(pending, Protecteds) + 1 <= 1 /\ CountIn(pending, Owing) + 3 + Potential' <= PendingCap
        <5>1. Potential' = 0
          BY <3>3 DEF Potential
        <5> QED BY <1>0, <2>6, <2>4, <5>1
      <4> QED BY <2>1, <3>3, <4>1, <4>2, HandlerStarts
    <3>4. CASE script' = <<"ordinary", "protected", "terminal">> /\ emitSession' = "failed"
      <4>1. /\ <<"ordinary", "protected", "terminal">> \in Seq(Kinds) /\ CountIn(<<"ordinary", "protected", "terminal">>, {"protected"}) <= 1
            /\ CountIn(<<"ordinary", "protected", "terminal">>, {"terminal", "protected"}) <= 2 /\ 1 \in Nat /\ 2 \in Nat
        BY Scripts
      <4>2. CountIn(pending, Protecteds) + 1 <= 1 /\ CountIn(pending, Owing) + 2 + Potential' <= PendingCap
        <5>1. Potential' = 0
          BY <3>4 DEF Potential
        <5> QED BY <1>0, <2>6, <2>4, <5>1
      <4> QED BY <2>1, <3>4, <4>1, <4>2, HandlerStarts
    <3>5. CASE script' = <<"ordinary", "protected">> /\ emitSession' = "open"
      <4>1. /\ <<"ordinary", "protected">> \in Seq(Kinds) /\ CountIn(<<"ordinary", "protected">>, {"protected"}) <= 1
            /\ CountIn(<<"ordinary", "protected">>, {"terminal", "protected"}) <= 1 /\ 1 \in Nat /\ 1 \in Nat
        BY Scripts
      <4>2. CountIn(pending, Protecteds) + 1 <= 1 /\ CountIn(pending, Owing) + 1 + Potential' <= PendingCap
        <5>1. Potential' = 1
          BY <3>5 DEF Potential
        <5> QED BY <1>0, <2>6, <2>4, <5>1
      <4> QED BY <2>1, <3>5, <4>1, <4>2, HandlerStarts
    <3>6. CASE script' = <<"ordinary">>
      <4>1. /\ <<"ordinary">> \in Seq(Kinds) /\ CountIn(<<"ordinary">>, {"protected"}) <= 0
            /\ CountIn(<<"ordinary">>, {"terminal", "protected"}) <= 0 /\ 0 \in Nat /\ 0 \in Nat
        BY Scripts
      <4>2. CountIn(pending, Protecteds) + 0 <= 1 /\ CountIn(pending, Owing) + 0 + Potential' <= PendingCap
        <5>1. Potential' \in 0 .. 3
          BY <3>6 DEF Potential
        <5>2. PICK q \in 0 .. 3 : q = Potential'
          BY <5>1
        <5>4. q \in Int /\ 0 <= q /\ q <= 3
          BY <5>2
        <5>3. CountIn(pending, Protecteds) + 0 <= 1 /\ CountIn(pending, Owing) + 0 + q <= PendingCap
          BY <1>0, <2>6, <5>4
        <5> QED BY <5>2, <5>3
      <4> QED BY <2>1, <3>6, <4>1, <4>2, HandlerStarts
    <3>7. CASE script' = <<"terminal">>
      <4>1. /\ <<"terminal">> \in Seq(Kinds) /\ CountIn(<<"terminal">>, {"protected"}) <= 0
            /\ CountIn(<<"terminal">>, {"terminal", "protected"}) <= 1 /\ 0 \in Nat /\ 1 \in Nat
        BY Scripts
      <4>2. CountIn(pending, Protecteds) + 0 <= 1 /\ CountIn(pending, Owing) + 1 + Potential' <= PendingCap
        <5>1. Potential' \in 0 .. 3
          BY <3>7 DEF Potential
        <5>2. PICK q \in 0 .. 3 : q = Potential'
          BY <5>1
        <5>4. q \in Int /\ 0 <= q /\ q <= 3
          BY <5>2
        <5>3. CountIn(pending, Protecteds) + 0 <= 1 /\ CountIn(pending, Owing) + 1 + q <= PendingCap
          BY <1>0, <2>6, <5>4
        <5> QED BY <5>2, <5>3
      <4> QED BY <2>1, <3>7, <4>1, <4>2, HandlerStarts
    <3> QED BY <1>13, <3>1, <3>2, <3>3, <3>4, <3>5, <3>6, <3>7 DEF Admit, OutboxDispatch, Dispatches, Loads
  <2> QED BY <2>2, <2>3, <2>5 DEF OutboxInv
<1>14. CASE OutboxAdmitsNothing
  <2>1. /\ UNCHANGED <<pending, report>> /\ UNCHANGED channel /\ script = <<>>
        /\ Working /\ Working'
    BY <1>14 DEF OutboxAdmitsNothing, Working
  <2>2. QueueTypes' /\ ChannelInv' /\ CapInv'
    BY <2>1, QueuesKept
  <2>3. PassTypes'
    BY <1>0, <1>14 DEF OutboxAdmitsNothing, OutboxInv, PassTypes
  <2>4. /\ CountIn(pending, Protecteds) <= 1
        /\ CountIn(pending, Owing) + Potential <= PendingCap
        /\ CountIn(pending, Protecteds) \in Nat /\ CountIn(pending, Owing) \in Nat
        /\ CountIn(pending, Owing) <= Len(pending) /\ Len(pending) \in Nat
        /\ PendingCap \in Nat /\ Potential \in Nat
    BY <2>1, BetweenScripts
  <2>5. ScriptTypes' /\ LoadInv' /\ RoomInv'
    <3>1. CASE script' = <<>> /\ emitSession' = emitSession
      BY <2>1, <3>1, PassGoesOn
    <3> QED BY <1>14, <3>1 DEF OutboxAdmitsNothing
  <2> QED BY <2>2, <2>3, <2>5 DEF OutboxInv
<1>15. CASE HearsNobody
  <2>1. /\ UNCHANGED <<pending, report>> /\ UNCHANGED channel /\ script = <<>>
        /\ Working /\ Working'
    BY <1>15 DEF HearsNobody, Working
  <2>2. QueueTypes' /\ ChannelInv' /\ CapInv'
    BY <2>1, QueuesKept
  <2>3. PassTypes'
    BY <1>0, <1>15 DEF HearsNobody, OutboxInv, PassTypes
  <2>4. /\ CountIn(pending, Protecteds) <= 1
        /\ CountIn(pending, Owing) + Potential <= PendingCap
        /\ CountIn(pending, Protecteds) \in Nat /\ CountIn(pending, Owing) \in Nat
        /\ CountIn(pending, Owing) <= Len(pending) /\ Len(pending) \in Nat
        /\ PendingCap \in Nat /\ Potential \in Nat
    BY <2>1, BetweenScripts
  <2>5. ScriptTypes' /\ LoadInv' /\ RoomInv'
    <3>1. CASE script' = <<>> /\ emitSession' = emitSession
      BY <2>1, <3>1, PassGoesOn
    <3> QED BY <1>15, <3>1 DEF HearsNobody
  <2> QED BY <2>2, <2>3, <2>5 DEF OutboxInv
<1>16. CASE Work
  <2>1. /\ UNCHANGED <<pending, report>> /\ UNCHANGED channel /\ script = <<>>
        /\ Working /\ Working'
    BY <1>16 DEF Work, Working
  <2>2. QueueTypes' /\ ChannelInv' /\ CapInv'
    BY <2>1, QueuesKept
  <2>3. PassTypes'
    BY <1>0, <1>16 DEF Work, OutboxInv, PassTypes
  <2>4. /\ CountIn(pending, Protecteds) <= 1
        /\ CountIn(pending, Owing) + Potential <= PendingCap
        /\ CountIn(pending, Protecteds) \in Nat /\ CountIn(pending, Owing) \in Nat
        /\ CountIn(pending, Owing) <= Len(pending) /\ Len(pending) \in Nat
        /\ PendingCap \in Nat /\ Potential \in Nat
    BY <2>1, BetweenScripts
  <2>5. ScriptTypes' /\ LoadInv' /\ RoomInv'
    <3>1. CASE script' = <<>> /\ emitSession' = emitSession
      BY <2>1, <3>1, PassGoesOn
    <3>2. CASE script' = <<"ordinary">> /\ emitSession' = emitSession
      <4>1. /\ <<"ordinary">> \in Seq(Kinds) /\ CountIn(<<"ordinary">>, {"protected"}) <= 0
            /\ CountIn(<<"ordinary">>, {"terminal", "protected"}) <= 0 /\ 0 \in Nat /\ 0 \in Nat
        BY Scripts
      <4>2. CountIn(pending, Protecteds) + 0 <= 1 /\ CountIn(pending, Owing) + 0 + Potential' <= PendingCap
        <5>1. Potential' = Potential
          BY <3>2 DEF Potential
        <5> QED BY <1>0, <2>4, <5>1
      <4> QED BY <2>1, <3>2, <4>1, <4>2, HandlerStarts
    <3>3. CASE /\ script' = <<"terminal", "terminal">> /\ emitSession' = "failed"
             /\ emitSession = "playing"
      <4>1. /\ <<"terminal", "terminal">> \in Seq(Kinds) /\ CountIn(<<"terminal", "terminal">>, {"protected"}) <= 0
            /\ CountIn(<<"terminal", "terminal">>, {"terminal", "protected"}) <= 2 /\ 0 \in Nat /\ 2 \in Nat
        BY Scripts
      <4>2. CountIn(pending, Protecteds) + 0 <= 1 /\ CountIn(pending, Owing) + 2 + Potential' <= PendingCap
        <5>1. Potential' = 0 /\ Potential = 3
          BY <3>3 DEF Potential
        <5> QED BY <1>0, <2>4, <5>1
      <4> QED BY <2>1, <3>3, <4>1, <4>2, HandlerStarts
    <3> QED BY <1>16, <3>1, <3>2, <3>3 DEF Work
  <2> QED BY <2>2, <2>3, <2>5 DEF OutboxInv
<1>17. CASE OutboxEndOfTrack
  <2>1. /\ UNCHANGED <<pending, report>> /\ UNCHANGED channel /\ script = <<>>
        /\ Working /\ Working'
    BY <1>17 DEF OutboxEndOfTrack, Working
  <2>2. QueueTypes' /\ ChannelInv' /\ CapInv'
    BY <2>1, QueuesKept
  <2>3. PassTypes'
    BY <1>0, <1>17 DEF OutboxEndOfTrack, OutboxInv, PassTypes
  <2>4. /\ CountIn(pending, Protecteds) <= 1
        /\ CountIn(pending, Owing) + Potential <= PendingCap
        /\ CountIn(pending, Protecteds) \in Nat /\ CountIn(pending, Owing) \in Nat
        /\ CountIn(pending, Owing) <= Len(pending) /\ Len(pending) \in Nat
        /\ PendingCap \in Nat /\ Potential \in Nat
    BY <2>1, BetweenScripts
  <2>5. ScriptTypes' /\ LoadInv' /\ RoomInv'
    <3>1. CASE script' = <<>> /\ emitSession' = emitSession
      BY <2>1, <3>1, PassGoesOn
    <3>2. CASE /\ script' = <<"terminal", "terminal">> /\ emitSession' = "ended"
             /\ emitSession = "playing"
      <4>1. /\ <<"terminal", "terminal">> \in Seq(Kinds) /\ CountIn(<<"terminal", "terminal">>, {"protected"}) <= 0
            /\ CountIn(<<"terminal", "terminal">>, {"terminal", "protected"}) <= 2 /\ 0 \in Nat /\ 2 \in Nat
        BY Scripts
      <4>2. CountIn(pending, Protecteds) + 0 <= 1 /\ CountIn(pending, Owing) + 2 + Potential' <= PendingCap
        <5>1. Potential' = 1 /\ Potential = 3
          BY <3>2 DEF Potential
        <5> QED BY <1>0, <2>4, <5>1
      <4> QED BY <2>1, <3>2, <4>1, <4>2, HandlerStarts
    <3> QED BY <1>17, <3>1, <3>2 DEF OutboxEndOfTrack
  <2> QED BY <2>2, <2>3, <2>5 DEF OutboxInv
<1>18. CASE Shutdown
  <2>1. UNCHANGED <<channel, pending, report>> /\ pc \in {"interrupt", "gone"} /\ pc' = "report"
    BY <1>18 DEF Shutdown
  <2>2. QueueTypes' /\ ChannelInv' /\ CapInv'
    BY <2>1, QueuesKept
  <2>3. PassTypes'
    BY <1>0, <1>18 DEF Shutdown, OutboxInv, PassTypes
  <2>4. PICK k \in 0 .. waiting : script' = [i \in 1 .. k |-> "protected"]
    BY <1>18 DEF Shutdown
  <2>5. script' \in Seq(Kinds) /\ \A i \in DOMAIN script' : script'[i] = "protected"
    <3>1. k \in Nat
      BY DEF OutboxInv, PassTypes
    <3> QED BY <2>4, <3>1 DEF Kinds
  <2>6. ScriptTypes'
    BY <2>1, <2>5 DEF OutboxInv, ScriptTypes
  <2>7. LoadInv' /\ RoomInv'
    BY <2>1 DEF LoadInv, RoomInv, Working
  <2> QED BY <2>2, <2>3, <2>6, <2>7 DEF OutboxInv
<1>19. CASE TakeRemaining
  <2>1. /\ report' = pending /\ pending' = <<>> /\ pc' = "joined" /\ script = <<>> /\ script' = <<>>
        /\ UNCHANGED channel
    BY <1>19 DEF TakeRemaining
  <2>2. QueueTypes' /\ ChannelInv'
    BY <2>1 DEF OutboxInv, QueueTypes, ChannelInv
  <2>3. PassTypes'
    BY <1>0, <1>19 DEF TakeRemaining, OutboxInv, PassTypes
  <2>4. ScriptTypes'
    BY <2>1 DEF OutboxInv, ScriptTypes
  <2>5. CapInv'
    <3>1. CountIn(pending', Unprotecteds) = 0
      BY <2>1, CountEmpty
    <3> QED BY <1>0, <3>1 DEF CapInv
  <2>6. LoadInv' /\ RoomInv'
    BY <2>1 DEF LoadInv, RoomInv, Working
  <2> QED BY <2>2, <2>3, <2>4, <2>5, <2>6 DEF OutboxInv
<1>20. CASE UNCHANGED outboxVars
  BY <1>20 DEF outboxVars, OutboxInv, QueueTypes, PassTypes, ScriptTypes, ChannelInv, CapInv, LoadInv,
           RoomInv, Working, Potential
<1> QED BY <1>1, <1>2, <1>3, <1>4, <1>5, <1>6, <1>7, <1>8, <1>9, <1>10, <1>11, <1>12, <1>13, <1>14, <1>15, <1>16, <1>17, <1>18, <1>19, <1>20 DEF OutboxNext, Worker

(* The worker starts with nothing queued and nothing owed. *)
LEMMA OutboxStart == OutboxInit => OutboxInv
<1> SUFFICES ASSUME OutboxInit PROVE OutboxInv
  OBVIOUS
<1> USE DEF OutboxInit
<1>1. MaxStimuli \in Nat /\ Capacity \in Nat /\ Reserved \in Nat /\ Reserved < Capacity /\ PendingCap \in Nat
  BY OutboxAssumption
<1>2. /\ CountIn(channel, Ordinaries) = 0 /\ CountIn(pending, Unprotecteds) = 0
      /\ CountIn(pending, Protecteds) = 0 /\ CountIn(pending, Owing) = 0
      /\ CountIn(script, {"protected"}) = 0 /\ CountIn(script, {"terminal", "protected"}) = 0
  BY CountEmpty
<1>3. Potential = 0
  BY DEF Potential
<1>4. QueueTypes /\ ScriptTypes
  BY DEF QueueTypes, ScriptTypes
<1>5. PassTypes
  <2>1. disconnected \in BOOLEAN /\ receiversGone \in BOOLEAN /\ gone \in BOOLEAN
    OBVIOUS
  <2>2. waiting \in 0 .. stimuli /\ stimuli \in 0 .. MaxStimuli /\ emitted \in Nat /\ owed \in 0 .. emitted
    BY <1>1
  <2> QED BY <2>1, <2>2 DEF PassTypes
<1>6. ChannelInv /\ CapInv /\ LoadInv /\ RoomInv
  BY <1>1, <1>2, <1>3 DEF ChannelInv, CapInv, LoadInv, RoomInv
<1> QED BY <1>4, <1>5, <1>6 DEF OutboxInv

(* The inductive invariant holds in every reachable state. *)
LEMMA OutboxInvariant == OutboxSpec => []OutboxInv
<1>1. OutboxInit => OutboxInv
  BY OutboxStart
<1>2. OutboxInv /\ [OutboxNext]_outboxVars => OutboxInv'
  BY OutboxStep
<1> QED BY <1>1, <1>2, PTL DEF OutboxSpec

(* Channel and backlog keep within their limits, for every capacity, reserve and *)
(* cap: ordinary events never reach the reserved tail, and the backlog of an     *)
(* application that does not drain exceeds its cap by one load outcome at most.  *)
THEOREM LimitsAreKept == OutboxSpec => []LimitsKept
<1>1. OutboxInv => LimitsKept
  <2> SUFFICES ASSUME OutboxInv PROVE LimitsKept
    OBVIOUS
  <2>1. channel \in Seq(Event) /\ pending \in Seq(Event) /\ report \in Seq(Event)
    BY DEF OutboxInv, QueueTypes
  <2>2. /\ Places(pending, Unprotecteds) = {i \in DOMAIN pending : pending[i].kind # "protected"}
        /\ Places(pending, Protecteds) = {i \in DOMAIN pending : pending[i].kind = "protected"}
    <3>1. \A i \in DOMAIN pending : pending[i] \in Event
      BY <2>1
    <3>2. \A e \in Event : /\ e \in Unprotecteds <=> e.kind # "protected"
                           /\ e \in Protecteds <=> e.kind = "protected"
      BY DEF Event, Unprotecteds, Protecteds
    <3> QED BY <3>1, <3>2 DEF Places
  <2>3. Places(channel, Ordinaries) = {i \in DOMAIN channel : ~Privileged(channel[i])}
    <3>1. \A i \in DOMAIN channel : channel[i] \in Event
      BY <2>1
    <3>2. \A e \in Event : e \in Ordinaries <=> ~Privileged(e)
      BY DEF Event, Ordinaries, Privileged
    <3> QED BY <3>1, <3>2 DEF Places
  <2>4. ReserveKept
    BY <2>3 DEF OutboxInv, ChannelInv, CountIn, ReserveKept
  <2>5. Cardinality({i \in DOMAIN pending : pending[i].kind # "protected"}) <= PendingCap
    BY <2>2 DEF OutboxInv, CapInv, CountIn
  <2>6. OutboxTypeOK
    <3>1. waiting \in 0 .. MaxStimuli
      BY OutboxAssumption DEF OutboxInv, PassTypes
    <3>2. {disconnected, receiversGone, gone} \subseteq BOOLEAN
      BY DEF OutboxInv, PassTypes
    <3>3. {channel, pending, report} \subseteq Seq(Event)
      BY <2>1
    <3>4. script \in Seq({"ordinary", "terminal", "protected"})
      BY DEF OutboxInv, ScriptTypes, Kinds
    <3>5. Len(channel) <= Capacity
      BY DEF OutboxInv, ChannelInv
    <3>6. /\ stimuli \in 0 .. MaxStimuli
          /\ emitted \in Nat /\ owed \in 0 .. emitted
          /\ flag \in {"none", "stop", "shutdown"}
          /\ pc \in {"interrupt", "fault", "flush", "offer", "admit", "work", "end",
                     "gone", "report", "joined"}
          /\ emitSession \in {"idle", "open", "playing", "ended", "stopped", "failed"}
      BY DEF OutboxInv, PassTypes
    <3> QED BY <2>5, <3>1, <3>2, <3>3, <3>4, <3>5, <3>6 DEF OutboxTypeOK
  <2>7. BacklogBounded
    <3> SUFFICES ASSUME pc \notin {"report", "joined"}
                 PROVE  /\ Cardinality({i \in DOMAIN pending : pending[i].kind = "protected"}) <= 1
                        /\ Len(pending) <= PendingCap + 1
      BY DEF BacklogBounded
    <3>1. CountIn(pending, Protecteds) + CountIn(script, {"protected"}) <= 1
      BY DEF OutboxInv, LoadInv, Working
    <3>2. CountIn(pending, Protecteds) \in Nat /\ CountIn(script, {"protected"}) \in Nat
          /\ PendingCap \in Nat
      BY Numbers DEF OutboxInv, ScriptTypes
    <3>3. CountIn(pending, Unprotecteds) + CountIn(pending, Protecteds) = Len(pending)
      <4>1. Event \subseteq Unprotecteds \union Protecteds /\ Unprotecteds \cap Protecteds = {}
        BY DEF Event, Unprotecteds, Protecteds
      <4> QED BY <2>1, <4>1, CountSplit
    <3>4. CountIn(pending, Unprotecteds) \in 0 .. Len(pending) /\ Len(pending) \in Nat
      BY <2>1, CountIsNat
    <3>5. CountIn(pending, Unprotecteds) <= PendingCap
      BY DEF OutboxInv, CapInv
    <3>6. CountIn(pending, Protecteds) <= 1 /\ Len(pending) <= PendingCap + 1
      BY <3>1, <3>2, <3>3, <3>4, <3>5
    <3> QED BY <2>2, <3>6 DEF CountIn
  <2> QED BY <2>4, <2>6, <2>7 DEF LimitsKept
<1> QED BY <1>1, OutboxInvariant, PTL

-----------------------------------------------------------------------------
(* What the application still has to receive: channel, queue and report as one.   *)

(* An event appended to the second sequence is appended to the whole. *)
LEMMA AppendBehind ==
  ASSUME NEW S, NEW s \in Seq(S), NEW t \in Seq(S), NEW e \in S
  PROVE  s \o Append(t, e) = Append(s \o t, e)
<1>1. Append(t, e) \in Seq(S) /\ Len(Append(t, e)) = Len(t) + 1 /\ Len(s) \in Nat /\ Len(t) \in Nat
      /\ \A i \in 1 .. Len(t) : Append(t, e)[i] = t[i]
      /\ Append(t, e)[Len(t) + 1] = e
  BY AppendProperties
<1> DEFINE u == Append(t, e)
           st == s \o t
           l == s \o u
           r == Append(st, e)
<1>2. st \in Seq(S) /\ Len(st) = Len(s) + Len(t)
      /\ \A i \in 1 .. Len(s) + Len(t) : st[i] = IF i <= Len(s) THEN s[i] ELSE t[i - Len(s)]
  BY ConcatProperties
<1> HIDE DEF u, st
<1>3. l \in Seq(S) /\ Len(l) = Len(s) + Len(u)
      /\ \A i \in 1 .. Len(s) + Len(u) : l[i] = IF i <= Len(s) THEN s[i] ELSE u[i - Len(s)]
  <2>1. s \in Seq(S) /\ u \in Seq(S)
    BY <1>1 DEF u
  <2> QED BY <2>1, ConcatProperties
<1>4. r \in Seq(S) /\ Len(r) = Len(st) + 1 /\ r[Len(st) + 1] = e
      /\ \A i \in 1 .. Len(st) : r[i] = st[i]
  <2>1. st \in Seq(S) /\ e \in S
    BY <1>2
  <2> QED BY <2>1, AppendProperties
<1> HIDE DEF l, r
<1>5. Len(l) = Len(r)
  BY <1>1, <1>2, <1>3, <1>4 DEF u
<1>6. ASSUME NEW i \in 1 .. Len(l) PROVE l[i] = r[i]
  <2>1. i \in 1 .. Len(s) + Len(t) + 1
    BY <1>1, <1>3 DEF u
  <2>2. CASE i <= Len(s)
    BY SMTT(60), <1>1, <1>2, <1>3, <1>4, <2>1, <2>2
  <2>3. CASE i > Len(s) /\ i <= Len(s) + Len(t)
    <3>1. i - Len(s) \in 1 .. Len(t)
      BY <1>1, <2>1, <2>3
    <3>2. l[i] = t[i - Len(s)]
      BY <1>1, <1>3, <2>3, <3>1 DEF u
    <3> QED BY <1>1, <1>2, <1>4, <2>1, <2>3, <3>2
  <2>4. CASE i = Len(s) + Len(t) + 1
    <3>1. l[i] = u[Len(t) + 1]
      BY <1>1, <1>3, <2>4 DEF u
    <3>2. u[Len(t) + 1] = e
      BY <1>1 DEF u
    <3> QED BY <1>2, <1>4, <2>4, <3>1, <3>2
  <2> QED BY <1>1, <2>1, <2>2, <2>3, <2>4
<1>7. l = r
  BY <1>3, <1>4, <1>5, <1>6, SeqEqual
<1> QED BY <1>7 DEF l, r, u, st

(* What leaves the first sequence leaves the whole. *)
LEMMA TailOfBoth ==
  ASSUME NEW S, NEW s \in Seq(S), NEW t \in Seq(S), s # <<>>
  PROVE  s \o t # <<>> /\ Tail(s) \o t = Tail(s \o t)
<1> DEFINE h == Tail(s)
           st == s \o t
           l == h \o t
           r == Tail(st)
<1>1. h \in Seq(S) /\ Len(h) = Len(s) - 1 /\ Len(s) \in Nat /\ Len(s) >= 1 /\ Len(t) \in Nat
      /\ \A i \in 1 .. Len(s) - 1 : h[i] = s[i + 1]
  BY HeadTailProperties, EmptySeq
<1>2. st \in Seq(S) /\ Len(st) = Len(s) + Len(t)
      /\ \A i \in 1 .. Len(s) + Len(t) : st[i] = IF i <= Len(s) THEN s[i] ELSE t[i - Len(s)]
  BY ConcatProperties
<1> HIDE DEF h, st
<1>3. st # <<>>
  BY <1>1, <1>2, EmptySeq
<1>4. l \in Seq(S) /\ Len(l) = Len(h) + Len(t)
      /\ \A i \in 1 .. Len(h) + Len(t) : l[i] = IF i <= Len(h) THEN h[i] ELSE t[i - Len(h)]
  <2>1. h \in Seq(S) /\ t \in Seq(S)
    BY <1>1
  <2> QED BY <2>1, ConcatProperties
<1>5. r \in Seq(S) /\ Len(r) = Len(st) - 1 /\ \A i \in 1 .. Len(r) : r[i] = st[i + 1]
  BY <1>2, <1>3, HeadTailProperties
<1> HIDE DEF l, r
<1>6. Len(l) = Len(r)
  BY <1>1, <1>2, <1>4, <1>5
<1>7. ASSUME NEW i \in 1 .. Len(l) PROVE l[i] = r[i]
  <2>1. i \in 1 .. Len(s) - 1 + Len(t) /\ r[i] = st[i + 1]
    BY <1>1, <1>2, <1>4, <1>5
  <2>2. CASE i <= Len(s) - 1
    BY <1>1, <1>2, <1>4, <2>1, <2>2
  <2>3. CASE i > Len(s) - 1
    <3>1. i - Len(h) = i + 1 - Len(s)
      BY <1>1, <2>1
    <3>2. l[i] = t[i - Len(h)]
      BY <1>1, <1>4, <2>1, <2>3
    <3>3. st[i + 1] = t[i + 1 - Len(s)]
      BY <1>1, <1>2, <2>1, <2>3
    <3> QED BY <2>1, <3>1, <3>2, <3>3
  <2> QED BY <1>1, <2>1, <2>2, <2>3
<1>8. l = r
  BY <1>4, <1>5, <1>6, <1>7, SeqEqual
<1> QED BY <1>3, <1>8 DEF l, r, h, st

(* An element removed from the second sequence is removed from the whole. *)
LEMMA RemoveBehind ==
  ASSUME NEW S, NEW s \in Seq(S), NEW t \in Seq(S), NEW p \in 1 .. Len(t)
  PROVE  /\ Len(s) + p \in 1 .. Len(s \o t) /\ (s \o t)[Len(s) + p] = t[p]
         /\ s \o RemoveAt(t, p) = RemoveAt(s \o t, Len(s) + p)
<1> DEFINE u == RemoveAt(t, p)
           st == s \o t
           l == s \o u
           r == RemoveAt(st, Len(s) + p)
<1>1. Len(s) \in Nat /\ Len(t) \in Nat /\ p \in Nat /\ 1 <= p /\ p <= Len(t)
  OBVIOUS
<1>2. st \in Seq(S) /\ Len(st) = Len(s) + Len(t)
      /\ \A i \in 1 .. Len(s) + Len(t) : st[i] = IF i <= Len(s) THEN s[i] ELSE t[i - Len(s)]
  BY ConcatProperties
<1>3. u \in Seq(S) /\ Len(u) = Len(t) - 1
      /\ \A i \in 1 .. Len(t) - 1 : u[i] = IF i < p THEN t[i] ELSE t[i + 1]
  BY RemovedIs
<1> HIDE DEF u, st
<1>4. l \in Seq(S) /\ Len(l) = Len(s) + Len(u)
      /\ \A i \in 1 .. Len(s) + Len(u) : l[i] = IF i <= Len(s) THEN s[i] ELSE u[i - Len(s)]
  <2>1. s \in Seq(S) /\ u \in Seq(S)
    BY <1>3
  <2> QED BY <2>1, ConcatProperties
<1>5. Len(s) + p \in 1 .. Len(st) /\ st[Len(s) + p] = t[p]
  <2>1. Len(s) + p \in 1 .. Len(s) + Len(t) /\ ~(Len(s) + p <= Len(s)) /\ Len(s) + p - Len(s) = p
    BY <1>1
  <2> QED BY <1>2, <2>1
<1>6. r \in Seq(S) /\ Len(r) = Len(st) - 1
      /\ \A i \in 1 .. Len(st) - 1 : r[i] = IF i < Len(s) + p THEN st[i] ELSE st[i + 1]
  <2> DEFINE q == Len(s) + p
  <2>1. q \in 1 .. Len(st)
    BY <1>5
  <2> HIDE DEF q
  <2>2. RemoveAt(st, q) \in Seq(S) /\ Len(RemoveAt(st, q)) = Len(st) - 1
        /\ \A i \in 1 .. Len(st) - 1 : RemoveAt(st, q)[i] = IF i < q THEN st[i] ELSE st[i + 1]
    BY <1>2, <2>1, RemovedIs
  <2> QED BY <2>2 DEF q
<1> HIDE DEF l, r
<1>7. Len(l) = Len(r)
  BY <1>1, <1>2, <1>3, <1>4, <1>6
<1>8. ASSUME NEW i \in 1 .. Len(l) PROVE l[i] = r[i]
  <2>1. i \in 1 .. Len(s) + (Len(t) - 1)
    BY <1>1, <1>3, <1>4
  <2>2. CASE i <= Len(s)
    <3>1. l[i] = s[i]
      BY <1>1, <1>3, <1>4, <2>1, <2>2
    <3>2. r[i] = st[i]
      BY <1>1, <1>2, <1>6, <2>1, <2>2
    <3>3. st[i] = s[i]
      BY <1>1, <1>2, <2>1, <2>2
    <3> QED BY <3>1, <3>2, <3>3
  <2>3. CASE i > Len(s)
    <3> DEFINE j == i - Len(s)
    <3>1. j \in 1 .. Len(t) - 1 /\ l[i] = u[j]
      BY <1>1, <1>3, <1>4, <2>1, <2>3
    <3>2. CASE j < p
      <4>1. l[i] = t[j]
        BY <1>3, <3>1, <3>2
      <4>2. r[i] = st[i]
        BY <1>1, <1>2, <1>6, <2>1, <3>2
      <4> QED BY <1>1, <1>2, <2>1, <2>3, <4>1, <4>2
    <3>3. CASE j >= p
      <4>1. l[i] = t[j + 1]
        <5>1. j \in Int /\ p \in Int /\ ~(j < p)
          BY <1>1, <3>1, <3>3
        <5> HIDE DEF j
        <5> QED BY <1>3, <3>1, <5>1
      <4>2. r[i] = st[i + 1]
        BY <1>1, <1>2, <1>6, <2>1, <3>3
      <4>3. st[i + 1] = t[i + 1 - Len(s)]
        BY <1>1, <1>2, <2>1, <2>3
      <4>4. i + 1 - Len(s) = j + 1
        BY <1>1, <2>1
      <4> QED BY <4>1, <4>2, <4>3, <4>4
    <3> QED BY <1>1, <2>1, <3>2, <3>3
  <2> QED BY <1>1, <2>1, <2>2, <2>3
<1>9. l = r
  BY <1>4, <1>6, <1>7, <1>8, SeqEqual
<1> QED BY <1>5, <1>9 DEF l, r, u, st

(* An emission is one of the abstract ones: a full queue has an ordinary event to *)
(* give up for a terminal one. *)
LEMMA EmitIsOrdered ==
  ASSUME OutboxInv, NEW kind \in Kinds, Emit(kind), script # <<>>,
         UNCHANGED <<channel, report>>, kind = Head(script) \/ kind = "ordinary"
  PROVE  Ordered!EmitOrdinary \/ Ordered!EmitPrivileged
<1> DEFINE e == [kind |-> kind, n |-> emitted + 1]
           Q == channel \o pending
<1>1. channel \in Seq(Event) /\ pending \in Seq(Event) /\ report = <<>> /\ report' = <<>>
  BY DEF OutboxInv, QueueTypes, ScriptTypes
<1>2. /\ e \in Event
      /\ \/ pending' = Append(pending, e)
         \/ /\ kind = "terminal" /\ Len(pending) >= PendingCap
            /\ Victim \in Victims /\ Victim \in 1 .. Len(pending)
            /\ pending' = Append(RemoveAt(pending, Victim), e)
         \/ /\ kind # "protected" /\ Len(pending) >= PendingCap
            /\ kind = "terminal" => Victims = {}
            /\ pending' = pending
  BY EmitIs DEF OutboxInv, PassTypes
<1>3. emitted' = emitted + 1 /\ owed' = IF kind = "ordinary" THEN owed ELSE owed + 1
  BY DEF Emit, Counted
<1> HIDE DEF e
<1>4. /\ channel \o pending \o report = Q
      /\ (channel \o pending \o report)' = channel \o pending'
      /\ Q \in Seq(Event)
  <2>1. Q \in Seq(Event)
    BY <1>1, ConcatProperties
  <2>2. pending' \in Seq(Event)
    BY EmitCounts DEF OutboxInv, PassTypes
  <2>3. channel \o pending' \in Seq(Event)
    <3>1. channel \in Seq(Event) /\ pending' \in Seq(Event)
      BY <1>1, <2>2
    <3> QED BY <3>1, ConcatProperties
  <2>4. Q \o <<>> = Q
    <3> HIDE DEF Q
    <3> QED BY <2>1, ConcatEmptySeq
  <2>5. (channel \o pending') \o <<>> = channel \o pending'
    BY <2>3, ConcatEmptySeq
  <2> QED BY <1>1, <2>1, <2>4, <2>5
<1>5. CASE pending' = Append(pending, e)
  <2>1. channel \o pending' = Append(Q, e)
    BY <1>1, <1>2, <1>5, AppendBehind
  <2> QED BY <1>3, <1>4, <2>1
          DEF Ordered!EmitOrdinary, Ordered!EmitPrivileged, Ordered!Numbered, e, Kinds
<1>6. CASE /\ kind = "terminal" /\ Victim \in Victims /\ Victim \in 1 .. Len(pending)
           /\ pending' = Append(RemoveAt(pending, Victim), e)
  <2> DEFINE i == Len(channel) + Victim
  <2>1. RemoveAt(pending, Victim) \in Seq(Event)
    BY <1>1, <1>6, RemovedIs
  <2>2. /\ i \in 1 .. Len(Q) /\ Q[i] = pending[Victim]
        /\ channel \o RemoveAt(pending, Victim) = RemoveAt(Q, i)
    BY <1>1, <1>6, RemoveBehind
  <2>3. channel \o Append(RemoveAt(pending, Victim), e) = Append(channel \o RemoveAt(pending, Victim), e)
    <3>1. channel \in Seq(Event) /\ RemoveAt(pending, Victim) \in Seq(Event) /\ e \in Event
      BY <1>1, <1>2, <2>1
    <3> QED BY <3>1, AppendBehind
  <2> HIDE DEF i, Q
  <2>4. channel \o pending' = Append(RemoveAt(Q, i), e)
    BY <1>6, <2>2, <2>3
  <2>5. i \in DOMAIN Q /\ Q[i].kind = "ordinary"
    BY <1>4, <1>6, <2>2 DEF Victims, Privileged
  <2> QED BY <1>3, <1>4, <1>6, <2>4, <2>5
          DEF Ordered!EmitPrivileged, Ordered!Numbered, Ordered!Privileged, Ordered!RemoveAt, RemoveAt, e
<1>7. CASE kind # "protected" /\ Len(pending) >= PendingCap /\ (kind = "terminal" => Victims = {})
           /\ pending' = pending
  <2>1. CASE kind = "ordinary"
    BY <1>3, <1>4, <1>7, <2>1 DEF Ordered!EmitOrdinary
  <2>2. CASE kind = "terminal"
    <3>1. \A j \in DOMAIN pending : pending[j] \in Owing
      <4>1. \A j \in DOMAIN pending : pending[j] \in Event /\ Privileged(pending[j])
        BY <1>1, <1>7, <2>2 DEF Victims
      <4> QED BY <4>1 DEF Event, Privileged, Owing
    <3>2. CountIn(pending, Owing) = Len(pending)
      <4>1. Places(pending, Owing) = 1 .. Len(pending)
        BY <1>1, <3>1 DEF Places
      <4>2. 1 \in Int /\ Len(pending) \in Int /\ Len(pending) >= 0
        BY <1>1
      <4>3. Cardinality(1 .. Len(pending)) = IF 1 > Len(pending) THEN 0 ELSE Len(pending) - 1 + 1
        BY <4>2, FS_Interval
      <4> QED BY <4>1, <4>2, <4>3 DEF CountIn
    <3>3. Head(script) = "terminal" /\ script \in Seq(Kinds) /\ Head(script) = script[1]
          /\ 1 \in DOMAIN script
      <4>1. script \in Seq(Kinds)
        BY DEF OutboxInv, ScriptTypes
      <4>2. Len(script) \in Nat /\ Len(script) >= 1
        BY <4>1, EmptySeq
      <4> QED BY <2>2, <4>1, <4>2
    <3>4. Working
      BY <3>3 DEF OutboxInv, ScriptTypes, Working
    <3>5. CountIn(script, {"terminal", "protected"}) # 0
      BY <3>3, CountIsNat
    <3>6. CountIn(pending, Owing) + CountIn(script, {"terminal", "protected"}) + Potential
            <= PendingCap
      BY <3>4 DEF OutboxInv, RoomInv
    <3>7. /\ CountIn(pending, Owing) \in Nat /\ CountIn(script, {"terminal", "protected"}) \in Nat
          /\ PendingCap \in Nat /\ Potential \in Nat
      BY <3>3, Numbers DEF OutboxInv, Potential
    <3> QED BY <1>7, <3>2, <3>5, <3>6, <3>7
  <2> QED BY <1>7, <2>1, <2>2 DEF Kinds
<1> QED BY <1>2, <1>5, <1>6, <1>7

(* Every step of the worker and of the application is one of the abstract queue,  *)
(* or leaves it as it is. *)
LEMMA OutboxStepIsOrdered ==
  OutboxInv /\ [OutboxNext]_outboxVars => [Ordered!Next]_(Ordered!ordered)
<1> SUFFICES ASSUME OutboxInv, [OutboxNext]_outboxVars PROVE [Ordered!Next]_(Ordered!ordered)
  OBVIOUS
<1> USE DEF unheard, outside, count, queues
<1>1. channel \in Seq(Event) /\ pending \in Seq(Event) /\ report \in Seq(Event)
  BY DEF OutboxInv, QueueTypes
<1>2. channel \o pending \in Seq(Event)
  BY <1>1, ConcatProperties
<1>3. ASSUME UNCHANGED <<channel, pending, report, emitted, owed>> PROVE UNCHANGED Ordered!ordered
  BY <1>3 DEF Ordered!ordered
<1>4. ASSUME Flush, UNCHANGED <<report, emitted, owed>> PROVE UNCHANGED Ordered!ordered
  <2>1. channel' \o pending' = channel \o pending
    BY <1>4, FlushKeeps DEF OutboxInv, PassTypes
  <2> QED BY <1>4, <2>1 DEF Ordered!ordered
<1>5. CASE Receive
  <2>1. channel # <<>> /\ channel' = Tail(channel) /\ UNCHANGED <<pending, report, emitted, owed>>
    BY <1>5 DEF Receive
  <2>2. channel \o pending # <<>> /\ Tail(channel) \o pending = Tail(channel \o pending)
    BY <1>1, <2>1, TailOfBoth
  <2>3. /\ (channel \o pending) \o report # <<>>
        /\ Tail(channel \o pending) \o report = Tail((channel \o pending) \o report)
    <3> DEFINE cp == channel \o pending
    <3>1. cp \in Seq(Event) /\ cp # <<>>
      BY <1>2, <2>2
    <3> HIDE DEF cp
    <3>2. cp \o report # <<>> /\ Tail(cp) \o report = Tail(cp \o report)
      BY <1>1, <3>1, TailOfBoth
    <3> QED BY <3>2 DEF cp
  <2>4. Ordered!Take
    BY <2>1, <2>2, <2>3 DEF Ordered!Take
  <2> QED BY <2>4 DEF Ordered!Next
<1>6. CASE EmitNext
  <2>1. Head(script) \in Kinds
    BY <1>6 DEF EmitNext, OutboxInv, ScriptTypes
  <2>2. Ordered!EmitOrdinary \/ Ordered!EmitPrivileged
    BY <1>6, <2>1, EmitIsOrdered DEF EmitNext
  <2> QED BY <2>2 DEF Ordered!Next
<1>7. CASE HookAnnounces
  <2>1. "ordinary" \in Kinds
    BY DEF Kinds
  <2>2. Ordered!EmitOrdinary \/ Ordered!EmitPrivileged
    BY <1>7, <2>1, EmitIsOrdered DEF HookAnnounces
  <2> QED BY <2>2 DEF Ordered!Next
<1>8. CASE HookFlushes \/ FlushEvents
  BY <1>4, <1>8 DEF HookFlushes, FlushEvents
<1>9. CASE Offer
  <2>1. CASE UNCHANGED <<channel, pending, report, emitted, owed>>
    BY <1>3, <2>1
  <2>2. CASE /\ pending = <<>> /\ pending' = <<>> /\ report' = report
             /\ channel' = Append(channel, Queued("ordinary")) /\ Counted("ordinary")
             /\ pc = "offer"
    <3> DEFINE e == Queued("ordinary")
    <3>1. e \in Event
      BY DEF Queued, Event, OutboxInv, PassTypes
    <3>2. report = <<>>
      BY <2>2 DEF OutboxInv, ScriptTypes
    <3> HIDE DEF e
    <3>3. channel' = Append(channel, e)
      BY <2>2 DEF e
    <3>4. channel' \in Seq(Event)
      BY <1>1, <3>1, <3>3
    <3>5. channel' \o <<>> = channel' /\ channel \o <<>> = channel
      BY <1>1, <3>4, ConcatEmptySeq
    <3>6. (channel \o pending \o report)' = Append(channel \o pending \o report, e)
      BY <2>2, <3>2, <3>3, <3>5
    <3>7. Ordered!EmitOrdinary
      BY <2>2, <3>6 DEF Ordered!EmitOrdinary, Ordered!Numbered, Queued, Counted, e
    <3> QED BY <3>7 DEF Ordered!Next
  <2> QED BY <1>9, <2>1, <2>2 DEF Offer, At
<1>10. CASE TakeRemaining
  <2>1. /\ report' = pending /\ pending' = <<>> /\ UNCHANGED <<channel, emitted, owed>>
        /\ pc = "report"
    BY <1>10 DEF TakeRemaining, At
  <2>2. report = <<>>
    BY <2>1 DEF OutboxInv, ScriptTypes
  <2>3. channel \o <<>> = channel
    BY <1>1, ConcatEmptySeq
  <2>4. (channel \o pending) \o <<>> = channel \o pending
    <3> DEFINE cp == channel \o pending
    <3> HIDE DEF cp
    <3>1. cp \in Seq(Event)
      BY <1>2 DEF cp
    <3>2. cp \o <<>> = cp
      BY <3>1, ConcatEmptySeq
    <3> QED BY <3>2 DEF cp
  <2> QED BY <2>1, <2>2, <2>3, <2>4 DEF Ordered!ordered
<1>11. CASE Submit \/ Stop \/ RaiseShutdown \/ DropReceiver
  BY <1>3, <1>11 DEF Submit, Stop, RaiseShutdown, DropReceiver
<1>12. CASE Interrupts \/ OutboxFaults \/ OutboxAdmitsNothing \/ HearsNobody
  BY <1>3, <1>12 DEF Interrupts, OutboxFaults, OutboxAdmitsNothing, HearsNobody
<1>13. CASE Admit \/ Work \/ OutboxEndOfTrack \/ Shutdown
  BY <1>3, <1>13 DEF Admit, OutboxDispatch, Work, OutboxEndOfTrack, Shutdown
<1>14. CASE UNCHANGED outboxVars
  BY <1>3, <1>14 DEF outboxVars
<1> QED BY <1>5, <1>6, <1>7, <1>8, <1>9, <1>10, <1>11, <1>12, <1>13, <1>14 DEF OutboxNext, Worker

(* The worker's passes, its wait hook and the application's receiver together    *)
(* implement the abstract queue: what is received, and then found in the report, *)
(* is the emitted sequence in order, with every terminal and protected event.    *)
THEOREM OutboxDelivers == OutboxSpec => DeliversInOrder
<1>1. OutboxInit => Ordered!Init
  <2> SUFFICES ASSUME OutboxInit PROVE Ordered!Init
    OBVIOUS
  <2>1. <<>> \o <<>> = <<>>
    BY EmptySeq, ConcatEmptySeq
  <2> QED BY <2>1 DEF OutboxInit, Ordered!Init
<1>2. OutboxInv /\ [OutboxNext]_outboxVars => [Ordered!Next]_(Ordered!ordered)
  BY OutboxStepIsOrdered
<1> QED BY <1>1, <1>2, OutboxInvariant, PTL DEF OutboxSpec, DeliversInOrder, Ordered!Spec

-----------------------------------------------------------------------------
(* What the worker and the realtime callback promise each other, for rings of  *)
(* every size, every number of generations, frames and transports, and every   *)
(* interleaving of the two with the device and the wait hook.                  *)
(*                                                                            *)
(* The argument: an epoch is handed out once, so an acknowledgement that names *)
(* the present epoch was given under the present control word; a callback      *)
(* that has seen it never works under an older one again (EpochInv,            *)
(* AnsweredInv).  From there the records of spans fall in two: those of the    *)
(* generation the worker reads (OwnRecords), and, only while a generation is   *)
(* installed or a transport goes, those of the one before it (Foreign).        *)

(* The inductive invariant. *)

Acknowledged == ack.epoch = epoch
AckOf(phase) ==
    IF phase = "Run" THEN "Running" ELSE IF phase = "Freeze" THEN "Frozen" ELSE "Parked"

(* Where the worker is in no handshake that waits. *)
Free == {"none", "start", "release"}

NothingOpen ==
    /\ control = Silent /\ ack = [gen |-> 0, epoch |-> 0, adopted |-> "Parked"]
    /\ spans = <<>> /\ pcm = <<>> /\ mapping = NoLabel
    /\ cpc = "idle" /\ cgen = 0 /\ total = 0 /\ late = NoSpan
    /\ submitted = 0 /\ ended = 0 /\ base = 0 /\ epoch = 0
    /\ wpc = "idle" /\ wait = "none" /\ at = "loop"

ClosedInv == mode = "none" => NothingOpen

(* The words: no epoch is ahead of the present one, the callback's is not     *)
(* behind the one it acknowledged, and an epoch names one control word.       *)
EpochInv ==
    /\ control.epoch = epoch /\ ack.epoch <= epoch
    /\ mode # "none" => epoch > 0 /\ control.gen = gen
    /\ cpc = "idle" => ctl = Silent
    /\ cpc = "filling" => /\ ctl.epoch <= epoch /\ ack.epoch <= ctl.epoch /\ cgen = ctl.gen
                          /\ ctl.epoch = epoch => ctl = control

(* What the callback has done when it has acknowledged the present word. *)
AnsweredInv ==
    mode # "none" /\ Acknowledged =>
         /\ ack.adopted = AckOf(control.phase) /\ cgen = gen
         /\ ~Running(control) => late = NoSpan
         /\ control.phase = "Discard" => pcm = <<>>

(* Which word is out at each place of the worker. *)
PlaceInv ==
    /\ wpc \in {"idle", "observe"} <=> wait = "none"
    /\ wpc = "mapped" <=> wait \in {"start", "release"}
    /\ wpc = "final" => wait \in Preserving /\ Acknowledged /\ ~spansDropped
    /\ wpc = "joining" => wait \in {"close", "install"}
    /\ wait \in {"park", "hookPark", "end", "install"} => control.phase = "Park"
    /\ wait \in {"freeze", "close"} => control.phase = "Freeze"
    /\ wait = "discard" => control.phase = "Discard"
    /\ wait \in Free => control.phase # "Discard"
    /\ mode = "opening" => wait = "install"

MappingInv ==
    /\ wpc = "mapped" => mapping = Label(gen, epoch + 1)
    /\ Running(control) => mapping = Label(gen, epoch) \/ mapping.epoch > epoch
    /\ cpc = "filling" /\ Running(ctl) =>
         mapping = Label(ctl.gen, ctl.epoch) \/ mapping.epoch > ctl.epoch

TimelineGen == mode # "none" => timeline.gen = gen

(* A record of the worker's generation, which the callback is in. *)
Own(r) == r.gen = gen /\ r.total \in 1 .. total /\ r.n = base + r.total

(* Between the discard of a generation and the answer to the install of the   *)
(* next one, or the end of the transport: what is left in the ring is of the   *)
(* generation before.                                                         *)
Foreign ==
    /\ wait \in {"install", "close"} /\ ~Running(ctl)
    /\ timeline.floor = 0 /\ timeline.total = 0 /\ timeline.pending = <<>>
    /\ cgen = gen => total = 0
    /\ pcm = <<>> /\ late = NoSpan
    /\ \A i \in DOMAIN spans : spans[i].gen # gen
    /\ wait = "install" /\ wpc = "check" => spans = <<>>

(* Otherwise every record counts from where the generation began, and no more *)
(* was played than was pushed.                                                *)
OwnRecords ==
    /\ wait # "install" /\ cgen = gen
    /\ \A i \in DOMAIN spans : Own(spans[i])
    /\ late # NoSpan => Own(late)
    /\ \A i \in DOMAIN timeline.pending : Own(timeline.pending[i])
    /\ timeline.total <= total
    /\ timeline.total > 0 => timeline.last = base + timeline.total
    /\ timeline.pending # <<>> =>
         timeline.total = timeline.pending[Len(timeline.pending)].total
    /\ Len(pcm) + total <= pushed
    /\ \A i \in DOMAIN pcm : pcm[i] = gen

(* The timeline is behind the device, and in order. *)
OwnPosition ==
    ~timeline.degraded =>
      /\ timeline.floor > 0 => base + timeline.floor <= ended
      /\ \A i, j \in DOMAIN timeline.pending :
            i < j => timeline.pending[i].n < timeline.pending[j].n

(* A record is waiting that will be found out of order when it is accepted:   *)
(* the worker made room between the callback's two looks at the ring.         *)
Doomed ==
    \/ \E i \in DOMAIN spans : spans[i].total <= timeline.total
    \/ \E i, j \in DOMAIN spans : i < j /\ spans[i].total >= spans[j].total
    \/ late # NoSpan /\ late.total <= timeline.total
    \/ late # NoSpan /\ \E i \in DOMAIN spans : spans[i].total >= late.total

LastPublished ==
    IF late # NoSpan THEN late.total
    ELSE IF spans # <<>> THEN spans[Len(spans)].total ELSE timeline.total

(* No record is missing: the last one on its way is the last one there is. *)
OwnComplete ==
    wait \notin {"discard", "close"} /\ Sure /\ ~spansDropped =>
        Doomed \/ LastPublished = total

OwnEnd == Sure /\ wait = "end" => Heard >= 2 * Frames

OwnInv == OwnRecords /\ OwnPosition /\ OwnComplete /\ OwnEnd

SpansInv == mode # "none" => Foreign \/ OwnInv

(* Where a handshake left the callback silent. *)
StillInv ==
    mode \in {"parked", "frozen"} /\ wait \in Free =>
        /\ Acknowledged /\ ~Running(control) /\ spans = <<>>
        /\ Sure => timeline.total = total

HandshakeInv == ClosedInv /\ EpochInv /\ AnsweredInv /\ PlaceInv /\ MappingInv

CallbackInv ==
    /\ TypeOK /\ HandshakeInv /\ TimelineGen /\ submitted = base + total
    /\ SpansInv /\ StillInv

-----------------------------------------------------------------------------
(* The words. *)

(* A word that has just been published was acknowledged by nobody. *)
LEMMA NewWord ==
  ASSUME CallbackInv, NEW p, UNCHANGED <<ack, cpc, ctl, cgen>>, mode' # "none",
         epoch' = epoch + 1, control' = [gen |-> gen', epoch |-> epoch + 1, phase |-> p]
  PROVE  EpochInv' /\ AnsweredInv'
<1>1. epoch \in Nat /\ ack.epoch \in Nat /\ ctl.epoch \in Nat
  BY DEF CallbackInv, TypeOK, Words
<1>2. EpochInv
  BY DEF CallbackInv, HandshakeInv
<1>3. EpochInv'
  BY <1>1, <1>2 DEF EpochInv
<1>4. ~Acknowledged'
  BY <1>1, <1>2 DEF EpochInv, Acknowledged
<1> QED BY <1>3, <1>4 DEF AnsweredInv

(* A mapping that has just been published is ahead of every word. *)
LEMMA NewMapping ==
  ASSUME CallbackInv, UNCHANGED <<control, ctl, cpc, gen, epoch>>,
         mapping' = Label(gen, epoch + 1)
  PROVE  MappingInv'
<1>1. epoch \in Nat /\ ctl.epoch \in Nat /\ (cpc = "filling" => ctl.epoch <= epoch)
  BY DEF CallbackInv, TypeOK, Words, HandshakeInv, EpochInv
<1>2. mapping'.epoch = epoch + 1
  BY DEF Label
<1> QED BY <1>1, <1>2 DEF MappingInv

(* A fill under way after the answer works under the present word. *)
LEMMA AnsweredMeans ==
  ASSUME CallbackInv, Acknowledged, cpc = "filling"
  PROVE  ctl = control /\ ctl.epoch = epoch
<1>1. epoch \in Nat /\ ctl.epoch \in Nat /\ ack.epoch \in Nat
  BY DEF CallbackInv, TypeOK, Words
<1>2. ctl.epoch <= epoch /\ ack.epoch <= ctl.epoch /\ (ctl.epoch = epoch => ctl = control)
  BY SMTT(60) DEF CallbackInv, HandshakeInv, EpochInv
<1> QED BY <1>1, <1>2 DEF Acknowledged

(* Every step keeps what the two words say. *)
LEMMA HandshakeStep == CallbackInv /\ [Next]_vars => HandshakeInv'
<1> SUFFICES ASSUME CallbackInv, [Next]_vars PROVE HandshakeInv'
  OBVIOUS
<1> USE HandshakeAssumption DEF words, callback, device, rings, output, session,
    position, Request, PublishControl, Await, NextGeneration, PublishMapping, Idle,
    Acknowledge, AcknowledgeWhenDrained, Adopted, Publish, Running, Label, Silent,
    NoSpan, NoLabel, Acked, Expected, FinallyDrained, Preserving, Words, Phases,
    Generation, TypeOK, NothingOpen, Acknowledged, AckOf, Free, CallbackInv,
    HandshakeInv, ClosedInv, PlaceInv, EpochInv
<1>1. CASE FillBegin
  <2>1. ClosedInv' /\ PlaceInv'
    BY <1>1 DEF FillBegin, Modes
  <2>2. EpochInv' /\ AnsweredInv'
    <3>1. EpochInv'
      BY SMTT(60), <1>1 DEF FillBegin
    <3>2. AnsweredInv'
      BY <1>1 DEF FillBegin, AnsweredInv
    <3> QED BY <3>1, <3>2
  <2>3. MappingInv'
    BY <1>1 DEF FillBegin, MappingInv
  <2> QED BY <2>1, <2>2, <2>3
<1>2. CASE FillRun
  <2>1. ClosedInv' /\ PlaceInv'
    <3>1. wpc # "final"
      BY <1>2, AnsweredMeans DEF FillRun
    <3> QED BY <1>2, <3>1 DEF FillRun
  <2>2. EpochInv' /\ AnsweredInv'
    BY <1>2 DEF FillRun, AnsweredInv
  <2>3. MappingInv'
    BY <1>2 DEF FillRun, MappingInv
  <2> QED BY <2>1, <2>2, <2>3
<1>3. CASE FillSilence
  <2>1. ClosedInv' /\ PlaceInv'
    <3>1. wpc = "final" => Acknowledged'
      BY SMTT(60), <1>3, AnsweredMeans DEF FillSilence
    <3> QED BY <1>3, <3>1 DEF FillSilence
  <2>2. EpochInv' /\ AnsweredInv'
    <3>1. mode # "none" /\ ctl.epoch <= epoch /\ cgen = ctl.gen /\ ~Running(ctl)
      BY <1>3 DEF FillSilence
    <3>2. CASE late = NoSpan
      <4>1. ack' = [gen |-> ctl.gen, epoch |-> ctl.epoch, adopted |-> AckOf(ctl.phase)]
        BY <1>3, <3>1, <3>2 DEF FillSilence
      <4>2. EpochInv'
        BY <1>3, <3>1, <4>1 DEF FillSilence
      <4>3. Acknowledged' => ctl = control /\ cgen = gen
        BY <1>3, <3>1, <4>1 DEF FillSilence
      <4>4. AnsweredInv'
        BY <1>3, <3>2, <4>1, <4>3 DEF FillSilence, AnsweredInv
      <4> QED BY <4>2, <4>4
    <3>3. CASE late # NoSpan
      <4>1. UNCHANGED ack
        BY <1>3, <3>3 DEF FillSilence
      <4>2. EpochInv'
        BY <1>3, <4>1 DEF FillSilence
      <4>3. AnsweredInv'
        BY <1>3, <4>1 DEF FillSilence, AnsweredInv
      <4> QED BY <4>2, <4>3
    <3> QED BY <3>2, <3>3
  <2>3. MappingInv'
    BY <1>3 DEF FillSilence, MappingInv
  <2> QED BY <2>1, <2>2, <2>3
<1>4. CASE PlaysOut
  <2>1. ClosedInv' /\ PlaceInv'
    BY <1>4 DEF PlaysOut, Modes
  <2>2. EpochInv' /\ AnsweredInv'
    BY <1>4 DEF PlaysOut, AnsweredInv
  <2>3. MappingInv'
    BY <1>4 DEF PlaysOut, MappingInv
  <2> QED BY <2>1, <2>2, <2>3
<1>5. CASE Drain
  <2>1. ClosedInv' /\ PlaceInv'
    BY <1>5 DEF Drain, Modes
  <2>2. EpochInv' /\ AnsweredInv'
    BY <1>5 DEF Drain, AnsweredInv
  <2>3. MappingInv'
    BY <1>5 DEF Drain, MappingInv
  <2> QED BY <2>1, <2>2, <2>3
<1>6. CASE Drained
  <2>1. ClosedInv' /\ PlaceInv'
    BY <1>6 DEF Drained, Modes
  <2>2. EpochInv' /\ AnsweredInv'
    BY <1>6 DEF Drained, AnsweredInv
  <2>3. MappingInv'
    BY <1>6 DEF Drained, MappingInv
  <2> QED BY <2>1, <2>2, <2>3
<1>7. CASE LookAgain
  <2>1. ClosedInv' /\ PlaceInv'
    BY <1>7 DEF LookAgain, Modes
  <2>2. EpochInv' /\ AnsweredInv'
    BY <1>7 DEF LookAgain, AnsweredInv
  <2>3. MappingInv'
    BY <1>7 DEF LookAgain, MappingInv
  <2> QED BY <2>1, <2>2, <2>3
<1>8. CASE PreservingAcked
  <2>1. ClosedInv' /\ PlaceInv'
    BY <1>8 DEF PreservingAcked, Modes
  <2>2. EpochInv' /\ AnsweredInv'
    BY <1>8 DEF PreservingAcked, AnsweredInv
  <2>3. MappingInv'
    BY <1>8 DEF PreservingAcked, MappingInv
  <2> QED BY <2>1, <2>2, <2>3
<1>9. CASE DiscardAcked
  <2>1. ClosedInv' /\ PlaceInv'
    BY <1>9 DEF DiscardAcked, Modes
  <2>2. EpochInv' /\ AnsweredInv'
    BY <1>9, NewWord DEF DiscardAcked
  <2>3. MappingInv'
    BY <1>9 DEF DiscardAcked, MappingInv
  <2> QED BY <2>1, <2>2, <2>3
<1>10. CASE InstallAcked
  <2>1. ClosedInv' /\ PlaceInv'
    BY <1>10 DEF InstallAcked, Modes
  <2>2. EpochInv' /\ AnsweredInv'
    BY <1>10 DEF InstallAcked, AnsweredInv
  <2>3. MappingInv'
    BY <1>10 DEF InstallAcked, MappingInv
  <2> QED BY <2>1, <2>2, <2>3
<1>11. CASE Run
  <2>1. ClosedInv' /\ PlaceInv'
    BY <1>11 DEF Run, Modes
  <2>2. EpochInv' /\ AnsweredInv'
    BY <1>11, NewWord DEF Run
  <2>3. MappingInv'
    BY <1>11 DEF Run, MappingInv
  <2> QED BY <2>1, <2>2, <2>3
<1>12. CASE Settle
  <2>1. ClosedInv' /\ PlaceInv'
    BY <1>12 DEF Settle, Modes
  <2>2. EpochInv' /\ AnsweredInv'
    BY <1>12 DEF Settle, AnsweredInv
  <2>3. MappingInv'
    BY <1>12 DEF Settle, MappingInv
  <2> QED BY <2>1, <2>2, <2>3
<1>13. CASE SettleClose
  <2>1. ClosedInv' /\ PlaceInv'
    BY <1>13 DEF SettleClose, Modes
  <2>2. EpochInv' /\ AnsweredInv'
    BY <1>13 DEF SettleClose, AnsweredInv
  <2>3. MappingInv'
    BY <1>13 DEF SettleClose, MappingInv
  <2> QED BY <2>1, <2>2, <2>3
<1>14. CASE Observed
  <2>1. ClosedInv' /\ PlaceInv'
    BY <1>14 DEF Observed, Modes
  <2>2. EpochInv' /\ AnsweredInv'
    BY <1>14 DEF Observed, AnsweredInv
  <2>3. MappingInv'
    BY <1>14 DEF Observed, MappingInv
  <2> QED BY <2>1, <2>2, <2>3
<1>15. CASE TearDown
  <2>1. ClosedInv' /\ PlaceInv'
    BY <1>15 DEF TearDown, Modes
  <2>2. EpochInv' /\ AnsweredInv'
    BY <1>15 DEF TearDown, AnsweredInv
  <2>3. MappingInv'
    BY <1>15 DEF TearDown, MappingInv
  <2> QED BY <2>1, <2>2, <2>3
<1>16. CASE TimesOut
  <2>1. CASE /\ wpc' = "joining" /\ wait \in {"close", "install"}
             /\ UNCHANGED <<words, gen, epoch, mode, wait, session>>
    BY <1>16, <2>1 DEF TimesOut, AnsweredInv, MappingInv
  <2>2. CASE /\ wait \in {"park", "discard", "install"} /\ mode # "opening"
             /\ gen' = gen /\ PublishControl("Freeze") /\ Await("close")
             /\ UNCHANGED <<ack, mode, session>>
    <3>1. ClosedInv' /\ PlaceInv'
      BY <1>16, <2>2 DEF TimesOut
    <3>2. EpochInv' /\ AnsweredInv'
      BY <1>16, <2>2, NewWord DEF TimesOut
    <3>3. MappingInv'
      BY <1>16, <2>2 DEF TimesOut, MappingInv
    <3> QED BY <3>1, <3>2, <3>3
  <2>3. CASE /\ wait \in {"hookPark", "freeze", "end"}
             /\ wpc' = "idle" /\ wait' = "none" /\ mode' = "loose"
             /\ UNCHANGED <<words, gen, epoch>>
    BY ZenonT(60), <1>16, <2>3 DEF TimesOut, AnsweredInv, MappingInv
  <2> QED BY <1>16, <2>1, <2>2, <2>3 DEF TimesOut
<1>17. CASE OpenTransport
  <2>1. ClosedInv' /\ PlaceInv'
    BY <1>17 DEF OpenTransport, Modes
  <2>2. EpochInv' /\ AnsweredInv'
    BY <1>17, NewWord DEF OpenTransport
  <2>3. MappingInv'
    BY <1>17 DEF OpenTransport, MappingInv
  <2> QED BY <2>1, <2>2, <2>3
<1>18. CASE Capture
  <2>1. ClosedInv' /\ PlaceInv'
    BY <1>18 DEF Capture, Modes
  <2>2. EpochInv' /\ AnsweredInv'
    BY <1>18, NewWord DEF Capture
  <2>3. MappingInv'
    BY <1>18 DEF Capture, MappingInv
  <2> QED BY <2>1, <2>2, <2>3
<1>19. CASE Abandon
  <2>1. ClosedInv' /\ PlaceInv'
    BY <1>19 DEF Abandon, Modes
  <2>2. EpochInv' /\ AnsweredInv'
    BY <1>19 DEF Abandon, AnsweredInv
  <2>3. MappingInv'
    BY <1>19 DEF Abandon, MappingInv
  <2> QED BY <2>1, <2>2, <2>3
<1>20. CASE Discard
  <2>1. ClosedInv' /\ PlaceInv'
    BY <1>20 DEF Discard, Modes
  <2>2. EpochInv' /\ AnsweredInv'
    BY <1>20, NewWord DEF Discard
  <2>3. MappingInv'
    BY <1>20 DEF Discard, MappingInv
  <2> QED BY <2>1, <2>2, <2>3
<1>21. CASE Push
  <2>1. ClosedInv' /\ PlaceInv'
    BY <1>21 DEF Push, Modes
  <2>2. EpochInv' /\ AnsweredInv'
    BY <1>21 DEF Push, AnsweredInv
  <2>3. MappingInv'
    BY <1>21 DEF Push, MappingInv
  <2> QED BY <2>1, <2>2, <2>3
<1>22. CASE CloseTransport
  <2>1. ClosedInv' /\ PlaceInv'
    BY <1>22 DEF CloseTransport, Modes
  <2>2. EpochInv' /\ AnsweredInv'
    BY <1>22, NewWord DEF CloseTransport
  <2>3. MappingInv'
    BY <1>22 DEF CloseTransport, MappingInv
  <2> QED BY <2>1, <2>2, <2>3
<1>23. CASE StartRunning
  <2>1. ClosedInv' /\ PlaceInv'
    BY <1>23 DEF StartRunning, Modes
  <2>2. EpochInv' /\ AnsweredInv'
    BY <1>23 DEF StartRunning, AnsweredInv
  <2>3. MappingInv'
    BY <1>23, NewMapping DEF StartRunning
  <2> QED BY <2>1, <2>2, <2>3
<1>24. CASE StayParked
  <2>1. ClosedInv' /\ PlaceInv'
    BY <1>24 DEF StayParked, Modes
  <2>2. EpochInv' /\ AnsweredInv'
    BY <1>24 DEF StayParked, AnsweredInv
  <2>3. MappingInv'
    BY <1>24 DEF StayParked, MappingInv
  <2> QED BY <2>1, <2>2, <2>3
<1>25. CASE Resume
  <2>1. ClosedInv' /\ PlaceInv'
    BY <1>25 DEF Resume, Modes
  <2>2. EpochInv' /\ AnsweredInv'
    BY <1>25 DEF Resume, AnsweredInv
  <2>3. MappingInv'
    BY <1>25, NewMapping DEF Resume
  <2> QED BY <2>1, <2>2, <2>3
<1>26. CASE HookRelease
  <2>1. ClosedInv' /\ PlaceInv'
    BY <1>26 DEF HookRelease, Modes
  <2>2. EpochInv' /\ AnsweredInv'
    BY <1>26 DEF HookRelease, AnsweredInv
  <2>3. MappingInv'
    BY <1>26, NewMapping DEF HookRelease
  <2> QED BY <2>1, <2>2, <2>3
<1>27. CASE Park
  <2>1. ClosedInv' /\ PlaceInv'
    BY <1>27 DEF Park, Modes
  <2>2. EpochInv' /\ AnsweredInv'
    BY <1>27, NewWord DEF Park
  <2>3. MappingInv'
    BY <1>27 DEF Park, MappingInv
  <2> QED BY <2>1, <2>2, <2>3
<1>28. CASE AdoptPause
  <2>1. ClosedInv' /\ PlaceInv'
    BY <1>28 DEF AdoptPause, Modes
  <2>2. EpochInv' /\ AnsweredInv'
    BY <1>28 DEF AdoptPause, AnsweredInv
  <2>3. MappingInv'
    BY <1>28 DEF AdoptPause, MappingInv
  <2> QED BY <2>1, <2>2, <2>3
<1>29. CASE HookPark
  <2>1. ClosedInv' /\ PlaceInv'
    BY <1>29 DEF HookPark, Modes
  <2>2. EpochInv' /\ AnsweredInv'
    BY <1>29, NewWord DEF HookPark
  <2>3. MappingInv'
    BY <1>29 DEF HookPark, MappingInv
  <2> QED BY <2>1, <2>2, <2>3
<1>30. CASE EndOfTrack
  <2>1. ClosedInv' /\ PlaceInv'
    BY <1>30 DEF EndOfTrack, Modes
  <2>2. EpochInv' /\ AnsweredInv'
    BY <1>30, NewWord DEF EndOfTrack
  <2>3. MappingInv'
    BY <1>30 DEF EndOfTrack, MappingInv
  <2> QED BY <2>1, <2>2, <2>3
<1>31. CASE Observe
  <2>1. ClosedInv' /\ PlaceInv'
    BY <1>31 DEF Observe, Modes
  <2>2. EpochInv' /\ AnsweredInv'
    BY <1>31 DEF Observe, AnsweredInv
  <2>3. MappingInv'
    BY <1>31 DEF Observe, MappingInv
  <2> QED BY <2>1, <2>2, <2>3
<1>32. CASE UNCHANGED vars
  BY <1>32 DEF vars, AnsweredInv, MappingInv
<1> QED
  BY <1>1, <1>2, <1>3, <1>4, <1>5, <1>6, <1>7, <1>8, <1>9, <1>10, <1>11, <1>12,
      <1>13, <1>14, <1>15, <1>16, <1>17, <1>18, <1>19, <1>20, <1>21, <1>22, <1>23,
      <1>24, <1>25, <1>26, <1>27, <1>28, <1>29, <1>30, <1>31, <1>32 DEF Next,
      Callback, Waiting, Concluding, Choosing

-----------------------------------------------------------------------------
(* The timeline's operators. *)

Timelines == [gen : Generation, floor : Nat, total : Nat, last : Nat,
              pending : Seq(Records), degraded : BOOLEAN]

(* The device has begun everything it was handed, or one span more than it    *)
(* has played.                                                                *)
LEMMA StartedIs ==
  ASSUME TypeOK
  PROVE  started = IF submitted <= ended THEN submitted ELSE ended + 1
<1>1. submitted \in Nat /\ ended \in 0 .. submitted
  BY DEF TypeOK
<1> QED BY <1>1, MinOfTwo DEF started

(* A record of another generation is ignored, one of this is appended, and    *)
(* degrades the timeline when it is not past the one before.                  *)
LEMMA AcceptIs ==
  ASSUME NEW t \in Timelines, NEW r \in Records
  PROVE  /\ Accept(t, r) \in Timelines
         /\ Accept(t, r).gen = t.gen /\ Accept(t, r).floor = t.floor
         /\ r.gen # t.gen => Accept(t, r) = t
         /\ r.gen = t.gen =>
              /\ Accept(t, r).total = r.total /\ Accept(t, r).last = r.n
              /\ Accept(t, r).pending = Append(t.pending, r)
              /\ Accept(t, r).degraded =
                    (t.degraded \/ (t.total > 0 /\ ~(r.total - 1 >= t.total /\ r.n > t.last)))
<1>1. CASE r.gen # t.gen
  BY <1>1 DEF Accept
<1>2. CASE r.gen = t.gen
  <2> DEFINE bad == t.degraded \/ (t.total > 0 /\ ~(r.total - 1 >= t.total /\ r.n > t.last))
  <2>1. bad \in BOOLEAN /\ r.total \in Nat /\ r.n \in Nat /\ Append(t.pending, r) \in Seq(Records)
    BY DEF Timelines, Records
  <2>2. Accept(t, r) = [t EXCEPT !.degraded = bad, !.total = r.total, !.last = r.n,
                                 !.pending = Append(t.pending, r)]
    BY <1>2 DEF Accept, Timelines
  <2> HIDE DEF bad
  <2>3. /\ Accept(t, r) \in Timelines
        /\ Accept(t, r).gen = t.gen /\ Accept(t, r).floor = t.floor
        /\ Accept(t, r).total = r.total /\ Accept(t, r).last = r.n
        /\ Accept(t, r).pending = Append(t.pending, r) /\ Accept(t, r).degraded = bad
    BY <2>1, <2>2 DEF Timelines
  <2> QED BY <1>2, <2>3 DEF bad
<1> QED BY <1>1, <1>2

(* Noting dropped spans changes nothing of a timeline but its health. *)
LEMMA NoteDroppedIs ==
  ASSUME NEW t \in Timelines, spansDropped \in BOOLEAN
  PROVE  /\ NoteDropped(t) \in Timelines
         /\ NoteDropped(t).gen = t.gen /\ NoteDropped(t).floor = t.floor
         /\ NoteDropped(t).total = t.total /\ NoteDropped(t).last = t.last
         /\ NoteDropped(t).pending = t.pending
         /\ NoteDropped(t).degraded = (t.degraded \/ spansDropped)
BY DEF NoteDropped, Timelines

(* Advancing takes the spans that are over, and no more, from the front. *)
LEMMA AdvancedIs ==
  ASSUME CallbackInv, mode # "none"
  PROVE  /\ Advanced(timeline) \in Timelines
         /\ Advanced(timeline).gen = timeline.gen
         /\ Advanced(timeline).total = timeline.total
         /\ Advanced(timeline).last = timeline.last
         /\ Advanced(timeline).degraded = timeline.degraded
         /\ \E k \in 0 .. Len(timeline.pending) :
              /\ \A i \in 1 .. k : Over(timeline, i)
              /\ k < Len(timeline.pending) => ~Over(timeline, k + 1)
              /\ Advanced(timeline).pending =
                   SubSeq(timeline.pending, k + 1, Len(timeline.pending))
              /\ \/ Advanced(timeline).floor = timeline.floor
                 \/ \E i \in 1 .. k : Advanced(timeline).floor = timeline.pending[i].total
<1> DEFINE p == timeline.pending
           over == {k \in 0 .. Len(p) : \A i \in 1 .. k : Over(timeline, i)}
           k == Finished(timeline)
           totals == {timeline.floor} \union {p[i].total : i \in 1 .. k}
<1>1. timeline \in Timelines /\ p \in Seq(Records) /\ Len(p) \in Nat /\ total \in Nat
  BY DEF CallbackInv, TypeOK, Timelines
<1>2. 0 \in over
  BY <1>1
<1>3. k \in over /\ \A j \in over : j <= k
  BY <1>1, <1>2, MaxBelow DEF Finished
<1>4. k \in 0 .. Len(p) /\ \A i \in 1 .. k : Over(timeline, i)
  BY <1>3
<1>5. k < Len(p) => ~Over(timeline, k + 1)
  <2> SUFFICES ASSUME k < Len(p), Over(timeline, k + 1) PROVE FALSE
    OBVIOUS
  <2>1. k + 1 \in over
    BY <1>1, <1>4
  <2> QED BY <1>1, <1>3, <1>4, <2>1
<1>6. \A i \in 1 .. Len(p) : p[i] \in Records /\ p[i].total \in 0 .. total
  <2>1. p = <<>> \/ \A i \in 1 .. Len(p) : p[i].total \in 1 .. total
    BY <1>1 DEF CallbackInv, SpansInv, Foreign, OwnInv, OwnRecords, Own
  <2> QED BY <1>1, <2>1
<1> HIDE DEF k
<1>7. totals \in SUBSET (0 .. total + timeline.floor) /\ totals # {}
  BY <1>1, <1>4, <1>6 DEF Timelines
<1>8. Max(totals) \in totals
  <2>1. total + timeline.floor \in Nat
    BY <1>1 DEF Timelines
  <2> HIDE DEF totals
  <2> QED BY <1>7, <2>1, MaxBelow
<1>9. Advanced(timeline) = [timeline EXCEPT !.floor = Max(totals),
                                            !.pending = SubSeq(p, k + 1, Len(p))]
  BY DEF Advanced, k
<1>10. SubSeq(p, k + 1, Len(p)) \in Seq(Records)
  BY <1>1, <1>4, <1>6
<1>11. Max(totals) \in Nat
  BY <1>1, <1>7, <1>8 DEF Timelines
<1> HIDE DEF p, totals
<1>12. /\ Advanced(timeline) \in Timelines
       /\ Advanced(timeline).gen = timeline.gen
       /\ Advanced(timeline).total = timeline.total
       /\ Advanced(timeline).last = timeline.last
       /\ Advanced(timeline).degraded = timeline.degraded
       /\ Advanced(timeline).pending = SubSeq(p, k + 1, Len(p))
       /\ Advanced(timeline).floor = Max(totals)
  BY <1>1, <1>9, <1>10, <1>11 DEF Timelines
<1> QED BY <1>4, <1>5, <1>8, <1>12 DEF p, totals

(* The types, by what they are about. *)
WordTypes ==
    /\ control \in Words /\ ctl \in Words
    /\ ack \in [gen : Generation, epoch : Nat, adopted : {"Parked", "Frozen", "Running"}]
    /\ mapping \in [gen : Generation, epoch : Nat] /\ epoch \in Nat
RingTypes ==
    /\ spansDropped \in BOOLEAN /\ late \in Records
    /\ spans \in Seq(Records) /\ Len(spans) <= SpanCap
    /\ pcm \in Seq(Generation) /\ Len(pcm) <= PcmCap
CountTypes ==
    /\ cgen \in Generation /\ gen \in Generation
    /\ total \in Nat /\ submitted \in Nat /\ ended \in 0 .. submitted
    /\ base \in 0 .. submitted /\ opens \in Nat /\ pushed \in 0 .. Frames
PlaceTypes ==
    /\ cpc \in {"idle", "filling"} /\ mode \in Modes
    /\ wpc \in {"idle", "drain", "check", "final", "mapped", "observe", "joining"}
    /\ wait \in Preserving \union {"none", "install", "discard", "start", "release"}
    /\ at \in {"loop", "priming", "landing"}
    /\ state \in {"Idle", "Playing", "Paused", "Ended"}
    /\ byHook \in BOOLEAN /\ voided \in BOOLEAN

(* The type invariant, in the parts that different actions disturb. *)
LEMMA TypeParts ==
  TypeOK <=> WordTypes /\ RingTypes /\ CountTypes /\ PlaceTypes /\ timeline \in Timelines
BY DEF TypeOK, WordTypes, RingTypes, CountTypes, PlaceTypes, Timelines

(* The next generation is one, and another one. *)
LEMMA NextGenerationIs ==
  ASSUME NEW g \in Generation
  PROVE  0 \in Generation /\ (g + 1) % Gens \in Generation /\ (g + 1) % Gens # g
BY HandshakeAssumption DEF Generation

(* The present types are kept by every step. *)
LEMMA TypeStep == CallbackInv /\ [Next]_vars => TypeOK'
<1> SUFFICES ASSUME CallbackInv, [Next]_vars
             PROVE  WordTypes' /\ RingTypes' /\ CountTypes' /\ PlaceTypes' /\ timeline' \in Timelines
  BY DEF TypeOK, WordTypes, RingTypes, CountTypes, PlaceTypes, Timelines
<1>0. /\ WordTypes /\ RingTypes /\ CountTypes /\ PlaceTypes /\ timeline \in Timelines
      /\ mode = "none" => NothingOpen
  BY TypeParts DEF CallbackInv, HandshakeInv, ClosedInv
<1> USE <1>0, HandshakeAssumption
<1> USE DEF words, callback, device, rings, output, session, position, Request,
    PublishControl, Await, NextGeneration, PublishMapping, Idle, Acknowledge,
    AcknowledgeWhenDrained, Adopted, Publish, Running, Label, Silent, NoSpan,
    NoLabel, FinallyDrained, Preserving, WordTypes, RingTypes, CountTypes,
    PlaceTypes
<1>1. CASE FillBegin
  <2>1. timeline' \in Timelines
    BY <1>1 DEF FillBegin
  <2>2. WordTypes'
    BY <1>1 DEF FillBegin, Words, Phases
  <2>3. RingTypes'
    <3>1. late \in Records /\ NoSpan \in Records /\ Append(spans, late) \in Seq(Records)
      BY NextGenerationIs DEF Records
    <3>2. Len(spans) < SpanCap => Len(Append(spans, late)) <= SpanCap
      BY <3>1
    <3> HIDE DEF NoSpan
    <3> QED BY <1>1, <3>1, <3>2 DEF FillBegin
  <2>4. CountTypes' /\ PlaceTypes'
    BY SMTT(60), <1>1 DEF FillBegin, Modes, Words
  <2> QED BY <2>1, <2>2, <2>3, <2>4
<1>2. CASE FillRun
  <2>1. timeline' \in Timelines
    BY <1>2 DEF FillRun
  <2>2. WordTypes'
    <3>1. ack' \in [gen : Generation, epoch : Nat, adopted : {"Parked", "Frozen", "Running"}]
      BY <1>2 DEF FillRun, Words
    <3>2. Silent \in Words
      BY NextGenerationIs DEF Words, Phases
    <3> HIDE DEF Silent
    <3> QED BY <1>2, <3>1, <3>2 DEF FillRun
  <2>3. RingTypes'
    <3> DEFINE r == [gen |-> ctl.gen, total |-> total + 1, n |-> submitted + 1]
    <3>1. r \in Records /\ Append(spans, r) \in Seq(Records)
      BY DEF Records, Words
    <3>2. Len(spans) < SpanCap => Len(Append(spans, r)) <= SpanCap
      BY <3>1
    <3>3. pcm # <<>> => Tail(pcm) \in Seq(Generation) /\ Len(Tail(pcm)) <= PcmCap
      OBVIOUS
    <3>4. pcm' = pcm \/ (pcm # <<>> /\ pcm' = Tail(pcm))
      BY <1>2 DEF FillRun
    <3>5. /\ late' \in {late, r} /\ (spansDropped' = spansDropped \/ spansDropped' = (spansDropped \/ late # NoSpan))
          /\ spans' = spans \/ (Len(spans) < SpanCap /\ spans' = Append(spans, r))
      BY <1>2 DEF FillRun
    <3> HIDE DEF r, NoSpan
    <3> QED BY <3>1, <3>2, <3>3, <3>4, <3>5
  <2>4. CountTypes' /\ PlaceTypes'
    BY SMTT(60), <1>2 DEF FillRun, Modes, Words
  <2> QED BY <2>1, <2>2, <2>3, <2>4
<1>3. CASE FillSilence
  <2>1. timeline' \in Timelines
    BY <1>3 DEF FillSilence
  <2>2. WordTypes'
    <3>1. ack' \in [gen : Generation, epoch : Nat, adopted : {"Parked", "Frozen", "Running"}]
      BY <1>3 DEF FillSilence, Words
    <3>2. Silent \in Words
      BY NextGenerationIs DEF Words, Phases
    <3> HIDE DEF Silent
    <3> QED BY <1>3, <3>1, <3>2 DEF FillSilence
  <2>3. RingTypes'
    BY <1>3 DEF FillSilence
  <2>4. CountTypes' /\ PlaceTypes'
    BY <1>3 DEF FillSilence, Modes, Words
  <2> QED BY <2>1, <2>2, <2>3, <2>4
<1>4. CASE PlaysOut
  <2>1. timeline' \in Timelines
    BY <1>4 DEF PlaysOut
  <2>2. WordTypes'
    BY <1>4 DEF PlaysOut, Words, Phases
  <2>3. RingTypes'
    BY <1>4 DEF PlaysOut
  <2>4. CountTypes' /\ PlaceTypes'
    BY <1>4 DEF PlaysOut, Modes, Words
  <2> QED BY <2>1, <2>2, <2>3, <2>4
<1>5. CASE Drain
  <2>1. timeline' \in Timelines
    BY SMTT(60), <1>5, AcceptIs DEF Drain
  <2>2. WordTypes'
    BY <1>5 DEF Drain, Words, Phases
  <2>3. RingTypes'
    BY <1>5 DEF Drain
  <2>4. CountTypes' /\ PlaceTypes'
    BY <1>5 DEF Drain, Modes, Words
  <2> QED BY <2>1, <2>2, <2>3, <2>4
<1>6. CASE Drained
  <2>1. timeline' \in Timelines
    BY <1>6 DEF Drained
  <2>2. WordTypes'
    BY <1>6 DEF Drained, Words, Phases
  <2>3. RingTypes'
    BY <1>6 DEF Drained
  <2>4. CountTypes' /\ PlaceTypes'
    BY <1>6 DEF Drained, Modes, Words
  <2> QED BY <2>1, <2>2, <2>3, <2>4
<1>7. CASE LookAgain
  <2>1. timeline' \in Timelines
    BY <1>7 DEF LookAgain
  <2>2. WordTypes'
    BY <1>7 DEF LookAgain, Words, Phases
  <2>3. RingTypes'
    BY <1>7 DEF LookAgain
  <2>4. CountTypes' /\ PlaceTypes'
    BY <1>7 DEF LookAgain, Modes, Words
  <2> QED BY <2>1, <2>2, <2>3, <2>4
<1>8. CASE PreservingAcked
  <2>1. timeline' \in Timelines
    BY <1>8, NoteDroppedIs DEF PreservingAcked
  <2>2. WordTypes'
    BY <1>8 DEF PreservingAcked, Words, Phases
  <2>3. RingTypes'
    BY <1>8 DEF PreservingAcked
  <2>4. CountTypes' /\ PlaceTypes'
    BY <1>8 DEF PreservingAcked, Modes, Words
  <2> QED BY <2>1, <2>2, <2>3, <2>4
<1>9. CASE DiscardAcked
  <2>1. timeline' \in Timelines
    BY <1>9, NextGenerationIs DEF DiscardAcked, Timelines, Fresh
  <2>2. WordTypes'
    BY <1>9, NextGenerationIs DEF DiscardAcked, Words, Phases
  <2>3. RingTypes'
    BY <1>9 DEF DiscardAcked
  <2>4. CountTypes' /\ PlaceTypes'
    <3>1. gen' \in Generation /\ pushed' = 0
      BY <1>9, NextGenerationIs DEF DiscardAcked
    <3>2. CountTypes'
      BY <1>9, <3>1 DEF DiscardAcked
    <3>3. PlaceTypes'
      BY <1>9 DEF DiscardAcked, Modes
    <3> QED BY <3>2, <3>3
  <2> QED BY <2>1, <2>2, <2>3, <2>4
<1>10. CASE InstallAcked
  <2>1. timeline' \in Timelines
    BY <1>10 DEF InstallAcked
  <2>2. WordTypes'
    BY <1>10 DEF InstallAcked, Words, Phases
  <2>3. RingTypes'
    BY <1>10 DEF InstallAcked
  <2>4. CountTypes' /\ PlaceTypes'
    BY <1>10 DEF InstallAcked, Modes, Words
  <2> QED BY <2>1, <2>2, <2>3, <2>4
<1>11. CASE Run
  <2>1. timeline' \in Timelines
    <3>1. Fresh(gen) \in Timelines
      BY EmptySeq DEF Fresh, Timelines
    <3> QED BY <1>11, <3>1 DEF Run
  <2>2. WordTypes'
    BY <1>11 DEF Run, Words, Phases
  <2>3. RingTypes'
    BY <1>11 DEF Run
  <2>4. CountTypes' /\ PlaceTypes'
    BY <1>11 DEF Run, Modes, Words
  <2> QED BY <2>1, <2>2, <2>3, <2>4
<1>12. CASE Settle
  <2>1. timeline' \in Timelines
    BY <1>12, AdvancedIs DEF Settle, NothingOpen
  <2>2. WordTypes'
    BY <1>12 DEF Settle, Words, Phases
  <2>3. RingTypes'
    BY <1>12 DEF Settle
  <2>4. CountTypes' /\ PlaceTypes'
    BY <1>12 DEF Settle, Modes, Words
  <2> QED BY <2>1, <2>2, <2>3, <2>4
<1>13. CASE SettleClose
  <2>1. timeline' \in Timelines
    BY <1>13, AdvancedIs DEF SettleClose, NothingOpen
  <2>2. WordTypes'
    BY <1>13 DEF SettleClose, Words, Phases
  <2>3. RingTypes'
    BY <1>13 DEF SettleClose
  <2>4. CountTypes' /\ PlaceTypes'
    BY <1>13 DEF SettleClose, Modes, Words
  <2> QED BY <2>1, <2>2, <2>3, <2>4
<1>14. CASE Observed
  <2>1. timeline' \in Timelines
    BY <1>14, AdvancedIs DEF Observed, NothingOpen
  <2>2. WordTypes'
    BY <1>14 DEF Observed, Words, Phases
  <2>3. RingTypes'
    BY <1>14 DEF Observed
  <2>4. CountTypes' /\ PlaceTypes'
    BY <1>14 DEF Observed, Modes, Words
  <2> QED BY <2>1, <2>2, <2>3, <2>4
<1>15. CASE TearDown
  <2>1. timeline' \in Timelines
    BY <1>15, NextGenerationIs DEF TearDown, Timelines, Fresh
  <2>2. WordTypes'
    BY <1>15, NextGenerationIs DEF TearDown, Words, Phases
  <2>3. RingTypes'
    <3>1. NoSpan \in Records
      BY NextGenerationIs DEF Records
    <3> HIDE DEF NoSpan
    <3>2. /\ <<>> \in Seq(Records) /\ <<>> \in Seq(Generation)
          /\ Len(<<>>) <= SpanCap /\ Len(<<>>) <= PcmCap
      BY EmptySeq
    <3>3. spansDropped' = FALSE /\ spans' = <<>> /\ pcm' = <<>> /\ late' = NoSpan
      BY <1>15 DEF TearDown
    <3> QED BY <3>1, <3>2, <3>3
  <2>4. CountTypes' /\ PlaceTypes'
    <3>1. 0 \in Generation
      BY NextGenerationIs
    <3>2. CountTypes'
      BY <1>15, <3>1 DEF TearDown
    <3>3. PlaceTypes'
      BY <1>15 DEF TearDown, Modes
    <3> QED BY <3>2, <3>3
  <2> QED BY <2>1, <2>2, <2>3, <2>4
<1>16. CASE TimesOut
  <2>1. timeline' \in Timelines
    BY <1>16 DEF TimesOut
  <2>2. WordTypes'
    BY SMTT(60), <1>16 DEF TimesOut, Words, Phases
  <2>3. RingTypes'
    BY <1>16 DEF TimesOut
  <2>4. CountTypes' /\ PlaceTypes'
    BY <1>16 DEF TimesOut, Modes, Words
  <2> QED BY <2>1, <2>2, <2>3, <2>4
<1>17. CASE OpenTransport
  <2>1. timeline' \in Timelines
    BY <1>17, NextGenerationIs DEF OpenTransport, Timelines, Fresh
  <2>2. WordTypes'
    BY <1>17, NextGenerationIs DEF OpenTransport, Words, Phases
  <2>3. RingTypes'
    BY <1>17 DEF OpenTransport
  <2>4. CountTypes' /\ PlaceTypes'
    <3>1. gen' \in Generation /\ pushed' = 0
      BY <1>17, NextGenerationIs DEF OpenTransport
    <3>2. CountTypes'
      BY <1>17, <3>1 DEF OpenTransport
    <3>3. PlaceTypes'
      BY <1>17 DEF OpenTransport, Modes
    <3> QED BY <3>2, <3>3
  <2> QED BY <2>1, <2>2, <2>3, <2>4
<1>18. CASE Capture
  <2>1. timeline' \in Timelines
    BY <1>18 DEF Capture
  <2>2. WordTypes'
    BY <1>18 DEF Capture, Words, Phases
  <2>3. RingTypes'
    BY <1>18 DEF Capture
  <2>4. CountTypes' /\ PlaceTypes'
    BY <1>18 DEF Capture, Modes, Words
  <2> QED BY <2>1, <2>2, <2>3, <2>4
<1>19. CASE Abandon
  <2>1. timeline' \in Timelines
    BY <1>19 DEF Abandon
  <2>2. WordTypes'
    BY <1>19 DEF Abandon, Words, Phases
  <2>3. RingTypes'
    BY <1>19 DEF Abandon
  <2>4. CountTypes' /\ PlaceTypes'
    BY <1>19 DEF Abandon, Modes, Words
  <2> QED BY <2>1, <2>2, <2>3, <2>4
<1>20. CASE Discard
  <2>1. timeline' \in Timelines
    BY <1>20 DEF Discard
  <2>2. WordTypes'
    BY <1>20 DEF Discard, Words, Phases
  <2>3. RingTypes'
    BY <1>20 DEF Discard
  <2>4. CountTypes' /\ PlaceTypes'
    BY <1>20 DEF Discard, Modes, Words
  <2> QED BY <2>1, <2>2, <2>3, <2>4
<1>21. CASE Push
  <2>1. timeline' \in Timelines
    BY <1>21 DEF Push
  <2>2. WordTypes'
    BY <1>21 DEF Push, Words, Phases
  <2>3. RingTypes'
    BY <1>21 DEF Push
  <2>4. CountTypes' /\ PlaceTypes'
    BY <1>21 DEF Push, Modes, Words
  <2> QED BY <2>1, <2>2, <2>3, <2>4
<1>22. CASE CloseTransport
  <2>1. timeline' \in Timelines
    BY <1>22 DEF CloseTransport
  <2>2. WordTypes'
    BY <1>22 DEF CloseTransport, Words, Phases
  <2>3. RingTypes'
    BY <1>22 DEF CloseTransport
  <2>4. CountTypes' /\ PlaceTypes'
    BY <1>22 DEF CloseTransport, Modes, Words
  <2> QED BY <2>1, <2>2, <2>3, <2>4
<1>23. CASE StartRunning
  <2>1. timeline' \in Timelines
    BY <1>23 DEF StartRunning
  <2>2. WordTypes'
    BY <1>23 DEF StartRunning, Words, Phases
  <2>3. RingTypes'
    BY <1>23 DEF StartRunning
  <2>4. CountTypes' /\ PlaceTypes'
    BY <1>23 DEF StartRunning, Modes, Words
  <2> QED BY <2>1, <2>2, <2>3, <2>4
<1>24. CASE StayParked
  <2>1. timeline' \in Timelines
    BY <1>24 DEF StayParked
  <2>2. WordTypes'
    BY <1>24 DEF StayParked, Words, Phases
  <2>3. RingTypes'
    BY <1>24 DEF StayParked
  <2>4. CountTypes' /\ PlaceTypes'
    BY <1>24 DEF StayParked, Modes, Words
  <2> QED BY <2>1, <2>2, <2>3, <2>4
<1>25. CASE Resume
  <2>1. timeline' \in Timelines
    BY <1>25 DEF Resume
  <2>2. WordTypes'
    BY <1>25 DEF Resume, Words, Phases
  <2>3. RingTypes'
    BY <1>25 DEF Resume
  <2>4. CountTypes' /\ PlaceTypes'
    BY <1>25 DEF Resume, Modes, Words
  <2> QED BY <2>1, <2>2, <2>3, <2>4
<1>26. CASE HookRelease
  <2>1. timeline' \in Timelines
    BY <1>26 DEF HookRelease
  <2>2. WordTypes'
    BY <1>26 DEF HookRelease, Words, Phases
  <2>3. RingTypes'
    BY <1>26 DEF HookRelease
  <2>4. CountTypes' /\ PlaceTypes'
    BY <1>26 DEF HookRelease, Modes, Words
  <2> QED BY <2>1, <2>2, <2>3, <2>4
<1>27. CASE Park
  <2>1. timeline' \in Timelines
    BY <1>27 DEF Park
  <2>2. WordTypes'
    BY <1>27 DEF Park, Words, Phases
  <2>3. RingTypes'
    BY <1>27 DEF Park
  <2>4. CountTypes' /\ PlaceTypes'
    BY <1>27 DEF Park, Modes, Words
  <2> QED BY <2>1, <2>2, <2>3, <2>4
<1>28. CASE AdoptPause
  <2>1. timeline' \in Timelines
    BY <1>28 DEF AdoptPause
  <2>2. WordTypes'
    BY <1>28 DEF AdoptPause, Words, Phases
  <2>3. RingTypes'
    BY <1>28 DEF AdoptPause
  <2>4. CountTypes' /\ PlaceTypes'
    BY <1>28 DEF AdoptPause, Modes, Words
  <2> QED BY <2>1, <2>2, <2>3, <2>4
<1>29. CASE HookPark
  <2>1. timeline' \in Timelines
    BY <1>29 DEF HookPark
  <2>2. WordTypes'
    BY <1>29 DEF HookPark, Words, Phases
  <2>3. RingTypes'
    BY <1>29 DEF HookPark
  <2>4. CountTypes' /\ PlaceTypes'
    BY <1>29 DEF HookPark, Modes, Words
  <2> QED BY <2>1, <2>2, <2>3, <2>4
<1>30. CASE EndOfTrack
  <2>1. timeline' \in Timelines
    BY <1>30, AdvancedIs DEF EndOfTrack, NothingOpen
  <2>2. WordTypes'
    BY <1>30 DEF EndOfTrack, Words, Phases
  <2>3. RingTypes'
    BY <1>30 DEF EndOfTrack
  <2>4. CountTypes' /\ PlaceTypes'
    BY <1>30 DEF EndOfTrack, Modes, Words
  <2> QED BY <2>1, <2>2, <2>3, <2>4
<1>31. CASE Observe
  <2>1. timeline' \in Timelines
    BY <1>31, NoteDroppedIs DEF Observe
  <2>2. WordTypes'
    BY <1>31 DEF Observe, Words, Phases
  <2>3. RingTypes'
    BY <1>31 DEF Observe
  <2>4. CountTypes' /\ PlaceTypes'
    BY <1>31 DEF Observe, Modes, Words
  <2> QED BY <2>1, <2>2, <2>3, <2>4
<1>32. CASE UNCHANGED vars
  BY <1>32 DEF vars
<1> QED
  BY <1>1, <1>2, <1>3, <1>4, <1>5, <1>6, <1>7, <1>8, <1>9, <1>10, <1>11, <1>12,
      <1>13, <1>14, <1>15, <1>16, <1>17, <1>18, <1>19, <1>20, <1>21, <1>22, <1>23,
      <1>24, <1>25, <1>26, <1>27, <1>28, <1>29, <1>30, <1>31, <1>32 DEF Next,
      Callback, Waiting, Concluding, Choosing

-----------------------------------------------------------------------------
(* The records. *)

(* Steps that leave the rings and the timeline alone. *)
LEMMA OwnStandsStill ==
  ASSUME OwnInv, UNCHANGED <<spans, late, spansDropped, cgen, gen, total, base,
                             submitted, ended, timeline, voided, pcm, pushed>>,
         wait' # "install", wait' # "end" \/ wait = "end",
         wait' \in {"discard", "close"} \/ wait \notin {"discard", "close"}
  PROVE  OwnInv'
<1>1. OwnRecords'
  BY DEF OwnInv, OwnRecords, Own
<1>2. OwnPosition'
  BY DEF OwnInv, OwnPosition
<1>3. OwnComplete'
  BY DEF OwnInv, OwnComplete, Doomed, LastPublished, Sure
<1>4. OwnEnd'
  BY DEF OwnInv, OwnEnd, Heard, started, Sure
<1> QED BY <1>1, <1>2, <1>3, <1>4 DEF OwnInv

(* Advancing the timeline. *)
LEMMA OwnAdvances ==
  ASSUME CallbackInv, mode # "none", OwnInv
  PROVE  LET a == Advanced(timeline) IN
         /\ \A i \in DOMAIN a.pending : Own(a.pending[i])
         /\ a.pending # <<>> => a.total = a.pending[Len(a.pending)].total
         /\ ~a.degraded =>
              /\ a.floor > 0 => base + a.floor <= ended
              /\ \A i, j \in DOMAIN a.pending : i < j => a.pending[i].n < a.pending[j].n
         /\ ~a.degraded => PlayedFrames(timeline) <= Heard
<1> DEFINE a == Advanced(timeline)
           p == timeline.pending
<1>1. /\ p \in Seq(Records) /\ Len(p) \in Nat /\ DOMAIN p = 1 .. Len(p)
      /\ \A i \in 1 .. Len(p) : p[i].n \in Nat /\ p[i].total \in Nat
      /\ base \in Nat /\ submitted \in Nat /\ ended \in 0 .. submitted /\ total \in Nat
      /\ timeline.floor \in Nat
  <2>1. timeline \in Timelines
    BY DEF CallbackInv, TypeOK, Timelines
  <2>2. p \in Seq(Records) /\ timeline.floor \in Nat
    BY <2>1 DEF Timelines
  <2> HIDE DEF p
  <2>3. \A i \in 1 .. Len(p) : p[i] \in Records
    BY <2>2
  <2>4. Len(p) \in Nat /\ DOMAIN p = 1 .. Len(p)
    BY <2>2
  <2>5. \A i \in 1 .. Len(p) : p[i].n \in Nat /\ p[i].total \in Nat
    BY <2>3 DEF Records
  <2>6. base \in Nat /\ submitted \in Nat /\ ended \in 0 .. submitted /\ total \in Nat
    BY DEF CallbackInv, TypeOK
  <2> QED BY <2>2, <2>4, <2>5, <2>6
<1>2. \A i \in 1 .. Len(p) : Own(p[i])
  BY <1>1 DEF OwnInv, OwnRecords
<1>3. p # <<>> => timeline.total = p[Len(p)].total
  BY DEF OwnInv, OwnRecords
<1>4. ~timeline.degraded =>
        /\ timeline.floor > 0 => base + timeline.floor <= ended
        /\ \A i, j \in 1 .. Len(p) : i < j => p[i].n < p[j].n
  BY <1>1 DEF OwnInv, OwnPosition
<1>5. started \in {ended, ended + 1} /\ started <= submitted
  BY <1>1, StartedIs DEF CallbackInv
<1>6. PICK k \in 0 .. Len(p) :
        /\ \A i \in 1 .. k : Over(timeline, i)
        /\ k < Len(p) => ~Over(timeline, k + 1)
        /\ a.pending = SubSeq(p, k + 1, Len(p))
        /\ a.floor = timeline.floor \/ \E i \in 1 .. k : a.floor = p[i].total
  BY AdvancedIs
<1>7. /\ a.total = timeline.total /\ a.degraded = timeline.degraded
      /\ a.floor \in Nat
  BY SMTT(60), AdvancedIs DEF Timelines
<1> HIDE DEF a, p
<1>8. /\ a.pending \in Seq(Records)
      /\ Len(a.pending) = Len(p) - k /\ DOMAIN a.pending = 1 .. Len(p) - k
      /\ \A i \in 1 .. Len(p) - k : a.pending[i] = p[k + i] /\ k + i \in 1 .. Len(p)
  <2>1. p \in Seq(Records) /\ k \in 0 .. Len(p)
    BY <1>1
  <2> DEFINE rest == SubSeq(p, k + 1, Len(p))
  <2>2. /\ rest \in Seq(Records) /\ Len(rest) = Len(p) - k /\ DOMAIN rest = 1 .. Len(p) - k
        /\ \A i \in 1 .. Len(p) - k : rest[i] = p[k + i] /\ k + i \in 1 .. Len(p)
    BY <2>1, DropFront
  <2>3. a.pending = rest
    BY <1>6
  <2> QED BY <2>2, <2>3, Zenon
<1>9. \A i \in DOMAIN a.pending : Own(a.pending[i])
  <2> SUFFICES ASSUME NEW i \in 1 .. Len(p) - k PROVE Own(a.pending[i])
    BY <1>8, Zenon
  <2>1. a.pending[i] = p[k + i] /\ k + i \in 1 .. Len(p)
    BY <1>8, Zenon
  <2>2. Own(p[k + i])
    BY <1>2, <2>1, Zenon
  <2> QED BY <2>1, <2>2, Zenon
<1>10. a.pending # <<>> => a.total = a.pending[Len(a.pending)].total
  <2> SUFFICES ASSUME a.pending # <<>> PROVE a.total = a.pending[Len(a.pending)].total
    OBVIOUS
  <2>0. Len(p) \in Nat /\ k \in Nat /\ k <= Len(p)
    BY <1>1
  <2>1. Len(p) - k > 0
    <3>1. Len(p) - k # 0
      BY <1>8, EmptySeq
    <3> QED BY <2>0, <3>1
  <2>2. a.pending[Len(p) - k] = p[k + (Len(p) - k)] /\ k + (Len(p) - k) = Len(p)
    <3>1. Len(p) - k \in 1 .. Len(p) - k /\ k + (Len(p) - k) = Len(p)
      BY <2>0, <2>1
    <3> QED BY <1>8, <3>1, Zenon
  <2>3. p # <<>>
    BY <1>1, <1>6, <2>1
  <2> QED BY <1>3, <1>7, <1>8, <2>2, <2>3
<1>11. ASSUME ~a.degraded, a.floor > 0 PROVE base + a.floor <= ended
  <2>1. CASE a.floor = timeline.floor
    BY <1>4, <1>7, <1>11, <2>1
  <2>2. CASE \E i \in 1 .. k : a.floor = p[i].total
    <3>1. PICK i \in 1 .. k : a.floor = p[i].total
      BY <2>2
    <3>2. i \in 1 .. Len(p) /\ p[i].n = base + p[i].total
      BY <1>1, <1>2, <1>6 DEF Own
    <3>3. p[i].n <= ended \/ (i < Len(p) /\ p[i + 1].n <= started)
      BY <1>6 DEF Over, p
    <3>4. i < Len(p) => p[i].n < p[i + 1].n
      BY <1>1, <1>4, <1>7, <1>11, <3>2
    <3>5. p[i].n <= ended
      BY SMTT(60), <1>1, <1>5, <3>2, <3>3, <3>4
    <3> QED BY <1>1, <3>1, <3>2, <3>5
  <2> QED BY <1>6, <2>1, <2>2
<1>12. ~a.degraded => \A i, j \in DOMAIN a.pending : i < j => a.pending[i].n < a.pending[j].n
  <2> SUFFICES ASSUME ~a.degraded, NEW i \in 1 .. Len(p) - k, NEW j \in 1 .. Len(p) - k, i < j
               PROVE  a.pending[i].n < a.pending[j].n
    BY <1>8
  <2>1. k + i \in 1 .. Len(p) /\ k + j \in 1 .. Len(p)
    BY <1>8
  <2>2. k \in Nat /\ i \in Nat /\ j \in Nat
    BY <1>1
  <2>3. k + i < k + j
    BY <2>2
  <2> QED BY <1>4, <1>7, <1>8, <2>1, <2>3
<1>13. ASSUME ~a.degraded PROVE PlayedFrames(timeline) <= Heard
  <2>1. CASE a.pending = <<>> \/ a.pending[1].n > started
    <3>1. PlayedFrames(timeline) = 2 * a.floor
      BY <2>1 DEF PlayedFrames, a
    <3>2. a.floor > 0 => base + a.floor <= ended
      BY <1>11, <1>13
    <3> QED BY <1>1, <1>5, <1>7, <3>1, <3>2 DEF Heard
  <2>2. CASE ~(a.pending = <<>> \/ a.pending[1].n > started)
    <3>1. PlayedFrames(timeline) = 2 * (a.pending[1].total - 1) + 1
      BY <1>13, <2>2 DEF PlayedFrames, a
    <3>2. k < Len(p) /\ a.pending[1] = p[k + 1] /\ k + 1 \in 1 .. Len(p)
      <4>0. Len(p) \in Nat /\ k \in Nat /\ k <= Len(p)
        BY <1>1
      <4>1. Len(p) - k # 0
        BY <2>2, <1>8, EmptySeq
      <4>2. k < Len(p) /\ k + 1 \in 1 .. Len(p) /\ 1 \in 1 .. Len(p) - k
        BY <4>0, <4>1
      <4> QED BY <1>8, <4>2, Zenon
    <3>3. p[k + 1].n > ended
      BY <1>1, <1>6, <3>2 DEF Over, p
    <3>4. p[k + 1].total >= 1 /\ p[k + 1].n = base + p[k + 1].total
      BY <1>1, <1>2, <3>2 DEF Own
    <3>5. p[k + 1].n = ended + 1 /\ started = ended + 1
      BY <1>1, <1>5, <2>2, <3>2, <3>3
    <3> QED BY SMTT(60), <1>1, <3>1, <3>2, <3>4, <3>5 DEF Heard
  <2> QED BY <2>1, <2>2
<1> QED BY <1>9, <1>10, <1>11, <1>12, <1>13 DEF a

(* A fill begins: the span it could not publish goes into the ring first. *)
LEMMA OwnFillBegins ==
  ASSUME CallbackInv, mode # "none", OwnInv, FillBegin
  PROVE  OwnInv'
<1>1. control.gen = gen /\ cgen = gen
  BY DEF CallbackInv, HandshakeInv, EpochInv, OwnInv, OwnRecords
<1>2. UNCHANGED <<spansDropped, cgen, gen, total, base, submitted, ended, timeline, voided,
                  pcm, pushed, wait>>
  BY <1>1 DEF FillBegin, words, session, position
<1>3. CASE UNCHANGED <<spans, late>>
  BY <1>2, <1>3, OwnStandsStill DEF OwnInv, OwnRecords
<1>4. CASE late # NoSpan /\ spans' = Append(spans, late) /\ late' = NoSpan
  <2>1. spans \in Seq(Records) /\ Len(spans) \in Nat /\ late \in Records
    BY DEF CallbackInv, TypeOK
  <2>2. /\ Len(spans') = Len(spans) + 1 /\ DOMAIN spans' = 1 .. Len(spans) + 1
        /\ DOMAIN spans = 1 .. Len(spans)
        /\ \A i \in 1 .. Len(spans) : spans'[i] = spans[i]
        /\ spans'[Len(spans) + 1] = late
    BY <1>4, <2>1
  <2>3. OwnRecords'
    BY <1>2, <1>4, <2>1, <2>2 DEF OwnInv, OwnRecords, Own
  <2>4. OwnPosition' /\ OwnEnd'
    BY <1>2 DEF OwnInv, OwnPosition, OwnEnd, Sure, Heard, started
  <2>5. OwnComplete'
    <3>1. LastPublished' = LastPublished
      BY <1>4, <2>1, <2>2 DEF LastPublished
    <3>2. Doomed => Doomed'
      <4>1. CASE \E i \in DOMAIN spans : spans[i].total <= timeline.total
        BY <1>2, <2>1, <2>2, <4>1 DEF Doomed
      <4>2. CASE \E i, j \in DOMAIN spans : i < j /\ spans[i].total >= spans[j].total
        BY <2>1, <2>2, <4>2 DEF Doomed
      <4>3. CASE late.total <= timeline.total
        BY <1>2, <2>1, <2>2, <4>3 DEF Doomed
      <4>4. CASE \E i \in DOMAIN spans : spans[i].total >= late.total
        <5>1. PICK i \in 1 .. Len(spans) : spans[i].total >= late.total
          BY <2>2, <4>4
        <5>2. i < Len(spans) + 1 /\ Len(spans) + 1 \in DOMAIN spans' /\ i \in DOMAIN spans'
          BY <2>1, <2>2
        <5> QED BY <2>2, <5>1, <5>2 DEF Doomed
      <4> QED BY <4>1, <4>2, <4>3, <4>4 DEF Doomed
    <3> QED BY <1>2, <3>1, <3>2 DEF OwnInv, OwnComplete, Sure
  <2> QED BY <2>3, <2>4, <2>5 DEF OwnInv
<1> QED BY <1>3, <1>4 DEF FillBegin

(* What has been heard grows with what the device has begun. *)
LEMMA HeardGrows ==
  ASSUME NEW b \in Nat, NEW e \in Nat, NEW s \in {e, e + 1}, NEW t \in {e, e + 1}, s <= t
  PROVE  (IF t <= b THEN 0 ELSE (e - b) + (t - b)) >= (IF s <= b THEN 0 ELSE (e - b) + (s - b))
OBVIOUS

(* A frame is played, and its span published behind the ones there are; ahead *)
(* of the one held back when the worker has made room in between.             *)
LEMMA OwnPlays ==
  ASSUME CallbackInv, mode # "none", OwnInv, FillRun
  PROVE  OwnInv'
<1> DEFINE r == [gen |-> ctl.gen, total |-> total + 1, n |-> submitted + 1]
<1>1. /\ ctl.gen = gen /\ cgen = gen /\ r \in Records
      /\ base \in Nat /\ total \in Nat /\ submitted = base + total /\ ended \in 0 .. submitted
  BY DEF FillRun, CallbackInv, HandshakeInv, EpochInv, OwnInv, OwnRecords, TypeOK, Records, Words
<1>2. UNCHANGED <<cgen, gen, base, ended, timeline, voided, pushed, wait>>
  BY DEF FillRun, session, position
<1>3. CASE pcm = <<>>
  <2>1. UNCHANGED <<spans, late, spansDropped, total, submitted, pcm>>
    BY <1>3 DEF FillRun
  <2> QED BY <1>2, <2>1, OwnStandsStill DEF OwnInv, OwnRecords
<1>4. CASE pcm # <<>>
  <2>1. /\ total' = total + 1 /\ submitted' = submitted + 1 /\ pcm' = Tail(pcm)
        /\ \/ Len(spans) < SpanCap /\ spans' = Append(spans, r) /\ UNCHANGED <<late, spansDropped>>
           \/ late' = r /\ spans' = spans /\ spansDropped' = (spansDropped \/ late # NoSpan)
    BY <1>4 DEF FillRun, Publish
  <2>2. /\ spans \in Seq(Records) /\ Len(spans) \in Nat /\ late \in Records
        /\ DOMAIN spans = 1 .. Len(spans)
    BY DEF CallbackInv, TypeOK
  <2>3. /\ r.gen = gen /\ r.total = total' /\ r.n = base + total'
    BY <1>1, <2>1
  <2> HIDE DEF r
  <2>4. spans' = Append(spans, r) =>
          /\ Len(spans') = Len(spans) + 1 /\ DOMAIN spans' = 1 .. Len(spans) + 1
          /\ \A i \in 1 .. Len(spans) : spans'[i] = spans[i]
          /\ spans'[Len(spans) + 1] = r
    BY <1>1, <2>2
  <2>5. \A q : Own(q) => Own(q)'
    BY <1>1, <1>2, <2>1 DEF Own
  <2>6. r.gen = gen' /\ r.total \in 1 .. total' /\ r.n = base' + r.total
    BY <1>1, <1>2, <2>1, <2>3
  <2>7. OwnRecords'
    <3>1. \A i \in DOMAIN spans' : spans'[i].gen = gen' /\ spans'[i].total \in 1 .. total'
                                  /\ spans'[i].n = base' + spans'[i].total
      <4>1. \A i \in 1 .. Len(spans) : Own(spans[i])
        BY <2>2 DEF OwnInv, OwnRecords
      <4>2. \A i \in 1 .. Len(spans) : spans[i].gen = gen' /\ spans[i].total \in 1 .. total'
                                     /\ spans[i].n = base' + spans[i].total
        BY <1>1, <1>2, <2>1, <4>1 DEF Own
      <4> QED BY SMTT(60), <2>1, <2>2, <2>4, <2>6, <4>2
    <3>2. late' # NoSpan => late'.gen = gen' /\ late'.total \in 1 .. total'
                              /\ late'.n = base' + late'.total
      BY <1>1, <1>2, <2>1, <2>6 DEF OwnInv, OwnRecords, Own
    <3>3. \A i \in DOMAIN timeline.pending :
              LET q == timeline.pending[i]
              IN q.gen = gen' /\ q.total \in 1 .. total' /\ q.n = base' + q.total
      BY <1>1, <1>2, <2>1 DEF OwnInv, OwnRecords, Own
    <3>4. timeline.total \in Nat /\ pcm \in Seq(Generation) /\ pushed \in Nat
      BY DEF CallbackInv, TypeOK
    <3>5. Len(Tail(pcm)) = Len(pcm) - 1 /\ \A i \in DOMAIN Tail(pcm) : Tail(pcm)[i] = gen
      BY <1>4, <3>4 DEF OwnInv, OwnRecords
    <3>6. timeline.total <= total' /\ Len(pcm') + total' <= pushed
      <4>1. Len(pcm) + total <= pushed /\ Len(pcm) \in Nat /\ timeline.total <= total
        BY <3>4 DEF OwnInv, OwnRecords
      <4>2. Len(pcm') = Len(pcm) - 1 /\ total' = total + 1
        BY <2>1, <3>5
      <4>3. Len(pcm') + total' = Len(pcm) + total
        BY <1>1, <4>1, <4>2
      <4> QED BY <1>1, <3>4, <4>1, <4>2, <4>3
    <3> QED BY <1>1, <1>2, <2>1, <3>1, <3>2, <3>3, <3>5, <3>6 DEF OwnInv, OwnRecords, Own
  <2>8. OwnPosition'
    BY <1>2 DEF OwnInv, OwnPosition
  <2>9. OwnComplete'
    <3> SUFFICES ASSUME wait \notin {"discard", "close"}, Sure, ~spansDropped'
                 PROVE  (Doomed \/ LastPublished = total)'
      BY <1>2 DEF OwnComplete, Sure
    <3>1. r # NoSpan
      BY <1>1, <2>6 DEF NoSpan
    <3>2. CASE late' = r
      BY <2>3, <3>1, <3>2 DEF LastPublished
    <3>3. CASE late' = late /\ late = NoSpan /\ spans' = Append(spans, r)
      <4>1. spans' # <<>> /\ spans'[Len(spans')] = r
        BY <2>2, <2>4, <3>3
      <4> QED BY <2>3, <3>3, <4>1 DEF LastPublished
    <3>4. CASE late' = late /\ late # NoSpan /\ spans' = Append(spans, r)
      <4>1. late.total <= total
        BY <1>1, <3>4 DEF OwnInv, OwnRecords, Own
      <4>2. r.total >= late.total /\ Len(spans) + 1 \in DOMAIN spans'
        <5>1. late.total \in Nat /\ r.total = total + 1
          BY <2>1, <2>2, <2>3 DEF Records
        <5> QED BY <1>1, <2>2, <2>4, <3>4, <4>1, <5>1
      <4> QED BY <2>4, <3>4, <4>2 DEF Doomed
    <3> QED BY <2>1, <3>2, <3>3, <3>4
  <2>10. OwnEnd'
    <3>1. Heard' >= Heard
      <4>1. started \in {ended, ended + 1} /\ started' \in {ended, ended + 1} /\ started <= started'
        <5>1. started = IF submitted <= ended THEN submitted ELSE ended + 1
          BY StartedIs DEF CallbackInv
        <5>2. started' = IF submitted' <= ended' THEN submitted' ELSE ended' + 1
          <6>1. submitted' \in Nat /\ ended' + 1 \in Nat /\ ended' \in Nat
            BY <1>1, <1>2, <2>1
          <6> QED BY <6>1, MinOfTwo DEF started
        <5> QED BY <1>1, <1>2, <2>1, <5>1, <5>2
      <4>2. started' \in Nat /\ started \in Nat /\ base' = base /\ ended' = ended
        BY <1>1, <1>2, <4>1, <2>1, MinOfTwo DEF started
      <4>3. ended \in Nat /\ base \in Nat
        BY <1>1
      <4> DEFINE H(s) == IF s <= base THEN 0 ELSE (ended - base) + (s - base)
      <4>4. H(started') >= H(started)
        <5>1. PICK s : s = started
          OBVIOUS
        <5>2. PICK t : t = started'
          OBVIOUS
        <5>3. s \in {ended, ended + 1} /\ t \in {ended, ended + 1} /\ s <= t
          BY <4>1, <5>1, <5>2
        <5>4. H(t) >= H(s)
          BY <4>3, <5>3, HeardGrows
        <5> QED BY <5>1, <5>2, <5>4
      <4>5. Heard = H(started)
        BY DEF Heard
      <4>6. Heard' = H(started')
        BY <4>2 DEF Heard
      <4> HIDE DEF H
      <4> QED BY <4>4, <4>5, <4>6
    <3>2. Heard \in Int /\ Heard' \in Int /\ Frames \in Nat
      BY <1>1, <1>2, <2>1, MinOfTwo, HandshakeAssumption DEF Heard, started
    <3>3. OwnEnd /\ Sure' = Sure /\ wait' = wait
      BY <1>2 DEF OwnInv, Sure
    <3> QED BY <3>1, <3>2, <3>3 DEF OwnEnd
  <2> QED BY <2>7, <2>8, <2>9, <2>10 DEF OwnInv
<1> QED BY <1>3, <1>4

(* The worker takes the first record out of the ring: into the timeline, or    *)
(* nowhere while it discards.                                                 *)
LEMMA OwnDrains ==
  ASSUME CallbackInv, mode # "none", OwnInv, Drain
  PROVE  OwnInv'
<1> DEFINE h == Head(spans)
<1>1. /\ UNCHANGED <<late, spansDropped, cgen, gen, total, base, submitted, ended, voided,
                     pcm, pushed, wait>>
      /\ spans # <<>> /\ spans' = Tail(spans)
      /\ \/ timeline' = timeline /\ wait \notin Preserving /\ wpc = "drain"
         \/ timeline' = Accept(timeline, h)
  BY DEF Drain, callback, device, session
<1>2. /\ spans \in Seq(Records) /\ Len(spans) \in Nat /\ Len(spans) >= 1 /\ h = spans[1]
      /\ DOMAIN spans = 1 .. Len(spans) /\ DOMAIN spans' = 1 .. Len(spans) - 1
      /\ Len(spans') = Len(spans) - 1
      /\ \A i \in 1 .. Len(spans) - 1 : spans'[i] = spans[i + 1] /\ i + 1 \in 1 .. Len(spans)
  <2>1. spans \in Seq(Records) /\ spans # <<>>
    BY <1>1 DEF CallbackInv, TypeOK
  <2> QED BY <1>1, <2>1
<1>3. /\ \A i \in 1 .. Len(spans) : Own(spans[i]) /\ spans[i] \in Records
      /\ Own(h) /\ h \in Records
  BY <1>2 DEF OwnInv, OwnRecords
<1>4. /\ timeline \in Timelines /\ timeline.gen = gen /\ base \in Nat /\ total \in Nat
      /\ timeline.total \in Nat /\ timeline.pending \in Seq(Records)
  BY DEF CallbackInv, TypeOK, TimelineGen, Timelines
<1> HIDE DEF h
<1>6. \A i \in DOMAIN spans' : Own(spans'[i])
  BY <1>2, <1>3
<1>7. CASE timeline' = timeline /\ wait \notin Preserving /\ wpc = "drain"
  <2>1. OwnRecords'
    BY <1>1, <1>6, <1>7 DEF OwnInv, OwnRecords, Own
  <2>2. wait = "discard"
    BY <1>7 DEF OwnInv, OwnRecords, CallbackInv, HandshakeInv, PlaceInv, TypeOK, Preserving
  <2>3. OwnPosition' /\ OwnComplete' /\ OwnEnd'
    BY <1>1, <1>7, <2>2 DEF OwnInv, OwnPosition, OwnComplete, OwnEnd
  <2> QED BY <2>1, <2>3 DEF OwnInv
<1>8. CASE timeline' = Accept(timeline, h)
  <2> DEFINE t == timeline  u == timeline'
  <2>1. /\ u.gen = gen /\ u.floor = t.floor /\ u.total = h.total /\ u.last = h.n
        /\ u.pending = Append(t.pending, h)
        /\ u.degraded = (t.degraded \/ (t.total > 0 /\ ~(h.total - 1 >= t.total /\ h.n > t.last)))
    <3>1. h.gen = timeline.gen
      BY <1>3, <1>4 DEF Own
    <3> QED BY <1>3, <1>4, <1>8, <3>1, AcceptIs
  <2>2. /\ Len(t.pending) \in Nat /\ DOMAIN t.pending = 1 .. Len(t.pending)
        /\ Len(u.pending) = Len(t.pending) + 1 /\ DOMAIN u.pending = 1 .. Len(t.pending) + 1
        /\ \A i \in 1 .. Len(t.pending) : u.pending[i] = t.pending[i]
        /\ u.pending[Len(t.pending) + 1] = h
    BY <1>3, <1>4, <2>1
  <2>3. /\ \A i \in 1 .. Len(t.pending) : Own(t.pending[i])
        /\ t.total > 0 => t.last = base + t.total
        /\ t.pending # <<>> => t.total = t.pending[Len(t.pending)].total
    BY <2>2 DEF OwnInv, OwnRecords
  <2>4. h.gen = gen /\ h.total \in 1 .. total /\ h.n = base + h.total
    BY <1>3 DEF Own
  <2>5. OwnRecords'
    <3>1. \A i \in DOMAIN u.pending : Own(u.pending[i])
      <4>1. Own(u.pending[Len(t.pending) + 1])
        BY <1>3, <2>2
      <4>2. \A i \in 1 .. Len(t.pending) : Own(u.pending[i])
        BY <2>2, <2>3
      <4>3. \A i \in 1 .. Len(t.pending) + 1 : i = Len(t.pending) + 1 \/ i \in 1 .. Len(t.pending)
        BY <2>2
      <4> QED BY <2>2, <4>1, <4>2, <4>3
    <3>2. /\ u.total <= total' /\ u.last = base' + u.total
          /\ u.pending # <<>> => u.total = u.pending[Len(u.pending)].total
      BY <1>1, <1>4, <2>1, <2>2, <2>4
    <3>3. late # NoSpan => Own(late)
      BY DEF OwnInv, OwnRecords
    <3> QED BY <1>1, <1>6, <3>1, <3>2, <3>3 DEF OwnInv, OwnRecords, Own
  <2>6. OwnPosition'
    <3> SUFFICES ASSUME ~u.degraded
                 PROVE  /\ u.floor > 0 => base + u.floor <= ended
                        /\ \A i, j \in DOMAIN u.pending :
                              i < j => u.pending[i].n < u.pending[j].n
      BY <1>1 DEF OwnPosition
    <3>1. ~t.degraded /\ (t.total > 0 => h.n > t.last)
      BY <2>1
    <3>2. /\ t.floor > 0 => base + t.floor <= ended
          /\ \A i, j \in 1 .. Len(t.pending) : i < j => t.pending[i].n < t.pending[j].n
      BY <2>2, <3>1 DEF OwnInv, OwnPosition
    <3>3. ASSUME NEW i \in 1 .. Len(t.pending) PROVE t.pending[i].n < h.n
      <4>1. t.pending # <<>> /\ Len(t.pending) \in 1 .. Len(t.pending)
        BY <2>2
      <4>2. LET q == t.pending[Len(t.pending)]
            IN t.total = q.total /\ q.total >= 1 /\ q.n = base + q.total /\ q.total \in Nat
        BY <1>4, <2>3, <4>1 DEF Own
      <4>3. t.pending[Len(t.pending)].n < h.n
        BY <1>4, <2>3, <2>4, <3>1, <4>2
      <4>4. CASE i = Len(t.pending)
        BY <4>3, <4>4
      <4>5. CASE i < Len(t.pending)
        <5>1. t.pending[i].n < t.pending[Len(t.pending)].n
          BY <3>2, <4>1, <4>5
        <5>2. t.pending[i].n \in Nat /\ t.pending[Len(t.pending)].n \in Nat /\ h.n \in Nat
          <6>1. Own(t.pending[i]) /\ Own(t.pending[Len(t.pending)])
            BY <2>3, <4>1
          <6>2. \A q : Own(q) => q.n \in Nat
            BY <1>4 DEF Own
          <6> QED BY <1>3, <6>1, <6>2
        <5> QED BY <4>3, <5>1, <5>2
      <4> QED BY <2>2, <4>4, <4>5
    <3>4. ASSUME NEW i \in 1 .. Len(t.pending) + 1, NEW j \in 1 .. Len(t.pending) + 1, i < j
          PROVE  u.pending[i].n < u.pending[j].n
      <4>1. i \in 1 .. Len(t.pending)
        BY <2>2, <3>4
      <4>2. CASE j = Len(t.pending) + 1
        BY <2>2, <3>3, <4>1, <4>2
      <4>3. CASE j \in 1 .. Len(t.pending)
        BY <2>2, <3>2, <3>4, <4>1, <4>3
      <4> QED BY <2>2, <4>2, <4>3
    <3> QED BY <2>1, <2>2, <3>2, <3>4
  <2>7. OwnComplete'
    <3> SUFFICES ASSUME wait \notin {"discard", "close"}, ~u.degraded, ~voided, ~spansDropped
                 PROVE  (Doomed \/ LastPublished = total)'
      BY <1>1 DEF OwnComplete, Sure
    <3>1. ~t.degraded /\ (t.total > 0 => h.total > t.total)
      <4>1. ~t.degraded /\ (t.total > 0 => h.total - 1 >= t.total)
        BY <2>1
      <4> QED BY <1>4, <2>4, <4>1
    <3>2. Doomed \/ LastPublished = total
      BY <3>1 DEF OwnInv, OwnComplete, Sure
    <3>3. CASE Doomed
      <4>1. ASSUME NEW i \in 1 .. Len(spans), spans[i].total <= h.total, i # 1
            PROVE  Doomed'
        <5>1. i - 1 \in 1 .. Len(spans) - 1
          BY <1>2, <4>1
        <5>2. spans'[i - 1] = spans[i]
          BY <1>2, <5>1
        <5> QED BY <1>2, <2>1, <4>1, <5>1, <5>2 DEF Doomed
      <4>2. ASSUME NEW i \in 1 .. Len(spans), spans[i].total <= t.total PROVE Doomed'
        <5>1. spans[i].total \in 1 .. total
          BY <1>3 DEF Own
        <5>2. h.total > t.total
          BY <1>4, <3>1, <4>2, <5>1
        <5>3. i # 1 /\ spans[i].total <= h.total
          BY <1>2, <1>4, <2>4, <4>2, <5>1, <5>2
        <5> QED BY <4>1, <5>3
      <4>3. ASSUME NEW i \in 1 .. Len(spans), NEW j \in 1 .. Len(spans), i < j,
                   spans[i].total >= spans[j].total
            PROVE  Doomed'
        <5>1. CASE i = 1
          BY <1>2, <1>4, <4>1, <4>3, <5>1
        <5>2. CASE i # 1
          <6>1. i - 1 \in 1 .. Len(spans) - 1 /\ j - 1 \in 1 .. Len(spans) - 1 /\ i - 1 < j - 1
            BY <1>2, <4>3, <5>2
          <6>2. spans'[i - 1] = spans[i] /\ spans'[j - 1] = spans[j]
            BY <1>2, <6>1
          <6> QED BY <1>2, <4>3, <6>1, <6>2 DEF Doomed
        <5> QED BY <5>1, <5>2
      <4>4. ASSUME late # NoSpan, late.total <= t.total PROVE Doomed'
        <5>1. late.total \in 1 .. total
          BY <4>4 DEF OwnInv, OwnRecords, Own
        <5>2. late.total <= h.total
          BY <1>4, <2>4, <3>1, <4>4, <5>1
        <5> QED BY <1>1, <2>1, <4>4, <5>2 DEF Doomed
      <4>5. ASSUME late # NoSpan, NEW i \in 1 .. Len(spans), spans[i].total >= late.total
            PROVE  Doomed'
        <5>1. CASE i = 1
          BY <1>1, <1>2, <2>1, <4>5, <5>1 DEF Doomed
        <5>2. CASE i # 1
          <6>1. i - 1 \in 1 .. Len(spans) - 1
            BY <1>2, <5>2
          <6>2. spans'[i - 1] = spans[i]
            BY <1>2, <6>1
          <6> QED BY <1>1, <1>2, <4>5, <6>1, <6>2 DEF Doomed
        <5> QED BY <5>1, <5>2
      <4> QED BY <1>2, <3>3, <4>2, <4>3, <4>4, <4>5 DEF Doomed
    <3>4. CASE LastPublished = total
      <4>1. CASE late # NoSpan
        BY <1>1, <3>4, <4>1 DEF LastPublished
      <4>2. CASE late = NoSpan /\ Len(spans) = 1
        <5>1. spans' = <<>> /\ spans[Len(spans)] = h
          BY <1>2, <4>2
        <5> QED BY <1>1, <1>2, <2>1, <3>4, <4>2, <5>1 DEF LastPublished
      <4>3. CASE late = NoSpan /\ Len(spans) > 1
        <5>1. spans' # <<>> /\ spans'[Len(spans')] = spans[Len(spans)]
          <6>1. Len(spans) - 1 \in 1 .. Len(spans) - 1
            BY <1>2, <4>3
          <6>2. spans'[Len(spans) - 1] = spans[(Len(spans) - 1) + 1]
            BY <1>2, <6>1
          <6> QED BY <1>2, <6>1, <6>2
        <5> QED BY <1>1, <3>4, <4>3, <5>1 DEF LastPublished
      <4> QED BY <1>2, <4>1, <4>2, <4>3
    <3> QED BY <3>2, <3>3, <3>4
  <2>8. OwnEnd'
    <3>1. u.degraded \/ ~t.degraded
      BY <2>1
    <3>2. Heard' = Heard
      BY <1>1 DEF Heard, started
    <3> HIDE DEF t, u
    <3> QED BY <1>1, <3>1, <3>2 DEF OwnInv, OwnEnd, Sure, t, u
  <2> QED BY <2>5, <2>6, <2>7, <2>8 DEF OwnInv
<1> QED BY <1>1, <1>7, <1>8

(* The counters are taken: a lost span degrades the timeline. *)
LEMMA OwnNotes ==
  ASSUME CallbackInv, OwnInv, timeline' = NoteDropped(timeline), spansDropped' = FALSE,
         UNCHANGED <<spans, late, cgen, gen, total, base, submitted, ended, voided, pcm,
                     pushed, wait>>
  PROVE  OwnInv'
<1>1. timeline \in Timelines /\ spansDropped \in BOOLEAN
  BY DEF CallbackInv, TypeOK, Timelines
<1>2. /\ timeline'.floor = timeline.floor /\ timeline'.total = timeline.total
      /\ timeline'.last = timeline.last /\ timeline'.pending = timeline.pending
      /\ timeline'.degraded = (timeline.degraded \/ spansDropped)
  BY <1>1, NoteDroppedIs
<1>3. OwnRecords'
  BY <1>2 DEF OwnInv, OwnRecords, Own
<1>4. OwnPosition'
  BY <1>2 DEF OwnInv, OwnPosition
<1>5. OwnComplete'
  BY <1>2 DEF OwnInv, OwnComplete, Doomed, LastPublished, Sure
<1>6. OwnEnd'
  BY <1>2 DEF OwnInv, OwnEnd, Heard, started, Sure
<1> QED BY <1>3, <1>4, <1>5, <1>6 DEF OwnInv

(* The timeline is advanced: at the end of a track, when it was just found    *)
(* that all of it was heard.                                                  *)
LEMMA OwnTakes ==
  ASSUME CallbackInv, mode # "none", OwnInv, timeline' = Advanced(timeline),
         UNCHANGED <<spans, late, spansDropped, cgen, gen, total, base, submitted, ended, voided,
                     pcm, pushed>>,
         wait' # "install", wait' # "end" \/ EndOfTrack,
         wait' \in {"discard", "close"} \/ wait \notin {"discard", "close"}
  PROVE  OwnInv'
<1>1. /\ timeline'.total = timeline.total /\ timeline'.last = timeline.last
      /\ timeline'.degraded = timeline.degraded
  BY AdvancedIs
<1>2. /\ \A i \in DOMAIN timeline'.pending : Own(timeline'.pending[i])
      /\ timeline'.pending # <<>> =>
           timeline'.total = timeline'.pending[Len(timeline'.pending)].total
      /\ ~timeline'.degraded =>
           /\ timeline'.floor > 0 => base + timeline'.floor <= ended
           /\ \A i, j \in DOMAIN timeline'.pending :
                i < j => timeline'.pending[i].n < timeline'.pending[j].n
      /\ ~timeline'.degraded => PlayedFrames(timeline) <= Heard
  BY OwnAdvances
<1>3. OwnRecords'
  BY <1>1, <1>2 DEF OwnInv, OwnRecords, Own
<1>4. OwnPosition'
  BY <1>2 DEF OwnPosition
<1>5. OwnComplete'
  BY <1>1 DEF OwnInv, OwnComplete, Doomed, LastPublished, Sure
<1>6. ASSUME Sure', wait' = "end" PROVE Heard' >= 2 * Frames
  <2>1. PlayedFrames(timeline) <= Heard
    BY <1>2, <1>6 DEF Sure
  <2>2. PlayedFrames(timeline) >= 2 * Frames
    BY <1>6 DEF EndOfTrack
  <2>3. Heard' = Heard
    BY DEF Heard, started
  <2>4. Heard \in Int /\ Frames \in Int
    <3>1. submitted \in Nat /\ ended \in Nat /\ ended + 1 \in Nat /\ base \in Nat
      BY DEF CallbackInv, TypeOK
    <3>2. started \in Nat
      BY <3>1, MinOfTwo DEF started
    <3> QED BY <3>1, <3>2, HandshakeAssumption DEF Heard
  <2>5. PlayedFrames(timeline) \in Int
    <3>1. Advanced(timeline) \in Timelines /\ Advanced(timeline).floor \in Int
      BY AdvancedIs DEF Timelines
    <3>2. Advanced(timeline).pending # <<>> => Advanced(timeline).pending[1] \in Records
      BY <3>1 DEF Timelines
    <3> QED BY SMTT(60), <3>1, <3>2 DEF PlayedFrames, Records
  <2> QED BY <2>1, <2>2, <2>3, <2>4, <2>5
<1> QED BY <1>3, <1>4, <1>5, <1>6 DEF OwnInv, OwnEnd

(* The device plays on. *)
LEMMA OwnPlaysOut ==
  ASSUME CallbackInv, OwnInv, PlaysOut
  PROVE  OwnInv'
<1>1. /\ ended' = ended + 1 /\ ended < submitted
      /\ UNCHANGED <<spans, late, spansDropped, cgen, gen, total, base, submitted, timeline,
                     voided, pcm, pushed, wait>>
  BY DEF PlaysOut, rings, callback, session, position
<1>2. /\ ended \in Nat /\ submitted \in Nat /\ base \in Nat /\ Frames \in Nat
      /\ timeline.floor \in Nat
  BY HandshakeAssumption DEF CallbackInv, TypeOK
<1>3. OwnRecords' /\ OwnComplete'
  BY <1>1 DEF OwnInv, OwnRecords, Own, OwnComplete, Doomed, LastPublished, Sure
<1>4. OwnPosition'
  BY <1>1, <1>2 DEF OwnInv, OwnPosition
<1>5. OwnEnd'
  <2>1. PICK e : e = ended + 1
    OBVIOUS
  <2>2. PICK s : s = started
    OBVIOUS
  <2>3. PICK t : t = started'
    OBVIOUS
  <2>4. s = ended + 1 /\ t \in {e, e + 1}
    BY <1>1, <1>2, <2>1, <2>2, <2>3, MinOfTwo DEF started
  <2>5. Heard = IF s <= base THEN 0 ELSE (ended - base) + (s - base)
    BY <2>2 DEF Heard
  <2>6. Heard' = IF t <= base THEN 0 ELSE (e - base) + (t - base)
    BY <1>1, <2>1, <2>3 DEF Heard
  <2>7. ASSUME Heard >= 2 * Frames PROVE Heard' >= 2 * Frames
    BY <1>2, <2>1, <2>4, <2>5, <2>6, <2>7
  <2> QED BY <1>1, <2>7 DEF OwnInv, OwnEnd, Sure
<1> QED BY <1>3, <1>4, <1>5 DEF OwnInv

(* A frame is decoded into the PCM ring. *)
LEMMA OwnPushes ==
  ASSUME CallbackInv, OwnInv, Push
  PROVE  OwnInv'
<1>1. /\ pcm' = Append(pcm, gen) /\ pushed' = pushed + 1
      /\ UNCHANGED <<spans, late, spansDropped, cgen, gen, total, base, submitted, ended,
                     timeline, voided, wait>>
  BY DEF Push, callback, device, position
<1>2. pcm \in Seq(Generation) /\ pushed \in Nat /\ total \in Nat /\ gen \in Generation
  BY DEF CallbackInv, TypeOK
<1>3. /\ Len(pcm) \in Nat /\ Len(pcm') = Len(pcm) + 1 /\ DOMAIN pcm' = 1 .. Len(pcm) + 1
      /\ \A i \in 1 .. Len(pcm) : pcm'[i] = pcm[i]
      /\ pcm'[Len(pcm) + 1] = gen /\ DOMAIN pcm = 1 .. Len(pcm)
  BY <1>1, <1>2
<1>4. OwnRecords'
  <2>1. \A i \in DOMAIN pcm' : pcm'[i] = gen
    BY <1>3 DEF OwnInv, OwnRecords
  <2>2. Len(pcm') + total <= pushed'
    BY <1>1, <1>2, <1>3 DEF OwnInv, OwnRecords
  <2> QED BY <1>1, <2>1, <2>2 DEF OwnInv, OwnRecords, Own
<1>5. OwnPosition' /\ OwnComplete' /\ OwnEnd'
  BY <1>1 DEF OwnInv, OwnPosition, OwnComplete, OwnEnd, Doomed, LastPublished, Sure, Heard,
              started
<1> QED BY <1>4, <1>5 DEF OwnInv

(* The callback is let run; when a generation starts its timeline is reset,   *)
(* and what it had is void.                                                   *)
LEMMA OwnRuns ==
  ASSUME CallbackInv, OwnInv, Run
  PROVE  OwnInv'
<1>1. /\ UNCHANGED <<spans, late, spansDropped, cgen, gen, total, base, submitted, ended, pcm,
                     pushed>>
      /\ wait' = "none" /\ wait \in {"start", "release"}
      /\ IF wait = "start"
         THEN timeline' = Fresh(gen) /\ voided' = (voided \/ (cgen = gen /\ total > 0))
         ELSE UNCHANGED <<timeline, voided>>
  BY DEF Run, rings, callback, device, session, CallbackInv, HandshakeInv, PlaceInv
<1>2. CASE wait # "start"
  BY <1>1, <1>2, OwnStandsStill
<1>3. CASE wait = "start"
  <2>1. timeline' = Fresh(gen) /\ total \in Nat /\ cgen = gen /\ spans \in Seq(Records)
    BY <1>1, <1>3 DEF CallbackInv, TypeOK, OwnInv, OwnRecords
  <2>2. /\ timeline'.total = 0 /\ timeline'.floor = 0 /\ timeline'.pending = <<>>
    BY <2>1 DEF Fresh
  <2>3. OwnRecords' /\ OwnPosition' /\ OwnEnd'
    BY <1>1, <2>1, <2>2 DEF OwnInv, OwnRecords, Own, OwnPosition, OwnEnd
  <2>4. OwnComplete'
    <3> SUFFICES ASSUME ~voided' PROVE LastPublished' = total'
      BY DEF OwnComplete, Sure
    <3>1. total = 0
      <4>1. ~(total > 0)
        BY <1>1, <1>3, <2>1, Zenon
      <4> QED BY <2>1, <4>1
    <3>2. \A q : ~Own(q)
      BY <3>1 DEF Own
    <3>3. late = NoSpan /\ (spans # <<>> => 1 \in DOMAIN spans)
      BY <2>1, <3>2 DEF OwnInv, OwnRecords
    <3>4. spans = <<>>
      BY <3>2, <3>3 DEF OwnInv, OwnRecords
    <3> QED BY <1>1, <2>2, <3>1, <3>3, <3>4 DEF LastPublished
  <2> QED BY <2>3, <2>4 DEF OwnInv
<1> QED BY <1>2, <1>3

(* While a generation is installed or the transport goes, nothing is played   *)
(* and the ring empties; the answer to the install finds all of it gone.      *)
LEMMA ForeignStep ==
  ASSUME CallbackInv, [Next]_vars, mode # "none", Foreign
  PROVE  SpansInv'
<1> USE DEF words, callback, device, rings, output, session, position
<1>1. /\ wait \in {"install", "close"} /\ wpc \notin {"idle", "observe", "mapped"}
      /\ wpc = "final" => wait = "close"
      /\ timeline \in Timelines /\ spans \in Seq(Records) /\ timeline.gen = gen
      /\ total \in Nat /\ pushed \in Nat
  BY DEF Foreign, CallbackInv, HandshakeInv, PlaceInv, Preserving, TypeOK, Timelines, TimelineGen
<1>2. CASE FillBegin
  <2>1. Foreign'
    BY <1>1, <1>2 DEF FillBegin, Foreign, Running, CallbackInv, HandshakeInv, PlaceInv
  <2> QED BY <2>1 DEF SpansInv
<1>3. CASE FillSilence
  <2>1. Foreign'
    BY <1>1, <1>3 DEF FillSilence, Foreign, Running, Silent
  <2> QED BY <2>1 DEF SpansInv
<1>4. CASE PlaysOut
  <2>1. Foreign'
    BY <1>4 DEF PlaysOut, Foreign
  <2> QED BY <2>1 DEF SpansInv
<1>5. CASE Drain
  <2>1. Head(spans) \in Records /\ Head(spans).gen # gen
        /\ spans' = Tail(spans) /\ \A i \in DOMAIN Tail(spans) : Tail(spans)[i].gen # gen
    BY <1>1, <1>5 DEF Drain, Foreign
  <2>2. timeline' = timeline
    BY <1>1, <1>5, <2>1, AcceptIs DEF Drain
  <2>3. Foreign'
    BY <1>5, <2>1, <2>2 DEF Drain, Foreign
  <2> QED BY <2>3 DEF SpansInv
<1>6. CASE Drained \/ LookAgain
  <2>1. Foreign'
    BY <1>6 DEF Drained, LookAgain, Foreign
  <2> QED BY <2>1 DEF SpansInv
<1>7. CASE PreservingAcked
  <2>1. /\ timeline'.floor = 0 /\ timeline'.total = 0 /\ timeline'.pending = <<>>
    BY <1>1, <1>7, NoteDroppedIs DEF PreservingAcked, Foreign, CallbackInv, TypeOK
  <2>2. Foreign'
    BY <1>1, <1>7, <2>1 DEF PreservingAcked, Foreign, Preserving
  <2> QED BY <2>2 DEF SpansInv
<1>8. CASE InstallAcked
  <2>1. /\ wait' = "none" /\ spans = <<>>
        /\ UNCHANGED <<spans, late, spansDropped, cgen, gen, total, base, submitted, ended,
                       timeline, voided, pcm, pushed>>
    BY <1>8 DEF InstallAcked, Foreign
  <2>2. cgen = gen /\ total = 0
    BY <1>8 DEF InstallAcked, Acked, Acknowledged, CallbackInv, HandshakeInv, AnsweredInv, Foreign
  <2>3. OwnRecords'
    BY <1>1, <2>1, <2>2 DEF Foreign, OwnRecords, Own
  <2>4. OwnPosition' /\ OwnComplete' /\ OwnEnd'
    BY <2>1, <2>2 DEF Foreign, OwnPosition, OwnComplete, OwnEnd, LastPublished
  <2> QED BY <2>3, <2>4 DEF SpansInv, OwnInv
<1>9. CASE SettleClose
  <2>1. Advanced(timeline).total = 0
    BY AdvancedIs DEF Foreign
  <2>2. /\ Advanced(timeline).floor = 0 /\ Advanced(timeline).pending = <<>>
    <3>1. Len(timeline.pending) = 0 /\ timeline.pending = <<>>
      BY DEF Foreign
    <3>2. PICK k \in 0 .. 0 :
            /\ Advanced(timeline).pending = SubSeq(timeline.pending, k + 1, 0)
            /\ \/ Advanced(timeline).floor = timeline.floor
               \/ \E i \in 1 .. k : Advanced(timeline).floor = timeline.pending[i].total
      BY <3>1, AdvancedIs
    <3> QED BY <3>2, SubSeqEmpty DEF Foreign
  <2>3. Foreign'
    BY <1>9, <2>1, <2>2 DEF SettleClose, Foreign
  <2> QED BY <2>3 DEF SpansInv
<1>10. CASE TearDown
  BY <1>10 DEF TearDown, SpansInv
<1>11. CASE TimesOut
  <2>1. Foreign'
    BY <1>1, <1>11 DEF TimesOut, Foreign, Request, PublishControl, Await
  <2> QED BY <2>1 DEF SpansInv
<1>12. CASE UNCHANGED vars
  BY <1>12 DEF vars, Foreign, SpansInv
<1>13. ~FillRun /\ ~Run /\ ~DiscardAcked /\ ~Observed /\ ~Settle
  BY <1>1 DEF FillRun, Run, DiscardAcked, Observed, Settle, FinallyDrained, Foreign
<1>14. ~Choosing
  BY <1>1 DEF Choosing, OpenTransport, Capture, Abandon, Discard, Push, CloseTransport,
              StartRunning, StayParked, Resume, HookRelease, Park, AdoptPause, HookPark,
              EndOfTrack, Observe, Idle
<1> QED
  BY <1>2, <1>3, <1>4, <1>5, <1>6, <1>7, <1>8, <1>9, <1>10, <1>11, <1>12, <1>13, <1>14
  DEF Next, Callback, Waiting, Concluding

(* Outside of that, every step keeps the records of the generation. *)
LEMMA OwnStep ==
  ASSUME CallbackInv, [Next]_vars, mode # "none", OwnInv
  PROVE  SpansInv'
<1> USE DEF words, callback, device, rings, output, session, position
<1>0. /\ wait # "install" /\ ((wpc = "drain" \/ wpc = "check") => wait \notin Free)
      /\ (wpc \in {"idle", "observe"} => wait = "none") /\ (wpc = "mapped" => wait \in Free)
      /\ (wpc = "final" => wait \in Preserving)
  BY DEF OwnInv, OwnRecords, CallbackInv, HandshakeInv, PlaceInv, Free, Preserving
<1>1. CASE FillBegin
  BY <1>1, OwnFillBegins DEF SpansInv
<1>2. CASE FillRun
  BY <1>2, OwnPlays DEF SpansInv
<1>3. CASE FillSilence
  <2>1. /\ pcm' = pcm \/ pcm' = <<>>
        /\ UNCHANGED <<spans, late, spansDropped, cgen, gen, total, base, submitted, ended,
                       timeline, voided, pushed, wait>>
    BY <1>3 DEF FillSilence
  <2>2. pcm \in Seq(Generation) /\ total \in Nat
    BY DEF CallbackInv, TypeOK
  <2>3. OwnRecords'
    <3>1. CASE pcm' = pcm
      BY <2>1, <3>1 DEF OwnInv, OwnRecords, Own
    <3>2. CASE pcm' = <<>>
      <4>1. Len(pcm') = 0 /\ DOMAIN pcm' = {} /\ Len(pcm) \in Nat /\ pushed \in Nat
        BY <2>2, <3>2 DEF CallbackInv, TypeOK
      <4>2. Len(pcm') + total <= pushed
        BY <2>2, <4>1 DEF OwnInv, OwnRecords
      <4> QED BY <2>1, <4>1, <4>2 DEF OwnInv, OwnRecords, Own
    <3> QED BY <2>1, <3>1, <3>2
  <2>4. OwnPosition' /\ OwnComplete' /\ OwnEnd'
    BY <2>1 DEF OwnInv, OwnPosition, OwnComplete, OwnEnd, Doomed, LastPublished, Sure, Heard,
                started
  <2> QED BY <2>3, <2>4 DEF OwnInv, SpansInv
<1>4. CASE PlaysOut
  BY <1>4, OwnPlaysOut DEF SpansInv
<1>5. CASE Drain
  BY <1>5, OwnDrains DEF SpansInv
<1>6. CASE Drained
  BY <1>6, <1>0, OwnStandsStill DEF Drained, SpansInv, Request, PublishControl, Await, Idle, PublishMapping, Free
<1>7. CASE LookAgain
  BY <1>7, <1>0, OwnStandsStill DEF LookAgain, SpansInv, Request, PublishControl, Await, Idle, PublishMapping, Free
<1>8. CASE PreservingAcked
  BY <1>8, OwnNotes DEF PreservingAcked, SpansInv
<1>9. CASE DiscardAcked
  <2>1. gen' # gen /\ wait' = "install" /\ wpc' = "drain" /\ timeline' = Fresh(gen')
    BY <1>9, NextGenerationIs DEF DiscardAcked, NextGeneration, Await, CallbackInv, TypeOK
  <2>2. Acknowledged /\ control.phase = "Discard"
    BY <1>9 DEF DiscardAcked, Acked, Acknowledged, CallbackInv, HandshakeInv, PlaceInv
  <2>3. pcm = <<>> /\ late = NoSpan /\ cgen = gen
    BY <2>2 DEF CallbackInv, HandshakeInv, AnsweredInv, Running
  <2>4. ~Running(ctl)
    <3>1. cpc = "filling" => ctl = control
      BY <2>2, AnsweredMeans
    <3>2. cpc = "idle" => ctl = Silent
      BY DEF CallbackInv, HandshakeInv, EpochInv
    <3> QED BY <2>2, <3>1, <3>2 DEF CallbackInv, TypeOK, Running, Silent
  <2>5. \A i \in DOMAIN spans : spans[i].gen = gen
    BY DEF OwnInv, OwnRecords, Own
  <2>6. Foreign'
    BY <1>9, <2>1, <2>3, <2>4, <2>5 DEF DiscardAcked, NextGeneration, Foreign, Fresh
  <2> QED BY <2>6 DEF SpansInv
<1>10. CASE InstallAcked
  BY <1>10, <1>0 DEF InstallAcked
<1>11. CASE Run
  BY <1>11, OwnRuns DEF SpansInv
<1>12. CASE Settle
  <2>1. CASE timeline' = timeline
    BY <1>12, <1>0, <2>1, OwnStandsStill DEF Settle, SpansInv
  <2>2. CASE timeline' = Advanced(timeline)
    BY <1>12, <1>0, <2>2, OwnTakes DEF Settle, SpansInv, Preserving
  <2> QED BY <1>12, <2>1, <2>2 DEF Settle
<1>13. CASE SettleClose
  BY <1>13, <1>0, OwnTakes DEF SettleClose, SpansInv, Request, PublishControl, Await, Idle
<1>14. CASE Observed
  BY <1>14, <1>0, OwnTakes DEF Observed, SpansInv, Request, PublishControl, Await, Idle
<1>15. CASE TearDown
  BY <1>15 DEF TearDown, SpansInv
<1>16. CASE TimesOut
  BY <1>16, <1>0, OwnStandsStill DEF TimesOut, SpansInv, Request, PublishControl, Await, Idle, PublishMapping, Free
<1>17. CASE OpenTransport
  BY <1>17 DEF OpenTransport
<1>18. CASE Capture
  BY <1>18, <1>0, OwnStandsStill DEF Capture, SpansInv, Request, PublishControl, Await, Idle, PublishMapping, Free
<1>19. CASE Abandon
  BY <1>19, <1>0, OwnStandsStill DEF Abandon, SpansInv, Request, PublishControl, Await, Idle, PublishMapping, Free
<1>20. CASE Discard
  BY <1>20, <1>0, OwnStandsStill DEF Discard, SpansInv, Request, PublishControl, Await, Idle, PublishMapping, Free
<1>21. CASE Push
  BY <1>21, OwnPushes DEF SpansInv
<1>22. CASE CloseTransport
  BY <1>22, <1>0, OwnStandsStill DEF CloseTransport, SpansInv, Request, PublishControl, Await, Idle, PublishMapping, Free
<1>23. CASE StartRunning
  BY <1>23, <1>0, OwnStandsStill DEF StartRunning, SpansInv, Request, PublishControl, Await, Idle, PublishMapping, Free
<1>24. CASE StayParked
  BY <1>24, <1>0, OwnStandsStill DEF StayParked, SpansInv, Request, PublishControl, Await, Idle, PublishMapping, Free
<1>25. CASE Resume
  BY <1>25, <1>0, OwnStandsStill DEF Resume, SpansInv, Request, PublishControl, Await, Idle, PublishMapping, Free
<1>26. CASE HookRelease
  BY <1>26, <1>0, OwnStandsStill DEF HookRelease, SpansInv, Request, PublishControl, Await, Idle, PublishMapping, Free
<1>27. CASE Park
  BY <1>27, <1>0, OwnStandsStill DEF Park, SpansInv, Request, PublishControl, Await, Idle, PublishMapping, Free
<1>28. CASE AdoptPause
  BY <1>28, <1>0, OwnStandsStill DEF AdoptPause, SpansInv, Request, PublishControl, Await, Idle, PublishMapping, Free
<1>29. CASE HookPark
  BY <1>29, <1>0, OwnStandsStill DEF HookPark, SpansInv, Request, PublishControl, Await, Idle, PublishMapping, Free
<1>30. CASE EndOfTrack
  BY <1>30, <1>0, OwnTakes DEF EndOfTrack, SpansInv, Request, PublishControl, Await, Idle
<1>31. CASE Observe
  BY <1>31, OwnNotes DEF Observe, SpansInv
<1>32. CASE UNCHANGED vars
  BY <1>32, OwnStandsStill DEF vars, SpansInv, OwnInv, OwnRecords
<1> QED
  BY <1>1, <1>2, <1>3, <1>4, <1>5, <1>6, <1>7, <1>8, <1>9, <1>10, <1>11, <1>12,
      <1>13, <1>14, <1>15, <1>16, <1>17, <1>18, <1>19, <1>20, <1>21, <1>22, <1>23,
      <1>24, <1>25, <1>26, <1>27, <1>28, <1>29, <1>30, <1>31, <1>32 DEF Next,
      Callback, Waiting, Concluding, Choosing

(* With no transport open, nothing happens but that one is opened. *)
LEMMA ClosedStep ==
  ASSUME CallbackInv, [Next]_vars, mode = "none"
  PROVE  OpenTransport \/ UNCHANGED vars
<1>1. NothingOpen /\ ctl = Silent
  BY DEF CallbackInv, HandshakeInv, ClosedInv, EpochInv, NothingOpen
<1>2. ~Callback /\ ~PlaysOut /\ ~Waiting /\ ~Concluding /\ ~TimesOut
  BY <1>1 DEF NothingOpen, Callback, FillBegin, FillRun, FillSilence, PlaysOut, Waiting,
     Drain, Drained, LookAgain, PreservingAcked, Concluding, DiscardAcked, InstallAcked,
     Run, Settle, SettleClose, Observed, TearDown, TimesOut, FinallyDrained
<1>3. Choosing => OpenTransport
  BY DEF Choosing, Idle, Capture, Abandon, Discard, Push, CloseTransport, StartRunning,
     StayParked, Resume, HookRelease, Park, AdoptPause, HookPark, EndOfTrack, Observe
<1> QED BY <1>2, <1>3 DEF Next

(* The records in the ring are of this generation or, in between, of the last. *)
LEMMA SpansStep == CallbackInv /\ [Next]_vars => SpansInv'
<1> SUFFICES ASSUME CallbackInv, [Next]_vars PROVE SpansInv'
  OBVIOUS
<1>1. CASE mode = "none"
  <2>1. NothingOpen /\ ctl = Silent
    BY <1>1 DEF CallbackInv, HandshakeInv, ClosedInv, EpochInv, NothingOpen
  <2>2. CASE OpenTransport
    <3>1. DOMAIN spans' = {} /\ ~Running(ctl')
      BY <2>1, <2>2 DEF OpenTransport, NothingOpen, rings, callback, Running, Silent
    <3> QED BY <2>1, <2>2, <3>1 DEF OpenTransport, NextGeneration, Await, Fresh, SpansInv, Foreign,
                NothingOpen, rings, callback
  <2>3. CASE UNCHANGED vars
    BY <1>1, <2>3 DEF vars, SpansInv
  <2> QED BY <1>1, <2>2, <2>3, ClosedStep
<1>2. CASE mode # "none"
  BY <1>2, ForeignStep, OwnStep DEF CallbackInv, SpansInv
<1> QED BY <1>1, <1>2

(* The counts agree: what the device was given is what was given before the    *)
(* generation and in it.                                                      *)
LEMMA CountStep ==
  CallbackInv /\ [Next]_vars => TimelineGen' /\ submitted' = base' + total'
<1> SUFFICES ASSUME CallbackInv, [Next]_vars
             PROVE  TimelineGen' /\ submitted' = base' + total'
  OBVIOUS
<1> USE DEF words, callback, device, rings, output, session, position, TimelineGen,
    Request, PublishControl, Await, NextGeneration, PublishMapping, Fresh
<1>0. /\ timeline \in Timelines /\ submitted \in Nat /\ base \in Nat /\ total \in Nat
      /\ submitted = base + total /\ TimelineGen /\ spansDropped \in BOOLEAN
      /\ mode = "none" => NothingOpen
  BY TypeParts DEF CallbackInv, HandshakeInv, ClosedInv, RingTypes, CountTypes, TypeOK
<1>1. CASE FillBegin
  BY <1>1, <1>0 DEF FillBegin
<1>2. CASE FillRun
  BY <1>2, <1>0 DEF FillRun
<1>3. CASE FillSilence
  BY <1>3, <1>0 DEF FillSilence
<1>4. CASE PlaysOut
  BY <1>4, <1>0 DEF PlaysOut
<1>5. CASE Drain
  <2>1. mode # "none" /\ Head(spans) \in Records
    BY <1>5, <1>0 DEF Drain, NothingOpen, CallbackInv, TypeOK
  <2>2. Accept(timeline, Head(spans)).gen = timeline.gen
    BY <1>0, <2>1, AcceptIs
  <2> QED BY <1>5, <1>0, <2>2 DEF Drain
<1>6. CASE Drained
  BY <1>6, <1>0 DEF Drained
<1>7. CASE LookAgain
  BY <1>7, <1>0 DEF LookAgain
<1>8. CASE PreservingAcked
  BY <1>8, <1>0, NoteDroppedIs DEF PreservingAcked
<1>9. CASE DiscardAcked
  BY <1>9, <1>0 DEF DiscardAcked
<1>10. CASE InstallAcked
  BY <1>10, <1>0 DEF InstallAcked, NothingOpen
<1>11. CASE Run
  BY <1>11, <1>0 DEF Run, NothingOpen
<1>12. CASE Settle
  <2>1. mode # "none"
    BY <1>12, <1>0 DEF Settle, NothingOpen, FinallyDrained, Idle
  <2> QED BY <1>12, <1>0, <2>1, AdvancedIs DEF Settle
<1>13. CASE SettleClose
  <2>1. mode # "none"
    BY <1>13, <1>0 DEF SettleClose, NothingOpen, FinallyDrained, Idle
  <2> QED BY <1>13, <1>0, <2>1, AdvancedIs DEF SettleClose
<1>14. CASE Observed
  <2>1. mode # "none"
    BY <1>14, <1>0 DEF Observed, NothingOpen, FinallyDrained, Idle
  <2> QED BY <1>14, <1>0, <2>1, AdvancedIs DEF Observed
<1>15. CASE TearDown
  BY <1>15, <1>0 DEF TearDown
<1>16. CASE TimesOut
  BY <1>16, <1>0 DEF TimesOut, NothingOpen
<1>17. CASE OpenTransport
  BY <1>17, <1>0 DEF OpenTransport
<1>18. CASE Capture
  BY <1>18, <1>0 DEF Capture
<1>19. CASE Abandon
  BY <1>19, <1>0 DEF Abandon
<1>20. CASE Discard
  BY <1>20, <1>0 DEF Discard
<1>21. CASE Push
  BY <1>21, <1>0 DEF Push
<1>22. CASE CloseTransport
  BY <1>22, <1>0 DEF CloseTransport
<1>23. CASE StartRunning
  BY <1>23, <1>0 DEF StartRunning
<1>24. CASE StayParked
  BY <1>24, <1>0 DEF StayParked
<1>25. CASE Resume
  BY <1>25, <1>0 DEF Resume
<1>26. CASE HookRelease
  BY <1>26, <1>0 DEF HookRelease
<1>27. CASE Park
  BY <1>27, <1>0 DEF Park
<1>28. CASE AdoptPause
  BY <1>28, <1>0 DEF AdoptPause
<1>29. CASE HookPark
  BY <1>29, <1>0 DEF HookPark
<1>30. CASE EndOfTrack
  <2>1. mode # "none"
    BY <1>30, <1>0 DEF EndOfTrack, NothingOpen, FinallyDrained, Idle
  <2> QED BY <1>30, <1>0, <2>1, AdvancedIs DEF EndOfTrack
<1>31. CASE Observe
  BY <1>31, <1>0, NoteDroppedIs DEF Observe
<1>32. CASE UNCHANGED vars
  BY <1>32, <1>0 DEF vars
<1> QED
  BY <1>1, <1>2, <1>3, <1>4, <1>5, <1>6, <1>7, <1>8, <1>9, <1>10, <1>11, <1>12,
      <1>13, <1>14, <1>15, <1>16, <1>17, <1>18, <1>19, <1>20, <1>21, <1>22, <1>23,
      <1>24, <1>25, <1>26, <1>27, <1>28, <1>29, <1>30, <1>31, <1>32 DEF Next,
      Callback, Waiting, Concluding, Choosing

(* Where the callback is silent it stays so, and everything was accounted. *)
LEMMA StillStep == CallbackInv /\ [Next]_vars => StillInv'
<1> SUFFICES ASSUME CallbackInv, [Next]_vars PROVE StillInv'
  OBVIOUS
<1> USE DEF words, callback, device, rings, output, session, position, Free,
    Request, PublishControl, Await, NextGeneration, PublishMapping
<1>0. /\ mode \in {"parked", "frozen"} /\ wait \in Free =>
           /\ Acknowledged /\ ~Running(control) /\ spans = <<>>
           /\ Sure => timeline.total = total
      /\ (wpc \in {"drain", "check", "final", "joining"} => wait \notin Free)
      /\ (wpc = "idle" => wait = "none")
      /\ timeline \in Timelines /\ spansDropped \in BOOLEAN
      /\ mode # "none" /\ Acknowledged /\ ~Running(control) => late = NoSpan /\ cgen = gen
      /\ mode # "none" => control.gen = gen
      /\ Acknowledged /\ cpc = "filling" => ctl = control /\ ctl.epoch = epoch
  BY TypeParts, AnsweredMeans DEF CallbackInv, StillInv, HandshakeInv, AnsweredInv, EpochInv,
     PlaceInv, TypeOK, Preserving
<1>1. CASE FillBegin
  BY <1>1, <1>0 DEF FillBegin, StillInv, Acknowledged, Sure, Running
<1>2. CASE FillRun
  BY <1>2, <1>0 DEF FillRun, StillInv, Acknowledged, Sure, Running
<1>3. CASE FillSilence
  BY <1>3, <1>0 DEF FillSilence, StillInv, Acknowledged, Sure, Running, AcknowledgeWhenDrained, Acknowledge
<1>4. CASE PlaysOut
  BY <1>4, <1>0 DEF PlaysOut, StillInv, Acknowledged, Sure, Running
<1>5. CASE Drain
  BY <1>5, <1>0 DEF Drain, StillInv
<1>6. CASE Drained
  BY <1>6, <1>0 DEF Drained, StillInv, Acknowledged, Sure, Running
<1>7. CASE LookAgain
  BY <1>7, <1>0 DEF LookAgain, StillInv, Acknowledged, Sure, Running
<1>8. CASE PreservingAcked
  BY <1>8, <1>0, NoteDroppedIs DEF PreservingAcked, StillInv, Acknowledged, Sure, Running
<1>9. CASE DiscardAcked
  BY <1>9, <1>0 DEF DiscardAcked, StillInv, Acknowledged, Sure, Running
<1>10. CASE InstallAcked
  <2>1. Acknowledged /\ control.phase = "Park" /\ mode # "none" /\ wait = "install"
    BY <1>10 DEF InstallAcked, Acked, Acknowledged, CallbackInv, HandshakeInv, PlaceInv, ClosedInv,
       NothingOpen
  <2>2. Foreign
    BY <2>1 DEF CallbackInv, SpansInv, OwnInv, OwnRecords
  <2>3. spans = <<>> /\ timeline.total = 0 /\ total = 0
    BY <1>10, <1>0, <2>1, <2>2 DEF InstallAcked, Foreign, Running
  <2> QED BY <1>10, <2>1, <2>3 DEF InstallAcked, StillInv, Acknowledged, Sure, Running
<1>11. CASE Run
  BY <1>11, <1>0 DEF Run, StillInv, Acknowledged, Sure, Running
<1>12. CASE Settle
  <2>1. /\ spans = <<>> /\ wpc = "final" /\ wait \in Preserving /\ wait # "close" /\ Acknowledged
        /\ ~spansDropped /\ mode # "none"
    BY <1>12 DEF Settle, FinallyDrained, CallbackInv, HandshakeInv, PlaceInv, ClosedInv,
       NothingOpen
  <2>2. ~Running(control)
    BY <2>1 DEF CallbackInv, HandshakeInv, PlaceInv, Preserving, Running
  <2>3. late = NoSpan
    BY <1>0, <2>1, <2>2
  <2>4. OwnInv
    BY <2>1 DEF CallbackInv, SpansInv, Foreign, Preserving
  <2>5. Sure => timeline.total = total
    <3>1. DOMAIN spans = {}
      BY <2>1
    <3>2. ~Doomed /\ LastPublished = timeline.total
      BY <2>1, <2>3, <3>1 DEF Doomed, LastPublished
    <3> QED BY <2>1, <2>4, <3>2 DEF OwnInv, OwnComplete, Preserving
  <2>6. timeline'.total = timeline.total /\ timeline'.degraded = timeline.degraded
    BY <1>12, <2>1, AdvancedIs DEF Settle
  <2>7. Sure' => timeline'.total = total'
    BY <1>12, <2>5, <2>6 DEF Settle, Sure
  <2> QED BY <1>12, <2>1, <2>2, <2>7 DEF Settle, StillInv, Acknowledged, Running
<1>13. CASE SettleClose
  BY <1>13, <1>0 DEF SettleClose, StillInv, FinallyDrained
<1>14. CASE Observed
  <2>1. mode # "none"
    BY <1>14 DEF Observed, NothingOpen, CallbackInv, HandshakeInv, ClosedInv
  <2> QED BY <1>14, <1>0, <2>1, AdvancedIs DEF Observed, StillInv, Acknowledged, Sure, Running
<1>15. CASE TearDown
  BY <1>15, <1>0 DEF TearDown, StillInv, Acknowledged, Sure, Running
<1>16. CASE TimesOut
  BY <1>16, <1>0 DEF TimesOut, StillInv, Acknowledged, Sure, Running
<1>17. CASE OpenTransport
  BY <1>17, <1>0 DEF OpenTransport, StillInv, Acknowledged, Sure, Running
<1>18. CASE Capture
  BY <1>18, <1>0 DEF Capture, StillInv, Acknowledged, Sure, Running
<1>19. CASE Abandon
  BY <1>19, <1>0 DEF Abandon, StillInv, Acknowledged, Sure, Running
<1>20. CASE Discard
  BY <1>20, <1>0 DEF Discard, StillInv, Acknowledged, Sure, Running
<1>21. CASE Push
  BY <1>21, <1>0 DEF Push, StillInv, Acknowledged, Sure, Running
<1>22. CASE CloseTransport
  BY <1>22, <1>0 DEF CloseTransport, StillInv, Acknowledged, Sure, Running
<1>23. CASE StartRunning
  BY <1>23, <1>0 DEF StartRunning, StillInv, Acknowledged, Sure, Running, Idle
<1>24. CASE StayParked
  BY <1>24, <1>0 DEF StayParked, StillInv, Acknowledged, Sure, Running
<1>25. CASE Resume
  BY <1>25, <1>0 DEF Resume, StillInv, Acknowledged, Sure, Running, Idle
<1>26. CASE HookRelease
  BY <1>26, <1>0 DEF HookRelease, StillInv, Acknowledged, Sure, Running, Idle
<1>27. CASE Park
  BY <1>27, <1>0 DEF Park, StillInv, Acknowledged, Sure, Running
<1>28. CASE AdoptPause
  BY <1>28, <1>0 DEF AdoptPause, StillInv, Acknowledged, Sure, Running
<1>29. CASE HookPark
  BY <1>29, <1>0 DEF HookPark, StillInv, Acknowledged, Sure, Running
<1>30. CASE EndOfTrack
  BY <1>30, <1>0 DEF EndOfTrack, StillInv
<1>31. CASE Observe
  BY <1>31, <1>0, NoteDroppedIs DEF Observe, StillInv, Acknowledged, Sure, Running
<1>32. CASE UNCHANGED vars
  BY <1>32, <1>0 DEF vars, StillInv, Acknowledged, Sure, Running
<1> QED
  BY <1>1, <1>2, <1>3, <1>4, <1>5, <1>6, <1>7, <1>8, <1>9, <1>10, <1>11, <1>12,
      <1>13, <1>14, <1>15, <1>16, <1>17, <1>18, <1>19, <1>20, <1>21, <1>22, <1>23,
      <1>24, <1>25, <1>26, <1>27, <1>28, <1>29, <1>30, <1>31, <1>32 DEF Next,
      Callback, Waiting, Concluding, Choosing

(* The invariant holds. *)
LEMMA CallbackInvariant == Spec => []CallbackInv
<1>1. Init => CallbackInv
  <2> SUFFICES ASSUME Init PROVE CallbackInv
    OBVIOUS
  <2>1. 0 \in Generation /\ <<>> \in Seq(Records) /\ Len(<<>>) = 0 /\ <<>> \in Seq(Generation)
    BY HandshakeAssumption DEF Generation
  <2>2. Silent \in Words /\ NoSpan \in Records /\ NoLabel \in [gen : Generation, epoch : Nat]
    BY <2>1 DEF Silent, Words, Phases, NoSpan, Records, NoLabel, Label
  <2>3. Fresh(0) \in Timelines
    BY <2>1 DEF Fresh, Timelines
  <2>4. WordTypes /\ RingTypes /\ CountTypes /\ PlaceTypes
    <3>1. WordTypes
      BY <2>1, <2>2 DEF Init, WordTypes
    <3>2. RingTypes
      <4>1. 0 <= SpanCap /\ 0 <= PcmCap
        BY HandshakeAssumption
      <4>2. /\ spans = <<>> /\ pcm = <<>> /\ Len(spans) = 0 /\ Len(pcm) = 0 /\ late = NoSpan
            /\ spansDropped = FALSE
        BY DEF Init
      <4> QED BY <2>1, <2>2, <4>1, <4>2 DEF RingTypes
    <3>3. CountTypes
      BY <2>1, HandshakeAssumption DEF Init, CountTypes
    <3>4. PlaceTypes
      BY <2>1, HandshakeAssumption DEF Init, PlaceTypes, Modes, Preserving
    <3> QED BY <3>1, <3>2, <3>3, <3>4
  <2>5. TypeOK
    BY <2>3, <2>4, TypeParts DEF Init
  <2>6. HandshakeInv
    BY DEF Init, HandshakeInv, ClosedInv, NothingOpen, EpochInv, AnsweredInv, PlaceInv,
       MappingInv, Silent, Running, Preserving, Free, Label, NoLabel, NoSpan
  <2>7. TimelineGen /\ submitted = base + total /\ SpansInv /\ StillInv
    BY DEF Init, TimelineGen, SpansInv, StillInv
  <2> QED BY <2>5, <2>6, <2>7 DEF CallbackInv
<1>2. CallbackInv /\ [Next]_vars => CallbackInv'
  BY HandshakeStep, TypeStep, SpansStep, CountStep, StillStep DEF CallbackInv
<1> QED BY <1>1, <1>2, PTL DEF Spec


-----------------------------------------------------------------------------
(* The results. *)

(* Once a park, a freeze or an install returned, the callback is silent: no     *)
(* fill of an earlier Run is under way and no span is held back.                *)
THEOREM ParkIsKept == Spec => []ParkedIsStill
<1>1. CallbackInv => ParkedIsStill
  <2> SUFFICES ASSUME CallbackInv, mode \in {"parked", "frozen"}, wpc = "idle"
               PROVE  /\ ~Running(control) /\ ~(cpc = "filling" /\ Running(ctl))
                      /\ late = NoSpan
    BY DEF ParkedIsStill
  <2>1. wait = "none" /\ mode # "none"
    BY DEF CallbackInv, HandshakeInv, PlaceInv
  <2>2. Acknowledged /\ ~Running(control)
    BY <2>1 DEF CallbackInv, StillInv, Free
  <2>3. cpc = "filling" => ctl = control
    BY <2>2, AnsweredMeans
  <2> QED BY <2>1, <2>2, <2>3 DEF CallbackInv, HandshakeInv, AnsweredInv
<1> QED BY <1>1, CallbackInvariant, PTL

(* What is heard under Run was decoded for the generation it is accounted to,  *)
(* and its mapping was published before it.                                    *)
THEOREM HeardBelongs == Spec => []HeardIsCurrent
<1>1. CallbackInv => HeardIsCurrent
  <2> SUFFICES ASSUME CallbackInv PROVE NoStaleAudio /\ MappedBeforeHeard
    BY DEF HeardIsCurrent, CallbackInv
  <2>1. MappedBeforeHeard
    BY DEF CallbackInv, HandshakeInv, MappingInv, MappedBeforeHeard
  <2>2. ASSUME cpc = "filling", Running(ctl) PROVE \A i \in DOMAIN pcm : pcm[i] = ctl.gen
    <3>1. mode # "none" /\ cgen = ctl.gen
      BY <2>2 DEF CallbackInv, HandshakeInv, ClosedInv, NothingOpen, EpochInv
    <3>2. OwnRecords
      BY <2>2, <3>1 DEF CallbackInv, SpansInv, Foreign, OwnInv
    <3> QED BY <3>1, <3>2 DEF OwnRecords
  <2> QED BY <2>1, <2>2 DEF NoStaleAudio
<1> QED BY <1>1, CallbackInvariant, PTL

(* When a park or a freeze is acknowledged, and until the next Run, the         *)
(* timeline accounts for every frame the callback took of the generation.      *)
THEOREM ParkKeepsThePosition == Spec => []ParkLosesNothing
<1>1. CallbackInv => ParkLosesNothing
  <2> SUFFICES ASSUME CallbackInv, mode \in {"parked", "frozen"}, wpc = "idle", Sure
               PROVE  timeline.total = total /\ cgen = gen
    BY DEF ParkLosesNothing
  <2>1. wait = "none" /\ mode # "none"
    BY DEF CallbackInv, HandshakeInv, PlaceInv
  <2> QED BY <2>1 DEF CallbackInv, HandshakeInv, AnsweredInv, StillInv, Free
<1> QED BY <1>1, CallbackInvariant, PTL

(* A timeline with nothing in it is at the start. *)
LEMMA NothingPlayed ==
  ASSUME CallbackInv, mode # "none", timeline.pending = <<>>, timeline.floor = 0
  PROVE  PlayedFrames(timeline) = 0
<1>1. PICK k \in 0 .. Len(timeline.pending) :
        /\ Advanced(timeline).pending = SubSeq(timeline.pending, k + 1, Len(timeline.pending))
        /\ \/ Advanced(timeline).floor = timeline.floor
           \/ \E i \in 1 .. k : Advanced(timeline).floor = timeline.pending[i].total
  BY AdvancedIs
<1>2. k = 0 /\ Len(timeline.pending) = 0
  OBVIOUS
<1>3. Advanced(timeline).pending = <<>> /\ Advanced(timeline).floor = 0
  BY <1>1, <1>2
<1> QED BY <1>3 DEF PlayedFrames

(* No more was heard of a generation than the callback took. *)
LEMMA HeardBelow ==
  ASSUME CallbackInv PROVE Heard \in 0 .. 2 * total
<1>1. /\ submitted \in Nat /\ base \in Nat /\ total \in Nat /\ submitted = base + total
      /\ ended \in 0 .. submitted
  BY DEF CallbackInv, TypeOK
<1>2. PICK s : s = started
  OBVIOUS
<1>3. s = IF submitted <= ended THEN submitted ELSE ended + 1
  BY <1>2, StartedIs DEF CallbackInv
<1>4. s \in Nat /\ s <= submitted /\ (s > base => ended >= base)
  BY <1>1, <1>3
<1>5. Heard = IF s <= base THEN 0 ELSE (ended - base) + (s - base)
  BY <1>2 DEF Heard
<1> QED BY <1>1, <1>4, <1>5

(* The position that is read is never ahead of what was heard, and the end of   *)
(* the track is not declared before its last frame was.                        *)
THEOREM PositionWasHeard == Spec => []NotAheadOfHeard
<1>1. CallbackInv => NotAheadOfHeard
  <2> SUFFICES ASSUME CallbackInv, mode # "none", Sure
               PROVE  /\ PlayedFrames(timeline) <= (IF cgen = gen THEN Heard ELSE 0)
                      /\ wait = "end" => Heard = 2 * Frames
    BY DEF NotAheadOfHeard
  <2>1. Heard \in 0 .. 2 * total /\ total \in Nat
    BY HeardBelow DEF CallbackInv, TypeOK
  <2>2. CASE Foreign
    <3>1. PlayedFrames(timeline) = 0
      BY <2>2, NothingPlayed DEF Foreign
    <3> QED BY <2>1, <2>2, <3>1 DEF Foreign
  <2>3. CASE OwnInv
    <3>1. PlayedFrames(timeline) <= Heard /\ cgen = gen
      <4>1. Advanced(timeline).degraded = timeline.degraded
        BY AdvancedIs
      <4> QED BY <2>3, <4>1, OwnAdvances DEF Sure, OwnInv, OwnRecords
    <3>2. ASSUME wait = "end" PROVE Heard = 2 * Frames
      <4>1. Heard >= 2 * Frames
        BY <2>3, <3>2 DEF OwnInv, OwnEnd
      <4>2. Len(pcm) \in Nat /\ pushed \in 0 .. Frames /\ Frames \in Nat
        BY HandshakeAssumption DEF CallbackInv, TypeOK
      <4>3. Len(pcm) + total <= pushed
        BY <2>3 DEF OwnInv, OwnRecords
      <4> QED BY <2>1, <4>1, <4>2, <4>3
    <3> QED BY <3>1, <3>2
  <2> QED BY <2>2, <2>3 DEF CallbackInv, SpansInv
<1> QED BY <1>1, CallbackInvariant, PTL

-----------------------------------------------------------------------------
(* What the decoder may rely on of a remote source, for every object, every     *)
(* channel and every number of requests and interruptions: the bytes it reads   *)
(* are those it asked for, of the version it opened, and an end is the end of    *)
(* what the server promised.                                                    *)
(*                                                                             *)
(* The argument: only the task of the channel's own generation gets anything     *)
(* into it, and what that task has still to ask for or to push begins where the  *)
(* bytes already in the channel end.                                            *)

(* The inductive invariant. *)

Establishments == [tag : Nat, total : Nat]
HeaderSet == [st : {"none", "refused", "ok"}, ranged : BOOLEAN, live : BOOLEAN, est : Establishments]
ByteSet == [at : Nat, tag : Nat]
ChannelSet ==
    [gen : Nat, retired : BOOLEAN, bytes : Seq(ByteSet), out : {"none", "eof", "failed"}, end : Nat,
     hdr : HeaderSet]
AnswerSet == [kind : {"interval", "whole", "endless"}, first : Nat, last : Nat, total : Nat, tag : Nat]
SourceSet ==
    [at : {"closed", "failed", "opening", "idle", "reading", "confirming", "complete", "seeking",
           "landing"},
     gen : Nat, pos : Nat, target : Nat, eof : BOOLEAN, est : Establishments, seekable : BOOLEAN,
     ended : BOOLEAN]
TaskSet ==
    [st : {"asking", "answered", "body", "holding", "ended"}, start : Nat, est : Establishments,
     resumed : BOOLEAN, answer : Seq(AnswerSet), got : Nat, clean : BOOLEAN]

ChannelTypes == chan \in ChannelSet
SourceTypes == src \in SourceSet /\ drained \in Nat /\ complete \in Nat /\ version \in DOMAIN Sizes

(* A task past its request has an accepted answer, for where it asked. *)
AnswerOk(t) ==
    t.st # "asking" =>
        /\ t.answer[1] \in AnswerSet
        /\ t.answer[1].first = t.start
        /\ t.answer[1].kind = "interval" => t.answer[1].first <= t.answer[1].last
TaskTypes ==
    /\ fetches \in [DOMAIN fetches -> TaskSet]
    /\ \A g \in DOMAIN fetches : AnswerOk(fetches[g])

Starting == src.at \in {"opening", "seeking", "landing"}
Serving == src.at \in {"idle", "reading", "confirming"}
Live == (Starting \/ Serving) /\ ~chan.retired

(* Where the bytes in the channel begin and end, and what is known of the object. *)
Base ==
    IF src.at = "opening" THEN 0 ELSE IF src.at \in {"seeking", "landing"} THEN src.target ELSE drained
Known == IF src.at = "opening" THEN chan.hdr.est ELSE src.est
Upcoming == Base + Len(chan.bytes)

Agrees(est, with) == with.tag = Untagged \/ est.tag = with.tag
Reached(t) == IF t.st = "asking" THEN t.start ELSE t.answer[1].first + t.got
Unresumed(t) == t.st \in {"asking", "answered"} /\ ~t.resumed

(* The task of the channel's generation continues what is in the channel. *)
Continues(t) ==
    /\ Reached(t) = Upcoming
    /\ Agrees(t.est, Known)
    /\ t.st # "asking" => SameObject(t.answer[1], Known)
    /\ t.st \in {"asking", "answered"} => t.got = 0
    /\ t.st \in {"body", "holding", "ended"} /\ Advertised(t.answer[1]) # Unknown
          => t.got <= Advertised(t.answer[1])
Headed(t) ==
    /\ Unresumed(t) => chan.hdr = NoAnswer /\ chan.bytes = <<>>
    /\ ~Unresumed(t) => chan.hdr.st = "ok"
    /\ Unresumed(t) /\ src.at = "opening" => t.est = Nothing
    /\ chan.out = "none"

TaskInv ==
    Live /\ chan.gen \in DOMAIN fetches => Continues(fetches[chan.gen]) /\ Headed(fetches[chan.gen])
BytesInv ==
    Live => \A i \in 1 .. Len(chan.bytes) : /\ chan.bytes[i].at = Base + i - 1
                                            /\ SameObject(chan.bytes[i], Known)
EndInv == Live /\ chan.out = "eof" => chan.end \in {Unknown, Upcoming}
HeaderInv == Live /\ chan.hdr.st # "ok" => chan.bytes = <<>> /\ chan.hdr.est = Nothing
ServingInv ==
    /\ Live /\ Starting => src.gen = chan.gen
    /\ Live /\ src.at = "landing" => chan.hdr.st = "ok"
    /\ src.at = "opening" => src.pos = 0
    /\ Live /\ Serving => src.eof \/ src.at = "confirming" \/ src.pos = drained
    /\ CompleteIsPromised

HttpTypes == ChannelTypes /\ SourceTypes /\ TaskTypes
HttpInv == HttpTypes /\ TaskInv /\ BytesInv /\ EndInv /\ HeaderInv /\ ServingInv

-----------------------------------------------------------------------------
(* Steps of a fetch task. *)

(* What a channel is after a task wrote to it. *)
LEMMA ChannelWritten ==
  ASSUME ChannelTypes, NEW o \in {"none", "eof", "failed"}, NEW e \in Nat, NEW h \in HeaderSet,
         NEW b \in Seq(ByteSet)
  PROVE  [chan EXCEPT !.out = o, !.end = e] \in ChannelSet /\ [chan EXCEPT !.hdr = h] \in ChannelSet
         /\ [chan EXCEPT !.bytes = b] \in ChannelSet
BY DEF ChannelTypes, ChannelSet

(* A task that is replaced or ended leaves the tasks well typed. *)
LEMMA TasksTyped ==
  ASSUME TaskTypes, NEW g \in DOMAIN fetches,
         \/ EndTask(g)
         \/ \E t \in TaskSet : AnswerOk(t) /\ SetTask(g, t)
  PROVE  /\ TaskTypes'
         /\ \A h \in DOMAIN fetches : h # g => h \in DOMAIN fetches' /\ fetches'[h] = fetches[h]
         /\ \A h \in DOMAIN fetches' : h \in DOMAIN fetches
<1>1. CASE EndTask(g)
  BY <1>1 DEF EndTask, TaskTypes, AnswerOk
<1>2. ASSUME NEW t \in TaskSet, AnswerOk(t), SetTask(g, t)
      PROVE  /\ TaskTypes'
             /\ \A h \in DOMAIN fetches : h # g => h \in DOMAIN fetches' /\ fetches'[h] = fetches[h]
             /\ \A h \in DOMAIN fetches' : h \in DOMAIN fetches
  <2>1. fetches' \in [DOMAIN fetches -> TaskSet] /\ fetches'[g] = t
        /\ \A h \in DOMAIN fetches : h # g => fetches'[h] = fetches[h]
    BY <1>2 DEF SetTask, TaskTypes
  <2>2. \A h \in DOMAIN fetches' : AnswerOk(fetches'[h])
    BY <1>2, <2>1 DEF TaskTypes
  <2> QED BY <2>1, <2>2 DEF TaskTypes, AnswerOk
<1> QED BY <1>1, <1>2

(* What continues the channel now, does so after a step that leaves it alone. *)
LEMMA SameTask ==
  ASSUME NEW w, Continues(w), Headed(w), fetches'[chan'.gen] = w, UNCHANGED <<chan, src>>,
         Known' = Known, Upcoming' = Upcoming
  PROVE  TaskInv'
<1>1. Continues(w)' /\ Headed(w)'
  BY DEF Continues, Headed
<1> QED BY <1>1 DEF TaskInv, Continues, Headed, Reached, Unresumed

(* A superseded task changes nothing that counts. *)
LEMMA TaskAside ==
  ASSUME HttpInv, NEW g \in DOMAIN fetches, ~IsCurrent(g), UNCHANGED chan, HttpRest,
         \/ EndTask(g)
         \/ \E t \in TaskSet : AnswerOk(t) /\ SetTask(g, t)
  PROVE  HttpInv'
<1>1. /\ TaskTypes'
      /\ \A h \in DOMAIN fetches : h # g => h \in DOMAIN fetches' /\ fetches'[h] = fetches[h]
      /\ \A h \in DOMAIN fetches' : h \in DOMAIN fetches
  BY TasksTyped DEF HttpInv, HttpTypes
<1>2. UNCHANGED <<chan, src, drained, complete, version>>
  BY DEF HttpRest
<1>3. HttpTypes'
  BY <1>1, <1>2 DEF HttpInv, HttpTypes, ChannelTypes, SourceTypes
<1>4. Live' = Live /\ Base' = Base /\ Known' = Known /\ Upcoming' = Upcoming
  BY <1>2 DEF Live, Starting, Serving, Base, Known, Upcoming
<1>5. TaskInv'
  <2> SUFFICES ASSUME Live', chan'.gen \in DOMAIN fetches' PROVE TaskInv'
    BY DEF TaskInv
  <2>1. chan.gen # g
    BY <1>4 DEF IsCurrent, Live
  <2>2. chan.gen \in DOMAIN fetches /\ fetches'[chan.gen] = fetches[chan.gen]
    BY <1>1, <1>2, <2>1
  <2>3. PICK w : w = fetches[chan.gen]
    OBVIOUS
  <2>4. Continues(w) /\ Headed(w)
    BY <1>4, <2>2, <2>3 DEF HttpInv, TaskInv
  <2> QED BY <1>2, <1>4, <2>2, <2>3, <2>4, SameTask
<1>6. BytesInv' /\ EndInv' /\ HeaderInv'
  BY <1>2, <1>4 DEF HttpInv, BytesInv, EndInv, HeaderInv
<1>7. ServingInv'
  BY <1>2 DEF HttpInv, ServingInv, Live, Starting, Serving, CompleteIsPromised
<1> QED BY <1>3, <1>5, <1>6, <1>7 DEF HttpInv

(* The channel's task goes on: it still continues what is in the channel. *)
LEMMA TaskGoesOn ==
  ASSUME HttpInv, NEW g \in DOMAIN fetches, IsCurrent(g), UNCHANGED chan, HttpRest,
         NEW t \in TaskSet, AnswerOk(t), SetTask(g, t), Live => Continues(t) /\ Headed(t)
  PROVE  HttpInv'
<1>1. TaskTypes' /\ fetches'[g] = t
  BY TasksTyped DEF HttpInv, HttpTypes, SetTask, TaskTypes
<1>2. UNCHANGED <<chan, src, drained, complete, version>>
  BY DEF HttpRest
<1>3. HttpTypes'
  BY <1>1, <1>2 DEF HttpInv, HttpTypes, ChannelTypes, SourceTypes
<1>4. Live' = Live /\ Base' = Base /\ Known' = Known /\ Upcoming' = Upcoming
  BY <1>2 DEF Live, Starting, Serving, Base, Known, Upcoming
<1>5. TaskInv'
  <2> SUFFICES ASSUME Live' PROVE TaskInv'
    BY DEF TaskInv
  <2>1. fetches'[chan'.gen] = t
    BY <1>1, <1>2 DEF IsCurrent
  <2>2. Continues(t) /\ Headed(t)
    BY <1>4
  <2> QED BY <1>2, <1>4, <2>1, <2>2, SameTask
<1>6. BytesInv' /\ EndInv' /\ HeaderInv'
  BY <1>2, <1>4 DEF HttpInv, BytesInv, EndInv, HeaderInv
<1>7. ServingInv'
  BY <1>2 DEF HttpInv, ServingInv, Live, Starting, Serving, CompleteIsPromised
<1> QED BY <1>3, <1>5, <1>6, <1>7 DEF HttpInv

(* The channel's task ends, and says how. *)
LEMMA TaskEnds ==
  ASSUME HttpInv, NEW g \in DOMAIN fetches, IsCurrent(g), EndTask(g), HttpRest,
         NEW o \in {"eof", "failed"}, NEW e \in Nat,
         Live /\ o = "eof" => e \in {Unknown, Upcoming},
         chan' = [chan EXCEPT !.out = o, !.end = e]
  PROVE  HttpInv'
<1>1. TaskTypes'
  BY TasksTyped DEF HttpInv, HttpTypes
<1>2. UNCHANGED <<src, drained, complete, version>>
  BY DEF HttpRest
<1>3. /\ chan' \in ChannelSet /\ chan'.gen = chan.gen /\ chan'.retired = chan.retired
      /\ chan'.bytes = chan.bytes /\ chan'.hdr = chan.hdr /\ chan'.out = o /\ chan'.end = e
  <2>1. chan \in ChannelSet
    BY DEF HttpInv, HttpTypes, ChannelTypes
  <2> QED BY <2>1 DEF ChannelSet
<1>4. HttpTypes'
  BY <1>1, <1>2, <1>3 DEF HttpInv, HttpTypes, ChannelTypes, SourceTypes
<1>5. Live' = Live /\ Base' = Base /\ Known' = Known /\ Upcoming' = Upcoming
  BY <1>2, <1>3 DEF Live, Starting, Serving, Base, Known, Upcoming
<1>6. TaskInv'
  <2>1. chan'.gen \notin DOMAIN fetches'
    BY <1>3 DEF IsCurrent, EndTask
  <2> QED BY <2>1 DEF TaskInv
<1>7. BytesInv' /\ HeaderInv'
  BY <1>3, <1>5 DEF HttpInv, BytesInv, HeaderInv
<1>8. EndInv'
  BY <1>3, <1>5 DEF EndInv
<1>9. ServingInv'
  BY <1>2, <1>3 DEF HttpInv, ServingInv, Live, Starting, Serving, CompleteIsPromised
<1> QED BY <1>4, <1>6, <1>7, <1>8, <1>9 DEF HttpInv

(* Finish, by a task that then ends. *)
LEMMA FinishKeeps ==
  ASSUME HttpInv, NEW g \in DOMAIN fetches, NEW o \in {"eof", "failed"}, NEW e \in Nat,
         Finish(g, o, e), EndTask(g), HttpRest,
         IsCurrent(g) /\ Live /\ o = "eof" => e \in {Unknown, Upcoming}
  PROVE  HttpInv'
<1>1. CASE IsCurrent(g) /\ chan.out = "none"
  <2>1. chan' = [chan EXCEPT !.out = o, !.end = e]
    BY <1>1 DEF Finish
  <2> QED BY <1>1, <2>1, TaskEnds
<1>2. CASE ~IsCurrent(g)
  <2>1. UNCHANGED chan
    BY <1>2 DEF Finish
  <2> QED BY <1>2, <2>1, TaskAside
<1>3. CASE IsCurrent(g) /\ chan.out # "none"
  <2>1. UNCHANGED chan
    BY <1>3 DEF Finish
  <2>2. ~Live
    BY <1>3 DEF HttpInv, TaskInv, Headed, IsCurrent
  <2>3. TaskTypes'
    BY TasksTyped DEF HttpInv, HttpTypes
  <2>4. HttpTypes' /\ ~Live' /\ ServingInv'
    BY <2>1, <2>2, <2>3 DEF HttpInv, HttpTypes, ChannelTypes, SourceTypes, HttpRest, ServingInv, Live,
       Starting, Serving, CompleteIsPromised
  <2> QED BY <2>4 DEF HttpInv, TaskInv, BytesInv, EndInv, HeaderInv
<1> QED BY <1>1, <1>2, <1>3

(* What is known of the channel's own task. *)
LEMMA TaskIs ==
  ASSUME HttpInv, NEW g \in DOMAIN fetches
  PROVE  /\ fetches[g] \in TaskSet /\ AnswerOk(fetches[g])
         /\ IsCurrent(g) /\ Live => Continues(fetches[g]) /\ Headed(fetches[g])
         /\ Upcoming \in Nat /\ Base \in Nat /\ Known \in Establishments /\ chan \in ChannelSet
         /\ src \in SourceSet
<1>1. fetches[g] \in TaskSet /\ AnswerOk(fetches[g])
  BY DEF HttpInv, HttpTypes, TaskTypes
<1>2. IsCurrent(g) /\ Live => Continues(fetches[g]) /\ Headed(fetches[g])
  BY DEF HttpInv, TaskInv, IsCurrent
<1>3. chan \in ChannelSet /\ src \in SourceSet /\ drained \in Nat
  BY DEF HttpInv, HttpTypes, ChannelTypes, SourceTypes
<1>4. Len(chan.bytes) \in Nat
  BY <1>3 DEF ChannelSet
<1>5. Base \in Nat /\ Known \in Establishments
  BY <1>3 DEF Base, Known, ChannelSet, SourceSet, HeaderSet
<1> QED BY <1>1, <1>2, <1>3, <1>4, <1>5 DEF Upcoming

(* How much an accepted answer promises. *)
LEMMA AdvertisedIs ==
  ASSUME NEW t \in TaskSet, AnswerOk(t), t.st # "asking" PROVE Advertised(t.answer[1]) \in Nat
<1>1. t.answer[1] \in AnswerSet /\ (t.answer[1].kind = "interval" => t.answer[1].first <= t.answer[1].last)
  BY DEF AnswerOk
<1> QED BY <1>1 DEF Advertised, AnswerSet

(* A task that sees its cancellation ends and disturbs nothing. *)
LEMMA CancelledKeeps ==
  ASSUME HttpInv, NEW g \in DOMAIN fetches, Cancelled(g) PROVE HttpInv'
BY TaskAside DEF Cancelled

(* A task that has its answer still continues where the bytes end. *)
LEMMA AnsweredKeeps ==
  ASSUME HttpInv, NEW g \in DOMAIN fetches, Answered(g) PROVE HttpInv'
<1> DEFINE t == fetches[g]
<1>1. /\ t \in TaskSet /\ AnswerOk(t)
      /\ IsCurrent(g) /\ Live => Continues(t) /\ Headed(t)
      /\ Known \in Establishments
  BY TaskIs
<1>2. PICK a \in Answers : AcceptAnswer(a, t.start, t.est)
                           /\ SetTask(g, [t EXCEPT !.st = "answered", !.answer = <<a>>])
  BY DEF Answered, Task
<1>3. t.st = "asking" /\ IsCurrent(g) /\ UNCHANGED chan /\ HttpRest
  BY DEF Answered, Task
<1>4. a \in AnswerSet /\ (a.kind # "interval" => a.first = 0)
  <2>1. Sizes[version] \in Nat
    BY HttpAssumption DEF HttpInv, HttpTypes, SourceTypes
  <2>2. version \in Nat
    BY HttpAssumption DEF HttpInv, HttpTypes, SourceTypes
  <2> QED BY <2>1, <2>2 DEF Answers, Answer, AnswerSet, Established, Nothing, Unknown, Untagged
<1>5. /\ t.start \in Nat /\ t.est \in Establishments /\ t.got \in Nat /\ t.resumed \in BOOLEAN
  BY <1>1 DEF TaskSet
<1> DEFINE u == [t EXCEPT !.st = "answered", !.answer = <<a>>]
<1>6. u \in TaskSet /\ u.st = "answered" /\ u.start = t.start /\ u.est = t.est /\ u.got = t.got
      /\ u.resumed = t.resumed /\ u.answer[1] = a
  <2>1. <<a>> \in Seq(AnswerSet) /\ <<a>>[1] = a
    BY <1>4
  <2> QED BY <1>1, <2>1 DEF TaskSet
<1>7. a.first = t.start /\ (a.kind = "interval" => a.first <= a.last)
      /\ SameObject(a, t.est)
  BY <1>2, <1>4, <1>5 DEF AcceptAnswer, AnswerSet
<1> HIDE DEF u, t
<1>8. AnswerOk(u)
  BY <1>4, <1>6, <1>7 DEF AnswerOk
<1>9. ASSUME Live PROVE Continues(u) /\ Headed(u)
  <2>1. Continues(t) /\ Headed(t)
    BY <1>1, <1>3, <1>9
  <2>2. t.start = Upcoming /\ Agrees(t.est, Known)
    BY <1>3, <2>1 DEF Continues, Reached
  <2>3. SameObject(a, Known)
    BY <1>7, <2>2 DEF SameObject, Agrees
  <2>4. t.got = 0
    BY <1>3, <2>1 DEF Continues
  <2>5. Continues(u)
    BY <1>4, <1>5, <1>6, <1>7, <2>2, <2>3, <2>4 DEF Continues, Reached, AnswerSet
  <2>6. Headed(u)
    BY <1>3, <1>6, <2>1 DEF Headed, Unresumed
  <2> QED BY <2>5, <2>6
<1>10. SetTask(g, u)
  BY <1>2 DEF u
<1> QED BY <1>3, <1>6, <1>8, <1>9, <1>10, TaskGoesOn

(* A request that fails ends the body it was to continue, or the open. *)
LEMMA RequestFailsKeeps ==
  ASSUME HttpInv, NEW g \in DOMAIN fetches, RequestFails(g) PROVE HttpInv'
<1> DEFINE t == fetches[g]
<1>1. t \in TaskSet /\ (IsCurrent(g) /\ Live => Continues(t) /\ Headed(t)) /\ chan \in ChannelSet
  BY TaskIs
<1>2. EndTask(g) /\ HttpRest /\ t.st = "asking"
  BY DEF RequestFails, Task
<1>3. CASE t.resumed
  <2>1. Finish(g, "failed", Unknown) /\ Unknown \in Nat
    BY <1>3 DEF RequestFails, Task, Unknown
  <2> QED BY <1>2, <2>1, FinishKeeps
<1>4. CASE ~t.resumed
  <2>1. PublishAnswer(g, Refusal)
    BY <1>4 DEF RequestFails, Task
  <2>2. CASE ~IsCurrent(g)
    <3>1. UNCHANGED chan
      BY <2>1, <2>2 DEF PublishAnswer
    <3> QED BY <1>2, <2>2, <3>1, TaskAside
  <2>3. CASE IsCurrent(g)
    <3>1. TaskTypes'
      BY <1>2, TasksTyped DEF HttpInv, HttpTypes
    <3>2. UNCHANGED <<src, drained, complete, version>>
      BY <1>2 DEF HttpRest
    <3>3. Refusal \in HeaderSet /\ Refusal.st # "ok" /\ Refusal.est = Nothing
          /\ Nothing.tag = Untagged /\ NoAnswer.est = Nothing /\ NoAnswer.st # "ok"
      BY DEF Refusal, Headers, HeaderSet, Nothing, Established, Establishments, Unknown, Untagged, NoAnswer
    <3>4. /\ chan' \in ChannelSet /\ chan'.gen = chan.gen /\ chan'.retired = chan.retired
          /\ chan'.bytes = chan.bytes /\ chan'.out = chan.out /\ chan'.end = chan.end
          /\ chan'.hdr \in {chan.hdr, Refusal}
      BY <1>1, <2>1, <3>3 DEF PublishAnswer, ChannelSet
    <3>5. HttpTypes'
      BY <3>1, <3>2, <3>4 DEF HttpInv, HttpTypes, ChannelTypes, SourceTypes
    <3>6. Live' = Live /\ Base' = Base /\ Upcoming' = Upcoming
      BY <3>2, <3>4 DEF Live, Starting, Serving, Base, Upcoming
    <3>7. TaskInv'
      <4>1. chan'.gen \notin DOMAIN fetches'
        BY <1>2, <2>3, <3>4 DEF IsCurrent, EndTask
      <4> QED BY <4>1 DEF TaskInv
    <3>8. ASSUME Live PROVE chan.bytes = <<>> /\ chan.hdr = NoAnswer /\ chan.out = "none"
      BY <1>1, <1>2, <1>4, <2>3, <3>8 DEF Headed, Unresumed
    <3>9. BytesInv' /\ EndInv' /\ HeaderInv'
      <4>1. Live' => chan'.bytes = <<>> /\ chan'.out = "none" /\ chan'.hdr.est = Nothing
        BY <3>3, <3>4, <3>6, <3>8
      <4>2. Live' => \A i \in 1 .. Len(chan'.bytes) : FALSE
        BY <4>1
      <4> QED BY <4>1, <4>2 DEF BytesInv, EndInv, HeaderInv
    <3>10. ServingInv'
      <4>1. Live' /\ src'.at = "landing" => FALSE
        BY <3>2, <3>3, <3>6, <3>8 DEF HttpInv, ServingInv
      <4> QED BY <3>2, <3>4, <3>6, <4>1 DEF HttpInv, ServingInv, Starting, Serving, CompleteIsPromised
    <3> QED BY <3>5, <3>7, <3>9, <3>10 DEF HttpInv
  <2> QED BY <2>2, <2>3
<1> QED BY <1>3, <1>4

(* The first response establishes the entity the bytes are of. *)
LEMMA SourceOpenedKeeps ==
  ASSUME HttpInv, NEW g \in DOMAIN fetches, SourceOpened(g) PROVE HttpInv'
<1> DEFINE t == fetches[g]
           a == t.answer[1]
           est == Established(a.tag, a.total)
           h == Headers("ok", a.kind = "interval", a.kind = "endless", est)
           u == [t EXCEPT !.st = "body", !.got = 0, !.est = FactsFor(t, a)]
<1>1. /\ t \in TaskSet /\ AnswerOk(t)
      /\ IsCurrent(g) /\ Live => Continues(t) /\ Headed(t)
      /\ Known \in Establishments /\ chan \in ChannelSet /\ Upcoming \in Nat
  BY TaskIs
<1>2. t.st = "answered" /\ HttpRest /\ SetTask(g, u)
      /\ IF t.resumed THEN UNCHANGED chan ELSE PublishAnswer(g, h)
  BY DEF SourceOpened, Task
<1>3. a \in AnswerSet /\ a.first = t.start /\ (a.kind = "interval" => a.first <= a.last)
  BY <1>1, <1>2 DEF AnswerOk
<1>4. est \in Establishments /\ est.tag = a.tag
  BY <1>3 DEF AnswerSet, Established, Establishments
<1>5. h \in HeaderSet /\ h.st = "ok" /\ h.est = est
  <2>1. (a.kind = "interval") \in BOOLEAN /\ (a.kind = "endless") \in BOOLEAN
    OBVIOUS
  <2> QED BY <1>4, <2>1 DEF Headers, HeaderSet
<1>6. u \in TaskSet /\ u.st = "body" /\ u.got = 0 /\ u.start = t.start /\ u.answer = t.answer
      /\ u.resumed = t.resumed /\ u.est = IF src.at = "opening" /\ ~t.resumed THEN est ELSE t.est
  BY <1>1, <1>4 DEF TaskSet, FactsFor
<1>7. AnswerOk(u)
  BY <1>1, <1>2, <1>6 DEF AnswerOk
<1>8. Nothing.tag = Untagged
  BY DEF Nothing, Established
<1>9. Advertised(a) \in Nat
  BY <1>1, <1>2, AdvertisedIs
<1>10. t.start \in Nat /\ t.got \in Nat /\ t.resumed \in BOOLEAN /\ t.est \in Establishments
  BY <1>1 DEF TaskSet
<1> HIDE DEF u, h, est
<1>11. CASE ~IsCurrent(g)
  <2>1. UNCHANGED chan
    BY <1>2, <1>11 DEF PublishAnswer
  <2> QED BY <1>2, <1>6, <1>7, <1>11, <2>1, TaskAside
<1>12. CASE IsCurrent(g) /\ t.resumed
  <2>1. ASSUME Live PROVE Continues(u) /\ Headed(u)
    <3>1. Continues(t) /\ Headed(t)
      BY <1>1, <1>12, <2>1
    <3>2. Agrees(u.est, Known)
      BY <1>6, <1>12, <3>1 DEF Continues
    <3>3. Reached(u) = Upcoming
      <4>1. a.first + t.got = Upcoming /\ t.got = 0
        BY <1>2, <3>1 DEF Continues, Reached
      <4> QED BY <1>6, <4>1 DEF Reached
    <3>4. SameObject(u.answer[1], Known)
      BY <1>2, <1>6, <3>1 DEF Continues
    <3>5. Continues(u)
      BY <1>6, <1>9, <3>2, <3>3, <3>4 DEF Continues
    <3>6. Headed(u)
      BY <1>6, <1>12, <3>1 DEF Headed, Unresumed
    <3> QED BY <3>5, <3>6
  <2> QED BY <1>2, <1>6, <1>7, <1>12, <2>1, TaskGoesOn
<1>13. CASE IsCurrent(g) /\ ~t.resumed
  <2>1. TaskTypes' /\ fetches'[g] = u
    BY <1>2, <1>6, <1>7, TasksTyped DEF HttpInv, HttpTypes, SetTask, TaskTypes
  <2>2. UNCHANGED <<src, drained, complete, version>>
    BY <1>2 DEF HttpRest
  <2>3. /\ chan' \in ChannelSet /\ chan'.gen = chan.gen /\ chan'.retired = chan.retired
        /\ chan'.bytes = chan.bytes /\ chan'.out = chan.out /\ chan'.end = chan.end
        /\ chan.hdr = NoAnswer => chan'.hdr = h
    BY <1>1, <1>2, <1>5, <1>13 DEF PublishAnswer, ChannelSet
  <2>4. HttpTypes'
    BY <2>1, <2>2, <2>3 DEF HttpInv, HttpTypes, ChannelTypes, SourceTypes
  <2>5. Live' = Live /\ Base' = Base /\ Upcoming' = Upcoming
    BY <2>2, <2>3 DEF Live, Starting, Serving, Base, Upcoming
  <2>6. ASSUME Live
        PROVE  /\ Continues(t) /\ chan'.hdr = h /\ chan'.bytes = <<>> /\ chan'.out = "none"
               /\ src.at = "opening" => t.est = Nothing
    BY <1>1, <1>2, <1>13, <2>3, <2>6 DEF Headed, Unresumed
  <2>7. PICK w : w = u
    OBVIOUS
  <2>8. ASSUME Live' PROVE Continues(w)' /\ Headed(w)'
    <3>1. Continues(t) /\ chan'.hdr = h /\ chan'.out = "none"
          /\ (src.at = "opening" => t.est = Nothing)
      BY <2>5, <2>6, <2>8
    <3>2. Known' = IF src.at = "opening" THEN est ELSE Known
      BY <1>5, <2>2, <3>1 DEF Known
    <3>3. Agrees(u.est, Known')
      <4>1. Agrees(t.est, Known)
        BY <3>1 DEF Continues
      <4> QED BY <1>6, <1>13, <3>2, <4>1 DEF Agrees
    <3>4. SameObject(a, Known')
      <4>1. SameObject(a, Known)
        BY <1>2, <3>1 DEF Continues
      <4> QED BY <1>4, <3>2, <4>1 DEF SameObject
    <3>5. a.first + 0 = Upcoming
      BY <1>2, <3>1 DEF Continues, Reached
    <3>6. Continues(w)'
      BY <1>6, <1>9, <2>5, <2>7, <3>3, <3>4, <3>5 DEF Continues, Reached
    <3>7. Headed(w)'
      BY <1>5, <1>6, <2>7, <3>1 DEF Headed, Unresumed
    <3> QED BY <3>6, <3>7
  <2>9. TaskInv'
    <3>1. chan'.gen = g
      BY <1>13, <2>3 DEF IsCurrent
    <3> QED BY <2>1, <2>7, <2>8, <3>1 DEF TaskInv, Continues, Headed, Unresumed, Reached
  <2>10. BytesInv' /\ EndInv' /\ HeaderInv'
    <3>1. Live' => chan'.bytes = <<>> /\ chan'.out = "none" /\ chan'.hdr.st = "ok"
      BY <1>5, <2>5, <2>6
    <3>2. Live' => \A i \in 1 .. Len(chan'.bytes) : FALSE
      BY <3>1
    <3> QED BY <3>1, <3>2 DEF BytesInv, EndInv, HeaderInv
  <2>11. ServingInv'
    <3>1. Live' => chan'.hdr.st = "ok"
      BY <1>5, <2>5, <2>6
    <3> QED BY <2>2, <2>3, <2>5, <3>1 DEF HttpInv, ServingInv, Starting, Serving, CompleteIsPromised
  <2> QED BY <2>4, <2>9, <2>10, <2>11 DEF HttpInv
<1> QED BY <1>11, <1>12, <1>13

(* A task moves on within its body. *)
LEMMA BodyGoesOn ==
  ASSUME HttpInv, NEW g \in DOMAIN fetches, IsCurrent(g), UNCHANGED chan, HttpRest,
         fetches[g].st = "body", NEW u \in TaskSet, SetTask(g, u), u.st \in {"holding", "ended"},
         u.start = fetches[g].start, u.est = fetches[g].est, u.answer = fetches[g].answer,
         u.got = fetches[g].got, u.resumed = fetches[g].resumed
  PROVE  HttpInv'
<1> DEFINE t == fetches[g]
<1>1. t \in TaskSet /\ AnswerOk(t) /\ (Live => Continues(t) /\ Headed(t))
  BY TaskIs
<1>2. AnswerOk(u)
  BY <1>1 DEF AnswerOk
<1>3. Live => Continues(u) /\ Headed(u)
  BY <1>1 DEF Continues, Headed, Reached, Unresumed
<1> QED BY <1>2, <1>3, TaskGoesOn

(* A chunk received is held until it is pushed. *)
LEMMA ChunkKeeps ==
  ASSUME HttpInv, NEW g \in DOMAIN fetches, Chunk(g) PROVE HttpInv'
<1> DEFINE t == fetches[g]
           u == [t EXCEPT !.st = "holding"]
<1>1. t \in TaskSet
  BY TaskIs
<1>2. t.st = "body" /\ IsCurrent(g) /\ SetTask(g, u) /\ UNCHANGED chan /\ HttpRest
  BY DEF Chunk, Task
<1>3. /\ u \in TaskSet /\ u.st = "holding" /\ u.start = t.start /\ u.est = t.est
      /\ u.answer = t.answer /\ u.got = t.got /\ u.resumed = t.resumed
  BY <1>1 DEF TaskSet
<1> HIDE DEF u
<1> QED BY <1>2, <1>3, BodyGoesOn

(* The end of a body moves no bytes. *)
LEMMA BodyEndsKeeps ==
  ASSUME HttpInv, NEW g \in DOMAIN fetches, BodyEnds(g) PROVE HttpInv'
<1> DEFINE t == fetches[g]
<1>1. t \in TaskSet
  BY TaskIs
<1>2. t.st = "body" /\ IsCurrent(g) /\ UNCHANGED chan /\ HttpRest
  BY DEF BodyEnds, Task
<1>3. PICK clean \in BOOLEAN : SetTask(g, [t EXCEPT !.st = "ended", !.clean = clean])
  BY DEF BodyEnds, Task
<1> DEFINE u == [t EXCEPT !.st = "ended", !.clean = clean]
<1>4. /\ u \in TaskSet /\ u.st = "ended" /\ u.start = t.start /\ u.est = t.est
      /\ u.answer = t.answer /\ u.got = t.got /\ u.resumed = t.resumed
  BY <1>1 DEF TaskSet
<1>5. SetTask(g, u)
  BY <1>3
<1> HIDE DEF u
<1> QED BY <1>2, <1>4, <1>5, BodyGoesOn

(* The pushed bytes are the next ones of the entity established. *)
LEMMA PushKeeps ==
  ASSUME HttpInv, NEW g \in DOMAIN fetches, PushBytes(g) PROVE HttpInv'
<1> DEFINE t == fetches[g]
           b == ChannelPushed(t)
           a == t.answer[1]
           u == [t EXCEPT !.got = @ + 1, !.st = "body"]
<1>1. /\ t \in TaskSet /\ AnswerOk(t)
      /\ IsCurrent(g) /\ Live => Continues(t) /\ Headed(t)
      /\ Known \in Establishments /\ chan \in ChannelSet /\ Upcoming \in Nat /\ Base \in Nat
  BY TaskIs
<1>2. IsCurrent(g) /\ t.st = "holding" /\ Promised(t) /\ HttpRest /\ SetTask(g, u)
      /\ chan' = [chan EXCEPT !.bytes = Append(@, b)]
  BY DEF PushBytes, PushOneByte, Task
<1>3. t.got \in Nat /\ a \in AnswerSet /\ Advertised(a) \in Nat
  BY <1>1, <1>2, AdvertisedIs DEF TaskSet, AnswerOk
<1>4. b \in ByteSet /\ b.at = a.first + t.got /\ b.tag = a.tag
  BY <1>3 DEF ChannelPushed, ByteSet, AnswerSet
<1>5. /\ u \in TaskSet /\ u.st = "body" /\ u.start = t.start /\ u.est = t.est
      /\ u.answer = t.answer /\ u.got = t.got + 1 /\ u.resumed = t.resumed
  <2>1. t.got + 1 \in Nat
    BY <1>3
  <2> QED BY <1>1, <2>1 DEF TaskSet
<1> HIDE DEF u, b
<1>6. chan.bytes \in Seq(ByteSet) /\ Len(chan.bytes) \in Nat
  BY <1>1 DEF ChannelSet
<1>7. /\ Append(chan.bytes, b) \in Seq(ByteSet) /\ Len(Append(chan.bytes, b)) = Len(chan.bytes) + 1
      /\ \A i \in 1 .. Len(chan.bytes) : Append(chan.bytes, b)[i] = chan.bytes[i]
      /\ Append(chan.bytes, b)[Len(chan.bytes) + 1] = b
  BY <1>4, <1>6, AppendProperties
<1>8. /\ chan' \in ChannelSet /\ chan'.gen = chan.gen /\ chan'.retired = chan.retired
      /\ chan'.bytes = Append(chan.bytes, b) /\ chan'.out = chan.out /\ chan'.end = chan.end
      /\ chan'.hdr = chan.hdr
  <2> DEFINE more == Append(chan.bytes, b)
  <2>1. more \in Seq(ByteSet) /\ chan' = [chan EXCEPT !.bytes = more]
    BY <1>2, <1>7
  <2> HIDE DEF more
  <2> QED BY <1>1, <2>1 DEF ChannelSet, more
<1>9. UNCHANGED <<src, drained, complete, version>>
  BY <1>2 DEF HttpRest
<1>10. AnswerOk(u)
  BY <1>1, <1>2, <1>5 DEF AnswerOk
<1>11. TaskTypes' /\ fetches'[g] = u
  BY <1>2, <1>5, <1>10, TasksTyped DEF HttpInv, HttpTypes, SetTask, TaskTypes
<1>12. HttpTypes'
  BY <1>8, <1>9, <1>11 DEF HttpInv, HttpTypes, ChannelTypes, SourceTypes
<1>13. Live' = Live /\ Base' = Base /\ Known' = Known
  BY <1>8, <1>9 DEF Live, Starting, Serving, Base, Known
<1>14. Upcoming' = Upcoming + 1
  <2>1. Upcoming' = Base + Len(chan'.bytes)
    BY <1>13 DEF Upcoming
  <2> QED BY <1>1, <1>6, <1>7, <1>8, <2>1 DEF Upcoming
<1>15. ASSUME Live
       PROVE  /\ a.first + t.got = Upcoming /\ SameObject(a, Known) /\ Agrees(t.est, Known)
              /\ chan.out = "none" /\ chan.hdr.st = "ok"
              /\ Advertised(a) # Unknown => t.got < Advertised(a)
  <2>1. Continues(t) /\ Headed(t)
    BY <1>1, <1>2, <1>15
  <2> QED BY <1>2, <2>1 DEF Continues, Headed, Reached, Unresumed, Promised
<1>16. TaskInv'
  <2>1. chan'.gen = g
    BY <1>2, <1>8 DEF IsCurrent
  <2>2. PICK w : w = u
    OBVIOUS
  <2>3. ASSUME Live' PROVE Continues(w)' /\ Headed(w)'
    <3>1. /\ a.first + t.got = Upcoming /\ SameObject(a, Known) /\ Agrees(t.est, Known)
          /\ chan.out = "none" /\ chan.hdr.st = "ok"
          /\ Advertised(a) # Unknown => t.got < Advertised(a)
      BY <1>13, <1>15, <2>3
    <3>2. a.first + (t.got + 1) = Upcoming + 1
      BY <1>3, <3>1 DEF AnswerSet
    <3>3. Advertised(a) # Unknown => t.got + 1 <= Advertised(a)
      BY <1>3, <3>1
    <3>4. Continues(w)'
      BY <1>5, <1>13, <1>14, <2>2, <3>1, <3>2, <3>3 DEF Continues, Reached
    <3>5. Headed(w)'
      BY <1>5, <1>8, <2>2, <3>1 DEF Headed, Unresumed
    <3> QED BY <3>4, <3>5
  <2> QED BY <1>11, <2>1, <2>2, <2>3 DEF TaskInv, Continues, Headed, Unresumed, Reached
<1>17. BytesInv'
  <2> SUFFICES ASSUME Live', NEW i \in 1 .. Len(chan'.bytes)
               PROVE  chan'.bytes[i].at = Base + i - 1 /\ SameObject(chan'.bytes[i], Known)
    BY <1>13 DEF BytesInv, SameObject
  <2>1. i \in 1 .. Len(chan.bytes) + 1
    BY <1>7, <1>8
  <2>2. CASE i \in 1 .. Len(chan.bytes)
    BY <1>7, <1>8, <1>13, <2>2 DEF HttpInv, BytesInv
  <2>3. CASE i = Len(chan.bytes) + 1
    <3>1. chan'.bytes[i] = b
      BY <1>7, <1>8, <2>3
    <3>2. a.first + t.got = Base + Len(chan.bytes) /\ SameObject(a, Known)
      BY <1>13, <1>15 DEF Upcoming
    <3>3. b.at = Base + i - 1
      BY <1>1, <1>4, <1>6, <2>3, <3>2
    <3>4. SameObject(b, Known)
      BY <1>4, <3>2 DEF SameObject
    <3> QED BY <3>1, <3>3, <3>4
  <2> QED BY <1>6, <2>1, <2>2, <2>3
<1>18. EndInv' /\ HeaderInv'
  BY <1>8, <1>13, <1>15 DEF EndInv, HeaderInv
<1>19. ServingInv'
  BY <1>8, <1>9, <1>13 DEF HttpInv, ServingInv, Starting, Serving, CompleteIsPromised
<1> QED BY <1>12, <1>16, <1>17, <1>18, <1>19 DEF HttpInv

(* A resumed request starts where the bytes pushed so far end. *)
LEMMA ResumeKeeps ==
  ASSUME HttpInv, NEW g \in DOMAIN fetches, ResumeBody(g) PROVE HttpInv'
<1> DEFINE t == fetches[g]
           u == [t EXCEPT !.st = "asking", !.start = ResumeFrom(t), !.resumed = TRUE, !.got = 0,
                          !.answer = <<>>]
<1>1. /\ t \in TaskSet /\ AnswerOk(t) /\ (IsCurrent(g) /\ Live => Continues(t) /\ Headed(t))
  BY TaskIs
<1>2. t.st = "ended" /\ SetTask(g, u) /\ UNCHANGED chan /\ HttpRest
  BY DEF ResumeBody, Task
<1>3. t.start + t.got \in Nat /\ t.answer[1].first = t.start
  BY <1>1, <1>2 DEF TaskSet, AnswerOk
<1>4. /\ u \in TaskSet /\ u.st = "asking" /\ u.start = t.start + t.got /\ u.est = t.est
      /\ u.resumed = TRUE /\ u.got = 0
  <2>1. <<>> \in Seq(AnswerSet) /\ 0 \in Nat /\ ResumeFrom(t) \in Nat
    BY <1>3 DEF ResumeFrom
  <2> QED BY <1>1, <2>1 DEF TaskSet, ResumeFrom
<1> HIDE DEF u
<1>5. AnswerOk(u)
  BY <1>4 DEF AnswerOk
<1>6. CASE ~IsCurrent(g)
  BY <1>2, <1>4, <1>5, <1>6, TaskAside
<1>7. CASE IsCurrent(g)
  <2>1. Live => Continues(u) /\ Headed(u)
    <3>1. ASSUME Live PROVE Continues(t) /\ Headed(t) /\ t.start + t.got = Upcoming
      BY <1>1, <1>2, <1>3, <1>7, <3>1 DEF Continues, Reached
    <3> QED BY <1>2, <1>4, <3>1 DEF Continues, Headed, Reached, Unresumed
  <2> QED BY <1>2, <1>4, <1>5, <1>7, <2>1, TaskGoesOn
<1> QED BY <1>6, <1>7

(* A body that is over has an end that the source may claim. *)
LEMMA BodyOverKeeps ==
  ASSUME HttpInv, NEW g \in DOMAIN fetches, BodyOver(g) PROVE HttpInv'
<1> DEFINE t == fetches[g]
           adv == Advertised(t.answer[1])
           e == IF adv = Unknown THEN Unknown ELSE t.start + adv
<1>1. /\ t \in TaskSet /\ AnswerOk(t) /\ (IsCurrent(g) /\ Live => Continues(t) /\ Headed(t))
      /\ Upcoming \in Nat
  BY TaskIs
<1>2. t.st = "ended" /\ Finish(g, BodyOutcome(t), e) /\ EndTask(g) /\ HttpRest
  BY DEF BodyOver, Task
<1>3. adv \in Nat /\ t.start \in Nat /\ t.got \in Nat /\ t.answer[1].first = t.start
  BY <1>1, <1>2, AdvertisedIs DEF TaskSet, AnswerOk
<1>4. e \in Nat /\ BodyOutcome(t) \in {"eof", "failed"}
  BY <1>3 DEF Unknown, BodyOutcome
<1>5. ASSUME IsCurrent(g), Live, BodyOutcome(t) = "eof" PROVE e \in {Unknown, Upcoming}
  <2>1. ~Short(t)
    BY <1>5 DEF BodyOutcome
  <2>2. CASE adv # Unknown
    <3>1. t.got <= adv /\ t.answer[1].first + t.got = Upcoming
      BY <1>1, <1>2, <1>5, <2>2 DEF Continues, Reached
    <3>2. ~(t.got < adv)
      BY <2>1, <2>2 DEF Short
    <3> QED BY <1>3, <2>2, <3>1, <3>2
  <2> QED BY <2>2
<1> HIDE DEF e
<1> QED BY <1>2, <1>4, <1>5, FinishKeeps

(* Every step of a fetch task keeps the invariant. *)
LEMMA FetchingKeeps ==
  ASSUME HttpInv, NEW g \in DOMAIN fetches, Fetching(g) PROVE HttpInv'
<1>1. CASE Exceeds(g)
  <2>1. Finish(g, "failed", Unknown) /\ EndTask(g) /\ HttpRest /\ Unknown \in Nat
    BY <1>1 DEF Exceeds, Unknown
  <2> QED BY <2>1, FinishKeeps
<1>2. CASE BodyStalls(g)
  <2>1. Finish(g, "failed", Unknown) /\ EndTask(g) /\ HttpRest /\ Unknown \in Nat
    BY <1>2 DEF BodyStalls, Unknown
  <2> QED BY <2>1, FinishKeeps
<1> QED BY <1>1, <1>2, CancelledKeeps, AnsweredKeeps, RequestFailsKeeps, SourceOpenedKeeps, ChunkKeeps,
           PushKeeps, BodyEndsKeeps, ResumeKeeps, BodyOverKeeps DEF Fetching

-----------------------------------------------------------------------------
(* Steps of the decode thread and of the main thread. *)

(* Where no reader waits on the channel there is nothing to keep but the types    *)
(* and a completion already confirmed.                                           *)
LEMMA NobodyReads ==
  ASSUME HttpInv, HttpTypes', ~Live', src'.at = "opening" => src'.pos = 0, CompleteIsPromised'
  PROVE  HttpInv'
BY DEF HttpInv, TaskInv, BytesInv, EndInv, HeaderInv, ServingInv

(* The channel and its tasks are left alone, and mean to the reader what they did. *)
LEMMA SameChannel ==
  ASSUME HttpInv, UNCHANGED <<chan, fetches>>, SourceTypes', Live' => Live /\ Base' = Base /\ Known' = Known,
         src'.at = "opening" => src.at = "opening", ServingInv'
  PROVE  HttpInv'
<1>1. HttpTypes'
  BY DEF HttpInv, HttpTypes, ChannelTypes, TaskTypes, AnswerOk
<1>2. TaskInv'
  <2> SUFFICES ASSUME Live', chan.gen \in DOMAIN fetches PROVE TaskInv'
    BY DEF TaskInv
  <2>1. PICK w : w = fetches[chan.gen]
    OBVIOUS
  <2>2. Continues(w) /\ Headed(w)
    BY <2>1 DEF HttpInv, TaskInv
  <2>3. Known' = Known /\ Upcoming' = Upcoming
    BY DEF Upcoming
  <2>4. Continues(w)'
    BY <2>2, <2>3 DEF Continues
  <2>5. Headed(w)'
    BY <2>2 DEF Headed
  <2> QED BY <2>1, <2>4, <2>5 DEF TaskInv, Continues, Headed, Reached, Unresumed
<1>3. BytesInv' /\ EndInv' /\ HeaderInv'
  BY DEF HttpInv, BytesInv, EndInv, HeaderInv, Upcoming
<1> QED BY <1>1, <1>2, <1>3 DEF HttpInv

(* The channel after it was emptied, retired or begun anew. *)
LEMMA ChannelAnew ==
  ASSUME ChannelTypes
  PROVE  /\ Retired(chan) \in ChannelSet /\ Retired(chan).retired = TRUE
         /\ Begun(chan) \in ChannelSet /\ Begun(chan).gen = chan.gen + 1
         /\ Begun(chan).retired = FALSE /\ Begun(chan).bytes = <<>>
         /\ Begun(chan).out = "none" /\ Begun(chan).hdr = NoAnswer
         /\ NoAnswer \in HeaderSet /\ NoAnswer.est = Nothing /\ Nothing.tag = Untagged
         /\ Nothing \in Establishments
<1>1. /\ NoAnswer \in HeaderSet /\ NoAnswer.est = Nothing /\ Nothing.tag = Untagged
      /\ Nothing \in Establishments
  BY DEF NoAnswer, Headers, HeaderSet, Nothing, Established, Establishments, Unknown, Untagged
<1>2. chan.gen \in Nat /\ chan.gen + 1 \in Nat /\ <<>> \in Seq(ByteSet) /\ Unknown \in Nat
  BY DEF ChannelTypes, ChannelSet, Unknown
<1>3. /\ Emptied(chan) \in ChannelSet /\ Emptied(chan).gen = chan.gen + 1
      /\ Emptied(chan).bytes = <<>> /\ Emptied(chan).out = "none" /\ Emptied(chan).hdr = NoAnswer
  <2> HIDE DEF NoAnswer
  <2> QED BY <1>1, <1>2 DEF ChannelTypes, ChannelSet, Emptied
<1> QED BY <1>1, <1>3 DEF Retired, Begun, ChannelSet

(* A closed source, and a failed one. *)
LEMMA ClosedIs ==
  /\ SourceClosed \in SourceSet /\ SourceClosed.at = "closed" /\ SourceClosed.pos = 0
  /\ SourceFailed \in SourceSet /\ SourceFailed.at = "failed" /\ SourceFailed.pos = 0
  /\ \A g \in Nat : LET s == [SourceClosed EXCEPT !.at = "opening", !.gen = g] IN
        s \in SourceSet /\ s.at = "opening" /\ s.gen = g /\ s.pos = 0 /\ s.target = 0
<1>1. Nothing \in Establishments
  BY DEF Nothing, Established, Establishments, Unknown, Untagged
<1> QED BY <1>1 DEF SourceClosed, SourceFailed, SourceSet

(* Superseded tasks keep their types. *)
LEMMA SupersedeTyped == ASSUME TaskTypes, Supersede PROVE TaskTypes'
BY DEF TaskTypes, Supersede, Surviving, Task, AnswerOk

(* The source is retired, whoever was reading. *)
LEMMA RetiredKeeps ==
  ASSUME HttpInv, chan' = Retired(chan), Supersede, SourceTypes',
         src'.at = "opening" => src'.pos = 0, CompleteIsPromised'
  PROVE  HttpInv'
<1>1. ChannelTypes' /\ ~Live'
  BY ChannelAnew DEF HttpInv, HttpTypes, ChannelTypes, Live
<1>2. TaskTypes'
  BY SupersedeTyped DEF HttpInv, HttpTypes
<1> QED BY <1>1, <1>2, NobodyReads DEF HttpTypes

(* A new request is made: the channel begins anew, for its task alone. *)
LEMMA AskedKeeps ==
  ASSUME HttpInv, NEW start \in Nat, NEW est \in Establishments, AskRange(start, est),
         SourceTypes', src'.at \in {"opening", "seeking"}, src'.gen = chan.gen + 1,
         Base' = start, src'.at = "opening" => est = Nothing /\ src'.pos = 0,
         src'.at = "seeking" => src'.est = est
  PROVE  HttpInv'
<1>1. /\ Begun(chan) \in ChannelSet /\ Begun(chan).gen = chan.gen + 1
      /\ Begun(chan).retired = FALSE /\ Begun(chan).bytes = <<>>
      /\ Begun(chan).out = "none" /\ Begun(chan).hdr = NoAnswer
      /\ NoAnswer.est = Nothing /\ Nothing.tag = Untagged
  BY ChannelAnew DEF HttpInv, HttpTypes
<1>2. chan' = Begun(chan) /\ NewTask(chan.gen + 1, start, est)
  BY DEF AskRange
<1>3. /\ chan' \in ChannelSet /\ chan'.gen = chan.gen + 1 /\ chan'.retired = FALSE
      /\ chan'.bytes = <<>> /\ chan'.out = "none" /\ chan'.hdr = NoAnswer
  BY <1>1, <1>2
<1>4. PICK w : w = Asking(start, est)
  OBVIOUS
<1>5. /\ w \in TaskSet /\ w.st = "asking" /\ w.start = start /\ w.est = est /\ w.resumed = FALSE
      /\ w.got = 0
  <2>1. <<>> \in Seq(AnswerSet) /\ 0 \in Nat
    OBVIOUS
  <2> QED BY <1>4, <2>1 DEF Asking, TaskSet
<1>6. AnswerOk(w)
  BY <1>5 DEF AnswerOk
<1>7. fetches'[chan'.gen] = w /\ TaskTypes'
  <2>1. /\ DOMAIN fetches' = Surviving \cup {chan.gen + 1}
        /\ \A h \in DOMAIN fetches' : fetches'[h] = IF h = chan.gen + 1 THEN w ELSE fetches[h]
    BY <1>2, <1>4 DEF NewTask
  <2>2. \A h \in DOMAIN fetches' : fetches'[h] \in TaskSet /\ AnswerOk(fetches'[h])
    BY <1>5, <1>6, <2>1 DEF HttpInv, HttpTypes, TaskTypes, Surviving
  <2>3. fetches' = [h \in DOMAIN fetches' |-> fetches'[h]]
    BY <1>2 DEF NewTask
  <2>4. fetches' \in [DOMAIN fetches' -> TaskSet]
    BY <2>2, <2>3
  <2> QED BY <1>3, <2>1, <2>2, <2>4 DEF TaskTypes, AnswerOk
<1>8. HttpTypes'
  BY <1>3, <1>7 DEF HttpTypes, ChannelTypes
<1>9. Known' = est
  BY <1>1, <1>3 DEF Known
<1>10. Upcoming' = start
  <2>1. Len(chan'.bytes) = 0 /\ start + 0 = start
    BY <1>3
  <2> QED BY <2>1 DEF Upcoming
<1>11. TaskInv'
  <2>1. Continues(w)'
    BY <1>5, <1>9, <1>10 DEF Continues, Reached, Agrees
  <2>2. Headed(w)'
    BY <1>3, <1>5 DEF Headed, Unresumed
  <2> QED BY <1>7, <2>1, <2>2 DEF TaskInv, Continues, Headed, Reached, Unresumed
<1>12. BytesInv' /\ EndInv' /\ HeaderInv'
  <2>1. \A i \in 1 .. Len(chan'.bytes) : FALSE
    BY <1>3
  <2> QED BY <1>1, <1>3, <2>1 DEF BytesInv, EndInv, HeaderInv
<1>13. ServingInv'
  BY <1>3 DEF ServingInv, Serving, CompleteIsPromised
<1> QED BY <1>8, <1>11, <1>12, <1>13 DEF HttpInv

(* Reading takes the bytes from the front of the channel, in their order. *)
LEMMA BytesKeep ==
  ASSUME HttpInv, ReadBytes PROVE HttpInv'
<1> USE DEF Decoding
<1>1. InChannel /\ Entered /\ chan.bytes # <<>> /\ UNCHANGED <<fetches, complete, version>>
  BY DEF ReadBytes
<1>2. PICK n \in 1 .. Len(chan.bytes) :
         /\ chan' = [chan EXCEPT !.bytes = SubSeq(@, n + 1, Len(@))]
         /\ drained' = SubSeq(chan.bytes, 1, n)[n].at + 1
         /\ IF src.at = "reading"
            THEN src' = [src EXCEPT !.at = "idle", !.gen = 0, !.pos = @ + n]
            ELSE UNCHANGED src
  BY DEF ReadBytes
<1>3. chan \in ChannelSet /\ src \in SourceSet /\ drained \in Nat /\ complete \in Nat
  BY DEF HttpInv, HttpTypes, ChannelTypes, SourceTypes
<1>4. chan.bytes \in Seq(ByteSet) /\ Len(chan.bytes) \in Nat
  BY <1>3 DEF ChannelSet
<1>5. Live /\ Serving /\ ~Starting /\ Base = drained /\ Known = src.est
      /\ src.at \in {"reading", "confirming"}
  BY <1>1 DEF Live, Serving, Starting, InChannel, Entered, IsCurrent, Base, Known
<1> DEFINE rest == SubSeq(chan.bytes, n + 1, Len(chan.bytes))
<1>6. /\ rest \in Seq(ByteSet) /\ Len(rest) = Len(chan.bytes) - n
      /\ \A i \in 1 .. Len(chan.bytes) - n : rest[i] = chan.bytes[n + i]
  <2>1. n \in 0 .. Len(chan.bytes)
    BY <1>4
  <2> QED BY <1>4, <2>1, DropFront
<1>7. SubSeq(chan.bytes, 1, n)[n] = chan.bytes[n]
  <2>1. n \in Nat /\ 1 \in Int /\ n \in Int /\ n - 1 + 1 = n /\ n \in 1 .. n /\ 1 + n - 1 = n
    BY <1>4
  <2>2. \A i \in 1 .. n : chan.bytes[i] \in ByteSet
    BY <1>4
  <2>3. \A i \in 1 .. n - 1 + 1 : SubSeq(chan.bytes, 1, n)[i] = chan.bytes[1 + i - 1]
    BY <2>1, <2>2, SubSeqProperties
  <2>4. SubSeq(chan.bytes, 1, n)[n] = chan.bytes[1 + n - 1]
    BY <2>1, <2>3
  <2> QED BY <2>1, <2>4
<1>8. chan.bytes[n].at = drained + n - 1
  BY <1>5 DEF HttpInv, BytesInv
<1>9. drained' = drained + n
  BY SMTT(60), <1>2, <1>3, <1>4, <1>7, <1>8
<1>10. chan' = [chan EXCEPT !.bytes = rest]
  BY <1>2
<1> HIDE DEF rest
<1>11. /\ chan' \in ChannelSet /\ chan'.gen = chan.gen /\ chan'.retired = chan.retired
       /\ chan'.bytes = rest /\ chan'.out = chan.out /\ chan'.end = chan.end
       /\ chan'.hdr = chan.hdr
  BY <1>3, <1>6, <1>10 DEF ChannelSet
<1>12. /\ src' \in SourceSet /\ src'.est = src.est /\ src'.eof = src.eof
       /\ \/ src'.at = "confirming"
          \/ src.at = "reading" /\ src'.at = "idle" /\ src'.pos = src.pos + n
  <2>1. CASE src.at = "reading"
    <3>1. src.pos + n \in Nat /\ 0 \in Nat
      BY <1>3, <1>4 DEF SourceSet
    <3> QED BY ZenonT(60), <1>2, <1>3, <2>1, <3>1 DEF SourceSet
  <2>2. CASE src.at = "confirming"
    BY <1>2, <1>3, <2>2
  <2> QED BY <1>5, <2>1, <2>2
<1>13. Live' /\ Base' = drained + n /\ Known' = Known
  BY <1>5, <1>9, <1>11, <1>12 DEF Live, Serving, Starting, Base, Known
<1>14. Upcoming' = Upcoming
  <2>1. Upcoming' = drained + n + (Len(chan.bytes) - n)
    BY <1>6, <1>11, <1>13 DEF Upcoming
  <2>2. Upcoming = drained + Len(chan.bytes)
    BY <1>5 DEF Upcoming
  <2>3. drained + n + (Len(chan.bytes) - n) = drained + Len(chan.bytes)
    <3>1. n \in Int /\ drained \in Int /\ Len(chan.bytes) \in Int
      BY <1>3, <1>4
    <3>2. \A x, y, z \in Int : x + y + (z - y) = x + z
      OBVIOUS
    <3> QED BY <3>1, <3>2
  <2> QED BY <2>1, <2>2, <2>3
<1>15. HttpTypes'
  <2>1. SourceTypes'
    BY <1>1, <1>3, <1>4, <1>9, <1>12 DEF HttpInv, HttpTypes, SourceTypes
  <2> QED BY <1>1, <1>11, <2>1 DEF HttpInv, HttpTypes, ChannelTypes, TaskTypes, AnswerOk
<1>16. TaskInv'
  <2> SUFFICES ASSUME chan.gen \in DOMAIN fetches PROVE TaskInv'
    BY <1>1, <1>11 DEF TaskInv
  <2>1. PICK w : w = fetches[chan.gen]
    OBVIOUS
  <2>2. Continues(w) /\ Headed(w)
    BY <1>5, <2>1 DEF HttpInv, TaskInv
  <2>3. Continues(w)'
    BY <1>13, <1>14, <2>2 DEF Continues
  <2>4. ~Unresumed(w)
    BY <1>1, <2>2 DEF Headed
  <2>5. Headed(w)'
    BY <1>11, <2>2, <2>4 DEF Headed
  <2> QED BY <1>1, <1>11, <2>1, <2>3, <2>5 DEF TaskInv, Continues, Headed, Reached, Unresumed
<1>17. BytesInv'
  <2> SUFFICES ASSUME NEW i \in 1 .. Len(rest)
               PROVE  rest[i].at = drained + n + i - 1 /\ SameObject(rest[i], Known)
    BY <1>11, <1>13 DEF BytesInv, SameObject
  <2>1. rest[i] = chan.bytes[n + i] /\ n + i \in 1 .. Len(chan.bytes)
    BY <1>4, <1>6
  <2>2. chan.bytes[n + i].at = drained + (n + i) - 1 /\ SameObject(chan.bytes[n + i], Known)
    BY <1>5, <2>1 DEF HttpInv, BytesInv
  <2>3. drained + (n + i) - 1 = drained + n + i - 1
    BY <1>3, <1>4, <1>6
  <2> QED BY <2>1, <2>2, <2>3
<1>18. EndInv' /\ HeaderInv'
  BY <1>1, <1>5, <1>11, <1>14 DEF HttpInv, EndInv, HeaderInv
<1>19. ServingInv'
  <2>1. src.at = "reading" => src.eof \/ src.pos = drained
    BY <1>5 DEF HttpInv, ServingInv
  <2>2. src'.at # "confirming" => src'.eof \/ src'.pos = drained'
    BY <1>9, <1>12, <2>1
  <2> QED BY <1>12, <2>2 DEF ServingInv, Starting, CompleteIsPromised
<1> QED BY <1>15, <1>16, <1>17, <1>18, <1>19 DEF HttpInv

(* Every step of the decode thread keeps the invariant. *)
LEMMA DecodeKeeps ==
  ASSUME HttpInv, DecodeThread PROVE HttpInv'
<1> USE DEF Decoding, Mute
<1>0. /\ chan \in ChannelSet /\ src \in SourceSet /\ drained \in Nat /\ complete \in Nat
      /\ version \in DOMAIN Sizes /\ Unknown \in Nat
  BY DEF HttpInv, HttpTypes, ChannelTypes, SourceTypes, Unknown
<1>00. chan.gen \in Nat /\ chan.gen + 1 \in Nat /\ chan.hdr.est \in Establishments /\ chan.end \in Nat
       /\ src.est \in Establishments /\ src.est.total \in Nat /\ src.pos \in Nat /\ src.target \in Nat
  BY <1>0 DEF ChannelSet, SourceSet, HeaderSet, Establishments
<1>1. CASE OpenSource
  <2>1. /\ AskRange(0, Nothing) /\ src' = [SourceClosed EXCEPT !.at = "opening", !.gen = chan.gen + 1]
        /\ UNCHANGED <<drained, complete, version>>
    BY <1>1 DEF OpenSource
  <2>2. /\ src' \in SourceSet /\ src'.at = "opening" /\ src'.gen = chan.gen + 1 /\ src'.pos = 0
    BY <1>00, <2>1, ClosedIs
  <2>3. Base' = 0 /\ SourceTypes'
    BY <1>0, <2>1, <2>2 DEF Base, SourceTypes
  <2>4. Nothing \in Establishments /\ 0 \in Nat
    BY ChannelAnew DEF HttpInv, HttpTypes
  <2> QED BY <2>1, <2>2, <2>3, <2>4, AskedKeeps
<1>2. CASE OpenAnswered
  <2>1. /\ src.at = "opening" /\ HeadersFor(src.gen) /\ drained' = 0
        /\ src' = [src EXCEPT !.at = "idle", !.gen = 0, !.est = chan.hdr.est,
                              !.seekable = chan.hdr.ranged]
        /\ UNCHANGED <<chan, fetches, complete, version>>
    BY <1>2 DEF OpenAnswered
  <2>2. /\ src' \in SourceSet /\ src'.at = "idle" /\ src'.est = chan.hdr.est /\ src'.pos = src.pos
    BY <1>0, <1>00, <2>1 DEF SourceSet, ChannelSet, HeaderSet
  <2>3. Live /\ Base' = Base /\ Known' = Known
    BY <2>1, <2>2 DEF Live, Starting, Base, Known, HeadersFor, IsCurrent
  <2>4. ServingInv'
    BY <2>1, <2>2 DEF HttpInv, ServingInv, Live, Starting, CompleteIsPromised
  <2>5. SourceTypes'
    BY <1>0, <2>1, <2>2 DEF SourceTypes
  <2> QED BY <2>1, <2>2, <2>3, <2>4, <2>5, SameChannel
<1>3. CASE OpenFails \/ SourceDropped
  <2>1. /\ chan' = Retired(chan) /\ Supersede /\ src' = SourceClosed /\ UNCHANGED version
        /\ drained' \in {drained, 0} /\ complete' \in {complete, Unknown}
    BY <1>3 DEF OpenFails, SourceDropped, Gone
  <2>2. SourceTypes' /\ src'.at = "closed"
    <3>1. src' \in SourceSet /\ src'.at = "closed"
      BY <2>1, ClosedIs
    <3>2. drained' \in Nat /\ complete' \in Nat /\ version' \in DOMAIN Sizes
      BY <1>0, <2>1
    <3> QED BY <3>1, <3>2 DEF SourceTypes
  <2> QED BY <2>1, <2>2, RetiredKeeps DEF CompleteIsPromised
<1>4. CASE BeginRead \/ BeginConfirm \/ ReadAtEnd
  <2>1. /\ src.at = "idle" /\ UNCHANGED <<chan, fetches, drained, complete, version>>
        /\ \/ src' = [src EXCEPT !.at = "reading", !.gen = chan.gen]
           \/ src' = [src EXCEPT !.at = "confirming", !.gen = chan.gen]
           \/ src' = [src EXCEPT !.ended = TRUE]
    BY <1>4 DEF BeginRead, BeginConfirm, ReadAtEnd, Reading
  <2>2. /\ src' \in SourceSet /\ src'.at \in {"idle", "reading", "confirming"}
        /\ src'.est = src.est /\ src'.pos = src.pos /\ src'.eof = src.eof
    BY ZenonT(60), <1>0, <1>00, <2>1 DEF SourceSet
  <2>3. (Live' => Live) /\ Base' = Base /\ Known' = Known
    BY <2>1, <2>2 DEF Live, Starting, Serving, Base, Known
  <2>4. ServingInv'
    BY <2>1, <2>2, <2>3 DEF HttpInv, ServingInv, Starting, Serving, CompleteIsPromised
  <2>5. SourceTypes'
    BY <1>0, <2>1, <2>2 DEF SourceTypes
  <2> QED BY <2>1, <2>2, <2>3, <2>4, <2>5, SameChannel
<1>5. CASE ReadRefused \/ ReadRetired \/ ReadFails
  <2>1. src' = SourceFailed /\ UNCHANGED <<chan, fetches, drained, complete, version>>
    BY <1>5 DEF ReadRefused, ReadRetired, ReadFails
  <2>2. SourceTypes' /\ src'.at = "failed"
    BY <1>0, <2>1, ClosedIs DEF SourceTypes
  <2>3. ~Live' /\ ServingInv'
    BY <2>2 DEF Live, Starting, Serving, ServingInv, CompleteIsPromised
  <2> QED BY <2>1, <2>2, <2>3, SameChannel
<1>6. CASE ReadBytes
  BY <1>6, BytesKeep
<1>7. CASE ReadEof
  <2>1. /\ Entered /\ chan.bytes = <<>> /\ chan.out = "eof"
        /\ UNCHANGED <<chan, fetches, drained, version>>
        /\ \/ /\ src.at = "reading" /\ UNCHANGED complete
              /\ src' = [src EXCEPT !.at = "idle", !.gen = 0, !.ended = TRUE]
           \/ /\ src.at = "confirming" /\ complete' = chan.end
              /\ src' = [src EXCEPT !.at = "complete"]
    BY <1>7 DEF ReadEof, InChannel
  <2>2. CASE src.at = "reading" /\ UNCHANGED complete
             /\ src' = [src EXCEPT !.at = "idle", !.gen = 0, !.ended = TRUE]
    <3>1. /\ src' \in SourceSet /\ src'.at = "idle" /\ src'.est = src.est /\ src'.pos = src.pos
          /\ src'.eof = src.eof
      BY <1>0, <2>2 DEF SourceSet
    <3>2. (Live' => Live) /\ Base' = Base /\ Known' = Known
      BY <2>1, <2>2, <3>1 DEF Live, Starting, Serving, Base, Known
    <3>3. ServingInv'
      BY <2>1, <2>2, <3>1, <3>2 DEF HttpInv, ServingInv, Starting, Serving, CompleteIsPromised
    <3>4. SourceTypes'
      BY <1>0, <2>1, <2>2, <3>1 DEF SourceTypes
    <3> QED BY <2>1, <3>1, <3>2, <3>3, <3>4, SameChannel
  <2>3. CASE src.at = "confirming" /\ complete' = chan.end /\ src' = [src EXCEPT !.at = "complete"]
    <3>1. src' \in SourceSet /\ src'.at = "complete"
      BY <1>0, <2>3 DEF SourceSet
    <3>2. Live /\ Base = drained
      BY <2>1, <2>3 DEF Live, Serving, Entered, IsCurrent, Base
    <3>3. Upcoming = drained
      BY <1>0, <2>1, <3>2 DEF Upcoming
    <3>4. complete' \in {drained', Unknown}
      BY <2>1, <2>3, <3>2, <3>3 DEF HttpInv, EndInv
    <3>5. ~Live' /\ ServingInv'
      BY <3>1, <3>4 DEF Live, Starting, Serving, ServingInv, CompleteIsPromised
    <3>6. SourceTypes'
      BY <1>0, <1>00, <2>1, <2>3, <3>1 DEF SourceTypes
    <3> QED BY <2>1, <3>1, <3>5, <3>6, SameChannel
  <2> QED BY <2>1, <2>2, <2>3
<1>8. CASE SeekEnd
  <2>1. /\ src.at = "idle" /\ UNCHANGED <<chan, fetches, drained, complete, version>>
        /\ src' = [src EXCEPT !.pos = src.est.total, !.eof = TRUE, !.ended = FALSE]
    BY <1>8 DEF SeekEnd, Seekable
  <2>2. src' \in SourceSet /\ src'.at = "idle" /\ src'.est = src.est /\ src'.eof = TRUE
    BY <1>0, <1>00, <2>1 DEF SourceSet
  <2>3. (Live' => Live) /\ Base' = Base /\ Known' = Known
    BY <2>1, <2>2 DEF Live, Starting, Serving, Base, Known
  <2>4. ServingInv'
    BY <2>2 DEF ServingInv, Starting, Serving, CompleteIsPromised
  <2>5. SourceTypes'
    BY <1>0, <2>1, <2>2 DEF SourceTypes
  <2> QED BY <2>1, <2>2, <2>3, <2>4, <2>5, SameChannel
<1>9. CASE SeekAsks
  <2>1. PICK target \in 0 .. (Sizes[1] - 1) :
           /\ AskRange(target, src.est)
           /\ src' = [src EXCEPT !.at = "seeking", !.gen = chan.gen + 1, !.target = target]
    BY <1>9 DEF SeekAsks
  <2>2. UNCHANGED <<drained, complete, version>>
    BY <1>9 DEF SeekAsks
  <2>3. target \in Nat
    <3>1. Sizes[1] \in Nat
      <4>1. 1 \in 1 .. Len(Sizes)
        BY HttpAssumption, EmptySeq
      <4> QED BY <4>1, HttpAssumption, ElementOfSeq
    <3> QED BY <3>1
  <2>4. /\ src' \in SourceSet /\ src'.at = "seeking" /\ src'.gen = chan.gen + 1
        /\ src'.target = target /\ src'.est = src.est
    BY <1>0, <1>00, <2>1, <2>3 DEF SourceSet
  <2>5. Base' = target /\ SourceTypes'
    BY <1>0, <2>2, <2>4 DEF Base, SourceTypes
  <2> QED BY <1>00, <2>1, <2>3, <2>4, <2>5, AskedKeeps
<1>10. CASE SeekHeaders
  <2>1. /\ src.at = "seeking" /\ HeadersFor(src.gen) /\ src' = [src EXCEPT !.at = "landing"]
        /\ UNCHANGED <<chan, fetches, drained, complete, version>>
    BY <1>10 DEF SeekHeaders
  <2>2. /\ src' \in SourceSet /\ src'.at = "landing" /\ src'.est = src.est /\ src'.gen = src.gen
        /\ src'.target = src.target
    BY <1>0, <2>1 DEF SourceSet
  <2>3. Live /\ Base' = Base /\ Known' = Known
    BY <2>1, <2>2 DEF Live, Starting, Base, Known, HeadersFor, IsCurrent
  <2>4. ServingInv'
    BY <2>1, <2>2, <2>3 DEF HttpInv, ServingInv, Starting, Serving, HeadersFor, CompleteIsPromised
  <2>5. SourceTypes'
    BY <1>0, <2>1, <2>2 DEF SourceTypes
  <2> QED BY <2>1, <2>2, <2>3, <2>4, <2>5, SameChannel
<1>11. CASE SeekFails
  <2>1. /\ chan' = Retired(chan) /\ Supersede /\ src' = SourceFailed
        /\ UNCHANGED <<drained, complete, version>>
    BY <1>11 DEF SeekFails
  <2>2. SourceTypes' /\ src'.at = "failed"
    BY <1>0, <2>1, ClosedIs DEF SourceTypes
  <2> QED BY <2>1, <2>2, RetiredKeeps DEF CompleteIsPromised
<1>12. CASE SeekLands
  <2>1. /\ src.at = "landing" /\ Entered /\ drained' = src.target
        /\ src' = [src EXCEPT !.at = "idle", !.gen = 0, !.pos = src.target, !.target = 0,
                              !.eof = FALSE, !.ended = FALSE]
        /\ UNCHANGED <<chan, fetches, complete, version>>
    BY <1>12 DEF SeekLands
  <2>2. src' \in SourceSet /\ src'.at = "idle" /\ src'.est = src.est /\ src'.pos = src.target
    BY <1>0, <1>00, <2>1 DEF SourceSet
  <2>3. Live /\ Base' = Base /\ Known' = Known
    BY <2>1, <2>2 DEF Live, Starting, Base, Known, Entered, IsCurrent
  <2>4. ServingInv'
    BY <2>1, <2>2 DEF ServingInv, Starting, Serving, CompleteIsPromised
  <2>5. SourceTypes'
    BY <1>0, <1>00, <2>1, <2>2 DEF SourceTypes
  <2> QED BY <2>1, <2>2, <2>3, <2>4, <2>5, SameChannel
<1>13. CASE DeadlinePasses \/ DeadlineCleared
  <2>1. UNCHANGED <<chan, fetches, src, drained, complete, version>>
    BY <1>13 DEF DeadlinePasses, DeadlineCleared
  <2>2. Live' = Live /\ Base' = Base /\ Known' = Known
    BY <2>1 DEF Live, Starting, Serving, Base, Known
  <2>3. ServingInv'
    BY <2>1, <2>2 DEF HttpInv, ServingInv, Starting, Serving, CompleteIsPromised
  <2>4. SourceTypes'
    BY <1>0, <2>1 DEF SourceTypes
  <2> QED BY <2>1, <2>2, <2>3, <2>4, SameChannel
<1> QED BY <1>1, <1>2, <1>3, <1>4, <1>5, <1>6, <1>7, <1>8, <1>9, <1>10, <1>11, <1>12, <1>13
        DEF DecodeThread, Returning

(* The invariant is inductive: every step keeps it. *)
LEMMA HttpStep == HttpInv /\ [HttpNext]_httpVars => HttpInv'
<1> SUFFICES ASSUME HttpInv, [HttpNext]_httpVars PROVE HttpInv'
  OBVIOUS
<1>0. src \in SourceSet /\ drained \in Nat /\ complete \in Nat /\ version \in DOMAIN Sizes
  BY DEF HttpInv, HttpTypes, SourceTypes
<1>1. CASE \E g \in DOMAIN fetches : Fetching(g)
  BY <1>1, FetchingKeeps
<1>2. CASE DecodeThread
  BY <1>2, DecodeKeeps
<1>3. CASE RetireSource
  <2>1. chan' = Retired(chan) /\ Supersede /\ UNCHANGED <<src, drained, complete, version>>
    BY <1>3 DEF RetireSource, Mute
  <2>2. SourceTypes' /\ (src'.at = "opening" => src'.pos = 0) /\ CompleteIsPromised'
    BY <1>0, <2>1 DEF HttpInv, SourceTypes, ServingInv, CompleteIsPromised
  <2> QED BY <2>1, <2>2, RetiredKeeps
<1>4. CASE FreezeOrThaw \/ Replaced \/ UNCHANGED httpVars
  <2>1. UNCHANGED <<chan, fetches, src, drained, complete>> /\ version' \in DOMAIN Sizes
    BY <1>0, <1>4 DEF FreezeOrThaw, Replaced, httpVars, Mute, ObjectVersions
  <2>2. Live' = Live /\ Base' = Base /\ Known' = Known
    BY <2>1 DEF Live, Starting, Serving, Base, Known
  <2>3. ServingInv'
    BY <2>1, <2>2 DEF HttpInv, ServingInv, Starting, Serving, CompleteIsPromised
  <2>4. SourceTypes'
    BY <1>0, <2>1 DEF SourceTypes
  <2> QED BY <2>1, <2>2, <2>3, <2>4, SameChannel
<1> QED BY <1>1, <1>2, <1>3, <1>4 DEF HttpNext

(* It holds before anything was opened. *)
LEMMA HttpStart == HttpInit => HttpInv
<1> SUFFICES ASSUME HttpInit PROVE HttpInv
  OBVIOUS
<1>1. chan = [gen |-> 1, retired |-> FALSE, bytes |-> <<>>, out |-> "none", end |-> Unknown,
              hdr |-> NoAnswer]
      /\ src = SourceClosed /\ fetches = <<>> /\ version = 1 /\ drained = 0 /\ complete = Unknown
  BY DEF HttpInit
<1>2. NoAnswer \in HeaderSet
  BY DEF NoAnswer, Headers, HeaderSet, Nothing, Established, Establishments, Unknown, Untagged
<1>3. chan \in ChannelSet
  <2>1. Unknown \in Nat /\ 1 \in Nat /\ <<>> \in Seq(ByteSet)
    BY DEF Unknown
  <2> HIDE DEF NoAnswer
  <2> QED BY <1>1, <1>2, <2>1 DEF ChannelSet
<1>4. 1 \in DOMAIN Sizes
  BY HttpAssumption, EmptySeq
<1>5. src \in SourceSet /\ src.at = "closed"
  BY <1>1, ClosedIs
<1>6. HttpTypes
  BY <1>1, <1>3, <1>4, <1>5 DEF HttpTypes, ChannelTypes, SourceTypes, TaskTypes, Unknown
<1> QED BY <1>5, <1>6 DEF HttpInv, TaskInv, BytesInv, EndInv, HeaderInv, ServingInv, Live, Starting,
           Serving, CompleteIsPromised

(* It holds in every reachable state. *)
LEMMA HttpInvariant == HttpSpec => []HttpInv
<1>1. HttpInit => HttpInv
  BY HttpStart
<1>2. HttpInv /\ [HttpNext]_httpVars => HttpInv'
  BY HttpStep
<1> QED BY <1>1, <1>2, PTL DEF HttpSpec

-----------------------------------------------------------------------------
(* What follows. *)

(* For every object, channel and number of requests: while a source is open and   *)
(* not retired, the bytes waiting for its next read are those of the object at     *)
(* its position, of the version that was opened, whatever was superseded, resumed  *)
(* or answered out of place.                                                      *)
THEOREM BytesAreAlwaysThose == HttpSpec => []BytesAreThose
<1>1. HttpInv => BytesAreThose
  <2> SUFFICES ASSUME HttpInv, src.at \in {"idle", "reading", "confirming"}, ~chan.retired
               PROVE  /\ \A i \in DOMAIN chan.bytes :
                            /\ chan.bytes[i].at = drained + i - 1
                            /\ SameObject(chan.bytes[i], src.est)
                      /\ src.eof \/ src.at = "confirming" \/ src.pos = drained
    BY DEF BytesAreThose
  <2>1. Live /\ Serving /\ Base = drained /\ Known = src.est
    BY DEF Live, Serving, Base, Known
  <2>2. DOMAIN chan.bytes = 1 .. Len(chan.bytes)
    BY DEF HttpInv, HttpTypes, ChannelTypes, ChannelSet
  <2> QED BY <2>1, <2>2 DEF HttpInv, BytesInv, ServingInv
<1> QED BY <1>1, HttpInvariant, PTL

(* A track is confirmed complete only when everything the answer promised was      *)
(* drained.                                                                       *)
THEOREM CompletionIsPromised == HttpSpec => []CompleteIsPromised
<1>1. HttpInv => CompleteIsPromised
  BY DEF HttpInv, ServingInv
<1> QED BY <1>1, HttpInvariant, PTL
=============================================================================
