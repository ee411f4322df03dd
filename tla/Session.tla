--------------------------------- MODULE Session ---------------------------------
(* session.rs, with the entries of persistence/model.rs it writes: which     *)
(* load owns playback, and what is checkpointed when.  The code is pure, and *)
(* so is the model: an operator maps the session's fields, the record s, to  *)
(* the fields after the call.                                                *)
(*                                                                           *)
(* A position is [of, kind, n]: the media it is a position of, what it is    *)
(* worth - "sure" established by the decoder, "guess" an estimate, "start"   *)
(* a start nobody has heard yet, "fallback" reached because a resume was not *)
(* possible, "live" listening time - and how far it got.  The code sees only *)
(* the provenance, and compares no positions.                                *)
(*                                                                           *)
(* Left out: the volume, display fields, and the eviction of the checkpoint  *)
(* touched least recently beyond 512 media.                                  *)
EXTENDS Playlists

CONSTANTS Media, NoMedia,
          MaxPending    \* MAX_PENDING_LOADS

NoPos == [of |-> NoMedia, kind |-> "none", n |-> 0]
Estimated(pos) == pos.kind = "guess"       \* PositionProvenance

NoEntry == [pos |-> NoPos, est |-> NoPos, done |-> FALSE]
NoSample == [rev |-> 0, media |-> NoMedia, pos |-> NoPos, guess |-> FALSE]
NoLoad == [token |-> 0, target |-> None]
Detached == None                            \* LoadTarget::Detached

NewSession(set, saved, checkpoints) ==
    [set |-> set, saved |-> saved, ck |-> checkpoints,
     rev |-> 0, latest |-> 0, playback |-> "Idle",
     media |-> NoMedia, completed |-> FALSE, sample |-> NoSample,
     force |-> 0,                  \* pending_force
     target |-> NoPos,             \* outstanding_target
     established |-> FALSE, protected |-> FALSE,
     guess |-> FALSE,              \* position_provenance is Estimated
     next |-> 0,                   \* next_request
     pending |-> <<>>,             \* token -> [target, media, valid]
     adopted |-> NoLoad,
     last |-> 0,                   \* last_loaded
     stop |-> FALSE,               \* stop_requested
     advance |-> None,             \* Advance::Next; the end of the queue is None
     seen |-> <<0, 0>>,            \* completion_seen
     checkpointable |-> TRUE]

-----------------------------------------------------------------------------
(* Load tokens.  pending is a function, so it is kept as one. *)
Busy(s) == Cardinality(DOMAIN s.pending) >= MaxPending

Register(s, target, media) ==
    [s EXCEPT !.next = @ + 1,
              !.pending = [t \in DOMAIN @ \union {s.next + 1} |->
                  IF t \in DOMAIN @ THEN @[t]
                  ELSE [target |-> target, media |-> media, valid |-> TRUE]]]

Retract(s, token) ==
    [s EXCEPT !.pending = [t \in DOMAIN @ \ {token} |-> @[t]]]

(* registered_target *)
Registered(s, token, media) ==
    /\ token \in DOMAIN s.pending
    /\ s.pending[token].valid /\ s.pending[token].media = media
    /\ s.pending[token].target # Detached =>
          /\ Has(s.set, s.pending[token].target)
          /\ MediaOf(s.set, s.pending[token].target) = media

(* owns_adopted *)
Owns(s, rev) ==
    /\ s.adopted.token # 0 /\ s.last = s.adopted.token
    /\ rev >= s.latest

Accepts(s, e) ==
    IF e.k = "Loaded" THEN e.rev >= s.latest /\ Registered(s, e.token, e.media)
                      ELSE Owns(s, e.rev)

-----------------------------------------------------------------------------
(* PersistedState::record replaces an entry, record_estimated keeps its      *)
(* established position.                                                     *)
Record(s, media, pos, done) ==
    [s EXCEPT !.ck[media] = [pos |-> pos, est |-> NoPos, done |-> done]]
RecordEstimated(s, media, pos, done) ==
    [s EXCEPT !.ck[media] = [@ EXCEPT !.est = pos, !.done = done]]

(* Every write goes by the provenance the session tracks. *)
Write(s, media, pos, done) ==
    IF s.guess THEN RecordEstimated(s, media, pos, done)
               ELSE Record(s, media, pos, done)

(* record_current and record_current_estimated *)
RecordCurrent(s, pos) ==
    IF ~s.checkpointable \/ s.protected \/ s.media = NoMedia THEN s
    ELSE Write(s, s.media, pos, s.completed)

PositionFor(s, sampled) == IF s.target # NoPos THEN s.target ELSE sampled

(* checkpoint_from_progress *)
MayCheckpoint(s) == s.checkpointable /\ s.established /\ ~s.protected
CheckpointFromProgress(s, sampled) ==
    IF MayCheckpoint(s) THEN RecordCurrent(s, PositionFor(s, sampled)) ELSE s

(* accepts_live_sample *)
AcceptsSample(s, p) ==
    /\ s.adopted.token # 0 /\ s.last = s.adopted.token
    /\ p.rev = s.rev /\ p.load = s.adopted.token /\ p.media = s.media

(* capture_current: the live sample, or the one retained. *)
CaptureCurrent(s, p) ==
    CASE s.media # NoMedia /\ AcceptsSample(s, p) ->
            CheckpointFromProgress([s EXCEPT !.guess = Estimated(p.pos)], p.pos)
      [] s.media # NoMedia /\ ~AcceptsSample(s, p)
            /\ s.sample.rev = s.rev /\ s.sample.media = s.media ->
            CheckpointFromProgress([s EXCEPT !.guess = s.sample.guess], s.sample.pos)
      [] OTHER -> s

-----------------------------------------------------------------------------
(* Mutant: the outgoing media is recorded whatever its sample is worth. *)
RecordOutgoingUngated(s) ==
    IF s.sample = NoSample THEN s
    ELSE Write(s, s.sample.media, PositionFor(s, s.sample.pos), FALSE)

RecordOutgoing(s) ==
    IF ~s.checkpointable \/ s.sample = NoSample THEN s
    ELSE LET x == [s EXCEPT !.sample = NoSample]
         IN IF s.protected \/ s.completed \/ ~s.established THEN x
            ELSE Write(x, s.sample.media, PositionFor(s, s.sample.pos), FALSE)

AdoptMedia(s, media, target) ==
    [s EXCEPT !.media = media, !.completed = s.ck[media].done,
              !.saved = IF target # Detached \/ Cursor(s.set) = None THEN media ELSE @]

(* on_loaded and adopt_loaded *)
AdoptLoaded(s, token, target, e) ==
    LET gone == IF s.media # e.media THEN RecordOutgoing(s) ELSE s
        reset == [gone EXCEPT !.force = 0, !.target = NoPos, !.established = FALSE,
                              !.guess = FALSE, !.protected = e.fallback]
        moved == AdoptMedia(reset, e.media, target)
    IN [moved EXCEPT
          !.sample = [rev |-> s.rev, media |-> e.media, pos |-> e.pos, guess |-> FALSE],
          !.checkpointable = ~e.live,
          !.set = IF target = Detached THEN @ ELSE Adopt(@, target),
          !.adopted = [token |-> token, target |-> target]]

(* Mutant: a start whose target has gone meanwhile is left playing. *)
LoadOutcomeUnanswered(s, e, accepted) ==
    LET p == s.pending[e.token]
        x == [Retract(s, e.token) EXCEPT !.latest = e.rev]
    IN CASE e.k = "Loaded" /\ accepted ->
               AdoptLoaded([x EXCEPT !.last = e.token, !.rev = e.rev], e.token, p.target, e)
         [] OTHER -> [x EXCEPT !.last = 0]

(* The outcome of a load retires its registration first. *)
LoadOutcome(s, e, accepted) ==
    LET p == s.pending[e.token]
        x == Retract(s, e.token)
        known == [x EXCEPT !.latest = e.rev]
    IN CASE e.rev < s.latest -> x
         [] e.rev >= s.latest /\ e.k # "Loaded" -> [known EXCEPT !.last = 0]
         [] e.rev >= s.latest /\ e.k = "Loaded" /\ ~accepted ->
               [known EXCEPT !.last = e.token, !.stop = TRUE]
         [] OTHER ->
               AdoptLoaded([known EXCEPT !.last = e.token, !.rev = e.rev],
                           e.token, p.target, e)

Loading(s, e) ==
    LET x == [s EXCEPT !.playback = "Loading"]
    IN IF e.rev < s.latest THEN x ELSE [x EXCEPT !.latest = e.rev, !.last = 0]

-----------------------------------------------------------------------------
(* on_state *)
OnState(s, state) ==
    LET x == [s EXCEPT !.playback = state]
    IN CASE state = "Playing" ->
               [x EXCEPT !.target = NoPos, !.established = TRUE,
                         !.completed = FALSE, !.seen = <<0, 0>>]
         [] state = "Paused" /\ s.playback = "Playing" -> [x EXCEPT !.force = s.rev]
         [] state = "Stopped" -> [x EXCEPT !.force = s.rev]
         [] OTHER -> x

(* SeekCompleted and RestartEstablished; only a landing the decoder          *)
(* established ends the protection.                                          *)
OnLanding(s, e) ==
    [s EXCEPT !.target = NoPos, !.established = TRUE, !.completed = FALSE,
              !.seen = <<0, 0>>, !.guess = Estimated(e.pos),
              !.protected = @ /\ Estimated(e.pos), !.force = e.rev]

(* SeekTargetStored: the target inherits the provenance tracked so far. *)
OnTargetStored(s, e) ==
    RecordCurrent([s EXCEPT !.target = e.pos, !.established = TRUE,
                            !.completed = FALSE, !.seen = <<0, 0>>], e.pos)

OnEndOfTrack(s, e) ==
    LET key == <<s.adopted.token, s.rev>>
        x == [s EXCEPT !.seen = key, !.target = NoPos, !.established = TRUE,
                       !.completed = TRUE, !.guess = Estimated(e.pos),
                       !.protected = @ /\ Estimated(e.pos)]
    IN IF s.seen = key THEN s
       ELSE [RecordCurrent(x, e.pos) EXCEPT
                !.advance = IF s.adopted.target = Detached THEN @
                            ELSE IF Has(s.set, s.adopted.target)
                                 THEN Following(s.set, s.adopted.target) ELSE None]

(* Mutant: what sets playback going again leaves completion_seen as it was. *)
MediaEventKeepsSeen(s, e) ==
    LET x == [s EXCEPT !.latest = e.rev, !.rev = e.rev,
                       !.force = IF @ = 0 THEN 0 ELSE e.rev]
        keeping(y) == [y EXCEPT !.seen = s.seen]
    IN CASE e.k = "State"        -> keeping(OnState(x, e.state))
         [] e.k = "Landing"      -> keeping(OnLanding(x, e))
         [] e.k = "TargetStored" -> keeping(OnTargetStored(x, e))
         [] e.k = "EndOfTrack"   -> OnEndOfTrack(x, e)
         [] e.k = "Capabilities" -> [x EXCEPT !.checkpointable = @ /\ ~e.live]
         [] OTHER                -> x

(* Every other media event must own the adopted load, and re-keys a force    *)
(* that waits for its sample.                                                *)
MediaEvent(s, e) ==
    LET x == [s EXCEPT !.latest = e.rev, !.rev = e.rev,
                       !.force = IF @ = 0 THEN 0 ELSE e.rev]
    IN CASE e.k = "State"        -> OnState(x, e.state)
         [] e.k = "Landing"      -> OnLanding(x, e)
         [] e.k = "TargetStored" -> OnTargetStored(x, e)
         [] e.k = "EndOfTrack"   -> OnEndOfTrack(x, e)
         [] e.k = "Capabilities" -> [x EXCEPT !.checkpointable = @ /\ ~e.live]
         [] OTHER                -> x        \* Failed, DeviceRecovered, ...

IsOutcome(e) ==
    \/ e.k \in {"Loaded", "LoadCancelled"}
    \/ e.k = "Failed" /\ e.token # 0

Observe(s, e) ==
    CASE IsOutcome(e) ->
            IF e.token \in DOMAIN s.pending THEN LoadOutcome(s, e, Accepts(s, e)) ELSE s
      [] ~IsOutcome(e) /\ e.k = "State" /\ e.state = "Loading"
            /\ e.token \in DOMAIN s.pending -> Loading(s, e)
      [] OTHER -> IF Accepts(s, e) THEN MediaEvent(s, e) ELSE s

(* tick; due stands for the capture interval. *)
Tick(s, p, due) ==
    LET x == [s EXCEPT !.sample = [rev |-> p.rev, media |-> s.media, pos |-> p.pos,
                                   guess |-> Estimated(p.pos)],
                       !.guess = Estimated(p.pos)]
    IN CASE ~AcceptsSample(s, p) \/ s.media = NoMedia -> s
         [] AcceptsSample(s, p) /\ s.media # NoMedia /\ s.force = p.rev ->
               CheckpointFromProgress([x EXCEPT !.force = 0], p.pos)
         [] OTHER -> IF s.playback = "Playing" /\ due
                     THEN CheckpointFromProgress(x, p.pos) ELSE x

-----------------------------------------------------------------------------
(* Queue mutations that touch playback. *)
Invalidate(s, ids) ==
    [s EXCEPT !.pending = [t \in DOMAIN @ |->
        IF @[t].target \in ids THEN [@[t] EXCEPT !.valid = FALSE] ELSE @[t]]]

ReleaseActive(s, p) ==
    [CaptureCurrent(s, p) EXCEPT !.adopted = NoLoad, !.sample = NoSample]

OwnsAny(s, ids) == s.adopted.token # 0 /\ s.adopted.target \in ids

(* What a removal, a clear and a delete do before the entries go. *)
Vacate(s, ids, p) ==
    LET x == Invalidate(s, ids)
    IN IF OwnsAny(s, ids) THEN ReleaseActive(x, p) ELSE x

RemoveEntry(s, id, p) ==
    LET x == Vacate(s, {id}, p) IN [x EXCEPT !.set = RemoveFrom(@, id)]

ClearPlaylist(s, list, p) ==
    LET x == Vacate(s, Ids(s.set.lists[Index(s.set, list)]), p)
    IN [x EXCEPT !.set = ClearList(@, list)]

(* Mutant: the saved media is not re-pointed. *)
DeleteKeepingMedia(s, list, p) ==
    LET x == Vacate(s, Ids(s.set.lists[Index(s.set, list)]), p)
    IN [x EXCEPT !.set = DeleteList(x.set, list)]

(* Deleting the playing list moves the saved media to the successor's cursor. *)
DeletePlaylist(s, list, p) ==
    LET x == Vacate(s, Ids(s.set.lists[Index(s.set, list)]), p)
        set == DeleteList(x.set, list)
    IN [x EXCEPT !.set = set,
                 !.saved = CASE x.set.playing # list -> @
                             [] x.set.playing = list /\ Cursor(set) = None -> NoMedia
                             [] OTHER -> MediaOf(set, Cursor(set))]
=============================================================================
