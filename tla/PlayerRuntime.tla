------------------------------ MODULE PlayerRuntime ------------------------------
(* application/runtime.rs: the front end's loop over a Session and an engine *)
(* that answers later.  The front end drains the events, acts on what they   *)
(* asked for, then samples the progress once; between two passes it carries  *)
(* out the listener's commands.  The engine runs on its own thread; here it  *)
(* is what the front end sees of it - a handler is one step, its events      *)
(* appended in order, its progress published with them.                      *)
(*                                                                           *)
(* Left to PlaybackEngine: how a handler gets to its outcome.  Left out: the *)
(* seek burst, covers, the status line and enrichment.                       *)
EXTENDS Session

CONSTANTS Podcasts,     \* media a fresh load resumes
          Stations,     \* media that turn out to be indefinite
          StoredSets,   \* the playlist sets a run may start from
          Plans,        \* the kinds of run to explore, below
          MaxPos        \* bound: how far a position moves

(* What PlaylistSet keeps of itself: an identifier names one list, or one     *)
(* entry, a cursor is on an entry of its list, and the list that plays exists. *)
PlaylistSets ==
    [lists : Seq([id : Nat, cursor : Nat, entries : Seq([id : Nat, media : Media])]),
     playing : Nat]
SoundSet(set) ==
    /\ set \in PlaylistSets
    /\ \A k, l \in DOMAIN set.lists : set.lists[k].id = set.lists[l].id => k = l
    /\ \A k, l \in DOMAIN set.lists :
          \A i \in DOMAIN set.lists[k].entries, j \in DOMAIN set.lists[l].entries :
             set.lists[k].entries[i].id = set.lists[l].entries[j].id => k = l /\ i = j
    /\ \A k \in DOMAIN set.lists :
          /\ None \notin Ids(set.lists[k])
          /\ set.lists[k].cursor \in Ids(set.lists[k]) \union {None}
    /\ set.playing \in Members(set)

Positions ==
    [of : Media \union {NoMedia}, n : Nat,
     kind : {"none", "sure", "guess", "start", "fallback", "live"}]
StoredEntries == [pos : Positions, est : Positions, done : BOOLEAN]
(* What the state file holds of a media: no position, or one of that media   *)
(* that was heard.                                                           *)
Kept(pos, m) == pos = NoPos \/ (pos.of = m /\ pos.kind \in {"sure", "guess"})

ASSUME RuntimeAssumption ==
    /\ NoMedia \notin Media
    /\ Podcasts \subseteq Media /\ Stations \subseteq Media
    /\ {MaxPending, MaxPos} \subseteq Nat
    /\ \A set \in StoredSets : SoundSet(set)
    /\ \A p \in Plans :
          /\ {p.queueCap, p.maxInputs, p.maxFaults} \subseteq Nat
          /\ p.stored \subseteq [Podcasts -> StoredEntries]
          /\ \A stored \in p.stored, m \in Podcasts :
                Kept(stored[m].pos, m) /\ Kept(stored[m].est, m)

VARIABLES
    s,         \* the session's fields
    mirror,    \* PlayerRuntime.mirror: the adopted playback as last reported
    detached,  \* PlayerRuntime.detached: no, yes, or failed with its load
    app,       \* where the front end stands: ui, drain, sample, join, done; closing
               \* and joined while it waits for the engine's shutdown, and after it
    cmds,      \* the engine's command queue
    stopBit,   \* the STOP bit of the interrupt word
    events,    \* the event stream
    e,         \* the engine, as its progress and events show it
    wanted,    \* history: the load asked for last, until stopped or removed
    inputs,    \* history: the listener's commands
    faults,    \* history: outages, rebuilds and failures
    plan       \* the kind of run this is, never changed

vars == <<s, mirror, detached, app, cmds, stopBit, events, e, wanted, inputs, faults, plan>>

QueueCap  == plan.queueCap   \* COMMAND_CAPACITY
Inputs    == plan.inputs     \* the listener's commands
MaxInputs == plan.maxInputs  \* bound: commands in one run
MaxFaults == plan.maxFaults  \* bound: outages, rebuilds and failures in one run

NoMirror == [load |-> 0, rev |-> 0, state |-> "Idle", live |-> FALSE]
NoIntent == [what |-> "none", to |-> NoPos]
(* A start nobody has heard yet names its load in place of how far it got. *)
StartOf(m, load) == [of |-> m, kind |-> "start", n |-> load]
Nonzero(pos) == pos.kind # "start" /\ pos.n > 0

Init ==
    /\ plan \in Plans
    /\ \E set \in StoredSets, entry \in plan.stored :
          s = NewSession(set, IF Cursor(set) = None THEN NoMedia
                              ELSE MediaOf(set, Cursor(set)),
                         [m \in Media |-> IF m \in Podcasts THEN entry[m] ELSE NoEntry])
    /\ mirror = NoMirror /\ detached = "no" /\ app = "ui"
    /\ cmds = <<>> /\ stopBit = FALSE /\ events = <<>>
    /\ e = [rev |-> 0, state |-> "Idle", media |-> NoMedia,
            load    |-> 0,          \* adopted_load
            loading |-> 0,
            resume  |-> NoIntent,   \* the resume intent of the load in flight
            at      |-> NoPos,      \* position and provenance
            pend    |-> NoIntent,   \* a stored seek or restart
            live    |-> FALSE, fixed |-> FALSE,
            closed  |-> FALSE,      \* paused with nothing open
            heard   |-> {},         \* history: the loads that established something
            earned  |-> {},         \* history: the media a restart landed in,
                                    \* or that were heard to their end
            revived |-> FALSE]      \* history: a command took up what was not running
    /\ wanted = NoLoad /\ inputs = 0 /\ faults = 0

Progress == [rev |-> e.rev, load |-> e.load, media |-> e.media, pos |-> e.at]

-----------------------------------------------------------------------------
(* What the front end submits.  x is [s, cmds]. *)

Room(q) == Len(q) < QueueCap
Command(cmd, token, media, resume) ==
    [cmd |-> cmd, token |-> token, media |-> media, resume |-> resume]
Plain(cmd) == Command(cmd, 0, NoMedia, NoIntent)

(* resume_intent: a local file and a plain URL start from zero, an episode   *)
(* not completed resumes, at its estimate if it has one.                     *)
ResumeIntent(x, m) ==
    LET entry == x.ck[m]
    IN CASE m \notin Podcasts \/ entry.done -> NoIntent
         [] m \in Podcasts /\ ~entry.done /\ entry.est # NoPos ->
               [what |-> "guess", to |-> entry.est]
         [] m \in Podcasts /\ ~entry.done /\ entry.est = NoPos /\ entry.pos # NoPos ->
               [what |-> "sure", to |-> entry.pos]
         [] OTHER -> NoIntent

(* The load, then the start of that load alone. *)
Admitted(x, r, media) ==
    LET queued == Append(x.cmds, Command("Load", r.next, media, ResumeIntent(r, media)))
        start == Command("PlayLoaded", r.next, NoMedia, NoIntent)
    IN [s |-> r, cmds |-> IF Room(queued) THEN Append(queued, start) ELSE queued]

(* Mutant: a load the queue refused stays registered. *)
SubmitLoadKeepsToken(x, target, media) ==
    LET r == Register(x.s, target, media)
    IN CASE Busy(x.s) -> x
         [] ~Busy(x.s) /\ ~Room(x.cmds) -> [x EXCEPT !.s = r]
         [] OTHER -> Admitted(x, r, media)

(* register_load and submit_load *)
SubmitLoad(x, target, media) ==
    LET r == Register(x.s, target, media)
    IN CASE Busy(x.s) -> x
         [] ~Busy(x.s) /\ ~Room(x.cmds) -> [x EXCEPT !.s = Retract(r, r.next)]
         [] OTHER -> Admitted(x, r, media)

LoadEntry(x, id) ==
    IF Has(x.s.set, id) THEN SubmitLoad(x, id, MediaOf(x.s.set, id)) ELSE x

(* A load the queue took is wanted; one asked for while an interrupt is up   *)
(* may be taken for what is interrupted.                                     *)
Wants(x, target) ==
    wanted' = CASE Len(x.cmds) = Len(cmds) -> wanted
                [] Len(x.cmds) > Len(cmds) /\ stopBit -> NoLoad
                [] OTHER -> [token |-> x.s.next, target |-> target]

(* The phase the transport table reads. *)
Phase ==
    CASE DOMAIN s.pending # {} -> "Loading"
      [] DOMAIN s.pending = {} /\ mirror = NoMirror -> "Unloaded"
      [] OTHER -> CASE mirror.state = "Failed" -> "Stopped"
                    [] mirror.state = "Idle"   -> "Loading"
                    [] OTHER                   -> mirror.state

(* With the playing playlist emptied, what is stopped is not taken up again. *)
Controlled ==
    {"Playing", "Paused", "Reconnecting"}
        \union (IF Ids(s.set.lists[Index(s.set, s.set.playing)]) = {} /\ detached = "no"
                THEN {} ELSE {"Stopped"})
Ended == IF Ids(s.set.lists[Index(s.set, s.set.playing)]) = {} THEN {} ELSE {"Ended"}

-----------------------------------------------------------------------------
(* The listener. *)
Input(kind) ==
    /\ kind \in Inputs
    /\ app = "ui" /\ inputs < MaxInputs
    /\ inputs' = inputs + 1

PlayEntry ==
    /\ Input("Enter") /\ detached = "no"
    /\ \E id \in AllIds(s.set) :
          LET x == LoadEntry([s |-> s, cmds |-> cmds], id)
          IN s' = x.s /\ cmds' = x.cmds /\ Wants(x, id)
    /\ UNCHANGED <<mirror, detached, app, stopBit, events, e, faults>>

(* play_detached: what `tenuto play` does before anything else. *)
PlayDetached ==
    /\ Input("Detached") /\ inputs = 0
    /\ detached' = "yes"
    /\ \E m \in Media :
          LET x == SubmitLoad([s |-> s, cmds |-> cmds], Detached, m)
          IN s' = x.s /\ cmds' = x.cmds /\ Wants(x, Detached)
    /\ UNCHANGED <<mirror, app, stopBit, events, e, faults>>

(* decide, decide_detached and route: a command the engine queues if it has  *)
(* room.  A toggle is resolved against the engine's published state.         *)
Allows(kind) ==
    CASE kind = "Toggle"  -> detached # "no" \/ Phase \in Controlled
      [] kind = "Seek"    -> ~mirror.live
                                /\ Phase \in Controlled \union
                                      (IF detached # "no" THEN {"Unloaded", "Ended"} ELSE {})
      [] kind = "Restart" -> ~mirror.live
                                /\ (detached # "no" \/ Phase \in Controlled \union Ended)

Sent(kind) ==
    IF kind # "Toggle" THEN kind
    ELSE IF e.state \in {"Playing", "Reconnecting"} THEN "Pause" ELSE "Play"

Transport(kind) ==
    /\ Input(kind) /\ Allows(kind)
    /\ Room(cmds)
    /\ cmds' = Append(cmds, Plain(Sent(kind)))
    /\ UNCHANGED <<s, mirror, detached, app, stopBit, events, e, wanted, faults>>

Stop ==
    /\ Input("Stop") /\ s.next > 0        \* there is an engine
    /\ stopBit' = TRUE /\ wanted' = NoLoad
    /\ UNCHANGED <<s, mirror, detached, app, cmds, events, e, faults>>

(* apply_removal, over the entries ids that go and the session x after. *)
ApplyRemoval(ids, x) ==
    /\ s' = x
    /\ stopBit' = (stopBit \/ (/\ OwnsAny(s, ids) /\ mirror # NoMirror
                               /\ DOMAIN x.pending = {}))
    /\ mirror' = IF x.adopted.token = 0 THEN NoMirror ELSE mirror
    /\ wanted' = IF wanted.target \in ids THEN NoLoad ELSE wanted

EntriesOf(list) == Ids(s.set.lists[Index(s.set, list)])

Removes ==
    \/ /\ Input("Remove")
       /\ \E id \in AllIds(s.set) : ApplyRemoval({id}, RemoveEntry(s, id, Progress))
    \/ /\ Input("Clear")
       /\ \E list \in Members(s.set) :
             ApplyRemoval(EntriesOf(list), ClearPlaylist(s, list, Progress))
    \/ /\ Input("Delete")
       /\ \E list \in Members(s.set) :
             /\ Deletable(s.set, list)
             /\ ApplyRemoval(EntriesOf(list), DeletePlaylist(s, list, Progress))

Queue ==
    /\ Removes /\ detached = "no"
    /\ UNCHANGED <<detached, app, cmds, events, e, faults>>

(* shut_down_engine: the interrupt is raised, and join waits. *)
Quit ==
    /\ app = "ui" /\ app' = "join"
    /\ UNCHANGED <<s, mirror, detached, cmds, stopBit, events, e, wanted, inputs, faults>>

-----------------------------------------------------------------------------
(* pump_engine: drain, answering a stop request right after the event that   *)
(* raised it; then advance; then one sample.                                 *)
(* observe_event and observe_load_outcome: the mirror after event x, which   *)
(* took the session to y.                                                    *)
Mirrored(x, y) ==
    CASE x.k = "Loaded" /\ Accepts(s, x) /\ y.adopted.token = x.token ->
            [load |-> x.token, rev |-> x.rev, state |-> "Loading", live |-> x.live]
      [] IsOutcome(x) /\ y.adopted.token # x.token ->
            IF mirror.load # x.token /\ x.rev >= mirror.rev THEN NoMirror ELSE mirror
      [] ~IsOutcome(x) /\ mirror # NoMirror /\ Accepts(s, x) ->
            [mirror EXCEPT !.rev = x.rev,
                           !.state = CASE x.k = "State"      -> x.state
                                       [] x.k = "EndOfTrack" -> "Ended"
                                       [] OTHER              -> @]
      [] OTHER -> mirror

AnswersStop(y) == y.stop /\ DOMAIN y.pending = {}

DrainOne ==
    /\ app \in {"ui", "drain"} /\ app' = "drain"
    /\ events # <<>>
    /\ LET y == Observe(s, Head(events))
       IN /\ s' = [y EXCEPT !.stop = FALSE]
          /\ stopBit' = (stopBit \/ AnswersStop(y))
          /\ mirror' = Mirrored(Head(events), y)
    /\ detached' = IF detached = "yes" /\ Head(events).k = "Failed" /\ IsOutcome(Head(events))
                   THEN "failed" ELSE detached
    /\ events' = Tail(events)
    /\ UNCHANGED <<cmds, e, wanted, inputs, faults>>

DrainDone ==
    /\ app \in {"ui", "drain"} /\ app' = "sample"
    /\ events = <<>>
    /\ UNCHANGED <<s, mirror, detached, cmds, stopBit, events, e, wanted, inputs, faults>>

(* outcome, in app.rs: a detached run ends with a failure of its media. *)
Over == detached = "failed" \/ (detached = "yes" /\ mirror.state = "Failed")

Sample ==
    /\ app = "sample" /\ app' = IF Over THEN "join" ELSE "ui"
    /\ \E due \in BOOLEAN :
          LET asked == [s EXCEPT !.advance = None]
              x == LoadEntry([s |-> asked, cmds |-> cmds], s.advance)
          IN s' = Tick(x.s, Progress, due) /\ cmds' = x.cmds /\ Wants(x, s.advance)
    /\ UNCHANGED <<mirror, detached, stopBit, events, e, inputs, faults>>

(* reconcile_shutdown, once the engine has gone: the events it left, then    *)
(* the final position.                                                       *)
Replay ==
    /\ app = "joined" /\ events # <<>>
    /\ s' = Observe(s, Head(events)) /\ events' = Tail(events)
    /\ UNCHANGED <<mirror, detached, app, cmds, stopBit, e, wanted, inputs, faults>>

(* Mutant: the position is captured before the last events are replayed. *)
ReconcileCapturingFirst ==
    /\ app = "joined" /\ app' = "done"
    /\ s' = CaptureCurrent(s, Progress) /\ events' = <<>>
    /\ UNCHANGED <<mirror, detached, cmds, stopBit, e, wanted, inputs, faults>>

Reconcile ==
    /\ app = "joined" /\ app' = "done"
    /\ events = <<>>
    /\ s' = CaptureCurrent(s, Progress)
    /\ UNCHANGED <<mirror, detached, cmds, stopBit, events, e, wanted, inputs, faults>>

FrontEnd ==
    \/ PlayEntry \/ PlayDetached \/ Stop \/ Queue \/ Quit
    \/ \E kind \in {"Toggle", "Seek", "Restart"} : Transport(kind)
    \/ DrainOne \/ DrainDone \/ Sample \/ Replay \/ Reconcile

-----------------------------------------------------------------------------
(* The engine: x is the engine after the handler, evs what it emitted. *)
Event(k, x) ==
    [k |-> k, rev |-> x.rev, token |-> 0, media |-> NoMedia, state |-> "Idle",
     pos |-> NoPos, live |-> FALSE, fallback |-> FALSE]

StateEvent(x, state) ==
    [Event("State", x) EXCEPT !.state = state,
                              !.token = IF state = "Loading" THEN x.loading ELSE 0]

Positioned(k, x, pos) == [Event(k, x) EXCEPT !.pos = pos]
Outcome(k, x, token) == [Event(k, x) EXCEPT !.token = token]

(* set_state: what a change of state adds to the events. *)
Announced(x, state) == IF x.state = state THEN <<>> ELSE <<StateEvent(x, state)>>

Settle(x, evs) ==
    /\ e' = x /\ events' = events \o evs
    /\ UNCHANGED <<s, mirror, detached, app, wanted, inputs>>

(* A start that plays, and an end confirmed, are established positions. *)
Heard(pos) == IF pos.kind = "start" THEN [pos EXCEPT !.kind = "sure", !.n = 0] ELSE pos
Proven(pos) == IF pos.kind = "fallback" THEN [pos EXCEPT !.kind = "sure"] ELSE pos

(* land(): the decoder knows where it landed, or only estimates it. *)
Landings(m, n) == {[of |-> m, kind |-> k, n |-> n] : k \in {"sure", "guess"}}
Relandings(pos) ==
    IF pos.kind \in {"sure", "guess"} /\ pos.n > 0 THEN Landings(pos.of, pos.n) ELSE {pos}

Fails(x) ==
    Settle([x EXCEPT !.state = "Failed"],
           <<Event("Failed", x), StateEvent(x, "Failed")>>)
Faulty == faults < MaxFaults /\ faults' = faults + 1

Plays(x, before, after) ==
    Settle([x EXCEPT !.state = "Playing", !.at = Heard(@), !.closed = FALSE,
                     !.heard = @ \union {e.load},
                     !.revived = @ \/ e.state \in {"Stopped", "Loading", "Failed"}],
           before \o Announced(x, "Playing") \o after)

Nothing == Settle(e, <<>>) /\ UNCHANGED faults
(* ensure_source_open: a remote source reopens; a file that did not load has *)
(* nothing to take up.                                                       *)
Openable(x) == x.media \in Podcasts \union Stations \/ x.load # 0

(* The media a restart stored while there was no connection lands in. *)
Restarted(x) == IF x.pend.what = "restart" /\ ~x.live THEN {x.media} ELSE {}

(* play and restore: what was stored while stopped lands now. *)
Restores(x, before) ==
    \/ ~Openable(x) /\ Nothing
    \/ \E pos \in (IF x.live THEN {x.at}
                   ELSE Relandings(IF x.pend = NoIntent THEN x.at ELSE x.pend.to)) :
          /\ Openable(x) /\ ~(x.fixed /\ ~x.live /\ Nonzero(x.at))
          /\ Plays([x EXCEPT !.at = pos, !.pend = NoIntent,
                             !.earned = @ \union Restarted(x)], before,
                   IF x.pend = NoIntent \/ x.live THEN <<>>
                   ELSE <<Positioned("Landing", x, pos)>>)
          /\ UNCHANGED faults
    \/ /\ x.fixed /\ ~x.live /\ Nonzero(x.at)
       /\ Settle([x EXCEPT !.state = "Stopped"], before \o Announced(x, "Stopped"))
       /\ UNCHANGED faults
    \/ /\ Openable(x) /\ Faulty
       /\ Settle([x EXCEPT !.state = "Failed"],
                 before \o <<Event("Failed", x), StateEvent(x, "Failed")>>)

Play(primed) ==
    CASE e.state = "Paused" /\ (~e.live \/ primed) /\ ~e.closed /\ e.pend = NoIntent ->
            Plays(e, <<>>, <<>>) /\ UNCHANGED faults
      [] e.state = "Paused" /\ ~((~e.live \/ primed) /\ ~e.closed /\ e.pend = NoIntent) ->
            Restores(e, <<>>)
      [] e.state \in {"Stopped", "Loading"} -> Restores(e, <<>>)
      [] e.state = "Failed" ->
            IF e.media \in Podcasts \union Stations
            THEN LET x == [e EXCEPT !.state = "Loading"]
                 IN Restores(x, <<StateEvent(x, "Loading")>>)
            ELSE Nothing
      [] OTHER -> Nothing

(* pause parks, or closes a session in recovery and a station.  A pause      *)
(* the wait hook announced may close later: the revision then moves quietly. *)
PauseCloses(x) == [x EXCEPT !.rev = @ + 1, !.state = "Paused", !.closed = TRUE]
Pause ==
    CASE e.state = "Playing" /\ ~e.live ->
            \/ /\ Settle([e EXCEPT !.state = "Paused"], <<StateEvent(e, "Paused")>>)
               /\ UNCHANGED faults
            \/ /\ e.media \in Podcasts /\ Faulty
               /\ Settle(PauseCloses(e), <<StateEvent(e, "Paused")>>)
      [] e.state = "Reconnecting" \/ (e.state = "Playing" /\ e.live) ->
            /\ Settle(PauseCloses(e), <<StateEvent(PauseCloses(e), "Paused")>>)
            /\ UNCHANGED faults
      [] OTHER -> Nothing

(* A target stored offline inherits what the current position is worth.      *)
Offline == e.state \in {"Stopped", "Reconnecting"} \/ (e.state = "Paused" /\ e.closed)
Stored(what, n) ==
    LET to == [of |-> e.media, n |-> n,
               kind |-> IF e.at.kind = "guess" THEN "guess" ELSE "sure"]
    IN Settle([e EXCEPT !.pend = [what |-> what, to |-> to], !.heard = @ \union {e.load}],
              <<Positioned("TargetStored", e, to)>>)

Seek ==
    IF e.live \/ e.fixed \/ e.state = "Failed" \/ ~Openable(e) THEN Nothing
    ELSE /\ UNCHANGED faults
         /\ \E n \in 0 .. MaxPos :
               IF Offline THEN Stored("seek", n)
               ELSE \E pos \in Landings(e.media, n) :
                       LET state == IF e.state = "Ended" THEN "Paused" ELSE e.state
                       IN Settle([e EXCEPT !.at = pos, !.pend = NoIntent,
                                           !.heard = @ \union {e.load},
                                           !.state = state],
                                 Announced(e, state) \o <<Positioned("Landing", e, pos)>>)

Restart ==
    CASE e.live \/ ~Openable(e) -> Nothing
      [] ~e.live /\ Openable(e) /\ Offline /\ e.state # "Stopped" ->
            Stored("restart", 0) /\ UNCHANGED faults
      [] OTHER ->
            /\ UNCHANGED faults
            /\ \E pos \in Landings(e.media, 0) :
                  /\ e.fixed => pos.kind = "sure"
                  /\ Plays([e EXCEPT !.at = pos, !.pend = NoIntent,
                                     !.earned = @ \union {e.media}],
                           <<Positioned("Landing", e, pos)>>, <<>>)

Load(c) ==
    LET x == [e EXCEPT !.rev = @ + 1, !.load = 0, !.loading = c.token, !.media = c.media,
                       !.resume = c.resume, !.pend = NoIntent, !.closed = FALSE,
                       !.revived = FALSE, !.at = StartOf(c.media, c.token)]
    IN /\ Settle([x EXCEPT !.state = "Loading"], Announced(x, "Loading"))
       /\ UNCHANGED faults

Dispatch ==
    /\ cmds # <<>> /\ e.loading = 0 /\ app \notin {"closing", "joined"}
    /\ cmds' = Tail(cmds)
    /\ UNCHANGED stopBit
    /\ LET c == Head(cmds)
       IN CASE c.cmd = "Load"    -> Load(c)
            [] c.cmd = "PlayLoaded" ->
                  IF e.load = c.token /\ e.state = "Paused" THEN Play(TRUE) ELSE Nothing
            [] c.cmd = "Play"    -> Play(FALSE)
            [] c.cmd = "Pause"   -> Pause
            [] c.cmd = "Seek"    -> Seek
            [] c.cmd = "Restart" -> Restart

(* How a load in flight ends. *)
LoadCancelled ==
    /\ e.loading # 0
    /\ \/ stopBit \/ app = "join"
       \/ \E i \in DOMAIN cmds : cmds[i].cmd \in {"Load", "Seek"}
    /\ Settle([e EXCEPT !.loading = 0], <<Outcome("LoadCancelled", e, e.loading)>>)
    /\ UNCHANGED <<cmds, stopBit, faults>>

LoadFails ==
    /\ e.loading # 0 /\ Faulty
    /\ Settle([e EXCEPT !.loading = 0, !.state = "Failed"],
              <<Outcome("Failed", e, e.loading), StateEvent(e, "Failed")>>)
    /\ UNCHANGED <<cmds, stopBit>>

(* Where a load starts; a candidate may turn out to be stale. *)
Starts(live, fixed) ==
    LET m == e.media
        positive == Nonzero(e.resume.to)
    IN CASE live -> {[of |-> m, kind |-> "live", n |-> 0]}
         [] ~live /\ ~positive -> {StartOf(m, e.loading)}
         [] ~live /\ positive /\ fixed -> {[of |-> m, kind |-> "fallback", n |-> 0]}
         [] OTHER -> Landings(m, e.resume.to.n)
                        \union (IF e.resume.what = "sure" THEN {StartOf(m, e.loading)} ELSE {})

LoadEnds ==
    /\ e.loading # 0
    /\ LET live == e.media \in Stations
       IN \E fixed \in BOOLEAN :
             /\ fixed => e.media \in Podcasts \union Stations
             /\ live => fixed
             /\ \E pos \in Starts(live, fixed) :
                   LET x == [e EXCEPT !.load = e.loading, !.loading = 0, !.live = live,
                                      !.fixed = fixed, !.at = pos]
                       loaded == [Event("Loaded", x) EXCEPT
                                     !.token = x.load, !.media = x.media, !.pos = pos,
                                     !.live = live, !.fallback = pos.kind = "fallback"]
                   IN \/ /\ Settle([x EXCEPT !.state = "Paused"],
                                   <<loaded, StateEvent(x, "Paused")>>)
                         /\ UNCHANGED faults
                      \/ /\ Faulty            \* the device does not open
                         /\ Settle([x EXCEPT !.state = "Failed"],
                                   <<loaded, Event("Failed", x), StateEvent(x, "Failed")>>)
    /\ UNCHANGED <<cmds, stopBit>>

TakeStop ==
    /\ stopBit /\ stopBit' = FALSE
    /\ e.loading = 0 /\ app \notin {"closing", "joined"}
    /\ LET x == [e EXCEPT !.rev = @ + 1]
       IN IF e.state \in {"Idle", "Stopped", "Failed"} THEN Settle(e, <<>>)
          ELSE Settle([x EXCEPT !.state = "Stopped", !.closed = FALSE],
                      <<StateEvent(x, "Stopped")>>)
    /\ UNCHANGED <<cmds, faults>>

(* Playback by itself. *)
Alone == app \in {"ui", "drain", "sample", "join"} /\ UNCHANGED <<cmds, stopBit>>

Advance ==
    /\ Alone /\ e.state = "Playing" /\ e.at.n < MaxPos
    /\ Settle([e EXCEPT !.at.n = @ + 1], <<>>)
    /\ UNCHANGED faults

EndOfTrack ==
    /\ Alone /\ e.state = "Playing" /\ ~e.live
    /\ LET x == [e EXCEPT !.at = Proven(@), !.earned = @ \union {e.media}]
       IN Settle([x EXCEPT !.state = "Ended"],
                 <<Positioned("EndOfTrack", x, x.at), StateEvent(x, "Ended")>>)
    /\ UNCHANGED faults

Breaks ==
    /\ Alone /\ Faulty
    /\ e.state \in {"Playing", "Paused", "Reconnecting"}
    /\ Fails(e)

(* rebuild() after a device fault. *)
Rebuild ==
    /\ Alone /\ Faulty
    /\ e.state \in {"Playing", "Paused"} /\ ~e.closed
    /\ e.live \/ ~e.fixed
    /\ \E pos \in Relandings(e.at) :
          LET x == [e EXCEPT !.rev = @ + 1, !.at = pos]
          IN Settle(x, <<Event("DeviceRecovered", x)>>)

Lose ==
    /\ Alone /\ Faulty
    /\ e.state = "Playing"
    /\ e.live \/ (e.media \in Podcasts /\ ~e.fixed)
    /\ Settle([e EXCEPT !.state = "Reconnecting"], <<StateEvent(e, "Reconnecting")>>)

Regain ==
    /\ Alone /\ e.state = "Reconnecting"
    /\ Restores(e, <<[Event("Capabilities", e) EXCEPT !.live = e.live]>>)

(* shutdown(): a load still queued is answered, what else is queued is not;  *)
(* then everything is torn down.                                             *)
EngineCloses ==
    /\ app = "join" /\ app' = "closing"
    /\ e.loading = 0
    /\ UNCHANGED <<s, mirror, detached, cmds, stopBit, events, e, wanted, inputs, faults>>

Discard ==
    /\ app = "closing" /\ cmds # <<>>
    /\ cmds' = Tail(cmds)
    /\ LET c == Head(cmds)
       IN Settle(e, IF c.cmd = "Load" THEN <<Outcome("LoadCancelled", e, c.token)>> ELSE <<>>)
    /\ UNCHANGED <<stopBit, faults>>

EngineShutdown ==
    /\ app = "closing" /\ app' = "joined"
    /\ cmds = <<>>
    /\ e' = [e EXCEPT !.state = "Idle"] /\ stopBit' = FALSE
    /\ UNCHANGED <<s, mirror, detached, cmds, events, wanted, inputs, faults>>

Engine ==
    \/ Dispatch \/ LoadCancelled \/ LoadFails \/ LoadEnds \/ TakeStop
    \/ Advance \/ EndOfTrack \/ Breaks \/ Rebuild \/ Lose \/ Regain
    \/ EngineCloses \/ Discard \/ EngineShutdown

Next ==
    \/ FrontEnd /\ UNCHANGED plan
    \/ Engine /\ UNCHANGED plan

Spec == Init /\ [][Next]_vars

-----------------------------------------------------------------------------
(* Properties *)

Finished == app = "done"

TypeOK ==
    /\ app \in {"ui", "drain", "sample", "join", "closing", "joined", "done"}
    /\ detached \in {"no", "yes", "failed"} /\ stopBit \in BOOLEAN
    /\ Len(cmds) <= QueueCap
    /\ Cardinality(DOMAIN s.pending) <= MaxPending
    /\ mirror.load \in 0 .. s.next /\ s.adopted.token \in 0 .. s.next
    /\ e.load \in 0 .. s.next /\ e.loading \in 0 .. s.next
    /\ s.rev <= s.latest /\ s.latest <= e.rev

(* A checkpoint is a position of its own media that was heard there: never   *)
(* the position of another media, a start nobody heard, listening time of a  *)
(* station, or the zero that stands in for a resume the server refused,      *)
(* unless that media was heard to its end or restarted by the listener.      *)
WasHeard(pos, m) ==
    \/ Kept(pos, m)
    \/ pos.of = m /\ pos.kind = "start" /\ pos.n \in e.heard
    \/ pos.of = m /\ pos.kind = "fallback" /\ m \in e.earned

CheckpointsWereHeard ==
    \A m \in Media : WasHeard(s.ck[m].pos, m) /\ WasHeard(s.ck[m].est, m)

(* An estimated location never becomes the established position.             *)
EstimatesStayEstimates == \A m \in Media : s.ck[m].pos.kind # "guess"

(* While the playing playlist has a cursor, the saved current media is the   *)
(* media of that entry, and a load adopted for an entry has it as cursor.    *)
PlayingEntryAgrees ==
    /\ Cursor(s.set) # None =>
          Has(s.set, Cursor(s.set)) /\ s.saved = MediaOf(s.set, Cursor(s.set))
    /\ s.adopted.target # None => Cursor(s.set) = s.adopted.target

(* The state is well typed, and the session agrees with itself.              *)
SessionAgrees == TypeOK /\ PlayingEntryAgrees

(* Every load the session still waits for is owed an outcome: its command    *)
(* is queued, the engine is opening it, or its outcome is on the way.        *)
PendingIsOwed ==
    \A t \in DOMAIN s.pending :
        \/ \E i \in DOMAIN cmds : cmds[i].cmd = "Load" /\ cmds[i].token = t
        \/ e.loading = t
        \/ \E i \in DOMAIN events : IsOutcome(events[i]) /\ events[i].token = t

(* Nothing left for either side to do. *)
AtRest ==
    /\ app = "ui" /\ s.advance = None
    /\ cmds = <<>> /\ events = <<>> /\ ~stopBit /\ e.loading = 0

Owned == s.adopted.token = e.load /\ mirror.load = e.load /\ mirror.state = e.state

(* What is heard once every command and event is dealt with is what the      *)
(* session adopted and the front end shows, as long as no command of the     *)
(* listener took up what had stopped.                                        *)
AudibleIsOwned ==
    AtRest /\ e.state \in {"Playing", "Reconnecting"} /\ ~e.revived => Owned

(* The load asked for last is the one adopted, unless it was stopped, its    *)
(* entry removed, or something failed.                                       *)
WantedIsAdopted ==
    AtRest /\ faults = 0 /\ wanted # NoLoad => s.adopted = wanted /\ e.load = wanted.token

(* Once everything is dealt with, what the listener asked for last is what   *)
(* the session, the front end and the engine agree on.                       *)
RestAgrees == WantedIsAdopted /\ AudibleIsOwned

(* Every playthrough of the adopted media that runs to its end completes it   *)
(* and asks for the entry after it, the first as well as one the listener     *)
(* restarted under the same load; and no end comes of a playthrough that has  *)
(* been completed already, which would advance the queue a second time.       *)
EndsAreHeeded ==
    [][ /\ events # <<>> /\ events' = Tail(events)
        /\ Head(events).k = "EndOfTrack" /\ Owns(s, Head(events).rev)
        => /\ ~s.completed /\ s'.completed
           /\ s.adopted.target # Detached =>
                 s'.advance = Following(s.set, s.adopted.target) ]_vars

(* The snapshot of a shutdown holds the final position of the adopted media  *)
(* that was being heard, or the target stored for it, unless something       *)
(* failed: a pause that closes the connection moves the revision on without  *)
(* an event that says so, and what was heard since the last pass is lost.    *)
FinalCheckpoint ==
    LET final == IF e.pend = NoIntent THEN e.at ELSE e.pend.to
        entry == s.ck[e.media]
    IN Finished /\ faults = 0 /\ e.load \in e.heard \ {0}
          /\ s.adopted.token = e.load /\ s.last = e.load
          /\ s.checkpointable /\ e.at.kind \in {"sure", "guess"}
       => final \in {entry.pos, entry.est}
=============================================================================
