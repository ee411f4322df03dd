--------------------------- MODULE FinalPositionProofs ---------------------------
(* What the program comes to, over the invariants of PlayerRuntimeProofs: the   *)
(* position it leaves in the state file (FinalPositionIsStored), what it agrees *)
(* on once every command and event is dealt with (RestAlwaysAgrees), and what   *)
(* an end of track leads to (EndsAlwaysHeeded).                                 *)
(*                                                                            *)
(* The first: a session that owns the load it hears of takes a view from each   *)
(* event (Hears).  The views the events on their way lead to end in one that    *)
(* fits the engine (Path, Suits), so what the last capture writes is what the   *)
(* engine stood at when it was told to shut down (Smooth).  Around it go the    *)
(* counting of commands still to be answered and what the last capture waits    *)
(* for (Holds, Shut).                                                           *)
(*                                                                            *)
(* The second: the events on their way lead from the state shown to the state   *)
(* the engine is in (Echoes); what goes on by itself is the load that reigns,   *)
(* or a stop or another load is about to end it (Claimed); and the load the     *)
(* listener wants is queued last, being opened, on its way, or adopted, with no *)
(* stop ahead of it (Sought).                                                   *)
(*                                                                            *)
(* And at the end, that no end of a playthrough is missed or taken twice        *)
(* (EndsAlwaysHeeded): an end comes while the events say Playing (Tells), and   *)
(* what plays has not been completed (Fresh).                                   *)
EXTENDS PlayerRuntimeProofs

-----------------------------------------------------------------------------
(* The final checkpoint.  What the session will make of the events on their way
   is followed event by event, from a view of the session to the view that fits
   the engine: so the last capture finds all that the engine knows. *)

(* What a session that owns the load it hears of takes from each event. *)
Views ==
    [rev : Nat, established : BOOLEAN, protected : BOOLEAN, target : Positions, open : BOOLEAN]
Hears(v, ev) ==
    IF ev.k = "Loaded"
    THEN [rev |-> ev.rev, established |-> FALSE, protected |-> ev.fallback, target |-> NoPos,
          open |-> FALSE]
    ELSE [rev |-> ev.rev,
          established |-> v.established \/ Speaks(ev),
          protected |-> v.protected
                           /\ (ev.k \in {"Landing", "EndOfTrack"} => Estimated(ev.pos)),
          target |-> IF ev.k = "TargetStored" THEN ev.pos
                     ELSE IF Speaks(ev) THEN NoPos ELSE v.target,
          open |-> ev.k # "EndOfTrack" /\ (v.open \/ Speaks(ev))]

(* An end is taken for one, not for the one heard last. *)
Ripe(v, ev) == ev.k = "EndOfTrack" => v.open

LEMMA HearsIs ==
  ASSUME NEW v \in Views, NEW ev \in EventSet
  PROVE  LET w == Hears(v, ev) IN
         /\ w \in Views /\ w.rev = ev.rev
         /\ ev.k = "Loaded" =>
               /\ ~w.established /\ (w.protected <=> ev.fallback) /\ w.target = NoPos /\ ~w.open
         /\ ev.k # "Loaded" =>
               /\ w.established <=> v.established \/ Speaks(ev)
               /\ w.protected <=> v.protected
                     /\ (ev.k \in {"Landing", "EndOfTrack"} => Estimated(ev.pos))
               /\ w.target = IF ev.k = "TargetStored" THEN ev.pos
                             ELSE IF Speaks(ev) THEN NoPos ELSE v.target
               /\ w.open <=> ev.k # "EndOfTrack" /\ (v.open \/ Speaks(ev))
<1>1. /\ ev.rev \in Nat /\ ev.pos \in Positions /\ ev.fallback \in BOOLEAN /\ NoPos \in Positions
      /\ v.established \in BOOLEAN /\ v.protected \in BOOLEAN /\ v.target \in Positions
      /\ v.open \in BOOLEAN
  BY NoPosIn DEF EventSet, Views
<1>2. PICK established \in BOOLEAN : established = (v.established \/ Speaks(ev))
  BY <1>1
<1>3. PICK protected \in BOOLEAN :
         protected = (v.protected /\ (ev.k \in {"Landing", "EndOfTrack"} => Estimated(ev.pos)))
  BY <1>1
<1>4. PICK target \in Positions :
         target = IF ev.k = "TargetStored" THEN ev.pos ELSE IF Speaks(ev) THEN NoPos ELSE v.target
  BY <1>1
<1>5. PICK open \in BOOLEAN : open = (ev.k # "EndOfTrack" /\ (v.open \/ Speaks(ev)))
  BY <1>1
<1>6. CASE ev.k = "Loaded"
  <2>1. Hears(v, ev) = [rev |-> ev.rev, established |-> FALSE, protected |-> ev.fallback,
                        target |-> NoPos, open |-> FALSE]
    BY <1>6 DEF Hears
  <2> QED BY <1>1, <1>6, <2>1 DEF Views
<1>7. CASE ev.k # "Loaded"
  <2>1. Hears(v, ev) = [rev |-> ev.rev, established |-> established, protected |-> protected,
                        target |-> target, open |-> open]
    BY <1>2, <1>3, <1>4, <1>5, <1>7 DEF Hears
  <2>2. PICK w : w = Hears(v, ev)
    OBVIOUS
  <2>3. /\ w \in Views /\ w.rev = ev.rev /\ w.established = established
        /\ w.protected = protected /\ w.target = target /\ w.open = open
    BY <1>1, <2>1, <2>2 DEF Views
  <2> QED BY <1>2, <1>3, <1>4, <1>5, <1>7, <2>2, <2>3
<1> QED BY <1>6, <1>7

(* The views along the events. *)
Path(p, evs) ==
    /\ p \in Seq(Views) /\ Len(p) = Len(evs) + 1
    /\ \A i \in DOMAIN evs : p[i + 1] = Hears(p[i], evs[i]) /\ Ripe(p[i], evs[i])
Runs(v, new, w) ==
    \/ new = <<>> /\ w = v
    \/ \E a \in EventSet : new = <<a>> /\ Ripe(v, a) /\ w = Hears(v, a)
    \/ \E a \in EventSet, b \in EventSet :
          /\ new = <<a, b>> /\ Ripe(v, a) /\ Ripe(Hears(v, a), b)
          /\ w = Hears(Hears(v, a), b)

LEMMA PathTail ==
  ASSUME NEW S, NEW evs \in Seq(S), evs # <<>>, NEW p, Path(p, evs)
  PROVE  /\ Path(Tail(p), Tail(evs)) /\ Tail(p)[1] = Hears(p[1], Head(evs))
         /\ Ripe(p[1], Head(evs)) /\ p[1] \in Views
         /\ Tail(p)[Len(Tail(evs)) + 1] = p[Len(evs) + 1]
<1>1. /\ Len(evs) \in Nat /\ Len(Tail(evs)) = Len(evs) - 1 /\ DOMAIN Tail(evs) = 1 .. Len(evs) - 1
      /\ \A i \in DOMAIN Tail(evs) : i \in Nat /\ i + 1 \in DOMAIN evs /\ Tail(evs)[i] = evs[i + 1]
      /\ 1 \in DOMAIN evs /\ Head(evs) = evs[1] /\ Len(evs) >= 1
  BY TailAt
<1>2. p \in Seq(Views) /\ p # <<>> /\ Len(p) = Len(evs) + 1
  BY <1>1 DEF Path
<1>3. /\ Tail(p) \in Seq(Views) /\ Len(Tail(p)) = Len(p) - 1 /\ DOMAIN Tail(p) = 1 .. Len(p) - 1
      /\ \A i \in DOMAIN Tail(p) : Tail(p)[i] = p[i + 1]
      /\ 1 \in DOMAIN p
  BY <1>2, TailAt
<1> DEFINE q == Tail(p)
           rest == Tail(evs)
<1> HIDE DEF q, rest
<1>4. /\ q \in Seq(Views) /\ Len(q) = Len(evs) /\ Len(rest) = Len(evs) - 1
      /\ \A i \in 1 .. Len(evs) : q[i] = p[i + 1]
      /\ DOMAIN rest = 1 .. Len(evs) - 1
      /\ \A i \in DOMAIN rest : i \in Nat /\ i + 1 \in DOMAIN evs /\ rest[i] = evs[i + 1]
  BY <1>1, <1>2, <1>3 DEF q, rest
<1>5. \A i \in DOMAIN evs : p[i + 1] = Hears(p[i], evs[i]) /\ Ripe(p[i], evs[i])
  BY DEF Path
<1>6. ASSUME NEW i \in DOMAIN rest
      PROVE  q[i + 1] = Hears(q[i], rest[i]) /\ Ripe(q[i], rest[i])
  <2>1. i \in 1 .. Len(evs) /\ i + 1 \in 1 .. Len(evs)
    BY <1>1, <1>4
  <2>2. q[i] = p[i + 1] /\ q[i + 1] = p[i + 1 + 1] /\ rest[i] = evs[i + 1] /\ i + 1 \in DOMAIN evs
    BY <1>4, <2>1
  <2> QED BY <1>5, <2>2
<1>7. Path(q, rest)
  BY <1>1, <1>4, <1>6 DEF Path
<1>8. q[1] = Hears(p[1], Head(evs)) /\ Ripe(p[1], Head(evs))
  <2>1. q[1] = p[1 + 1]
    BY <1>1, <1>4
  <2> QED BY <1>1, <1>5, <2>1
<1>9. p[1] \in Views
  BY <1>2, <1>3
<1>10. q[Len(rest) + 1] = p[Len(evs) + 1]
  <2>1. Len(rest) + 1 = Len(evs) /\ Len(evs) \in 1 .. Len(evs)
    BY <1>1, <1>4
  <2> QED BY <1>4, <2>1
<1> QED BY <1>7, <1>8, <1>9, <1>10 DEF q, rest

LEMMA PathAppend ==
  ASSUME NEW S, NEW evs \in Seq(S), NEW p, Path(p, evs), NEW a \in EventSet,
         Ripe(p[Len(evs) + 1], a)
  PROVE  LET q == Append(p, Hears(p[Len(evs) + 1], a)) IN
         /\ Path(q, Append(evs, a)) /\ q[1] = p[1]
         /\ q[Len(Append(evs, a)) + 1] = Hears(p[Len(evs) + 1], a)
         /\ p[Len(evs) + 1] \in Views
<1>1. Len(evs) \in Nat /\ DOMAIN evs = 1 .. Len(evs) /\ p \in Seq(Views) /\ Len(p) = Len(evs) + 1
  BY DEF Path
<1>2. p[Len(evs) + 1] \in Views
  BY <1>1
<1>3. PICK v \in Views : v = p[Len(evs) + 1]
  BY <1>2
<1>4. PICK w : w = Hears(v, a)
  OBVIOUS
<1>5. w \in Views
  BY <1>4, HearsIs
<1> DEFINE q == Append(p, w)
           more == Append(evs, a)
<1>6. /\ Len(more) = Len(evs) + 1 /\ DOMAIN more = 1 .. Len(evs) + 1
      /\ \A i \in 1 .. Len(evs) : more[i] = evs[i]
      /\ more[Len(evs) + 1] = a
  BY <1>1
<1>7. /\ q \in Seq(Views) /\ Len(q) = Len(evs) + 2
      /\ \A i \in 1 .. Len(evs) + 1 : q[i] = p[i]
      /\ q[Len(evs) + 2] = w
  BY <1>1, <1>5
<1> HIDE DEF q, more
<1>8. ASSUME NEW i \in DOMAIN more PROVE q[i + 1] = Hears(q[i], more[i]) /\ Ripe(q[i], more[i])
  <2>1. CASE i \in 1 .. Len(evs)
    <3>1. i + 1 \in 1 .. Len(evs) + 1 /\ i \in 1 .. Len(evs) + 1
      BY <1>1, <2>1
    <3>2. q[i] = p[i] /\ q[i + 1] = p[i + 1] /\ more[i] = evs[i]
      BY <1>6, <1>7, <2>1, <3>1
    <3>3. p[i + 1] = Hears(p[i], evs[i]) /\ Ripe(p[i], evs[i])
      BY <1>1, <2>1 DEF Path
    <3> QED BY <3>2, <3>3
  <2>2. CASE i = Len(evs) + 1
    <3>1. i + 1 = Len(evs) + 2 /\ i \in 1 .. Len(evs) + 1
      BY <1>1, <2>2
    <3>2. q[i] = v /\ q[i + 1] = w /\ more[i] = a
      BY <1>3, <1>6, <1>7, <2>2, <3>1
    <3> QED BY <1>3, <1>4, <3>2
  <2> QED BY <1>1, <1>6, <2>1, <2>2
<1>9. Len(q) = Len(more) + 1 /\ Len(more) + 1 = Len(evs) + 2
  BY <1>1, <1>6, <1>7
<1>10. Path(q, more)
  BY <1>7, <1>8, <1>9 DEF Path
<1>11. q[1] = p[1]
  BY <1>1, <1>7
<1>12. q[Len(more) + 1] = w
  BY <1>7, <1>9
<1> QED BY <1>2, <1>3, <1>4, <1>10, <1>11, <1>12 DEF q, more

(* A session that owns the load it heard of is seen by a view; the view fits    *)
(* the engine when all on the way is heard.                                     *)
Owning(x) == x.adopted.token # 0 /\ x.last = x.adopted.token
Shows(x, v) ==
    /\ v.rev = x.rev /\ (v.established <=> x.established) /\ (v.protected <=> x.protected)
    /\ v.target = x.target /\ (v.open => x.seen = <<0, 0>>)
Goal(g) == IF g.pend = NoIntent THEN NoPos ELSE g.pend.to
Suits(v, g) ==
    /\ g.state = "Playing" => v.open
    /\ g.load # 0 =>
          /\ v.rev = g.rev /\ v.target = Goal(g)
          /\ g.load \in g.heard => v.established
          /\ v.protected => g.fixed /\ g.at.kind = "fallback"
Told(x, evs, g) ==
    \E p : Path(p, evs) /\ (Owning(x) => Shows(x, p[1])) /\ Suits(p[Len(evs) + 1], g)

(* The engine goes from g to h, and says so with new. *)
Carries(g, new, h) == \A v \in Views : Suits(v, g) => \E w : Runs(v, new, w) /\ Suits(w, h)

LEMMA ToldOn ==
  ASSUME NEW S, NEW evs \in Seq(S), NEW x, NEW g, Told(x, evs, g), NEW new, NEW h,
         Carries(g, new, h)
  PROVE  Told(x, evs \o new, h)
<1>1. PICK p : Path(p, evs) /\ (Owning(x) => Shows(x, p[1])) /\ Suits(p[Len(evs) + 1], g)
  BY DEF Told
<1>2. p[Len(evs) + 1] \in Views
  BY <1>1 DEF Path
<1>3. PICK v \in Views : v = p[Len(evs) + 1]
  BY <1>2
<1>4. PICK w : Runs(v, new, w) /\ Suits(w, h)
  BY <1>1, <1>3 DEF Carries
<1>5. CASE new = <<>> /\ w = v
  <2>1. evs \o new = evs
    BY <1>5
  <2> QED BY <1>1, <1>3, <1>4, <1>5, <2>1 DEF Told
<1>6. ASSUME NEW a \in EventSet, new = <<a>>, Ripe(v, a), w = Hears(v, a)
      PROVE  Told(x, evs \o new, h)
  <2>1. evs \o new = Append(evs, a)
    BY <1>6
  <2>2. PICK q : q = Append(p, Hears(p[Len(evs) + 1], a))
    OBVIOUS
  <2>3. Path(q, Append(evs, a)) /\ q[1] = p[1] /\ q[Len(Append(evs, a)) + 1] = w
    BY <1>1, <1>3, <1>6, <2>2, PathAppend
  <2> QED BY <1>1, <1>4, <2>1, <2>3 DEF Told
<1>7. ASSUME NEW a \in EventSet, NEW b \in EventSet, new = <<a, b>>, Ripe(v, a),
             Ripe(Hears(v, a), b), w = Hears(Hears(v, a), b)
      PROVE  Told(x, evs \o new, h)
  <2>1. PICK T : T = S \union {a}
    OBVIOUS
  <2>2. evs \in Seq(T) /\ a \in T
    BY <2>1, SeqGrows
  <2>3. Append(evs, a) \in Seq(T)
    BY <2>2
  <2>4. PICK more \in Seq(T) : more = Append(evs, a)
    BY <2>3
  <2>10. evs \o new = Append(more, b)
    BY <1>7, <2>2, <2>4
  <2>5. PICK q : q = Append(p, Hears(p[Len(evs) + 1], a))
    OBVIOUS
  <2>6. Path(q, more) /\ q[1] = p[1] /\ q[Len(more) + 1] = Hears(v, a)
    BY <1>1, <1>3, <1>7, <2>4, <2>5, PathAppend
  <2>7. PICK r : r = Append(q, Hears(q[Len(more) + 1], b))
    OBVIOUS
  <2>8. Ripe(q[Len(more) + 1], b)
    BY <1>7, <2>6
  <2>9. /\ Path(r, Append(more, b)) /\ r[1] = q[1]
        /\ r[Len(Append(more, b)) + 1] = Hears(q[Len(more) + 1], b)
    BY ZenonT(60), <2>6, <2>7, <2>8, PathAppend
  <2> QED BY <1>1, <1>4, <1>7, <2>6, <2>9, <2>10 DEF Told
<1> QED BY <1>4, <1>5, <1>6, <1>7 DEF Runs

LEMMA ToldTail ==
  ASSUME NEW S, NEW evs \in Seq(S), evs # <<>>, NEW x, NEW g, Told(x, evs, g), NEW y,
         \A v \in Views : (Owning(x) => Shows(x, v)) /\ Ripe(v, Head(evs)) /\ Owning(y)
                             => Shows(y, Hears(v, Head(evs)))
  PROVE  Told(y, Tail(evs), g)
<1>1. PICK p : Path(p, evs) /\ (Owning(x) => Shows(x, p[1])) /\ Suits(p[Len(evs) + 1], g)
  BY DEF Told
<1>2. /\ Path(Tail(p), Tail(evs)) /\ Tail(p)[1] = Hears(p[1], Head(evs))
      /\ Ripe(p[1], Head(evs)) /\ p[1] \in Views
      /\ Tail(p)[Len(Tail(evs)) + 1] = p[Len(evs) + 1]
  BY <1>1, PathTail
<1>3. PICK q : q = Tail(p)
  OBVIOUS
<1>4. Owning(y) => Shows(y, q[1])
  BY <1>1, <1>2, <1>3
<1> QED BY <1>1, <1>2, <1>3, <1>4 DEF Told

(* What the session keeps to while it hears nothing. *)
Attends(x, y) ==
    Owning(y) =>
        /\ Owning(x) /\ y.rev = x.rev /\ y.established = x.established
        /\ y.protected = x.protected /\ y.target = x.target /\ y.seen = x.seen
        /\ y.adopted = x.adopted /\ y.completed = x.completed

LEMMA AttendsTold ==
  ASSUME NEW x, NEW evs, NEW g, Told(x, evs, g), NEW y, Attends(x, y)
  PROVE  Told(y, evs, g)
<1>1. PICK p : Path(p, evs) /\ (Owning(x) => Shows(x, p[1])) /\ Suits(p[Len(evs) + 1], g)
  BY DEF Told
<1>2. Owning(y) => Shows(y, p[1])
  BY <1>1 DEF Attends, Shows
<1> QED BY <1>1, <1>2 DEF Told

LEMMA AttendsOn ==
  ASSUME NEW x, NEW y, NEW z, Attends(x, y), Attends(y, z) PROVE Attends(x, z)
BY DEF Attends

LEMMA RecordedAttends ==
  ASSUME NEW x \in SessionSet, NEW y, Recorded(x, y)
  PROVE  Attends(x, y) /\ y.last = x.last /\ y.adopted = x.adopted /\ y.seen = x.seen
         /\ y.rev = x.rev /\ y.established = x.established /\ y.protected = x.protected
         /\ y.target = x.target /\ y.completed = x.completed /\ y \in SessionSet
<1>1. PICK c \in Checkpoints : y = [x EXCEPT !.ck = c]
  BY DEF Recorded
<1>2. /\ y.last = x.last /\ y.adopted = x.adopted /\ y.seen = x.seen
      /\ y.rev = x.rev /\ y.established = x.established /\ y.protected = x.protected
      /\ y.target = x.target /\ y.completed = x.completed
  BY <1>1 DEF SessionSet
<1>3. y \in SessionSet
  BY RecordedKeeps
<1> QED BY <1>2, <1>3 DEF Attends, Owning

(* What the session takes from an event, the view of it takes too. *)
LEMMA LoadedShows ==
  ASSUME NEW x \in SessionSet, NEW ev \in EventSet, ev.media \in Media, NEW token, NEW target
  PROVE  LET y == AdoptLoaded(x, token, target, ev) IN
         /\ y.rev = x.rev /\ y.established = FALSE /\ y.protected = ev.fallback
         /\ y.target = NoPos
<1> DEFINE m == ev.media
           gone == IF x.media # m THEN RecordOutgoing(x) ELSE x
           reset == [gone EXCEPT !.force = 0, !.target = NoPos, !.established = FALSE,
                                 !.guess = FALSE, !.protected = ev.fallback]
           moved == AdoptMedia(reset, m, target)
           y == AdoptLoaded(x, token, target, ev)
<1>1. gone \in SessionSet /\ gone.rev = x.rev
  BY RecordOutgoingIs DEF Keeps
<1>2. y = [moved EXCEPT
             !.sample = [rev |-> x.rev, media |-> m, pos |-> ev.pos, guess |-> FALSE],
             !.checkpointable = ~ev.live,
             !.set = IF target = Detached THEN moved.set ELSE Adopt(moved.set, target),
             !.adopted = [token |-> token, target |-> target]]
  BY DEF AdoptLoaded, gone
<1> HIDE DEF gone
<1>3. /\ reset.rev = gone.rev /\ reset.target = NoPos /\ reset.established = FALSE
      /\ reset.protected = ev.fallback /\ reset \in SessionSet
  <2>1. ev.fallback \in BOOLEAN
    BY DEF EventSet
  <2>2. reset \in SessionSet
    BY ZenonT(60), <1>1, <2>1, NoPosIn DEF SessionSet
  <2> QED BY <1>1, <2>2 DEF SessionSet
<1> HIDE DEF reset
<1>4. /\ moved.rev = reset.rev /\ moved.target = reset.target /\ moved.protected = reset.protected
      /\ moved.established = reset.established
  <2>1. moved = [reset EXCEPT !.media = m, !.completed = reset.ck[m].done,
                    !.saved = IF target # Detached \/ Cursor(reset.set) = None THEN m ELSE @]
    BY DEF AdoptMedia
  <2> HIDE DEF moved, m
  <2> QED BY <1>3, <2>1 DEF SessionSet
<1>5. moved \in SessionSet
  BY <1>3, AdoptMediaIs
<1> HIDE DEF moved, y
<1>6. /\ y.rev = moved.rev /\ y.target = moved.target /\ y.protected = moved.protected
      /\ y.established = moved.established
  BY <1>2, <1>5 DEF SessionSet
<1> QED BY <1>1, <1>3, <1>4, <1>6 DEF y

LEMMA OutcomeShows ==
  ASSUME NEW x, Sane(x), NEW ev \in EventSet, ev.k = "Loaded" => ev.media \in Media,
         IsOutcome(ev), ev.token \in DOMAIN x.pending, x.latest <= ev.rev,
         x.adopted.token \notin DOMAIN x.pending, NEW v \in Views,
         NEW y, y = Observe(x, ev), Owning(y)
  PROVE  Shows(y, Hears(v, ev))
<1> DEFINE gone == Retract(x, ev.token)
           known == WithLatest(gone, ev.rev, 0)
           later == WithLatest(gone, ev.rev, ev.token)
           stopping == [later EXCEPT !.stop = TRUE]
           owning == [later EXCEPT !.rev = ev.rev]
           target == x.pending[ev.token].target
           adopting == AdoptLoaded(owning, ev.token, target, ev)
<1>1. /\ x \in SessionSet /\ ev.rev \in Nat /\ x.latest \in Nat /\ ev.token \in 1 .. x.next
      /\ ev.token \in Nat /\ ~(ev.rev < x.latest) /\ ev.rev >= x.latest
  BY DEF Sane, SessionSet, EventSet
<1>2. /\ Sane(gone) /\ gone.next = x.next /\ gone.adopted = x.adopted /\ gone.latest = x.latest
  BY RetractIs
<1>3. /\ ev.k # "Loaded" => y = known
      /\ ev.k = "Loaded" /\ ~Accepts(x, ev) => y = stopping
      /\ ev.k = "Loaded" /\ Accepts(x, ev) => y = adopting
  <2>1. y = LoadOutcome(x, ev, Accepts(x, ev))
    BY <1>1 DEF Observe
  <2> QED BY <1>1, <2>1 DEF LoadOutcome, WithLatest, gone
<1>4. gone \in SessionSet
  BY <1>2 DEF Sane
<1> HIDE DEF gone, target
<1>5. CASE ev.k # "Loaded"
  <2>1. Alike(gone, known) /\ known.last = 0
    BY <1>4, LatestAlike
  <2> QED BY <1>3, <1>5, <2>1 DEF Owning
<1>6. CASE ev.k = "Loaded"
  <2>1. Alike(gone, later) /\ later.last = ev.token /\ later \in SessionSet
    <3>1. Alike(gone, later) /\ later.last = ev.token
      BY <1>4, LatestAlike
    <3>2. Sane(later)
      BY <1>1, <1>2, LatestIs
    <3> QED BY <3>1, <3>2 DEF Sane
  <2> HIDE DEF later
  <2>2. CASE ~Accepts(x, ev)
    <3>1. stopping.adopted = x.adopted /\ stopping.last = ev.token
      BY <1>2, <2>1 DEF Alike, SessionSet
    <3> QED BY <1>3, <1>6, <2>2, <3>1 DEF Owning
  <2>3. CASE Accepts(x, ev)
    <3>1. owning \in SessionSet /\ owning.rev = ev.rev
      BY <1>1, <2>1 DEF SessionSet
    <3> HIDE DEF owning
    <3>2. PICK u \in SessionSet : u = owning
      BY <3>1
    <3>3. PICK goal : goal = target
      OBVIOUS
    <3>4. PICK z : z = AdoptLoaded(u, ev.token, goal, ev)
      OBVIOUS
    <3>5. y = z
      BY <1>3, <1>6, <2>3, <3>2, <3>3, <3>4
    <3>6. ev.media \in Media
      BY <1>6
    <3>7. z.rev = u.rev /\ z.established = FALSE /\ z.protected = ev.fallback /\ z.target = NoPos
      BY <3>4, <3>6, LoadedShows
    <3> QED BY <1>6, <3>1, <3>2, <3>5, <3>7, HearsIs DEF Shows
  <2> QED BY <2>2, <2>3
<1> QED BY <1>5, <1>6

LEMMA MediaEventShows ==
  ASSUME NEW x \in SessionSet, NEW ev \in EventSet, ev.k # "Loaded", x.adopted.token # 0,
         NEW v \in Views, Shows(x, v), Ripe(v, ev)
  PROVE  Shows(MediaEvent(x, ev), Hears(v, ev))
<1> DEFINE force == IF x.force = 0 THEN 0 ELSE ev.rev
           z == [x EXCEPT !.latest = ev.rev, !.rev = ev.rev, !.force = force]
           y == MediaEvent(x, ev)
           w == Hears(v, ev)
<1>1. /\ ev.rev \in Nat /\ force \in Nat /\ ev.state \in States /\ ev.pos \in Positions
      /\ Estimated(ev.pos) \in BOOLEAN
  BY DEF SessionSet, EventSet, Estimated
<1>2. /\ ev.k = "State" => y = OnState(z, ev.state)
      /\ ev.k = "Landing" => y = OnLanding(z, ev)
      /\ ev.k = "TargetStored" => y = OnTargetStored(z, ev)
      /\ ev.k = "EndOfTrack" => y = OnEndOfTrack(z, ev)
      /\ ev.k = "Capabilities" => y = [z EXCEPT !.checkpointable = @ /\ ~ev.live]
      /\ ~(ev.k = "State" \/ Locates(ev) \/ ev.k = "Capabilities") => y = z
  BY DEF MediaEvent, Locates
<1> HIDE DEF force
<1>3. /\ z \in SessionSet /\ z.rev = ev.rev /\ z.established = x.established
      /\ z.protected = x.protected /\ z.target = x.target /\ z.seen = x.seen
      /\ z.adopted = x.adopted
  BY <1>1 DEF SessionSet
<1> HIDE DEF z, y
<1>4. /\ w.rev = ev.rev
      /\ w.established <=> v.established \/ Speaks(ev)
      /\ w.protected <=> v.protected /\ (ev.k \in {"Landing", "EndOfTrack"} => Estimated(ev.pos))
      /\ w.target = IF ev.k = "TargetStored" THEN ev.pos
                    ELSE IF Speaks(ev) THEN NoPos ELSE v.target
      /\ w.open <=> ev.k # "EndOfTrack" /\ (v.open \/ Speaks(ev))
  BY HearsIs
<1> HIDE DEF w
<1> SUFFICES Shows(y, w)
  BY DEF y, w
<1>5. /\ v.established <=> z.established
      /\ v.protected <=> z.protected
      /\ v.target = z.target /\ (v.open => z.seen = <<0, 0>>)
  BY <1>3 DEF Shows
<1>6. z.protected \in BOOLEAN /\ z.established \in BOOLEAN
  BY <1>3 DEF SessionSet
<1>7. CASE ~Speaks(ev) /\ ev.k # "State"
  <2>1. /\ y.rev = z.rev /\ y.established = z.established /\ y.protected = z.protected
        /\ y.target = z.target /\ y.seen = z.seen
    BY <1>2, <1>3, <1>7 DEF Speaks, Locates, SessionSet
  <2> QED BY <1>3, <1>4, <1>5, <1>7, <2>1 DEF Shows, Speaks, Locates
<1>8. CASE ev.k = "State" /\ ev.state # "Playing"
  <2>1. /\ y.rev = z.rev /\ y.established = z.established /\ y.protected = z.protected
        /\ y.target = z.target /\ y.seen = z.seen
    BY <1>2, <1>3, <1>8 DEF OnState, SessionSet
  <2> QED BY <1>3, <1>4, <1>5, <1>8, <2>1 DEF Shows, Speaks, Locates
<1>9. CASE ev.k = "State" /\ ev.state = "Playing"
  <2>1. /\ y.rev = z.rev /\ y.established = TRUE /\ y.protected = z.protected
        /\ y.target = NoPos /\ y.seen = <<0, 0>>
    BY <1>2, <1>3, <1>9 DEF OnState, SessionSet
  <2> QED BY <1>3, <1>4, <1>5, <1>9, <2>1 DEF Shows, Speaks, Locates
<1>10. PICK protected \in BOOLEAN : protected = (z.protected /\ Estimated(ev.pos))
  BY <1>1, <1>6
<1>11. CASE ev.k = "Landing"
  <2>1. y = [z EXCEPT !.target = NoPos, !.established = TRUE, !.completed = FALSE,
                      !.seen = <<0, 0>>, !.guess = Estimated(ev.pos),
                      !.protected = protected, !.force = ev.rev]
    BY <1>2, <1>10, <1>11 DEF OnLanding
  <2>2. /\ y.rev = z.rev /\ y.established = TRUE /\ y.protected = protected
        /\ y.target = NoPos /\ y.seen = <<0, 0>>
    BY <1>3, <2>1 DEF SessionSet
  <2> QED BY <1>3, <1>4, <1>5, <1>10, <1>11, <2>2 DEF Shows, Speaks, Locates
<1>12. CASE ev.k = "TargetStored"
  <2> DEFINE u == [z EXCEPT !.target = ev.pos, !.established = TRUE, !.completed = FALSE,
                            !.seen = <<0, 0>>]
  <2>1. /\ u \in SessionSet /\ u.rev = z.rev /\ u.established = TRUE /\ u.protected = z.protected
        /\ u.target = ev.pos /\ u.seen = <<0, 0>>
    BY <1>1, <1>3 DEF SessionSet
  <2>2. y = RecordCurrent(u, ev.pos)
    BY <1>2, <1>12 DEF OnTargetStored
  <2> HIDE DEF u
  <2>3. /\ y.rev = u.rev /\ y.established = u.established /\ y.protected = u.protected
        /\ y.target = u.target /\ y.seen = u.seen
    BY <1>1, <2>1, <2>2, RecordCurrentIs, RecordedAttends
  <2> QED BY <1>3, <1>4, <1>5, <1>12, <2>1, <2>3 DEF Shows, Speaks, Locates
<1>13. CASE ev.k = "EndOfTrack"
  <2>1. v.open /\ z.seen = <<0, 0>>
    BY <1>5, <1>13 DEF Ripe
  <2> DEFINE key == <<z.adopted.token, z.rev>>
             u == [z EXCEPT !.seen = key, !.target = NoPos, !.established = TRUE,
                            !.completed = TRUE, !.guess = Estimated(ev.pos),
                            !.protected = protected]
             q == RecordCurrent(u, ev.pos)
             advance == IF z.adopted.target = Detached THEN q.advance
                        ELSE IF Has(z.set, z.adopted.target)
                             THEN Following(z.set, z.adopted.target) ELSE None
  <2>2. z.seen # key
    BY <1>3, <2>1
  <2>3. y = [q EXCEPT !.advance = advance]
    BY <1>2, <1>10, <1>13, <2>2 DEF OnEndOfTrack
  <2>4. key \in Nat \X Nat
    BY <1>3 DEF SessionSet, Loads
  <2> HIDE DEF key
  <2>5. /\ u.rev = z.rev /\ u.established = TRUE /\ u.protected = protected /\ u.target = NoPos
    BY <1>3 DEF SessionSet
  <2>6. u \in SessionSet
    BY ZenonT(60), <1>1, <1>3, <2>4, NoPosIn DEF SessionSet
  <2> HIDE DEF u
  <2>7. /\ q \in SessionSet /\ q.rev = u.rev /\ q.established = u.established
        /\ q.protected = u.protected /\ q.target = u.target
    BY <1>1, <2>6, RecordCurrentIs, RecordedAttends
  <2> HIDE DEF q, advance
  <2>8. /\ y.rev = q.rev /\ y.established = q.established
        /\ y.protected = q.protected /\ y.target = q.target
    BY <2>3, <2>7 DEF SessionSet
  <2> QED BY <1>3, <1>4, <1>5, <1>10, <1>13, <2>5, <2>7, <2>8 DEF Shows, Speaks, Locates
<1> QED BY <1>7, <1>8, <1>9, <1>11, <1>12, <1>13 DEF Speaks, Locates

LEMMA ObserveShows ==
  ASSUME NEW x, Sane(x), NEW ev \in EventSet, ev.k = "Loaded" => ev.media \in Media,
         x.latest <= ev.rev, Cut(ev) => ev.token \in DOMAIN x.pending,
         x.adopted.token \notin DOMAIN x.pending, NEW v \in Views,
         Owning(x) => Shows(x, v), Ripe(v, ev), NEW y, y = Observe(x, ev), Owning(y)
  PROVE  Shows(y, Hears(v, ev))
<1>1. /\ x \in SessionSet /\ ev.rev \in Nat /\ x.latest \in Nat /\ ~(ev.rev < x.latest)
      /\ DOMAIN x.pending \subseteq 1 .. x.next
  BY DEF Sane, SessionSet, EventSet
<1>2. CASE IsOutcome(ev)
  <2>1. ev.token \in DOMAIN x.pending
    BY <1>2 DEF Cut
  <2> QED BY <1>2, <2>1, OutcomeShows
<1>3. CASE ~IsOutcome(ev) /\ Cut(ev)
  <2> DEFINE shown == [x EXCEPT !.playback = "Loading"]
  <2>1. y = Loading(x, ev)
    BY <1>3 DEF Observe, Cut
  <2>2. shown \in SessionSet /\ shown.latest = x.latest
    BY <1>1 DEF SessionSet, States
  <2>3. y = WithLatest(shown, ev.rev, 0)
    BY <1>1, <2>1, <2>2 DEF Loading, WithLatest
  <2> HIDE DEF shown
  <2>4. y.last = 0
    BY <2>2, <2>3, LatestAlike
  <2> QED BY <2>4 DEF Owning
<1>4. CASE ~Cut(ev)
  <2>1. y = IF Accepts(x, ev) THEN MediaEvent(x, ev) ELSE x
    <3>1. ~IsOutcome(ev) /\ ~(ev.k = "State" /\ ev.state = "Loading" /\ ev.token \in DOMAIN x.pending)
      BY <1>1, <1>4 DEF Cut
    <3> QED BY <3>1 DEF Observe
  <2>2. ev.k # "Loaded"
    BY <1>4 DEF Cut, IsOutcome
  <2>3. Accepts(x, ev) <=> Owning(x)
    BY <1>1, <2>2 DEF Accepts, Owns, Owning
  <2>4. Owning(x)
    BY <2>1, <2>3
  <2> QED BY <1>1, <2>1, <2>2, <2>3, <2>4, MediaEventShows DEF Owning
<1> QED BY <1>2, <1>3, <1>4

-----------------------------------------------------------------------------
(* A run without a failure.  The engine then keeps to fewer states, and what a  *)
(* handler says of what it does carries the view along. *)

Steady(g) ==
    /\ g.state \notin {"Failed", "Reconnecting"}
    /\ g.closed => g.live
    /\ g.pend # NoIntent => ~g.fixed /\ ~g.live /\ g.state \in {"Stopped", "Idle"}
    /\ g.loading # 0 =>
          ~g.closed /\ g.pend = NoIntent /\ g.load = 0 /\ g.state = "Loading"
(* A load that has not begun to play has established nothing. *)
Unheard(n, q, g) ==
    /\ g.heard \subseteq 0 .. n
    /\ g.loading # 0 => g.loading \notin g.heard
    /\ \A i \in DOMAIN q : q[i].cmd = "Load" => q[i].token \notin g.heard /\ q[i].token # g.load
Smooth == Steady(e) /\ Unheard(s.next, cmds, e) /\ Told(s, events, e)

LEMMA HearsState ==
  ASSUME NEW x \in EngineSet, NEW state \in States, NEW v \in Views
  PROVE  LET a == StateEvent(x, state)
             w == Hears(v, a)
         IN /\ a \in EventSet /\ Ripe(v, a) /\ w \in Views /\ w.rev = x.rev
            /\ (w.protected <=> v.protected)
            /\ state = "Playing" => w.established /\ w.target = NoPos /\ w.open
            /\ state # "Playing" => /\ (w.established <=> v.established) /\ w.target = v.target
                                    /\ (w.open <=> v.open)
<1>1. PICK a : a = StateEvent(x, state)
  OBVIOUS
<1>2. x.loading \in Nat /\ x.loading <= x.loading /\ x.rev \in Nat
  BY DEF EngineSet
<1>8. a \in Known(x.loading, x.rev)
  BY <1>1, <1>2, StateEventIn
<1>3. a \in EventSet /\ a.rev = x.rev
  BY <1>1, <1>8 DEF Known, StateEvent, Event
<1>4. a.k = "State" /\ a.state = state
  BY <1>1 DEF StateEvent, Event
<1>5. /\ ~Locates(a) /\ (Speaks(a) <=> state = "Playing") /\ Ripe(v, a)
      /\ a.k \notin {"Landing", "EndOfTrack", "Loaded", "TargetStored"}
  BY <1>4 DEF Locates, Speaks, Ripe
<1>6. PICK w : w = Hears(v, a)
  OBVIOUS
<1>7. /\ w \in Views /\ w.rev = x.rev /\ (w.established <=> v.established \/ Speaks(a))
      /\ (w.protected <=> v.protected) /\ (w.open <=> v.open \/ Speaks(a))
      /\ w.target = IF Speaks(a) THEN NoPos ELSE v.target
  BY <1>3, <1>5, <1>6, HearsIs
<1> QED BY <1>1, <1>3, <1>5, <1>6, <1>7

LEMMA HearsPlaced ==
  ASSUME NEW x \in EngineSet, NEW pos \in Positions, NEW v \in Views,
         NEW k \in {"Landing", "TargetStored", "EndOfTrack"}
  PROVE  LET a == Positioned(k, x, pos)
             w == Hears(v, a)
         IN /\ a \in EventSet /\ ((k = "EndOfTrack" => v.open) <=> Ripe(v, a))
            /\ w \in Views /\ w.rev = x.rev /\ w.established
            /\ w.protected <=> v.protected /\ (k = "TargetStored" \/ Estimated(pos))
            /\ w.target = IF k = "TargetStored" THEN pos ELSE NoPos
            /\ w.open <=> k # "EndOfTrack"
<1>1. PICK a : a = Positioned(k, x, pos)
  OBVIOUS
<1>2. x.rev \in Nat /\ 0 \in Nat
  BY DEF EngineSet
<1>8. a \in Known(0, x.rev)
  BY <1>1, <1>2, EventIn
<1>3. a \in EventSet /\ a.rev = x.rev
  BY <1>1, <1>8 DEF Known, Positioned, Event
<1>4. a.k = k /\ a.pos = pos
  BY <1>1 DEF Positioned, Event
<1>5. Speaks(a) /\ a.k # "Loaded" /\ (Ripe(v, a) <=> (k = "EndOfTrack" => v.open))
  BY <1>4 DEF Locates, Speaks, Ripe
<1>6. PICK w : w = Hears(v, a)
  OBVIOUS
<1>7. /\ w \in Views /\ w.rev = x.rev /\ w.established
      /\ w.protected <=> v.protected /\ (a.k \in {"Landing", "EndOfTrack"} => Estimated(a.pos))
      /\ w.target = IF a.k = "TargetStored" THEN a.pos ELSE NoPos
      /\ w.open <=> a.k # "EndOfTrack"
  BY <1>3, <1>5, <1>6, HearsIs
<1> QED BY <1>1, <1>3, <1>4, <1>5, <1>6, <1>7

(* An outcome that opens nothing. *)
LEMMA HearsCancelled ==
  ASSUME NEW x \in EngineSet, NEW token \in Nat, NEW v \in Views
  PROVE  LET a == Outcome("LoadCancelled", x, token)
             w == Hears(v, a)
         IN /\ a \in EventSet /\ Ripe(v, a) /\ w \in Views /\ w.rev = x.rev
            /\ (w.established <=> v.established) /\ (w.protected <=> v.protected)
            /\ w.target = v.target /\ (w.open <=> v.open)
<1>1. PICK a : a = Outcome("LoadCancelled", x, token)
  OBVIOUS
<1>2. x.rev \in Nat /\ token <= token
  BY DEF EngineSet
<1>8. a \in Known(token, x.rev)
  BY <1>1, <1>2, OutcomeIn
<1>3. a \in EventSet /\ a.rev = x.rev
  BY <1>1, <1>8 DEF Known, Outcome, Event
<1>4. a.k = "LoadCancelled"
  BY <1>1 DEF Outcome, Event
<1>5. ~Speaks(a) /\ Ripe(v, a)
  BY <1>4 DEF Locates, Speaks, Ripe
<1>6. PICK w : w = Hears(v, a)
  OBVIOUS
<1>7. /\ w \in Views /\ w.rev = x.rev /\ (w.established <=> v.established)
      /\ (w.protected <=> v.protected) /\ (w.open <=> v.open) /\ w.target = v.target
  BY <1>3, <1>4, <1>5, <1>6, HearsIs
<1> QED BY <1>1, <1>3, <1>5, <1>6, <1>7

(* A handler that leaves the load alone. *)
Onward(h, new) ==
    /\ Steady(h) /\ h.load = e.load /\ h.loading = e.loading
    /\ h.heard \subseteq e.heard \union {e.load}
    /\ Carries(e, new, h) /\ Settle(h, new)
Onwards == \E h, new : Onward(h, new)

LEMMA OnwardBy ==
  ASSUME NEW h, NEW new, Onward(h, new) PROVE Onwards
BY DEF Onwards

LEMMA SuitsBy ==
  ASSUME NEW v, NEW w, NEW g, Suits(v, g), NEW h, h.load = g.load,
         h.state = "Playing" => w.open,
         w.rev = h.rev, g.load # 0 => w.target = Goal(h),
         w.established \/ ((v.established => w.established) /\ h.heard = g.heard),
         g.load # 0 /\ w.protected => h.fixed /\ h.at.kind = "fallback"
  PROVE  Suits(w, h)
BY DEF Suits

LEMMA OnwardNothing == ASSUME Steady(e), Nothing PROVE Onwards
<1>1. Carries(e, <<>>, e)
  BY DEF Carries, Runs
<1>2. Onward(e, <<>>)
  BY <1>1 DEF Onward, Nothing
<1> QED BY <1>2, OnwardBy

(* What plays has been heard, and owes nothing. *)
Rings(v, w, at) ==
    /\ w.rev = e.rev /\ w.established /\ w.target = NoPos /\ w.open
    /\ e.load # 0 /\ w.protected => e.fixed /\ at.kind = "fallback"

LEMMA OnwardPlays ==
  ASSUME RuntimeInv, e.loading = 0, NEW x \in EngineSet, x.rev = e.rev, x.load = e.load,
         x.loading = 0, x.pend = NoIntent, x.fixed = e.fixed, x.heard = e.heard,
         NEW before, NEW after, Plays(x, before, after),
         NEW new, new = before \o Announced(x, "Playing") \o after,
         \A v \in Views : Suits(v, e) => \E w : Runs(v, new, w) /\ Rings(v, w, x.at)
  PROVE  Onwards
<1> DEFINE at == Heard(x.at)
           heard == x.heard \union {e.load}
           revived == x.revived \/ e.state \in {"Stopped", "Loading", "Failed"}
           y == [x EXCEPT !.state = "Playing", !.at = at, !.closed = FALSE]
           h == [y EXCEPT !.heard = heard, !.revived = revived]
<1>1. x.at \in Positions
  BY DEF EngineSet
<1>2. Settle(h, new)
  BY DEF Plays
<1>3. x.at.kind = "fallback" => at.kind = "fallback"
  BY <1>1 DEF Heard
<1> HIDE DEF at, heard, revived
<1>4. /\ y.rev = e.rev /\ y.load = e.load /\ y.loading = 0 /\ y.pend = NoIntent
      /\ y.fixed = e.fixed /\ y.at = at /\ y.state = "Playing" /\ ~y.closed
      /\ DOMAIN y = DOMAIN x
      /\ y = [x EXCEPT !.state = "Playing", !.at = at, !.closed = FALSE]
  BY DEF EngineSet
<1> HIDE DEF y
<1>5. /\ h.rev = e.rev /\ h.load = e.load /\ h.loading = 0 /\ h.pend = NoIntent
      /\ h.fixed = e.fixed /\ h.at = at /\ h.state = "Playing" /\ ~h.closed
      /\ h.heard = heard
  BY <1>4 DEF EngineSet
<1> HIDE DEF h
<1>6. Steady(h)
  BY <1>5 DEF Steady
<1>7. Carries(e, new, h)
  <2> SUFFICES ASSUME NEW v \in Views, Suits(v, e)
               PROVE  \E w : Runs(v, new, w) /\ Suits(w, h)
    BY DEF Carries
  <2>1. PICK w : Runs(v, new, w) /\ Rings(v, w, x.at)
    OBVIOUS
  <2>2. Suits(w, h)
    BY <1>3, <1>5, <2>1, SuitsBy DEF Rings, Goal
  <2> QED BY <2>1, <2>2
<1>8. Onward(h, new)
  BY <1>2, <1>5, <1>6, <1>7 DEF Onward, heard
<1> QED BY <1>8, OnwardBy

LEMMA Joins ==
  ASSUME NEW a, NEW b
  PROVE  /\ <<>> \o <<a>> \o <<b>> = <<a, b>> /\ <<a>> \o <<b>> \o <<>> = <<a, b>>
         /\ <<a>> \o <<>> \o <<>> = <<a>> /\ <<a>> \o <<b>> = <<a, b>> /\ <<>> \o <<a>> = <<a>>
         /\ <<>> \o <<a>> \o <<>> = <<a>>
<1>2. PICK S : a \in S /\ b \in S
  <2>1. a \in {a, b} /\ b \in {a, b}
    OBVIOUS
  <2> QED BY <2>1
<1>3. <<a>> \in Seq(S) /\ <<b>> \in Seq(S) /\ <<>> \in Seq(S)
  BY <1>2
<1>4. <<a>> \o <<b>> = <<a, b>>
  <2>1. <<a>> \o <<b>> = Append(<<a>>, b)
    BY <1>2, <1>3
  <2>2. PICK j : j = Append(<<a>>, b)
    OBVIOUS
  <2>3. j \in Seq(S) /\ Len(j) = 2 /\ j[1] = a /\ j[2] = b
    BY <1>2, <2>2
  <2>4. <<a, b>> \in Seq(S)
    BY <1>2
  <2>9. PICK k \in Seq(S) : k = <<a, b>>
    BY <2>4
  <2>5. Len(k) = 2 /\ k[1] = a /\ k[2] = b
    BY <2>9
  <2>6. j \in [1 .. 2 -> S] /\ k \in [1 .. 2 -> S]
    BY <2>3, <2>5
  <2>7. \A i \in 1 .. 2 : j[i] = k[i]
    BY <2>3, <2>5
  <2>8. j = k
    BY <2>6, <2>7
  <2> QED BY <2>1, <2>2, <2>8, <2>9
<1>5. \A q \in Seq(S) : <<>> \o q = q /\ q \o <<>> = q
  OBVIOUS
<1>6. <<a>> \o <<b>> \in Seq(S)
  BY <1>3
<1> QED BY <1>3, <1>4, <1>5, <1>6

(* Playing is said, and a landing before or after it. *)
LEMMA RingsPlaying ==
  ASSUME RuntimeInv, NEW x \in EngineSet, x.rev = e.rev, x.state # "Playing",
         NEW v \in Views, Suits(v, e), NEW at,
         e.load # 0 /\ v.protected => e.fixed /\ at.kind = "fallback"
  PROVE  \E w : Runs(v, <<>> \o Announced(x, "Playing") \o <<>>, w) /\ Rings(v, w, at)
<1>1. PICK a : a = StateEvent(x, "Playing")
  OBVIOUS
<1>2. PICK w : w = Hears(v, a)
  OBVIOUS
<1>3. "Playing" \in States
  BY DEF States
<1>4. /\ a \in EventSet /\ Ripe(v, a) /\ w.rev = x.rev /\ (w.protected <=> v.protected)
      /\ w.established /\ w.target = NoPos /\ w.open
  BY <1>1, <1>2, <1>3, HearsState
<1>5. Announced(x, "Playing") = <<a>>
  BY <1>1 DEF Announced
<1>6. <<>> \o Announced(x, "Playing") \o <<>> = <<a>>
  BY <1>5
<1>7. Runs(v, <<a>>, w)
  BY <1>2, <1>4 DEF Runs
<1> QED BY <1>4, <1>6, <1>7 DEF Rings

LEMMA RingsPlayingLanding ==
  ASSUME RuntimeInv, NEW x \in EngineSet, x.rev = e.rev, x.state # "Playing",
         NEW z \in EngineSet, z.rev = e.rev, NEW pos \in Positions,
         NEW v \in Views, Suits(v, e), NEW at,
         e.load # 0 /\ v.protected => e.fixed /\ at.kind = "fallback"
  PROVE  \E w : /\ Runs(v, <<>> \o Announced(x, "Playing") \o <<Positioned("Landing", z, pos)>>, w)
                /\ Rings(v, w, at)
<1>1. PICK a : a = StateEvent(x, "Playing")
  OBVIOUS
<1>2. PICK u : u = Hears(v, a)
  OBVIOUS
<1>3. "Playing" \in States
  BY DEF States
<1>4. a \in EventSet /\ Ripe(v, a) /\ u \in Views /\ (u.protected <=> v.protected)
  BY <1>1, <1>2, <1>3, HearsState
<1>5. PICK b : b = Positioned("Landing", z, pos)
  OBVIOUS
<1>6. PICK w : w = Hears(u, b)
  OBVIOUS
<1>11. PICK k \in {"Landing", "TargetStored", "EndOfTrack"} : k = "Landing"
  OBVIOUS
<1>7. /\ b \in EventSet /\ Ripe(u, b) /\ w.rev = z.rev /\ w.established /\ w.target = NoPos
      /\ w.open /\ (w.protected => u.protected)
  BY <1>4, <1>5, <1>6, <1>11, HearsPlaced
<1>8. Announced(x, "Playing") = <<a>>
  BY <1>1 DEF Announced
<1>9. <<>> \o Announced(x, "Playing") \o <<b>> = <<a, b>>
  BY <1>8, Joins
<1>10. Runs(v, <<a, b>>, w)
  BY <1>2, <1>4, <1>6, <1>7 DEF Runs
<1> QED BY <1>4, <1>5, <1>7, <1>9, <1>10 DEF Rings

LEMMA RingsLandingPlaying ==
  ASSUME RuntimeInv, NEW x \in EngineSet, x.rev = e.rev,
         NEW z \in EngineSet, z.rev = e.rev, NEW pos \in Positions,
         NEW v \in Views, Suits(v, e), NEW at,
         e.load # 0 /\ v.protected => ~Estimated(pos)
  PROVE  \E w : /\ Runs(v, <<Positioned("Landing", z, pos)>> \o Announced(x, "Playing") \o <<>>, w)
                /\ Rings(v, w, at)
<1>1. PICK b : b = Positioned("Landing", z, pos)
  OBVIOUS
<1>2. PICK u : u = Hears(v, b)
  OBVIOUS
<1>3. /\ b \in EventSet /\ Ripe(v, b) /\ u \in Views /\ u.rev = z.rev /\ u.established
      /\ u.target = NoPos /\ u.open /\ (u.protected <=> v.protected /\ Estimated(pos))
  <2>1. PICK k \in {"Landing", "TargetStored", "EndOfTrack"} : k = "Landing"
    OBVIOUS
  <2> QED BY <1>1, <1>2, <2>1, HearsPlaced
<1>4. PICK a : a = StateEvent(x, "Playing")
  OBVIOUS
<1>5. PICK w : w = Hears(u, a)
  OBVIOUS
<1>6. "Playing" \in States
  BY DEF States
<1>7. /\ a \in EventSet /\ Ripe(u, a) /\ w.rev = x.rev /\ (w.protected <=> u.protected)
      /\ w.established /\ w.target = NoPos /\ w.open
  BY <1>3, <1>4, <1>5, <1>6, HearsState
<1>8. CASE x.state = "Playing"
  <2>1. Announced(x, "Playing") = <<>>
    BY <1>8 DEF Announced
  <2>2. <<b>> \o Announced(x, "Playing") \o <<>> = <<b>>
    BY <2>1, Joins
  <2>3. Runs(v, <<b>>, u)
    BY <1>2, <1>3 DEF Runs
  <2> QED BY <1>1, <1>3, <2>2, <2>3 DEF Rings
<1>9. CASE x.state # "Playing"
  <2>1. Announced(x, "Playing") = <<a>>
    BY <1>4, <1>9 DEF Announced
  <2>2. <<b>> \o Announced(x, "Playing") \o <<>> = <<b, a>>
    BY <2>1, Joins
  <2>3. Runs(v, <<b, a>>, w)
    BY <1>2, <1>3, <1>5, <1>7 DEF Runs
  <2> QED BY <1>1, <1>3, <1>7, <2>2, <2>3 DEF Rings
<1> QED BY <1>8, <1>9

LEMMA NotFaulty == ASSUME faults \in Nat, faults' = faults PROVE ~Faulty
BY DEF Faulty

(* The state alone moves. *)
LEMMA OnwardState ==
  ASSUME RuntimeInv, Steady(e), e.loading = 0,
         NEW state \in States \ {"Playing", "Failed", "Reconnecting"},
         e.pend # NoIntent => state \in {"Stopped", "Idle"}, NEW new,
         new = <<StateEvent(e, state)>> \/ (new = <<>> /\ state = e.state),
         Settle([e EXCEPT !.state = state], new)
  PROVE  Onwards
<1> DEFINE h == [e EXCEPT !.state = state]
<1>1. e \in EngineSet
  BY InvParts
<1>2. /\ h.rev = e.rev /\ h.load = e.load /\ h.loading = 0 /\ h.pend = e.pend
      /\ h.fixed = e.fixed /\ h.at = e.at /\ h.state = state /\ h.closed = e.closed
      /\ h.live = e.live /\ h.heard = e.heard
  BY <1>1 DEF EngineSet
<1>3. Settle(h, new)
  OBVIOUS
<1> HIDE DEF h
<1>4. Steady(h)
  BY <1>2 DEF Steady
<1>5. Carries(e, new, h)
  <2> SUFFICES ASSUME NEW v \in Views, Suits(v, e)
               PROVE  \E w : Runs(v, new, w) /\ Suits(w, h)
    BY DEF Carries
  <2>1. CASE new = <<>>
    <3>1. Suits(v, h)
      BY <1>2 DEF Suits, Goal
    <3> QED BY <2>1, <3>1 DEF Runs
  <2>2. CASE new = <<StateEvent(e, state)>>
    <3>1. PICK a : a = StateEvent(e, state)
      OBVIOUS
    <3>2. PICK w : w = Hears(v, a)
      OBVIOUS
    <3>3. /\ a \in EventSet /\ Ripe(v, a) /\ w.rev = e.rev /\ (w.protected <=> v.protected)
          /\ (w.established <=> v.established) /\ w.target = v.target
      BY <1>1, <3>1, <3>2, HearsState
    <3>4. Runs(v, new, w)
      BY <2>2, <3>1, <3>2, <3>3 DEF Runs
    <3>5. Suits(w, h)
      BY <1>2, <3>3 DEF Suits, Goal
    <3> QED BY <3>4, <3>5
  <2> QED BY <2>1, <2>2
<1>6. Onward(h, new)
  BY <1>2, <1>3, <1>4, <1>5 DEF Onward
<1> QED BY <1>6, OnwardBy

LEMMA RestoresOnward ==
  ASSUME RuntimeInv, Steady(e), e.loading = 0, ~Faulty,
         e.state \in {"Paused", "Stopped", "Loading"}, Restores(e, <<>>)
  PROVE  Onwards
<1>1. /\ e \in EngineSet /\ e.at \in Positions /\ e.pend \in Intents /\ e.pend.to \in Positions
      /\ e.media \in MediaN /\ e.earned \in SUBSET MediaN
  BY InvParts DEF Intents
<1>2. CASE Nothing
  BY <1>2, OnwardNothing
<1>3. CASE \E pos \in (IF e.live THEN {e.at}
                       ELSE Relandings(IF e.pend = NoIntent THEN e.at ELSE e.pend.to)) :
             Plays([e EXCEPT !.at = pos, !.pend = NoIntent,
                             !.earned = @ \union Restarted(e)], <<>>,
                   IF e.pend = NoIntent \/ e.live THEN <<>>
                   ELSE <<Positioned("Landing", e, pos)>>)
  <2>1. PICK pos \in (IF e.live THEN {e.at}
                      ELSE Relandings(IF e.pend = NoIntent THEN e.at ELSE e.pend.to)) :
             Plays([e EXCEPT !.at = pos, !.pend = NoIntent,
                             !.earned = @ \union Restarted(e)], <<>>,
                   IF e.pend = NoIntent \/ e.live THEN <<>>
                   ELSE <<Positioned("Landing", e, pos)>>)
    BY <1>3
  <2> DEFINE earned == e.earned \union Restarted(e)
             y == [e EXCEPT !.at = pos, !.pend = NoIntent]
             x == [y EXCEPT !.earned = earned]
             after == IF e.pend = NoIntent \/ e.live THEN <<>>
                      ELSE <<Positioned("Landing", e, pos)>>
             new == <<>> \o Announced(x, "Playing") \o after
  <2>2. Plays(x, <<>>, after)
    BY <2>1
  <2>3. /\ pos \in Positions
        /\ e.pend = NoIntent \/ e.live => (e.at.kind = "fallback" => pos.kind = "fallback")
    <3>1. CASE e.live
      BY <1>1, <2>1, <3>1
    <3>2. CASE ~e.live
      <4>1. PICK p \in Positions : pos \in Relandings(p) /\ (e.pend = NoIntent => p = e.at)
        BY <1>1, <2>1, <3>2
      <4>2. pos \in Positions /\ (p.kind \notin Worth => pos = p)
        BY <4>1, RelandAt
      <4> QED BY <3>2, <4>1, <4>2 DEF Worth
    <3> QED BY <3>1, <3>2
  <2>4. earned \in SUBSET MediaN
    BY <1>1 DEF Restarted
  <2> HIDE DEF earned
  <2>5. y \in EngineSet
    BY <1>1, <2>3, NoIntentIn DEF EngineSet
  <2>6. /\ y.rev = e.rev /\ y.load = e.load /\ y.loading = e.loading /\ y.pend = NoIntent
        /\ y.fixed = e.fixed /\ y.at = pos /\ y.state = e.state /\ y.heard = e.heard
    BY <1>1 DEF EngineSet
  <2> HIDE DEF y
  <2>7. x \in EngineSet
    BY <2>4, <2>5 DEF EngineSet
  <2>8. /\ x.rev = e.rev /\ x.load = e.load /\ x.loading = 0 /\ x.pend = NoIntent
        /\ x.fixed = e.fixed /\ x.at = pos /\ x.state = e.state /\ x.heard = e.heard
    BY <2>5, <2>6 DEF EngineSet
  <2> HIDE DEF x
  <2>9. \A v \in Views : Suits(v, e) => \E w : Runs(v, new, w) /\ Rings(v, w, x.at)
    <3> SUFFICES ASSUME NEW v \in Views, Suits(v, e)
                 PROVE  \E w : Runs(v, new, w) /\ Rings(v, w, x.at)
      OBVIOUS
    <3>1. e.load # 0 /\ v.protected => e.fixed /\ e.at.kind = "fallback"
      BY DEF Suits
    <3>2. CASE e.pend = NoIntent \/ e.live
      <4>1. e.load # 0 /\ v.protected => e.fixed /\ x.at.kind = "fallback"
        BY <2>3, <2>8, <3>1, <3>2
      <4>2. \E w : Runs(v, <<>> \o Announced(x, "Playing") \o <<>>, w) /\ Rings(v, w, x.at)
        BY <2>7, <2>8, <4>1, RingsPlaying
      <4>3. new = <<>> \o Announced(x, "Playing") \o <<>>
        BY <3>2
      <4> QED BY <4>2, <4>3
    <3>3. CASE ~(e.pend = NoIntent \/ e.live)
      <4>1. e.load # 0 /\ v.protected => e.fixed /\ x.at.kind = "fallback"
        BY <3>1, <3>3 DEF Steady
      <4>2. \E w : /\ Runs(v, <<>> \o Announced(x, "Playing") \o <<Positioned("Landing", e, pos)>>, w)
                   /\ Rings(v, w, x.at)
        BY <1>1, <2>3, <2>7, <2>8, <4>1, RingsPlayingLanding
      <4>3. new = <<>> \o Announced(x, "Playing") \o <<Positioned("Landing", e, pos)>>
        BY <3>3
      <4> QED BY <4>2, <4>3
    <3> QED BY <3>2, <3>3
  <2> HIDE DEF after
  <2>10. new = <<>> \o Announced(x, "Playing") \o after
    OBVIOUS
  <2> HIDE DEF new
  <2> QED BY <2>2, <2>7, <2>8, <2>9, <2>10, OnwardPlays
<1>4. CASE Settle([e EXCEPT !.state = "Stopped"], <<>> \o Announced(e, "Stopped"))
  <2>1. PICK new : new = <<>> \o Announced(e, "Stopped")
    OBVIOUS
  <2>2. new = <<StateEvent(e, "Stopped")>> \/ (new = <<>> /\ "Stopped" = e.state)
    BY <2>1, Joins DEF Announced
  <2>3. "Stopped" \in States \ {"Playing", "Failed", "Reconnecting"}
    BY DEF States
  <2>4. Settle([e EXCEPT !.state = "Stopped"], new)
    BY <1>4, <2>1
  <2> QED BY <2>2, <2>3, <2>4, OnwardState
<1> QED BY <1>2, <1>3, <1>4 DEF Restores

LEMMA PlayOnward ==
  ASSUME RuntimeInv, Steady(e), e.loading = 0, ~Faulty, Play(TRUE) \/ Play(FALSE)
  PROVE  Onwards
<1>1. /\ e \in EngineSet /\ e.state # "Failed"
  BY InvParts DEF Steady
<1>2. CASE e.state = "Paused" /\ e.pend = NoIntent /\ Plays(e, <<>>, <<>>)
  <2> DEFINE new == <<>> \o Announced(e, "Playing") \o <<>>
  <2>1. \A v \in Views : Suits(v, e) => \E w : Runs(v, new, w) /\ Rings(v, w, e.at)
    <3> SUFFICES ASSUME NEW v \in Views, Suits(v, e)
                 PROVE  \E w : Runs(v, new, w) /\ Rings(v, w, e.at)
      OBVIOUS
    <3>1. e.load # 0 /\ v.protected => e.fixed /\ e.at.kind = "fallback"
      BY DEF Suits
    <3> QED BY <1>1, <1>2, <3>1, RingsPlaying
  <2>2. new = <<>> \o Announced(e, "Playing") \o <<>>
    OBVIOUS
  <2> HIDE DEF new
  <2> QED BY <1>1, <1>2, <2>1, <2>2, OnwardPlays
<1>3. CASE e.state \in {"Paused", "Stopped", "Loading"} /\ Restores(e, <<>>)
  BY <1>3, RestoresOnward
<1>4. CASE Nothing
  BY <1>4, OnwardNothing
<1>5. \/ e.state = "Paused" /\ e.pend = NoIntent /\ Plays(e, <<>>, <<>>)
      \/ e.state \in {"Paused", "Stopped", "Loading"} /\ Restores(e, <<>>)
      \/ Nothing
  BY <1>1 DEF Play
<1> QED BY <1>2, <1>3, <1>4, <1>5

(* The revision and the state. *)
LEMMA OnwardRevision ==
  ASSUME RuntimeInv, Steady(e), e.loading = 0, NEW h,
         NEW x \in EngineSet, x.rev = h.rev, NEW state \in {"Paused", "Stopped"}, h.state = state,
         h.load = e.load, h.loading = 0, h.pend = e.pend, h.fixed = e.fixed, h.at = e.at,
         h.live = e.live, h.heard = e.heard, h.closed => h.live,
         h.pend # NoIntent => state = "Stopped",
         Settle(h, <<StateEvent(x, state)>>)
  PROVE  Onwards
<1>1. Steady(h)
  BY DEF Steady
<1>2. Carries(e, <<StateEvent(x, state)>>, h)
  <2> SUFFICES ASSUME NEW v \in Views, Suits(v, e)
               PROVE  \E w : Runs(v, <<StateEvent(x, state)>>, w) /\ Suits(w, h)
    BY DEF Carries
  <2>1. PICK a : a = StateEvent(x, state)
    OBVIOUS
  <2>2. PICK w : w = Hears(v, a)
    OBVIOUS
  <2>3. state \in States /\ state # "Playing"
    BY DEF States
  <2>4. /\ a \in EventSet /\ Ripe(v, a) /\ w.rev = h.rev /\ (w.protected <=> v.protected)
        /\ (w.established <=> v.established) /\ w.target = v.target
    BY <2>1, <2>2, <2>3, HearsState
  <2>5. Runs(v, <<a>>, w)
    BY <2>2, <2>4 DEF Runs
  <2>6. Suits(w, h)
    BY <2>3, <2>4 DEF Suits, Goal
  <2> QED BY <2>1, <2>5, <2>6
<1>3. Onward(h, <<StateEvent(x, state)>>)
  BY <1>1, <1>2 DEF Onward
<1> QED BY <1>3, OnwardBy

LEMMA PauseOnward ==
  ASSUME RuntimeInv, Steady(e), e.loading = 0, ~Faulty, Pause PROVE Onwards
<1>1. e \in EngineSet /\ e.rev \in Nat /\ e.state # "Reconnecting"
  BY InvParts DEF Steady
<1>2. CASE e.state = "Playing" /\ Settle([e EXCEPT !.state = "Paused"], <<StateEvent(e, "Paused")>>)
  <2>1. PICK new : new = <<StateEvent(e, "Paused")>>
    OBVIOUS
  <2>2. "Paused" \in States \ {"Playing", "Failed", "Reconnecting"}
    BY DEF States
  <2>3. e.pend = NoIntent
    BY <1>2 DEF Steady
  <2> QED BY <1>2, <2>1, <2>2, <2>3, OnwardState
<1>3. CASE /\ e.state = "Playing" /\ e.live
           /\ Settle(PauseCloses(e), <<StateEvent(PauseCloses(e), "Paused")>>)
  <2> DEFINE rev == e.rev + 1
             y == [e EXCEPT !.rev = rev, !.state = "Paused"]
             x == PauseCloses(e)
  <2>1. rev \in Nat /\ "Paused" \in States
    BY <1>1 DEF States
  <2>2. x = [y EXCEPT !.closed = TRUE]
    BY <1>1 DEF PauseCloses, EngineSet
  <2> HIDE DEF rev
  <2>3. y \in EngineSet
    BY <1>1, <2>1 DEF EngineSet
  <2>4. /\ y.rev = rev /\ y.load = e.load /\ y.loading = 0 /\ y.pend = e.pend
        /\ y.fixed = e.fixed /\ y.at = e.at /\ y.state = "Paused"
        /\ y.live = e.live /\ y.heard = e.heard
    BY <1>1 DEF EngineSet
  <2> HIDE DEF y
  <2>5. Settle(x, <<StateEvent(x, "Paused")>>)
    BY <1>3
  <2> HIDE DEF x
  <2>6. x \in EngineSet
    BY <2>2, <2>3 DEF EngineSet
  <2>7. /\ x.rev = rev /\ x.load = e.load /\ x.loading = 0 /\ x.pend = e.pend
        /\ x.fixed = e.fixed /\ x.at = e.at /\ x.state = "Paused"
        /\ x.live = e.live /\ x.heard = e.heard
    BY <2>2, <2>3, <2>4 DEF EngineSet
  <2>8. e.pend = NoIntent
    BY <1>3 DEF Steady
  <2> QED BY <1>3, <2>5, <2>6, <2>7, <2>8, OnwardRevision
<1>4. CASE Nothing
  BY <1>4, OnwardNothing
<1> QED BY <1>1, <1>2, <1>3, <1>4 DEF Pause

LEMMA TakeStopOnward == ASSUME RuntimeInv, Steady(e), TakeStop PROVE Onwards
<1>1. e \in EngineSet /\ e.rev \in Nat /\ e.loading = 0
  BY InvParts DEF TakeStop
<1>2. CASE Settle(e, <<>>)
  <2>1. Carries(e, <<>>, e)
    BY DEF Carries, Runs
  <2>2. Onward(e, <<>>)
    BY <1>2, <2>1 DEF Onward
  <2> QED BY <2>2, OnwardBy
<1>3. CASE LET x == [e EXCEPT !.rev = @ + 1]
           IN Settle([x EXCEPT !.state = "Stopped", !.closed = FALSE], <<StateEvent(x, "Stopped")>>)
  <2> DEFINE rev == e.rev + 1
             x == [e EXCEPT !.rev = rev]
             h == [x EXCEPT !.state = "Stopped", !.closed = FALSE]
  <2>1. rev \in Nat
    BY <1>1
  <2>2. Settle(h, <<StateEvent(x, "Stopped")>>)
    BY <1>3
  <2> HIDE DEF rev
  <2>3. x \in EngineSet
    BY <1>1, <2>1 DEF EngineSet
  <2>4. /\ x.rev = rev /\ x.load = e.load /\ x.loading = 0 /\ x.pend = e.pend
        /\ x.fixed = e.fixed /\ x.at = e.at /\ x.live = e.live /\ x.heard = e.heard
    BY <1>1 DEF EngineSet
  <2> HIDE DEF x
  <2>5. /\ h.rev = rev /\ h.load = e.load /\ h.loading = 0 /\ h.pend = e.pend
        /\ h.fixed = e.fixed /\ h.at = e.at /\ h.live = e.live /\ h.heard = e.heard
        /\ h.state = "Stopped" /\ ~h.closed
    BY <2>3, <2>4 DEF EngineSet
  <2> HIDE DEF h
  <2>6. PICK state \in {"Paused", "Stopped"} : state = "Stopped"
    OBVIOUS
  <2> QED BY <1>1, <2>2, <2>3, <2>4, <2>5, <2>6, OnwardRevision
<1> QED BY <1>2, <1>3 DEF TakeStop

LEMMA SeekOnward ==
  ASSUME RuntimeInv, Steady(e), e.loading = 0, ~Faulty, Seek PROVE Onwards
<1>1. /\ e \in EngineSet /\ e.at \in Positions /\ e.media \in MediaN /\ e.state \in States
      /\ e.state \notin {"Failed", "Reconnecting"} /\ e.heard \in SUBSET Nat /\ e.load \in Nat
  BY InvParts DEF Steady
<1>2. CASE Nothing
  BY <1>2, OnwardNothing
<1>3. ASSUME NEW n \in 0 .. MaxPos, Offline, ~e.fixed, ~e.live, Stored("seek", n)
      PROVE  Onwards
  <2> DEFINE to == [of |-> e.media, n |-> n,
                    kind |-> IF e.at.kind = "guess" THEN "guess" ELSE "sure"]
             intent == [what |-> "seek", to |-> to]
             heard == e.heard \union {e.load}
             h == [e EXCEPT !.pend = intent, !.heard = heard]
  <2>1. e.state = "Stopped"
    BY <1>1, <1>3 DEF Offline, Steady
  <2>2. to \in Positions
    <3>1. n \in Nat
      BY RuntimeAssumption
    <3> QED BY <1>1, <3>1 DEF Positions, MediaN
  <2>3. Settle(h, <<Positioned("TargetStored", e, to)>>)
    BY <1>3 DEF Stored
  <2> HIDE DEF to, heard
  <2>4. intent # NoIntent /\ intent.to = to
    BY DEF NoIntent
  <2> HIDE DEF intent
  <2>5. /\ h.rev = e.rev /\ h.load = e.load /\ h.loading = 0 /\ h.pend = intent
        /\ h.fixed = e.fixed /\ h.at = e.at /\ h.live = e.live /\ h.heard = heard
        /\ h.state = "Stopped" /\ h.closed = e.closed
    BY <1>1, <2>1 DEF EngineSet
  <2> HIDE DEF h
  <2>6. Steady(h)
    BY <1>3, <2>5 DEF Steady
  <2>7. Carries(e, <<Positioned("TargetStored", e, to)>>, h)
    <3> SUFFICES ASSUME NEW v \in Views, Suits(v, e)
                 PROVE  \E w : Runs(v, <<Positioned("TargetStored", e, to)>>, w) /\ Suits(w, h)
      BY DEF Carries
    <3>1. PICK k \in {"Landing", "TargetStored", "EndOfTrack"} : k = "TargetStored"
      OBVIOUS
    <3>2. PICK a : a = Positioned("TargetStored", e, to)
      OBVIOUS
    <3>3. PICK w : w = Hears(v, a)
      OBVIOUS
    <3>4. /\ a \in EventSet /\ Ripe(v, a) /\ w.rev = e.rev /\ (w.protected => v.protected)
          /\ w.established /\ w.target = to
      BY <1>1, <2>2, <3>1, <3>2, <3>3, HearsPlaced
    <3>5. Runs(v, <<a>>, w)
      BY <3>3, <3>4 DEF Runs
    <3>6. Suits(w, h)
      BY <1>3, <2>4, <2>5, <3>4 DEF Suits, Goal
    <3> QED BY <3>2, <3>5, <3>6
  <2>8. Onward(h, <<Positioned("TargetStored", e, to)>>)
    BY <2>3, <2>5, <2>6, <2>7 DEF Onward, heard
  <2> QED BY <2>8, OnwardBy
<1>4. ASSUME NEW n \in 0 .. MaxPos, NEW pos \in Landings(e.media, n), ~e.fixed,
             LET state == IF e.state = "Ended" THEN "Paused" ELSE e.state
             IN Settle([e EXCEPT !.at = pos, !.pend = NoIntent,
                                 !.heard = @ \union {e.load}, !.state = state],
                       Announced(e, state) \o <<Positioned("Landing", e, pos)>>)
      PROVE  Onwards
  <2> DEFINE state == IF e.state = "Ended" THEN "Paused" ELSE e.state
             heard == e.heard \union {e.load}
             y == [e EXCEPT !.at = pos, !.pend = NoIntent]
             h == [y EXCEPT !.heard = heard, !.state = state]
             new == Announced(e, state) \o <<Positioned("Landing", e, pos)>>
  <2>1. n \in Nat
    BY RuntimeAssumption
  <2>2. pos \in Positions
    BY <1>1, <2>1, LandingsIn
  <2>3. Settle(h, new)
    BY <1>4
  <2>4. /\ state \in States /\ state \notin {"Failed", "Reconnecting"}
        /\ (state = e.state \/ state = "Paused")
    BY <1>1 DEF States
  <2> HIDE DEF state, heard
  <2>5. /\ y.rev = e.rev /\ y.load = e.load /\ y.loading = 0 /\ y.pend = NoIntent
        /\ y.fixed = e.fixed /\ y.at = pos /\ y.live = e.live
        /\ y.closed = e.closed /\ DOMAIN y = DOMAIN e
        /\ y = [e EXCEPT !.at = pos, !.pend = NoIntent]
    BY <1>1 DEF EngineSet
  <2> HIDE DEF y
  <2>6. /\ h.rev = e.rev /\ h.load = e.load /\ h.loading = 0 /\ h.pend = NoIntent
        /\ h.fixed = e.fixed /\ h.at = pos /\ h.live = e.live /\ h.heard = heard
        /\ h.state = state /\ h.closed = e.closed
    BY <1>1, <2>5 DEF EngineSet
  <2> HIDE DEF h
  <2>7. Steady(h)
    BY <2>4, <2>6 DEF Steady
  <2>8. Carries(e, new, h)
    <3> SUFFICES ASSUME NEW v \in Views, Suits(v, e)
                 PROVE  \E w : Runs(v, new, w) /\ Suits(w, h)
      BY DEF Carries
    <3>1. PICK k \in {"Landing", "TargetStored", "EndOfTrack"} : k = "Landing"
      OBVIOUS
    <3>2. PICK b : b = Positioned("Landing", e, pos)
      OBVIOUS
    <3>3. ASSUME NEW u \in Views, u.protected <=> v.protected
          PROVE  /\ b \in EventSet /\ Ripe(u, b) /\ Suits(Hears(u, b), h)
      <4>1. PICK w : w = Hears(u, b)
        OBVIOUS
      <4>2. /\ b \in EventSet /\ Ripe(u, b) /\ w.rev = e.rev /\ (w.protected => u.protected)
            /\ w.established /\ w.target = NoPos /\ w.open
        BY <1>1, <2>2, <3>1, <3>2, <4>1, HearsPlaced
      <4>3. Suits(w, h)
        BY <1>4, <2>6, <3>3, <4>2 DEF Suits, Goal
      <4> QED BY <4>1, <4>2, <4>3
    <3>4. CASE e.state = state
      <4>1. new = <<b>>
        BY <3>2, <3>4, Joins DEF Announced
      <4>2. Runs(v, <<b>>, Hears(v, b))
        BY <3>3 DEF Runs
      <4> QED BY <3>3, <4>1, <4>2
    <3>5. CASE e.state # state
      <4>1. PICK a : a = StateEvent(e, state)
        OBVIOUS
      <4>2. PICK u : u = Hears(v, a)
        OBVIOUS
      <4>3. a \in EventSet /\ Ripe(v, a) /\ u \in Views /\ (u.protected <=> v.protected)
        BY <1>1, <2>4, <4>1, <4>2, HearsState
      <4>4. new = <<a, b>>
        BY <3>2, <3>5, <4>1, Joins DEF Announced
      <4>5. Runs(v, <<a, b>>, Hears(u, b))
        BY <3>3, <4>2, <4>3 DEF Runs
      <4> QED BY <3>3, <4>3, <4>4, <4>5
    <3> QED BY <3>4, <3>5
  <2>9. Onward(h, new)
    BY <2>3, <2>6, <2>7, <2>8 DEF Onward, heard
  <2> QED BY <2>9, OnwardBy
<1>5. \/ Nothing
      \/ Offline /\ ~e.fixed /\ ~e.live /\ \E n \in 0 .. MaxPos : Stored("seek", n)
      \/ ~e.fixed /\ \E n \in 0 .. MaxPos : \E pos \in Landings(e.media, n) :
             LET state == IF e.state = "Ended" THEN "Paused" ELSE e.state
             IN Settle([e EXCEPT !.at = pos, !.pend = NoIntent,
                                 !.heard = @ \union {e.load}, !.state = state],
                       Announced(e, state) \o <<Positioned("Landing", e, pos)>>)
  BY DEF Seek
<1> QED BY <1>2, <1>3, <1>4, <1>5

LEMMA RestartOnward ==
  ASSUME RuntimeInv, Steady(e), e.loading = 0, ~Faulty, Restart PROVE Onwards
<1>1. /\ e \in EngineSet /\ e.media \in MediaN /\ e.earned \in SUBSET MediaN
  BY InvParts
<1>2. CASE Nothing
  BY <1>2, OnwardNothing
<1>3. CASE ~e.live /\ Offline /\ e.state # "Stopped"
  BY <1>3 DEF Offline, Steady
<1>4. ASSUME NEW pos \in Landings(e.media, 0), e.fixed => pos.kind = "sure",
             Plays([e EXCEPT !.at = pos, !.pend = NoIntent, !.earned = @ \union {e.media}],
                   <<Positioned("Landing", e, pos)>>, <<>>)
      PROVE  Onwards
  <2> DEFINE earned == e.earned \union {e.media}
             y == [e EXCEPT !.at = pos, !.pend = NoIntent]
             x == [y EXCEPT !.earned = earned]
             before == <<Positioned("Landing", e, pos)>>
             new == before \o Announced(x, "Playing") \o <<>>
  <2>1. pos \in Positions /\ earned \in SUBSET MediaN
    BY <1>1, LandingsIn
  <2>2. Plays(x, before, <<>>)
    BY <1>4
  <2> HIDE DEF earned
  <2>3. y \in EngineSet
    BY <1>1, <2>1, NoIntentIn DEF EngineSet
  <2>4. /\ y.rev = e.rev /\ y.load = e.load /\ y.loading = 0 /\ y.pend = NoIntent
        /\ y.fixed = e.fixed /\ y.at = pos /\ y.state = e.state /\ y.heard = e.heard
    BY <1>1 DEF EngineSet
  <2> HIDE DEF y
  <2>5. x \in EngineSet
    BY <2>1, <2>3 DEF EngineSet
  <2>6. /\ x.rev = e.rev /\ x.load = e.load /\ x.loading = 0 /\ x.pend = NoIntent
        /\ x.fixed = e.fixed /\ x.at = pos /\ x.state = e.state /\ x.heard = e.heard
    BY <2>3, <2>4 DEF EngineSet
  <2> HIDE DEF x
  <2>7. \A v \in Views : Suits(v, e) => \E w : Runs(v, new, w) /\ Rings(v, w, x.at)
    <3> SUFFICES ASSUME NEW v \in Views, Suits(v, e)
                 PROVE  \E w : Runs(v, new, w) /\ Rings(v, w, x.at)
      OBVIOUS
    <3>1. e.load # 0 /\ v.protected => ~Estimated(pos)
      BY <1>4 DEF Suits, Estimated
    <3> QED BY <1>1, <2>1, <2>5, <2>6, <3>1, RingsLandingPlaying
  <2> HIDE DEF before
  <2>8. new = before \o Announced(x, "Playing") \o <<>>
    OBVIOUS
  <2> HIDE DEF new
  <2> QED BY <2>2, <2>5, <2>6, <2>7, <2>8, OnwardPlays
<1>5. \/ Nothing
      \/ ~e.live /\ Offline /\ e.state # "Stopped"
      \/ \E pos \in Landings(e.media, 0) :
            /\ e.fixed => pos.kind = "sure"
            /\ Plays([e EXCEPT !.at = pos, !.pend = NoIntent, !.earned = @ \union {e.media}],
                     <<Positioned("Landing", e, pos)>>, <<>>)
  BY DEF Restart
<1> QED BY <1>2, <1>3, <1>4, <1>5

LEMMA AdvanceOnward == ASSUME RuntimeInv, Steady(e), Advance PROVE Onwards
<1> DEFINE pos == [e.at EXCEPT !.n = @ + 1]
           h == [e EXCEPT !.at = pos]
<1>1. e \in EngineSet /\ e.at \in Positions /\ Settle(h, <<>>)
  BY InvParts DEF Advance
<1>2. pos.kind = e.at.kind
  BY <1>1 DEF Positions
<1> HIDE DEF pos
<1>3. /\ h.rev = e.rev /\ h.load = e.load /\ h.loading = e.loading /\ h.pend = e.pend
      /\ h.fixed = e.fixed /\ h.at = pos /\ h.live = e.live /\ h.heard = e.heard
      /\ h.state = e.state /\ h.closed = e.closed
  BY <1>1 DEF EngineSet
<1> HIDE DEF h
<1>4. Steady(h)
  BY <1>3 DEF Steady
<1>5. Carries(e, <<>>, h)
  BY <1>2, <1>3 DEF Carries, Runs, Suits, Goal
<1>6. Onward(h, <<>>)
  BY <1>1, <1>3, <1>4, <1>5 DEF Onward
<1> QED BY <1>6, OnwardBy

LEMMA EndOfTrackOnward == ASSUME RuntimeInv, Steady(e), EndOfTrack PROVE Onwards
<1> DEFINE earned == e.earned \union {e.media}
           at == Proven(e.at)
           y == [e EXCEPT !.at = at]
           x == [y EXCEPT !.earned = earned]
           h == [x EXCEPT !.state = "Ended"]
           new == <<Positioned("EndOfTrack", x, at), StateEvent(x, "Ended")>>
<1>1. /\ e \in EngineSet /\ e.at \in Positions /\ e.media \in MediaN /\ e.earned \in SUBSET MediaN
      /\ e.state = "Playing" /\ e.pend = NoIntent /\ e.loading = 0
  BY InvParts DEF EndOfTrack, Steady
<1>2. x.at = at
  BY <1>1 DEF EngineSet
<1>3. Settle(h, <<Positioned("EndOfTrack", x, x.at), StateEvent(x, "Ended")>>)
  BY DEF EndOfTrack
<1>4. Settle(h, new)
  BY <1>2, <1>3
<1>5. at \in Positions /\ earned \in SUBSET MediaN
      /\ (e.at.kind = "fallback" => at.kind = "sure")
  <2>1. e.at.kind = "fallback" => at.kind = "sure"
    BY <1>1 DEF Proven, Positions
  <2> QED BY <1>1, <2>1, HeardIn
<1> HIDE DEF at, earned
<1>6. y \in EngineSet
  BY <1>1, <1>5 DEF EngineSet
<1>7. /\ y.rev = e.rev /\ y.load = e.load /\ y.loading = 0 /\ y.pend = NoIntent
      /\ y.fixed = e.fixed /\ y.at = at /\ y.live = e.live /\ y.heard = e.heard
      /\ y.closed = e.closed
  BY <1>1 DEF EngineSet
<1> HIDE DEF y
<1>8. x \in EngineSet
  BY <1>5, <1>6 DEF EngineSet
<1>9. /\ x.rev = e.rev /\ x.load = e.load /\ x.loading = 0 /\ x.pend = NoIntent
      /\ x.fixed = e.fixed /\ x.at = at /\ x.live = e.live /\ x.heard = e.heard
      /\ x.closed = e.closed
  BY <1>6, <1>7 DEF EngineSet
<1> HIDE DEF x
<1>10. /\ h.rev = e.rev /\ h.load = e.load /\ h.loading = 0 /\ h.pend = NoIntent
       /\ h.fixed = e.fixed /\ h.at = at /\ h.live = e.live /\ h.heard = e.heard
       /\ h.closed = e.closed /\ h.state = "Ended"
  BY <1>8, <1>9 DEF EngineSet
<1> HIDE DEF h
<1>11. Steady(h)
  BY <1>10 DEF Steady
<1>12. Carries(e, new, h)
  <2> SUFFICES ASSUME NEW v \in Views, Suits(v, e)
               PROVE  \E w : Runs(v, new, w) /\ Suits(w, h)
    BY DEF Carries
  <2>1. v.open /\ (e.load # 0 /\ v.protected => e.at.kind = "fallback")
    BY <1>1 DEF Suits
  <2>2. PICK k \in {"Landing", "TargetStored", "EndOfTrack"} : k = "EndOfTrack"
    OBVIOUS
  <2>3. PICK a : a = Positioned("EndOfTrack", x, at)
    OBVIOUS
  <2>4. PICK u : u = Hears(v, a)
    OBVIOUS
  <2>5. /\ a \in EventSet /\ Ripe(v, a) /\ u \in Views /\ u.established /\ u.target = NoPos
        /\ (u.protected <=> v.protected /\ Estimated(at))
    BY <1>5, <1>8, <2>1, <2>2, <2>3, <2>4, HearsPlaced
  <2>6. PICK b : b = StateEvent(x, "Ended")
    OBVIOUS
  <2>7. PICK w : w = Hears(u, b)
    OBVIOUS
  <2>8. "Ended" \in States
    BY DEF States
  <2>9. /\ b \in EventSet /\ Ripe(u, b) /\ w.rev = e.rev /\ (w.protected <=> u.protected)
        /\ (w.established <=> u.established) /\ w.target = u.target
    BY <1>8, <1>9, <2>5, <2>6, <2>7, <2>8, HearsState
  <2>10. Runs(v, <<a, b>>, w)
    BY <2>4, <2>5, <2>7, <2>9 DEF Runs
  <2>11. e.load # 0 => ~w.protected
    BY <1>5, <2>1, <2>5, <2>9 DEF Estimated
  <2>12. Suits(w, h)
    BY <1>10, <2>5, <2>9, <2>11 DEF Suits, Goal
  <2> QED BY <2>3, <2>6, <2>10, <2>12
<1> HIDE DEF new
<1>13. Onward(h, new)
  BY <1>1, <1>4, <1>10, <1>11, <1>12 DEF Onward
<1> QED BY <1>13, OnwardBy

LEMMA SmoothBy ==
  ASSUME RuntimeInv, Smooth, NEW h, NEW new, Steady(h), Unheard(s.next, cmds', h),
         Carries(e, new, h), Settle(h, new)
  PROVE  Smooth'
<1>1. s' = s /\ e' = h /\ events' = events \o new
  BY DEF Settle
<1>2. events \in Seq(Known(s.next, e.rev)) /\ Told(s, events, e)
  BY DEF Smooth, RuntimeInv, EventsOk
<1>3. Told(s, events \o new, h)
  BY <1>2, ToldOn
<1> QED BY <1>1, <1>3 DEF Smooth

(* The queue is as it was, or shorter by one. *)
LEMMA UnheardLess ==
  ASSUME NEW n, NEW S, NEW q \in Seq(S), NEW g, Unheard(n, q, g),
         NEW r, r = q \/ (q # <<>> /\ r = Tail(q))
  PROVE  Unheard(n, r, g)
<1>1. CASE r = q
  BY <1>1
<1>2. CASE q # <<>> /\ r = Tail(q)
  <2>1. \A i \in DOMAIN r : i + 1 \in DOMAIN q /\ r[i] = q[i + 1]
    BY <1>2, TailAt
  <2> QED BY <2>1 DEF Unheard
<1> QED BY <1>1, <1>2

LEMMA OnwardStep ==
  ASSUME RuntimeInv, HeedInv, Smooth, Onwards, cmds' = cmds \/ (cmds # <<>> /\ cmds' = Tail(cmds))
  PROVE  Smooth'
<1>1. PICK h, new : Onward(h, new)
  BY DEF Onwards
<1>2. /\ Steady(h) /\ h.load = e.load /\ h.loading = e.loading
      /\ h.heard \subseteq e.heard \union {e.load} /\ Carries(e, new, h) /\ Settle(h, new)
  BY <1>1 DEF Onward
<1>3. Steady(e) /\ Unheard(s.next, cmds, e)
  BY DEF Smooth
<1>4. /\ cmds \in Seq(Submitted(s.next)) /\ e.load \in 0 .. s.next /\ QueuedFits(s, cmds, events, e)
  BY HeedParts, InvParts
<1>5. Unheard(s.next, cmds, h)
  <2>1. h.heard \subseteq 0 .. s.next
    BY <1>2, <1>3, <1>4 DEF Unheard
  <2>2. h.loading # 0 => h.loading \notin h.heard
    BY <1>2, <1>3 DEF Unheard, Steady
  <2>3. \A i \in DOMAIN cmds : cmds[i].cmd = "Load" =>
           cmds[i].token \notin h.heard /\ cmds[i].token # h.load
    BY <1>2, <1>3 DEF Unheard
  <2> QED BY <2>1, <2>2, <2>3 DEF Unheard
<1>6. Unheard(s.next, cmds', h)
  BY <1>4, <1>5, UnheardLess
<1> QED BY <1>2, <1>6, SmoothBy

(* With no load and nothing that plays, no view is out of place. *)
LEMMA CarriesSilent ==
  ASSUME NEW g, NEW h, h.load = 0, h.state # "Playing", NEW new,
         new = <<>> \/ \E a \in EventSet : new = <<a>> /\ a.k # "EndOfTrack"
  PROVE  Carries(g, new, h)
<1> SUFFICES ASSUME NEW v \in Views PROVE \E w : Runs(v, new, w) /\ Suits(w, h)
  BY DEF Carries
<1>1. \A w : Suits(w, h)
  BY DEF Suits
<1>2. \E w : Runs(v, new, w)
  BY DEF Runs, Ripe
<1> QED BY <1>1, <1>2

LEMMA LoadCancelledSmooth == ASSUME RuntimeInv, HeedInv, Smooth, LoadCancelled PROVE Smooth'
<1> DEFINE h == [e EXCEPT !.loading = 0]
           a == Outcome("LoadCancelled", e, e.loading)
<1>1. /\ e \in EngineSet /\ e.loading \in Nat /\ e.loading # 0 /\ e.rev \in Nat /\ Steady(e)
      /\ Unheard(s.next, cmds, e) /\ cmds' = cmds /\ Settle(h, <<a>>)
  BY InvParts DEF Smooth, LoadCancelled
<1>2. a \in EventSet /\ a.k = "LoadCancelled"
  BY <1>1, OutcomeHeard
<1>3. /\ h.load = e.load /\ h.loading = 0 /\ h.pend = e.pend /\ h.live = e.live
      /\ h.heard = e.heard /\ h.state = e.state /\ h.closed = e.closed /\ h.fixed = e.fixed
  BY <1>1 DEF EngineSet
<1> HIDE DEF a, h
<1>4. h.load = 0 /\ h.state = "Loading" /\ Steady(h)
  BY <1>1, <1>3 DEF Steady
<1>5. Unheard(s.next, cmds', h)
  BY <1>1, <1>3 DEF Unheard
<1>6. Carries(e, <<a>>, h)
  BY <1>2, <1>4, CarriesSilent
<1> QED BY <1>1, <1>4, <1>5, <1>6, SmoothBy

LEMMA LoadSmooth ==
  ASSUME RuntimeInv, HeedInv, Smooth, NEW c \in Submitted(s.next), c.cmd = "Load", Load(c),
         cmds # <<>>, cmds' = Tail(cmds), c = Head(cmds), e.loading = 0
  PROVE  Smooth'
<1> DEFINE rev == e.rev + 1
           at == StartOf(c.media, c.token)
           y == [e EXCEPT !.rev = rev, !.load = 0, !.loading = c.token, !.media = c.media]
           z == [y EXCEPT !.resume = c.resume, !.pend = NoIntent, !.closed = FALSE]
           x == [z EXCEPT !.revived = FALSE, !.at = at]
           h == [x EXCEPT !.state = "Loading"]
           new == Announced(x, "Loading")
<1>1. /\ c.media \in MediaN /\ c.token \in Nat /\ c.resume \in Intents
  BY DEF Submitted, Commands
<1>2. e \in EngineSet /\ e.rev \in Nat /\ Steady(e) /\ Unheard(s.next, cmds, e)
  BY InvParts DEF Smooth
<1>3. rev \in Nat /\ at \in Positions /\ "Loading" \in States
  BY <1>1, <1>2, StartIn DEF States
<1>4. Settle(h, new)
  <2>1. x = [e EXCEPT !.rev = @ + 1, !.load = 0, !.loading = c.token, !.media = c.media,
                      !.resume = c.resume, !.pend = NoIntent, !.closed = FALSE,
                      !.revived = FALSE, !.at = StartOf(c.media, c.token)]
    BY <1>2 DEF EngineSet
  <2> HIDE DEF x
  <2> QED BY <2>1 DEF Load
<1> HIDE DEF rev, at
<1>5. y \in EngineSet
  BY <1>1, <1>2, <1>3 DEF EngineSet
<1>6. y.rev = rev /\ y.load = 0 /\ y.loading = c.token /\ y.heard = e.heard /\ y.state = e.state
  BY <1>2 DEF EngineSet
<1> HIDE DEF y
<1>7. z \in EngineSet
  BY <1>1, <1>5, NoIntentIn DEF EngineSet
<1>8. z.rev = rev /\ z.load = 0 /\ z.loading = c.token /\ z.heard = e.heard /\ z.pend = NoIntent
      /\ ~z.closed
  BY <1>5, <1>6 DEF EngineSet
<1> HIDE DEF z
<1>9. x \in EngineSet
  BY <1>3, <1>7 DEF EngineSet
<1>10. x.rev = rev /\ x.load = 0 /\ x.loading = c.token /\ x.heard = e.heard /\ x.pend = NoIntent
       /\ ~x.closed
  BY <1>7, <1>8 DEF EngineSet
<1> HIDE DEF x
<1>11. h.load = 0 /\ h.loading = c.token /\ h.heard = e.heard /\ h.pend = NoIntent
       /\ ~h.closed /\ h.state = "Loading"
  BY <1>9, <1>10 DEF EngineSet
<1> HIDE DEF h
<1>12. Steady(h)
  BY <1>11 DEF Steady
<1>13. /\ c.token # 0 /\ \A i \in DOMAIN Tail(cmds) : Tail(cmds)[i].cmd = "Load" => Tail(cmds)[i].token # 0
       /\ c.token \notin e.heard
  <2>1. 0 \notin DOMAIN s.pending /\ QueuedFits(s, cmds, events, e)
        /\ cmds \in Seq(Submitted(s.next))
    BY HeedParts
  <2>2. /\ \A i \in DOMAIN Tail(cmds) : i + 1 \in DOMAIN cmds /\ Tail(cmds)[i] = cmds[i + 1]
        /\ 1 \in DOMAIN cmds /\ c = cmds[1]
    BY <2>1, TailAt
  <2> QED BY <1>2, <2>1, <2>2 DEF QueuedFits, Unheard
<1>14. Unheard(s.next, Tail(cmds), e)
  BY <1>2, HeedParts, UnheardLess
<1>15. Unheard(s.next, cmds', h)
  BY <1>11, <1>13, <1>14 DEF Unheard
<1>16. Carries(e, new, h)
  <2>1. PICK a : a = StateEvent(x, "Loading")
    OBVIOUS
  <2>2. a \in EventSet /\ a.k = "State"
    BY <1>3, <1>9, <2>1, StateHeard
  <2>3. new = <<>> \/ new = <<a>>
    BY <2>1 DEF Announced
  <2> HIDE DEF new
  <2> QED BY <1>11, <2>2, <2>3, CarriesSilent
<1> QED BY <1>4, <1>12, <1>15, <1>16, SmoothBy

(* What an open source makes of the load in flight: x, and what is said of it. *)
LoadsAs(x, loaded) ==
    /\ x \in EngineSet /\ loaded \in EventSet
    /\ x.rev = e.rev /\ x.load = e.loading /\ x.loading = 0 /\ x.media = e.media
    /\ x.pend = e.pend /\ x.heard = e.heard /\ x.earned = e.earned /\ x.closed = e.closed
    /\ x.at \in Positions /\ x.at.of = e.media /\ x.at.kind # "none"
    /\ x.at.kind = "start" => x.at.n = e.loading
    /\ x.at.kind = "live" => x.live
    /\ x.at.kind = "fallback" => x.fixed /\ ~x.live
    /\ loaded.k = "Loaded" /\ loaded.rev = e.rev /\ loaded.token = e.loading
    /\ loaded.media = e.media /\ loaded.pos = x.at /\ loaded.live = x.live
    /\ loaded.fallback <=> x.at.kind = "fallback"

LEMMA LoadEndsAs ==
  ASSUME RuntimeInv, LoadEnds
  PROVE  \E x, loaded :
            /\ LoadsAs(x, loaded)
            /\ \/ /\ Settle([x EXCEPT !.state = "Paused"], <<loaded, StateEvent(x, "Paused")>>)
                  /\ UNCHANGED faults
               \/ /\ Settle([x EXCEPT !.state = "Failed"],
                            <<loaded, Event("Failed", x), StateEvent(x, "Failed")>>)
                  /\ Faulty
<1>1. /\ e \in EngineSet /\ e.rev \in Nat /\ e.loading \in Nat /\ e.media \in MediaN
  BY InvParts
<1> DEFINE live == e.media \in Stations
           Ends(x, loaded) ==
               \/ /\ Settle([x EXCEPT !.state = "Paused"], <<loaded, StateEvent(x, "Paused")>>)
                  /\ UNCHANGED faults
               \/ /\ Settle([x EXCEPT !.state = "Failed"],
                            <<loaded, Event("Failed", x), StateEvent(x, "Failed")>>)
                  /\ Faulty
           With(fixed, pos) ==
               [e EXCEPT !.load = e.loading, !.loading = 0, !.live = live, !.fixed = fixed,
                         !.at = pos]
           Says(x, pos) ==
               [Event("Loaded", x) EXCEPT !.token = x.load, !.media = x.media, !.pos = pos,
                                          !.live = live, !.fallback = pos.kind = "fallback"]
<1>4. live \in BOOLEAN
  OBVIOUS
<1>5. \E fixed \in BOOLEAN : \E pos \in Starts(live, fixed) :
         Ends(With(fixed, pos), Says(With(fixed, pos), pos))
  BY ZenonT(60) DEF LoadEnds
<1> HIDE DEF live, Ends
<1>15. PICK fixed \in BOOLEAN : \E pos \in Starts(live, fixed) :
         Ends(With(fixed, pos), Says(With(fixed, pos), pos))
  BY <1>5
<1>6. PICK pos \in Starts(live, fixed) : Ends(With(fixed, pos), Says(With(fixed, pos), pos))
  BY <1>15
<1>7. /\ pos \in Positions /\ pos.of = e.media /\ pos.kind # "none"
      /\ pos.kind = "start" => pos.n = e.loading
      /\ pos.kind = "live" => live
      /\ pos.kind = "fallback" => fixed /\ ~live
  BY <1>4, StartsIn, StartsFit
<1>8. PICK fallback \in BOOLEAN : fallback = (pos.kind = "fallback")
  OBVIOUS
<1> DEFINE y == [e EXCEPT !.load = e.loading, !.loading = 0]
           x == [y EXCEPT !.live = live, !.fixed = fixed, !.at = pos]
           v == [Event("Loaded", x) EXCEPT !.token = x.load, !.media = x.media]
           loaded == [v EXCEPT !.pos = pos, !.live = live, !.fallback = fallback]
<1>9. With(fixed, pos) = x /\ Says(x, pos) = loaded
  <2>1. With(fixed, pos) = x
    BY <1>1 DEF EngineSet
  <2> HIDE DEF x
  <2>2. Says(x, pos) = loaded
    BY <1>8 DEF Event
  <2> QED BY <2>1, <2>2 DEF x
<1>10. Ends(x, loaded)
  <2> HIDE DEF x, loaded, With, Says
  <2> QED BY <1>6, <1>9
<1>11. y \in EngineSet
  BY <1>1 DEF EngineSet
<1>12. y.rev = e.rev /\ y.load = e.loading /\ y.loading = 0 /\ y.media = e.media
       /\ y.pend = e.pend /\ y.heard = e.heard /\ y.earned = e.earned /\ y.closed = e.closed
  BY <1>1 DEF EngineSet
<1> HIDE DEF y
<1>13. x \in EngineSet
  BY <1>4, <1>7, <1>11 DEF EngineSet
<1>14. x.rev = e.rev /\ x.load = e.loading /\ x.loading = 0 /\ x.media = e.media
       /\ x.pend = e.pend /\ x.heard = e.heard /\ x.earned = e.earned /\ x.closed = e.closed
       /\ x.live = live /\ x.fixed = fixed /\ x.at = pos
  BY <1>11, <1>12 DEF EngineSet
<1> HIDE DEF x
<1>16. v \in EventSet /\ v.k = "Loaded" /\ v.rev = e.rev /\ v.token = e.loading /\ v.media = e.media
  <2>1. PICK u : u = Event("Loaded", x)
    OBVIOUS
  <2>2. u \in EventSet /\ u.k = "Loaded" /\ u.rev = e.rev
    BY <1>1, <1>14, <2>1, NoPosIn DEF Event, EventSet, MediaN, States
  <2> DEFINE w == [u EXCEPT !.token = x.load, !.media = x.media]
  <2>3. w \in EventSet /\ w.k = "Loaded" /\ w.rev = e.rev /\ w.token = x.load /\ w.media = x.media
    BY <1>1, <1>14, <2>2 DEF EventSet
  <2>4. v = w
    BY <2>1
  <2> HIDE DEF v, w
  <2> QED BY <1>14, <2>3, <2>4
<1> HIDE DEF v
<1>17. loaded \in EventSet
  BY <1>4, <1>7, <1>16 DEF EventSet
<1>18. loaded.k = "Loaded" /\ loaded.rev = e.rev /\ loaded.token = e.loading /\ loaded.media = e.media
       /\ loaded.pos = pos /\ loaded.live = live /\ loaded.fallback = fallback
  BY <1>16 DEF EventSet
<1> HIDE DEF loaded
<1>19. LoadsAs(x, loaded)
  BY <1>7, <1>8, <1>13, <1>14, <1>17, <1>18 DEF LoadsAs
<1> QED BY <1>10, <1>19 DEF Ends

LEMMA LoadEndsSmooth ==
  ASSUME RuntimeInv, HeedInv, Smooth, ~Faulty, LoadEnds PROVE Smooth'
<1>1. PICK x, loaded :
         /\ LoadsAs(x, loaded)
         /\ Settle([x EXCEPT !.state = "Paused"], <<loaded, StateEvent(x, "Paused")>>)
  BY LoadEndsAs
<1>2. /\ x \in EngineSet /\ x.rev = e.rev /\ x.load = e.loading /\ x.loading = 0
      /\ x.pend = e.pend /\ x.heard = e.heard /\ x.closed = e.closed
      /\ loaded \in EventSet /\ loaded.k = "Loaded" /\ loaded.rev = e.rev
      /\ loaded.fallback => x.at.kind = "fallback" /\ x.fixed
  BY <1>1 DEF LoadsAs
<1>3. /\ e.loading # 0 /\ cmds' = cmds /\ ~e.closed /\ e.pend = NoIntent
      /\ e.loading \notin e.heard /\ Unheard(s.next, cmds, e)
  BY DEF LoadEnds, Smooth, Steady, Unheard
<1> DEFINE h == [x EXCEPT !.state = "Paused"]
           f == StateEvent(x, "Paused")
<1>4. /\ h.rev = e.rev /\ h.load = e.loading /\ h.loading = 0 /\ h.pend = NoIntent
      /\ h.heard = e.heard /\ ~h.closed /\ h.fixed = x.fixed /\ h.at = x.at
      /\ h.state = "Paused"
  BY <1>2, <1>3 DEF EngineSet
<1>5. Settle(h, <<loaded, f>>)
  BY <1>1
<1> HIDE DEF h
<1>6. Steady(h)
  BY <1>4 DEF Steady
<1>7. Unheard(s.next, cmds, h)
  <2>1. \A i \in DOMAIN cmds : cmds[i].cmd = "Load" => cmds[i].token # e.loading
    BY HeedParts DEF QueuedFits
  <2> QED BY <1>3, <1>4, <2>1 DEF Unheard
<1>8. Carries(e, <<loaded, f>>, h)
  <2> SUFFICES ASSUME NEW v \in Views PROVE \E w : Runs(v, <<loaded, f>>, w) /\ Suits(w, h)
    BY DEF Carries
  <2>1. PICK u : u = Hears(v, loaded)
    OBVIOUS
  <2>2. /\ u \in Views /\ ~u.established /\ (u.protected <=> loaded.fallback) /\ u.target = NoPos
        /\ Ripe(v, loaded)
    BY <1>2, <2>1, HearsIs DEF Ripe
  <2>3. PICK w : w = Hears(u, f)
    OBVIOUS
  <2>4. "Paused" \in States
    BY DEF States
  <2>5. /\ f \in EventSet /\ Ripe(u, f) /\ w.rev = x.rev /\ (w.protected <=> u.protected)
        /\ w.target = u.target
    BY <1>2, <2>2, <2>3, <2>4, HearsState
  <2> HIDE DEF f
  <2>6. Runs(v, <<loaded, f>>, w)
    BY <1>2, <2>1, <2>2, <2>3, <2>5 DEF Runs
  <2>7. Suits(w, h)
    BY <1>2, <1>3, <1>4, <2>2, <2>5 DEF Suits, Goal
  <2> QED BY <2>6, <2>7
<1> QED BY <1>3, <1>5, <1>6, <1>7, <1>8, SmoothBy

LEMMA DispatchSmooth ==
  ASSUME RuntimeInv, HeedInv, Smooth, ~Faulty, Dispatch PROVE Smooth'
<1>1. /\ cmds \in Seq(Submitted(s.next)) /\ cmds # <<>> /\ cmds' = Tail(cmds) /\ e.loading = 0
      /\ Steady(e)
  BY HeedParts DEF Dispatch, Smooth
<1>2. PICK c \in Submitted(s.next) : c = Head(cmds)
  BY <1>1, TailIn
<1>3. c.cmd \in {"Load", "PlayLoaded", "Play", "Pause", "Seek", "Restart"}
  BY DEF Submitted, Commands
<1>4. CASE c.cmd = "Load"
  <2>1. Load(c)
    BY <1>2, <1>4 DEF Dispatch
  <2> QED BY <1>1, <1>2, <1>4, <2>1, LoadSmooth
<1>5. CASE c.cmd # "Load"
  <2>1. Play(TRUE) \/ Play(FALSE) \/ Pause \/ Seek \/ Restart \/ Nothing
    BY <1>2, <1>3, <1>5 DEF Dispatch
  <2>2. Onwards
    BY <1>1, <2>1, PlayOnward, PauseOnward, SeekOnward, RestartOnward, OnwardNothing
  <2> QED BY <1>1, <2>2, OnwardStep
<1> QED BY <1>4, <1>5

LEMMA DiscardSmooth == ASSUME RuntimeInv, HeedInv, Smooth, Discard PROVE Smooth'
<1>1. /\ cmds \in Seq(Submitted(s.next)) /\ cmds # <<>> /\ cmds' = Tail(cmds) /\ Steady(e)
      /\ e \in EngineSet
  BY HeedParts, InvParts DEF Discard, Smooth
<1>2. PICK c \in Submitted(s.next) : c = Head(cmds)
  BY <1>1, TailIn
<1>3. c.token \in Nat
  BY DEF Submitted, Commands
<1>4. PICK a : a = Outcome("LoadCancelled", e, c.token)
  OBVIOUS
<1>5. Settle(e, <<a>>) \/ Settle(e, <<>>)
  BY <1>2, <1>4 DEF Discard
<1>6. Carries(e, <<a>>, e) /\ Carries(e, <<>>, e)
  <2>1. Carries(e, <<>>, e)
    BY DEF Carries, Runs
  <2>2. ASSUME NEW v \in Views, Suits(v, e) PROVE \E w : Runs(v, <<a>>, w) /\ Suits(w, e)
    <3>1. PICK w : w = Hears(v, a)
      OBVIOUS
    <3>2. /\ a \in EventSet /\ Ripe(v, a) /\ w.rev = e.rev
          /\ (w.established <=> v.established) /\ (w.protected <=> v.protected)
          /\ w.target = v.target /\ (w.open <=> v.open)
      BY <1>1, <1>3, <1>4, <3>1, HearsCancelled
    <3>3. Runs(v, <<a>>, w)
      BY <3>1, <3>2 DEF Runs
    <3>4. Suits(w, e)
      BY <2>2, <3>2 DEF Suits
    <3> QED BY <3>3, <3>4
  <2> QED BY <2>1, <2>2 DEF Carries
<1>7. Onwards
  <2>1. Onward(e, <<a>>) \/ Onward(e, <<>>)
    BY <1>1, <1>5, <1>6 DEF Onward
  <2> QED BY <2>1, OnwardBy
<1> QED BY <1>1, <1>7, OnwardStep

LEMMA EngineShutdownSmooth ==
  ASSUME RuntimeInv, HeedInv, Smooth, e.loading = 0, EngineShutdown PROVE Smooth'
<1> DEFINE h == [e EXCEPT !.state = "Idle"]
<1>1. e \in EngineSet /\ Steady(e) /\ Unheard(s.next, cmds, e) /\ Told(s, events, e)
      /\ events \in Seq(Known(s.next, e.rev))
  BY InvParts, HeedParts DEF Smooth
<1>2. /\ h.load = e.load /\ h.loading = 0 /\ h.live = e.live /\ h.rev = e.rev
      /\ h.fixed = e.fixed /\ h.at = e.at /\ h.pend = e.pend /\ h.state = "Idle"
      /\ h.heard = e.heard /\ h.closed = e.closed
  BY <1>1 DEF EngineSet
<1>3. e' = h /\ s' = s /\ cmds' = cmds /\ events' = events
  BY DEF EngineShutdown
<1> HIDE DEF h
<1>4. Steady(h) /\ Unheard(s.next, cmds, h)
  BY <1>1, <1>2 DEF Steady, Unheard
<1>5. Carries(e, <<>>, h)
  BY <1>2 DEF Carries, Runs, Suits, Goal
<1>6. Told(s, events \o <<>>, h)
  BY <1>1, <1>5, ToldOn
<1>7. events \o <<>> = events
  BY <1>1
<1> QED BY <1>3, <1>4, <1>6, <1>7 DEF Smooth

(* Where the front end stands when the engine is gone. *)
Shut ==
    /\ app \in {"closing", "joined", "done"} => e.loading = 0
    /\ app \in {"joined", "done"} => cmds = <<>> /\ ~stopBit
    /\ app = "done" => events = <<>>

LEMMA EngineSmooth ==
  ASSUME RuntimeInv, HeedInv, Shut, Smooth, ~Faulty, Engine PROVE Smooth'
<1>1. Steady(e) /\ cmds \in Seq(Submitted(s.next))
  BY HeedParts DEF Smooth
<1>2. CASE TakeStop
  <2>1. cmds' = cmds
    BY <1>2 DEF TakeStop
  <2> QED BY <1>1, <1>2, <2>1, TakeStopOnward, OnwardStep
<1>3. CASE Advance \/ EndOfTrack
  <2>1. cmds' = cmds
    BY <1>3 DEF Advance, EndOfTrack, Alone
  <2> QED BY <1>1, <1>3, <2>1, AdvanceOnward, EndOfTrackOnward, OnwardStep
<1>4. CASE EngineCloses
  BY <1>4 DEF EngineCloses, Smooth
<1>5. CASE EngineShutdown
  <2>1. e.loading = 0
    BY <1>5 DEF Shut, EngineShutdown
  <2> QED BY <1>5, <2>1, EngineShutdownSmooth
<1>6. ~LoadFails /\ ~Breaks /\ ~Rebuild /\ ~Lose
  BY DEF LoadFails, Breaks, Rebuild, Lose
<1>7. ~Regain
  BY <1>1 DEF Regain, Steady
<1> QED BY <1>2, <1>3, <1>4, <1>5, <1>6, <1>7, DispatchSmooth, LoadCancelledSmooth,
           LoadEndsSmooth, DiscardSmooth DEF Engine

-----------------------------------------------------------------------------
(* The front end's steps leave the view as it is, but for an event heard. *)
Unmoved(x, y) ==
    /\ y.rev = x.rev /\ y.established = x.established /\ y.protected = x.protected
    /\ y.target = x.target /\ y.seen = x.seen /\ y.adopted = x.adopted /\ y.last = x.last
    /\ y.completed = x.completed

LEMMA UnmovedOn ==
  ASSUME NEW x, NEW y, NEW z, Unmoved(x, y), Unmoved(y, z) PROVE Unmoved(x, z)
BY DEF Unmoved

LEMMA UnmovedAttends == ASSUME NEW x, NEW y, Unmoved(x, y) PROVE Attends(x, y)
BY DEF Unmoved, Attends, Owning

LEMMA ProgressUnmoved ==
  ASSUME NEW x \in SessionSet, NEW pos \in Positions
  PROVE  Unmoved(x, CheckpointFromProgress(x, pos))
BY CheckpointFromProgressIs, RecordedAttends DEF Unmoved

LEMMA CaptureUnmoved ==
  ASSUME NEW x \in SessionSet, NEW p \in Samplings PROVE Unmoved(x, CaptureCurrent(x, p))
<1>1. /\ p.pos \in Positions /\ x.sample.pos \in Positions /\ x.sample.guess \in BOOLEAN
      /\ Estimated(p.pos) \in BOOLEAN
  BY DEF Samplings, Samples, SessionSet, Estimated
<1>2. ASSUME NEW guess \in BOOLEAN, NEW pos \in Positions
      PROVE  Unmoved(x, CheckpointFromProgress([x EXCEPT !.guess = guess], pos))
  <2> DEFINE z == [x EXCEPT !.guess = guess]
  <2>1. z \in SessionSet /\ Unmoved(x, z)
    BY DEF SessionSet, Unmoved
  <2> HIDE DEF z
  <2>2. Unmoved(z, CheckpointFromProgress(z, pos))
    BY <2>1, ProgressUnmoved
  <2>3. Unmoved(x, CheckpointFromProgress(z, pos))
    BY <2>1, <2>2, UnmovedOn
  <2> QED BY <2>3 DEF z
<1>3. Unmoved(x, x)
  BY DEF Unmoved
<1>4. CASE x.media # NoMedia /\ AcceptsSample(x, p)
  BY <1>1, <1>2, <1>4 DEF CaptureCurrent
<1>5. CASE ~(x.media # NoMedia /\ AcceptsSample(x, p))
           /\ x.media # NoMedia /\ x.sample.rev = x.rev /\ x.sample.media = x.media
  BY <1>1, <1>2, <1>5 DEF CaptureCurrent
<1>6. CASE ~(x.media # NoMedia /\ AcceptsSample(x, p))
           /\ ~(x.media # NoMedia /\ x.sample.rev = x.rev /\ x.sample.media = x.media)
  BY <1>3, <1>6 DEF CaptureCurrent
<1> QED BY <1>4, <1>5, <1>6

LEMMA TickUnmoved ==
  ASSUME NEW x \in SessionSet, NEW p \in Samplings, NEW due PROVE Unmoved(x, Tick(x, p, due))
<1> DEFINE sample == [rev |-> p.rev, media |-> x.media, pos |-> p.pos, guess |-> Estimated(p.pos)]
           y == [x EXCEPT !.sample = sample, !.guess = Estimated(p.pos)]
           z == [y EXCEPT !.force = 0]
<1>1. Estimated(p.pos) \in BOOLEAN /\ p.pos \in Positions /\ p.rev \in Nat
  BY DEF Estimated, Samplings
<1>2. sample \in Samples
  BY <1>1 DEF Samples, SessionSet
<1> HIDE DEF sample
<1>3. y \in SessionSet
  BY ZenonT(60), <1>1, <1>2 DEF SessionSet
<1>4. Unmoved(x, y)
  BY DEF Unmoved, SessionSet
<1> HIDE DEF y
<1>5. z \in SessionSet /\ Unmoved(y, z)
  BY <1>3 DEF SessionSet, Unmoved
<1> HIDE DEF z
<1>6. Unmoved(z, CheckpointFromProgress(z, p.pos)) /\ Unmoved(y, CheckpointFromProgress(y, p.pos))
  BY <1>1, <1>3, <1>5, ProgressUnmoved
<1>7. /\ Unmoved(x, CheckpointFromProgress(z, p.pos)) /\ Unmoved(x, CheckpointFromProgress(y, p.pos))
      /\ Unmoved(x, x)
  BY <1>4, <1>5, <1>6 DEF Unmoved
<1>8. Tick(x, p, due) \in {x, CheckpointFromProgress(z, p.pos), CheckpointFromProgress(y, p.pos), y}
  BY DEF Tick, y, z, sample
<1> QED BY <1>4, <1>7, <1>8

(* Playback given up is no longer owned. *)
LEMMA VacateAttends ==
  ASSUME NEW x \in SessionSet, NEW ids, NEW p \in Samplings
  PROVE  Attends(x, Vacate(x, ids, p))
<1> DEFINE f == [t \in DOMAIN x.pending |->
                   IF x.pending[t].target \in ids THEN [x.pending[t] EXCEPT !.valid = FALSE]
                   ELSE x.pending[t]]
           y == [x EXCEPT !.pending = f]
           w == Vacate(x, ids, p)
<1>1. Vacate(x, ids, p) = IF OwnsAny(x, ids) THEN ReleaseActive(y, p) ELSE y
  BY DEF Vacate, Invalidate
<1>2. CASE OwnsAny(x, ids)
  <2>1. w \in SessionSet /\ w.adopted = NoLoad
    BY <1>2, VacateIs DEF Vacated
  <2> HIDE DEF w
  <2>2. ~Owning(w)
    BY <2>1, NoLoadIn DEF Owning
  <2> QED BY <2>2 DEF Attends, w
<1>3. CASE ~OwnsAny(x, ids)
  <2>1. Unmoved(x, y)
    BY DEF Unmoved, SessionSet
  <2> QED BY <1>1, <1>3, <2>1, UnmovedAttends
<1> QED BY <1>2, <1>3

LEMMA PlaylistsUnmoved ==
  ASSUME NEW x \in SessionSet, NEW set, NEW saved PROVE Unmoved(x, WithPlaylists(x, set, saved))
BY DEF WithPlaylists, Unmoved, SessionSet

LEMMA RegisterUnmoved ==
  ASSUME NEW x \in SessionSet, NEW target, NEW media PROVE Unmoved(x, Register(x, target, media))
<1> DEFINE t0 == x.next + 1
           f == [t \in DOMAIN x.pending \union {t0} |->
                   IF t \in DOMAIN x.pending THEN x.pending[t]
                   ELSE [target |-> target, media |-> media, valid |-> TRUE]]
           y == Register(x, target, media)
<1>1. y = [[x EXCEPT !.next = t0] EXCEPT !.pending = f]
  BY DEF Register
<1> HIDE DEF f, t0, y
<1>2. Unmoved(x, y)
  BY <1>1 DEF Unmoved, SessionSet
<1> QED BY <1>2 DEF y

LEMMA RetractUnmoved ==
  ASSUME NEW x \in SessionSet, NEW token PROVE Unmoved(x, Retract(x, token))
BY DEF Retract, Unmoved, SessionSet

LEMMA SubmitUnmoved ==
  ASSUME NEW x, Sane(x.s), NEW target \in Nat, NEW media \in Media,
         \E session, queue : x = [s |-> session, cmds |-> queue]
  PROVE  Unmoved(x.s, SubmitLoad(x, target, media).s)
<1>1. PICK u : u = x.s
  OBVIOUS
<1>2. Sane(u) /\ u \in SessionSet
  BY <1>1 DEF Sane
<1>3. PICK r : r = Register(u, target, media)
  OBVIOUS
<1>4. Sane(r) /\ r \in SessionSet /\ Unmoved(u, r)
  BY <1>2, <1>3, RegisterIs, RegisterUnmoved DEF Sane
<1>5. PICK t : t = Retract(r, r.next)
  OBVIOUS
<1>6. Unmoved(u, t) /\ Unmoved(u, u)
  <2>1. Unmoved(r, t)
    BY <1>4, <1>5, RetractUnmoved
  <2> QED BY <1>4, <2>1 DEF Unmoved
<1>7. PICK y : y = SubmitLoad(x, target, media)
  OBVIOUS
<1>8. y.s \in {u, t, r}
  <2>1. CASE Busy(u)
    BY <1>1, <1>7, <2>1 DEF SubmitLoad
  <2>2. CASE ~Busy(u) /\ ~Room(x.cmds)
    <3>1. y = [x EXCEPT !.s = t]
      BY <1>1, <1>3, <1>5, <1>7, <2>2 DEF SubmitLoad
    <3> QED BY <3>1
  <2>3. CASE ~Busy(u) /\ Room(x.cmds)
    <3>1. y = Admitted(x, r, media)
      BY <1>1, <1>3, <1>7, <2>3 DEF SubmitLoad
    <3> QED BY <3>1 DEF Admitted
  <2> QED BY <2>1, <2>2, <2>3
<1> QED BY <1>1, <1>4, <1>6, <1>7, <1>8

LEMMA LoadEntryUnmoved ==
  ASSUME NEW x, Sane(x.s), NEW id, \E session, queue : x = [s |-> session, cmds |-> queue]
  PROVE  Unmoved(x.s, LoadEntry(x, id).s)
<1>1. CASE Has(x.s.set, id)
  <2>1. SoundSet(x.s.set)
    BY DEF Sane, SessionSet, SoundSets
  <2>2. id \in Nat /\ MediaOf(x.s.set, id) \in Media
    BY <1>1, <2>1, MediaOfEntry
  <2> QED BY <1>1, <2>2, SubmitUnmoved DEF LoadEntry
<1>2. CASE ~Has(x.s.set, id)
  BY <1>2 DEF LoadEntry, Unmoved
<1> QED BY <1>1, <1>2

(* A submission: the load it adds has a token nobody has seen. *)
LEMMA EntrustUnheard ==
  ASSUME NEW x, NEW y, Entrusts(x, y), x.s.next \in Nat, y.s.next \in Nat, x.s.next <= y.s.next,
         NEW g, g.load \in Nat, g.load <= x.s.next, Unheard(x.s.next, x.cmds, g)
  PROVE  Unheard(y.s.next, y.cmds, g)
<1>1. /\ g.heard \subseteq 0 .. x.s.next
      /\ g.loading # 0 => g.loading \notin g.heard
      /\ \A i \in DOMAIN x.cmds :
            x.cmds[i].cmd = "Load" => x.cmds[i].token \notin g.heard /\ x.cmds[i].token # g.load
  BY DEF Unheard
<1>2. x.s.next + 1 \notin g.heard /\ x.s.next + 1 # g.load
  BY <1>1
<1>3. ASSUME NEW i \in DOMAIN y.cmds, y.cmds[i].cmd = "Load"
      PROVE  y.cmds[i].token \notin g.heard /\ y.cmds[i].token # g.load
  <2>1. \/ i \in DOMAIN x.cmds /\ y.cmds[i] = x.cmds[i]
        \/ y.cmds[i].token = x.s.next + 1
    BY <1>3 DEF Entrusts
  <2> QED BY <1>1, <1>2, <1>3, <2>1
<1>4. g.heard \subseteq 0 .. y.s.next
  BY <1>1
<1> QED BY <1>1, <1>3, <1>4 DEF Unheard

LEMMA SubmissionSmooth ==
  ASSUME RuntimeInv, Smooth, NEW x, x.cmds = cmds, x.s.next = s.next, Unmoved(s, x.s),
         NEW y, Entrusts(x, y), Handed(x, y), Unmoved(x.s, y.s)
  PROVE  /\ Unheard(y.s.next, y.cmds, e) /\ Told(y.s, events, e)
         /\ y.s \in SessionSet
<1>1. /\ s.next \in Nat /\ e.load \in Nat /\ e.load <= s.next
      /\ Unheard(s.next, cmds, e) /\ Told(s, events, e)
  BY InvParts DEF Smooth
<1>2. y.s \in SessionSet /\ y.s.next \in Nat /\ x.s.next <= y.s.next
  BY DEF Handed, Sane, SessionSet
<1>3. Unheard(y.s.next, y.cmds, e)
  BY <1>1, <1>2, EntrustUnheard
<1>4. PICK v : v = y.s
  OBVIOUS
<1>5. Attends(s, v)
  BY <1>4, UnmovedOn, UnmovedAttends
<1>6. Told(v, events, e)
  BY <1>1, <1>5, AttendsTold
<1> QED BY <1>2, <1>3, <1>4, <1>6

LEMMA StandsSmooth ==
  ASSUME RuntimeInv, Smooth, s' \in SessionSet, Attends(s, s'), s'.next = s.next,
         UNCHANGED <<cmds, events, e>>
  PROVE  Smooth'
<1>1. PICK y : y = s'
  OBVIOUS
<1>2. Told(s, events, e) /\ Attends(s, y)
  BY <1>1 DEF Smooth
<1>3. Told(y, events, e)
  BY <1>2, AttendsTold
<1> QED BY <1>1, <1>3 DEF Smooth

LEMMA PlayEntrySmooth == ASSUME RuntimeInv, Smooth, PlayEntry PROVE Smooth'
<1>1. PICK id : LET x == LoadEntry([s |-> s, cmds |-> cmds], id) IN s' = x.s /\ cmds' = x.cmds
  BY DEF PlayEntry
<1>2. PICK x : x = [s |-> s, cmds |-> cmds]
  OBVIOUS
<1>3. Handing(x) /\ x.s = s /\ x.cmds = cmds
  BY <1>2, HandingNow
<1>4. PICK y : y = LoadEntry(x, id)
  OBVIOUS
<1>5. Entrusts(x, y) /\ Handed(x, y) /\ s' = y.s /\ cmds' = y.cmds
  BY <1>1, <1>2, <1>3, <1>4, LoadEntryEntrusts, LoadEntryIs
<1>6. Sane(x.s) /\ Unmoved(s, x.s)
  BY <1>3 DEF Handing, Unmoved
<1>7. Unmoved(x.s, y.s)
  BY <1>2, <1>4, <1>6, LoadEntryUnmoved
<1>8. Unheard(y.s.next, y.cmds, e) /\ Told(y.s, events, e)
  BY <1>3, <1>5, <1>6, <1>7, SubmissionSmooth
<1>9. events' = events /\ e' = e
  BY DEF PlayEntry
<1> QED BY <1>5, <1>8, <1>9 DEF Smooth

LEMMA PlayDetachedSmooth == ASSUME RuntimeInv, Smooth, PlayDetached PROVE Smooth'
<1>1. PICK m \in Media :
         LET x == SubmitLoad([s |-> s, cmds |-> cmds], Detached, m) IN s' = x.s /\ cmds' = x.cmds
  BY DEF PlayDetached
<1>2. PICK x : x = [s |-> s, cmds |-> cmds]
  OBVIOUS
<1>3. Handing(x) /\ x.s = s /\ x.cmds = cmds
  BY <1>2, HandingNow
<1>4. PICK y : y = SubmitLoad(x, Detached, m)
  OBVIOUS
<1>5. Detached \in Nat
  BY DEF Detached, None
<1>6. Entrusts(x, y) /\ Handed(x, y) /\ s' = y.s /\ cmds' = y.cmds
  BY <1>1, <1>2, <1>3, <1>4, <1>5, SubmitEntrusts, SubmitLoadIs
<1>7. Sane(x.s) /\ Unmoved(s, x.s)
  BY <1>3 DEF Handing, Unmoved
<1>8. Unmoved(x.s, y.s)
  BY <1>2, <1>4, <1>5, <1>7, SubmitUnmoved
<1>9. Unheard(y.s.next, y.cmds, e) /\ Told(y.s, events, e)
  BY <1>3, <1>6, <1>7, <1>8, SubmissionSmooth
<1>10. events' = events /\ e' = e
  BY DEF PlayDetached
<1> QED BY <1>6, <1>9, <1>10 DEF Smooth

LEMMA SampleSmooth == ASSUME RuntimeInv, Smooth, Sample PROVE Smooth'
<1> DEFINE asked == [s EXCEPT !.advance = None]
<1>1. PICK due \in BOOLEAN :
         LET x == LoadEntry([s |-> asked, cmds |-> cmds], s.advance)
         IN s' = Tick(x.s, Progress, due) /\ cmds' = x.cmds
  BY DEF Sample
<1>2. s \in SessionSet /\ Sane(s)
  BY FrontEndParts
<1>3. asked \in SessionSet
  BY <1>2 DEF SessionSet, None
<1>4. /\ Keeps(s, asked) /\ asked.next = s.next /\ asked.pending = s.pending
      /\ Unmoved(s, asked)
  BY <1>2 DEF SessionSet, Keeps, Unmoved
<1>5. Sane(asked)
  BY <1>2, <1>3, <1>4, KeepsSane
<1> HIDE DEF asked
<1>6. PICK x : x = [s |-> asked, cmds |-> cmds]
  OBVIOUS
<1>7. x.s = asked /\ x.cmds = cmds
  BY <1>6
<1>8. Handing(x)
  BY <1>4, <1>5, <1>7, FrontEndParts DEF Handing
<1>9. PICK y : y = LoadEntry(x, s.advance)
  OBVIOUS
<1>10. s' = Tick(y.s, Progress, due) /\ cmds' = y.cmds
  BY <1>1, <1>6, <1>9
<1>11. Entrusts(x, y) /\ Handed(x, y) /\ Unmoved(x.s, y.s)
  BY <1>5, <1>6, <1>7, <1>8, <1>9, LoadEntryEntrusts, LoadEntryIs, LoadEntryUnmoved
<1>12. Unheard(y.s.next, y.cmds, e) /\ Told(y.s, events, e) /\ y.s \in SessionSet
  BY <1>4, <1>7, <1>11, SubmissionSmooth
<1>13. PICK z : z = y.s
  OBVIOUS
<1>14. PICK w : w = Tick(z, Progress, due)
  OBVIOUS
<1>15. Unmoved(z, w) /\ Keeps(z, w)
  BY <1>12, <1>13, <1>14, FrontEndParts, TickIs, TickUnmoved
<1>16. Told(w, events, e)
  BY <1>12, <1>13, <1>15, UnmovedAttends, AttendsTold
<1>17. Unheard(w.next, y.cmds, e)
  BY <1>12, <1>13, <1>15 DEF Keeps
<1>18. events' = events /\ e' = e
  BY DEF Sample
<1>19. s' = w
  BY <1>10, <1>13, <1>14
<1> QED BY <1>10, <1>16, <1>17, <1>18, <1>19 DEF Smooth

LEMMA RemovalSmooth ==
  ASSUME RuntimeInv, Smooth, NEW ids, NEW v, v = Vacate(s, ids, Progress),
         NEW set, NEW saved, s' = WithPlaylists(v, set, saved), UNCHANGED <<cmds, events, e>>
  PROVE  Smooth'
<1>1. s \in SessionSet /\ Progress \in Samplings
  BY FrontEndParts
<1>2. v \in SessionSet /\ v.next = s.next /\ Attends(s, v)
  BY <1>1, VacateIs, VacateAttends DEF Vacated
<1>3. PICK y : y = WithPlaylists(v, set, saved)
  OBVIOUS
<1>4. Unmoved(v, y) /\ y.next = v.next
  <2>1. y.next = v.next
    BY <1>2, <1>3 DEF WithPlaylists, SessionSet
  <2> QED BY <1>2, <1>3, <2>1, PlaylistsUnmoved
<1>5. Attends(s, y)
  BY <1>2, <1>4, UnmovedAttends, AttendsOn
<1>6. Told(y, events, e)
  BY <1>5, AttendsTold DEF Smooth
<1> QED BY <1>2, <1>3, <1>4, <1>6 DEF Smooth

(* Entries, lists and what plays of them: each removal gives up playback, then
   changes the set. *)
LEMMA QueueRemoves ==
  ASSUME RuntimeInv, Queue
  PROVE  \E ids, v, set, saved :
            v = Vacate(s, ids, Progress) /\ s' = WithPlaylists(v, set, saved)
<1>1. Removes
  BY DEF Queue
<1>2. s \in SessionSet /\ Progress \in Samplings
  BY FrontEndParts
<1>3. ASSUME NEW ids, NEW v, v = Vacate(s, ids, Progress), NEW set, s' = [v EXCEPT !.set = set]
      PROVE  s' = WithPlaylists(v, set, v.saved)
  <2>1. v \in SessionSet
    BY <1>2, <1>3, VacateIs DEF Vacated
  <2> QED BY <1>3, <2>1 DEF SessionSet, WithPlaylists
<1>4. CASE \E id : s' = RemoveEntry(s, id, Progress)
  <2>1. PICK id : s' = RemoveEntry(s, id, Progress)
    BY <1>4
  <2>2. PICK v : v = Vacate(s, {id}, Progress)
    OBVIOUS
  <2>3. s' = [v EXCEPT !.set = RemoveFrom(v.set, id)]
    BY <2>1, <2>2 DEF RemoveEntry
  <2> QED BY <1>3, <2>2, <2>3
<1>5. CASE \E list : s' = ClearPlaylist(s, list, Progress)
  <2>1. PICK list : s' = ClearPlaylist(s, list, Progress)
    BY <1>5
  <2>2. PICK ids : ids = Ids(s.set.lists[Index(s.set, list)])
    OBVIOUS
  <2>3. PICK v : v = Vacate(s, ids, Progress)
    OBVIOUS
  <2>4. s' = [v EXCEPT !.set = ClearList(v.set, list)]
    BY <2>1, <2>2, <2>3 DEF ClearPlaylist
  <2> QED BY <1>3, <2>3, <2>4
<1>6. CASE \E list : s' = DeletePlaylist(s, list, Progress)
  <2>1. PICK list : s' = DeletePlaylist(s, list, Progress)
    BY <1>6
  <2>2. PICK ids : ids = Ids(s.set.lists[Index(s.set, list)])
    OBVIOUS
  <2>3. PICK v : v = Vacate(s, ids, Progress)
    OBVIOUS
  <2>4. PICK set : set = DeleteList(v.set, list)
    OBVIOUS
  <2>5. PICK saved : saved = CASE v.set.playing # list -> v.saved
                               [] v.set.playing = list /\ Cursor(set) = None -> NoMedia
                               [] OTHER -> MediaOf(set, Cursor(set))
    OBVIOUS
  <2>6. s' = WithPlaylists(v, set, saved)
    BY <2>1, <2>2, <2>3, <2>4, <2>5 DEF DeletePlaylist, WithPlaylists
  <2> QED BY <2>3, <2>6
<1> QED BY <1>1, <1>4, <1>5, <1>6 DEF Removes, ApplyRemoval

LEMMA QueueSmooth == ASSUME RuntimeInv, Smooth, Queue PROVE Smooth'
<1>1. UNCHANGED <<cmds, events, e>>
  BY DEF Queue
<1>2. PICK ids, v, set, saved :
         v = Vacate(s, ids, Progress) /\ s' = WithPlaylists(v, set, saved)
  BY QueueRemoves
<1> QED BY <1>1, <1>2, RemovalSmooth

LEMMA TransportSmooth ==
  ASSUME RuntimeInv, Smooth, NEW kind \in {"Toggle", "Seek", "Restart"}, Transport(kind)
  PROVE  Smooth'
<1>1. cmds' = Append(cmds, Plain(Sent(kind))) /\ UNCHANGED <<s, events, e>>
  BY DEF Transport
<1>2. PICK c : c = Plain(Sent(kind))
  OBVIOUS
<1>3. c.cmd # "Load"
  BY <1>2 DEF Plain, Command, Sent
<1>4. cmds \in Seq(Submitted(s.next)) /\ Unheard(s.next, cmds, e)
  BY FrontEndParts DEF Smooth
<1>5. PICK q : q = Append(cmds, c)
  OBVIOUS
<1>6. \A i \in DOMAIN q : q[i] = c \/ (i \in DOMAIN cmds /\ q[i] = cmds[i])
  BY <1>4, <1>5
<1>7. Unheard(s.next, q, e)
  BY <1>3, <1>4, <1>6 DEF Unheard
<1> QED BY <1>1, <1>2, <1>5, <1>7 DEF Smooth

LEMMA HearsSmooth == ASSUME RuntimeInv, HeedInv, Smooth, DrainOne \/ Replay PROVE Smooth'
<1>1. PICK y : y = Observe(s, Head(events))
  OBVIOUS
<1>2. PICK z : z = [y EXCEPT !.stop = FALSE]
  OBVIOUS
<1>3. /\ events # <<>> /\ events' = Tail(events) /\ UNCHANGED <<cmds, e>>
      /\ s' = y \/ s' = z
  BY <1>1, <1>2 DEF DrainOne, Replay
<1>4. /\ Sane(s) /\ s.next \in Nat /\ e.rev \in Nat /\ events \in Seq(Known(s.next, e.rev))
      /\ CutsFit(s, events) /\ Ordered(s, events)
  BY HeedParts DEF Heed
<1>5. PICK ev \in Known(s.next, e.rev) : ev = Head(events)
  BY <1>3, <1>4, TailIn
<1>6. /\ ev \in EventSet /\ (ev.k = "Loaded" => ev.media \in Media)
      /\ 1 \in DOMAIN events /\ ev = events[1]
  <2>1. 1 \in DOMAIN events /\ Head(events) = events[1]
    BY <1>3, <1>4, TailAt
  <2> QED BY <1>5, <2>1 DEF Known
<1>7. /\ s.latest <= ev.rev /\ (Cut(ev) => ev.token \in DOMAIN s.pending)
      /\ s.adopted.token \notin DOMAIN s.pending
  BY <1>4, <1>6 DEF CutsFit, Ordered
<1>8. Sane(y) /\ y.next = s.next /\ y \in SessionSet
  BY <1>1, <1>4, <1>5, ObserveIs DEF Sane
<1>9. Unmoved(y, z) /\ z.next = y.next
  BY <1>2, <1>8 DEF Unmoved, SessionSet
<1>10. \A v \in Views : (Owning(s) => Shows(s, v)) /\ Ripe(v, Head(events)) /\ Owning(y)
                           => Shows(y, Hears(v, Head(events)))
  BY <1>1, <1>4, <1>5, <1>6, <1>7, ObserveShows
<1>11. Told(y, Tail(events), e)
  BY <1>3, <1>4, <1>10, ToldTail DEF Smooth
<1>12. Told(z, Tail(events), e)
  BY <1>9, <1>11, UnmovedAttends, AttendsTold
<1>13. PICK w : w = s'
  OBVIOUS
<1>14. Told(w, Tail(events), e) /\ w.next = s.next
  BY <1>3, <1>8, <1>9, <1>11, <1>12, <1>13
<1> QED BY <1>3, <1>13, <1>14 DEF Smooth

LEMMA ReconcileSmooth == ASSUME RuntimeInv, Smooth, Reconcile PROVE Smooth'
<1>1. PICK y : y = CaptureCurrent(s, Progress)
  OBVIOUS
<1>2. s' = y /\ UNCHANGED <<cmds, events, e>>
  BY <1>1 DEF Reconcile
<1>3. s \in SessionSet /\ Progress \in Samplings
  BY FrontEndParts
<1>4. y \in SessionSet /\ y.next = s.next /\ Attends(s, y)
  BY <1>1, <1>3, CaptureCurrentIs, CaptureUnmoved, UnmovedAttends DEF Keeps
<1> QED BY <1>2, <1>4, StandsSmooth

LEMMA FrontEndSmooth == ASSUME RuntimeInv, HeedInv, Smooth, FrontEnd PROVE Smooth'
<1>1. CASE Stop \/ Quit \/ DrainDone
  BY <1>1 DEF Stop, Quit, DrainDone, Smooth
<1> QED BY <1>1, PlayEntrySmooth, PlayDetachedSmooth, QueueSmooth, TransportSmooth, HearsSmooth,
           SampleSmooth, ReconcileSmooth DEF FrontEnd

-----------------------------------------------------------------------------
(* The way to the end: what the front end shuts down stays shut, and a failure  *)
(* is counted. *)

(* The engine holds a media open, not nothing. *)
Holds == e.load # 0 => e.media \in Media

Counted == faults' = faults \/ faults' = faults + 1

LEMMA RestoresCounted == ASSUME NEW x, NEW before, Restores(x, before) PROVE Counted
BY Zenon DEF Restores, Counted, Nothing, Faulty

LEMMA PlayCounted == ASSUME NEW primed, Play(primed) PROVE Counted
<1>1. Nothing => Counted
  BY DEF Nothing, Counted
<1>2. CASE e.state = "Paused"
  BY <1>2, RestoresCounted, Zenon DEF Play, Counted
<1>3. CASE e.state \in {"Stopped", "Loading"}
  <2>1. Restores(e, <<>>)
    BY <1>3 DEF Play
  <2> QED BY <2>1, RestoresCounted
<1>4. CASE e.state = "Failed"
  <2> DEFINE x == [e EXCEPT !.state = "Loading"]
  <2>1. Restores(x, <<StateEvent(x, "Loading")>>) \/ Nothing
    BY <1>4 DEF Play
  <2> QED BY <1>1, <2>1, RestoresCounted
<1>5. CASE e.state \notin {"Paused", "Stopped", "Loading", "Failed"}
  <2>1. Nothing
    BY <1>5 DEF Play
  <2> QED BY <1>1, <2>1
<1> QED BY <1>2, <1>3, <1>4, <1>5

LEMMA PauseCounted == ASSUME Pause PROVE Counted
<1>1. CASE e.state = "Playing" /\ ~e.live
  BY <1>1, Zenon DEF Pause, Faulty, Counted
<1>2. CASE e.state = "Reconnecting" \/ (e.state = "Playing" /\ e.live)
  BY <1>2, Zenon DEF Pause, Counted
<1>3. CASE ~(e.state = "Playing" /\ ~e.live) /\ ~(e.state = "Reconnecting" \/ (e.state = "Playing" /\ e.live))
  <2>1. Nothing
    BY <1>3 DEF Pause
  <2> QED BY <2>1 DEF Nothing, Counted
<1> QED BY <1>1, <1>2, <1>3

LEMMA SeekCounted == ASSUME Seek PROVE Counted
BY Zenon DEF Seek, Nothing, Counted

LEMMA RestartCounted == ASSUME Restart PROVE Counted
<1>1. CASE e.live \/ ~Openable(e)
  <2>1. Nothing
    BY <1>1 DEF Restart
  <2> QED BY <2>1 DEF Nothing, Counted
<1>2. CASE ~e.live /\ Openable(e) /\ Offline /\ e.state # "Stopped"
  BY <1>2, Zenon DEF Restart, Counted
<1>3. CASE ~(e.live \/ ~Openable(e)) /\ ~(~e.live /\ Openable(e) /\ Offline /\ e.state # "Stopped")
  BY <1>3, Zenon DEF Restart, Counted
<1> QED BY <1>1, <1>2, <1>3

LEMMA DispatchCounted == ASSUME RuntimeInv, Dispatch PROVE Counted
<1>1. cmds \in Seq(Submitted(s.next)) /\ cmds # <<>>
  BY FrontEndParts DEF Dispatch
<1>2. PICK c \in Submitted(s.next) : c = Head(cmds)
  BY <1>1, TailIn
<1>3. c.cmd \in {"Load", "PlayLoaded", "Play", "Pause", "Seek", "Restart"}
  BY DEF Submitted, Commands
<1>4. Load(c) \/ Play(TRUE) \/ Play(FALSE) \/ Pause \/ Seek \/ Restart \/ Nothing
  BY <1>2, <1>3 DEF Dispatch
<1>5. Load(c) \/ Nothing => Counted
  BY DEF Load, Nothing, Counted
<1> QED BY <1>4, <1>5, PlayCounted, PauseCounted, SeekCounted, RestartCounted

LEMMA EngineCounted == ASSUME RuntimeInv, Engine PROVE Counted
<1>1. CASE Dispatch
  BY <1>1, DispatchCounted
<1>2. CASE LoadCancelled \/ TakeStop \/ Advance \/ EndOfTrack \/ EngineCloses \/ Discard \/ EngineShutdown
  <2>1. faults' = faults
    BY <1>2, Zenon DEF LoadCancelled, TakeStop, Advance, EndOfTrack, EngineCloses, Discard, EngineShutdown
  <2> QED BY <2>1 DEF Counted
<1>3. CASE LoadFails \/ Breaks \/ Rebuild \/ Lose
  <2>1. Faulty
    BY <1>3 DEF LoadFails, Breaks, Rebuild, Lose
  <2> QED BY <2>1 DEF Faulty, Counted
<1>4. CASE LoadEnds
  <2>1. UNCHANGED faults \/ Faulty
    BY <1>4, LoadEndsAs
  <2> QED BY <2>1 DEF Faulty, Counted
<1>5. CASE Regain
  <2>1. PICK new : Restores(e, new)
    BY <1>5 DEF Regain
  <2> QED BY <2>1, RestoresCounted
<1> QED BY <1>1, <1>2, <1>3, <1>4, <1>5 DEF Engine

(* What no load begins or ends in leaves the load, and the front end where it   *)
(* stands. *)
LEMMA AptHolds == ASSUME Holds, Shut, Aptly PROVE Holds' /\ app' = app /\ e'.loading = e.loading
BY DEF Aptly, Settle, Follows, Holds

LEMMA DispatchHolds ==
  ASSUME RuntimeInv, HeedInv, Holds, Shut, Dispatch PROVE Holds' /\ Shut' /\ app' = app /\ app # "done"
<1>1. /\ cmds \in Seq(Submitted(s.next)) /\ cmds # <<>> /\ EngineFits(e) /\ e \in EngineSet
      /\ app \notin {"closing", "joined", "done"} /\ e.loading = 0
  BY HeedParts, InvParts DEF Dispatch, Shut
<1>2. PICK c \in Submitted(s.next) : c = Head(cmds)
  BY <1>1, TailIn
<1>3. c.cmd \in {"Load", "PlayLoaded", "Play", "Pause", "Seek", "Restart"}
  BY DEF Submitted, Commands
<1>4. CASE c.cmd = "Load"
  <2>1. Load(c)
    BY <1>2, <1>4 DEF Dispatch
  <2> DEFINE x == [e EXCEPT !.rev = @ + 1, !.load = 0, !.loading = c.token, !.media = c.media,
                            !.resume = c.resume, !.pend = NoIntent, !.closed = FALSE,
                            !.revived = FALSE, !.at = StartOf(c.media, c.token)]
             h == [x EXCEPT !.state = "Loading"]
  <2>2. e' = h /\ app' = app
    BY <2>1 DEF Load, Settle
  <2>3. h.load = 0
    <3>1. x.load = 0 /\ DOMAIN x = DOMAIN e
      BY <1>1 DEF EngineSet
    <3> HIDE DEF x
    <3> QED BY <1>1, <3>1 DEF EngineSet
  <2> HIDE DEF h
  <2> QED BY <1>1, <2>2, <2>3 DEF Holds, Shut
<1>5. CASE c.cmd # "Load"
  <2>1. Play(TRUE) \/ Play(FALSE) \/ Pause \/ Seek \/ Restart \/ Nothing
    BY <1>2, <1>3, <1>5 DEF Dispatch
  <2>2. Aptly
    BY <1>1, <2>1, PlayApt, PauseApt, SeekApt, RestartApt, NothingApt
  <2> QED BY <1>1, <2>2, AptHolds DEF Shut
<1> QED BY <1>1, <1>4, <1>5

LEMMA EngineHolds ==
  ASSUME RuntimeInv, HeedInv, Holds, Shut, Engine PROVE Holds' /\ Shut' /\ app' # "done"
<1>1. e \in EngineSet /\ EngineFits(e) /\ (e.loading # 0 => e.media \in Media)
  BY HeedParts, InvParts DEF RuntimeInv, EngineOk
<1>2. CASE Dispatch
  BY <1>2, DispatchHolds
<1>3. CASE TakeStop
  <2>1. Aptly /\ app \notin {"closing", "joined", "done"}
    BY <1>1, <1>3, TakeStopApt DEF TakeStop, Shut
  <2> QED BY <2>1, AptHolds DEF Shut
<1>4. CASE Advance \/ EndOfTrack \/ Breaks \/ Rebuild \/ Lose \/ Regain
  <2>1. Aptly
    BY <1>1, <1>4, AloneApt
  <2>2. app \in {"ui", "drain", "sample", "join"}
    BY <1>4 DEF Advance, EndOfTrack, Breaks, Rebuild, Lose, Regain, Alone
  <2> QED BY <2>1, <2>2, AptHolds DEF Shut
<1>5. CASE LoadCancelled
  <2> DEFINE h == [e EXCEPT !.loading = 0]
  <2>1. e' = h /\ app' = app /\ e.loading # 0
    BY <1>5 DEF LoadCancelled, Settle
  <2>2. h.load = e.load /\ h.media = e.media
    BY <1>1 DEF EngineSet
  <2> HIDE DEF h
  <2> QED BY <2>1, <2>2 DEF Holds, Shut
<1>6. CASE LoadFails
  <2> DEFINE h == [e EXCEPT !.loading = 0, !.state = "Failed"]
  <2>1. e' = h /\ app' = app /\ e.loading # 0
    BY <1>6 DEF LoadFails, Settle
  <2>2. h.load = e.load /\ h.media = e.media
    BY <1>1 DEF EngineSet
  <2> HIDE DEF h
  <2> QED BY <2>1, <2>2 DEF Holds, Shut
<1>7. CASE LoadEnds
  <2>1. PICK x, loaded : /\ LoadsAs(x, loaded)
                         /\ e' = [x EXCEPT !.state = "Paused"] \/ e' = [x EXCEPT !.state = "Failed"]
                         /\ app' = app
    BY <1>7, LoadEndsAs DEF Settle
  <2>2. x \in EngineSet /\ x.media = e.media
    BY <2>1 DEF LoadsAs
  <2>3. e'.media = e.media
    BY <2>1, <2>2 DEF EngineSet
  <2>4. e.loading # 0
    BY <1>7 DEF LoadEnds
  <2> QED BY <1>1, <2>1, <2>3, <2>4 DEF Holds, Shut
<1>8. CASE EngineCloses
  BY <1>8 DEF EngineCloses, Holds, Shut
<1>9. CASE Discard
  BY <1>9 DEF Discard, Settle, Holds, Shut
<1>10. CASE EngineShutdown
  <2> DEFINE h == [e EXCEPT !.state = "Idle"]
  <2>1. e' = h /\ app' = "joined" /\ cmds' = <<>> /\ stopBit' = FALSE /\ e.loading = 0
    BY <1>10 DEF EngineShutdown, Shut
  <2>2. h.load = e.load /\ h.media = e.media /\ h.loading = e.loading
    BY <1>1 DEF EngineSet
  <2> HIDE DEF h
  <2> QED BY <2>1, <2>2 DEF Holds, Shut
<1> QED BY <1>2, <1>3, <1>4, <1>5, <1>6, <1>7, <1>8, <1>9, <1>10 DEF Engine

LEMMA FrontEndHolds ==
  ASSUME Holds, Shut, FrontEnd
  PROVE  Holds' /\ Shut' /\ faults' = faults /\ (app' = "done" => Reconcile)
<1>1. e' = e /\ faults' = faults
  BY DEF FrontEnd, PlayEntry, PlayDetached, Stop, Queue, Quit, Transport, DrainOne, DrainDone,
         Sample, Replay, Reconcile
<1>2. CASE Replay \/ Reconcile
  BY <1>1, <1>2 DEF Replay, Reconcile, Holds, Shut
<1>3. CASE PlayEntry \/ PlayDetached \/ Stop \/ Queue \/ Quit \/ DrainOne \/ DrainDone \/ Sample
           \/ \E kind \in {"Toggle", "Seek", "Restart"} : Transport(kind)
  <2>1. app' \in {"ui", "drain", "sample", "join"}
    BY <1>3 DEF PlayEntry, PlayDetached, Stop, Queue, Quit, Transport, DrainOne, DrainDone,
                Sample, Input, Removes
  <2> QED BY <1>1, <2>1 DEF Holds, Shut
<1> QED BY <1>2, <1>3 DEF FrontEnd

-----------------------------------------------------------------------------
(* The last capture: every event heard, the view is the session's own. *)

LEMMA WriteStores ==
  ASSUME NEW x \in SessionSet, NEW m \in Media, NEW pos, NEW done,
         NEW y, y = Write(x, m, pos, done)
  PROVE  pos \in {y.ck[m].pos, y.ck[m].est}
<1>1. x.ck \in Checkpoints /\ x.ck[m] \in StoredEntries
  BY DEF SessionSet, Checkpoints
<1> DEFINE entry == [pos |-> pos, est |-> NoPos, done |-> done]
           guessed == [x.ck[m] EXCEPT !.est = pos, !.done = done]
<1>2. entry.pos = pos /\ guessed.est = pos
  BY <1>1 DEF StoredEntries
<1> HIDE DEF entry, guessed
<1>3. CASE x.guess
  <2>1. y = [x EXCEPT !.ck = [x.ck EXCEPT ![m] = guessed]]
    BY <1>3 DEF Write, RecordEstimated, guessed
  <2>2. y.ck[m] = guessed
    BY <1>1, <2>1 DEF SessionSet, Checkpoints
  <2> QED BY <1>2, <2>2
<1>4. CASE ~x.guess
  <2>1. y = [x EXCEPT !.ck = [x.ck EXCEPT ![m] = entry]]
    BY <1>4 DEF Write, Record, entry
  <2>2. y.ck[m] = entry
    BY <1>1, <2>1 DEF SessionSet, Checkpoints
  <2> QED BY <1>2, <2>2
<1> QED BY <1>3, <1>4

LEMMA CaptureStores ==
  ASSUME RuntimeInv, HeedInv, Holds, Smooth, events = <<>>,
         NEW y, y = CaptureCurrent(s, Progress), e.load \in e.heard \ {0},
         y.adopted.token = e.load, y.last = e.load, y.checkpointable,
         e.at.kind \in {"sure", "guess"}
  PROVE  (IF e.pend = NoIntent THEN e.at ELSE e.pend.to)
            \in {y.ck[e.media].pos, y.ck[e.media].est}
<1>1. /\ s \in SessionSet /\ e \in EngineSet /\ SessionFits(s, e) /\ EngineFits(e)
      /\ e.at \in Positions /\ Progress \in Samplings
  BY HeedParts, InvParts, FrontEndParts
<1>2. Alike(s, y) /\ y.last = s.last
  BY <1>1, CaptureFits, ShownIsProgress
<1>3. /\ e.load # 0 /\ s.adopted.token = e.load /\ s.last = e.load /\ s.checkpointable
      /\ Owning(s)
  BY <1>2 DEF Alike, Owning
<1>4. s.media = e.media /\ e.media \in Media /\ s.media # NoMedia
  BY <1>1, <1>3, RuntimeAssumption DEF SessionFits, LoadFits, Holds
<1>5. PICK v : Shows(s, v) /\ Suits(v, e)
  <2>1. PICK p : Path(p, events) /\ Shows(s, p[1]) /\ Suits(p[Len(events) + 1], e)
    BY <1>3 DEF Smooth, Told
  <2>2. Len(events) + 1 = 1
    OBVIOUS
  <2> QED BY <2>1, <2>2
<1>6. s.rev = e.rev /\ s.target = Goal(e) /\ s.established /\ ~s.protected
  BY <1>3, <1>5 DEF Shows, Suits
<1>7. AcceptsSample(s, Progress) /\ Progress.pos = e.at
  BY <1>3, <1>4, <1>6 DEF AcceptsSample, Progress
<1>8. PICK guess \in BOOLEAN : guess = Estimated(e.at)
  BY DEF Estimated
<1> DEFINE z == [s EXCEPT !.guess = guess]
<1>9. y = CheckpointFromProgress(z, e.at)
  BY <1>4, <1>7, <1>8 DEF CaptureCurrent
<1>10. /\ z \in SessionSet /\ z.target = s.target /\ z.media = s.media
       /\ z.established = s.established /\ z.protected = s.protected
       /\ z.checkpointable = s.checkpointable
  BY <1>1 DEF SessionSet
<1> HIDE DEF z
<1>11. PICK final : final = IF e.pend = NoIntent THEN e.at ELSE e.pend.to
  OBVIOUS
<1>12. PositionFor(z, e.at) = final
  <2>1. e.pend # NoIntent => e.pend.to # NoPos
    BY <1>1, NoPosIn DEF EngineFits, Worth
  <2> QED BY <1>6, <1>10, <1>11, <2>1 DEF PositionFor, Goal
<1>13. y = RecordCurrent(z, final)
  BY <1>3, <1>6, <1>9, <1>10, <1>12 DEF CheckpointFromProgress, MayCheckpoint
<1>14. y = Write(z, e.media, final, z.completed)
  BY <1>3, <1>4, <1>6, <1>10, <1>13 DEF RecordCurrent
<1>15. final \in {y.ck[e.media].pos, y.ck[e.media].est}
  BY <1>4, <1>10, <1>14, WriteStores
<1> QED BY <1>11, <1>15

LEMMA ReconcileStores ==
  ASSUME RuntimeInv, HeedInv, Holds, faults = 0 => Smooth, Reconcile PROVE FinalCheckpoint'
<1>1. PICK y : y = CaptureCurrent(s, Progress)
  OBVIOUS
<1>2. s' = y /\ e' = e /\ faults' = faults /\ events = <<>>
  BY <1>1 DEF Reconcile
<1>3. ASSUME faults = 0, e.load \in e.heard \ {0}, y.adopted.token = e.load, y.last = e.load,
             y.checkpointable, e.at.kind \in {"sure", "guess"}
      PROVE  (IF e.pend = NoIntent THEN e.at ELSE e.pend.to)
                \in {y.ck[e.media].pos, y.ck[e.media].est}
  BY <1>1, <1>2, <1>3, CaptureStores
<1> QED BY <1>2, <1>3 DEF FinalCheckpoint

(* Inductive, with RuntimeInv and HeedInv. *)
FinalInv == faults \in Nat /\ Holds /\ Shut /\ (faults = 0 => Smooth) /\ FinalCheckpoint

LEMMA InitSmooth == ASSUME Init PROVE FinalInv
<1>1. PICK set, saved, checkpoints : s = NewSession(set, saved, checkpoints)
  BY DEF Init
<1>2. s.adopted.token = 0
  BY <1>1, NoLoadIn DEF NewSession
<1>3. /\ e.load = 0 /\ e.loading = 0 /\ e.pend = NoIntent /\ e.state = "Idle"
      /\ e.closed = FALSE /\ e.heard = {} /\ faults = 0 /\ app = "ui"
      /\ cmds = <<>> /\ events = <<>>
  BY DEF Init
<1>4. Steady(e) /\ Unheard(s.next, cmds, e)
  BY <1>3 DEF Steady, Unheard
<1>5. Told(s, events, e)
  <2>1. PICK v \in Views : TRUE
    <3>1. [rev |-> 0, established |-> FALSE, protected |-> FALSE, target |-> NoPos,
           open |-> FALSE] \in Views
      BY NoPosIn DEF Views
    <3> QED BY <3>1
  <2>2. Path(<<v>>, events)
    BY <1>3 DEF Path
  <2>3. Suits(<<v>>[Len(events) + 1], e)
    BY <1>3 DEF Suits
  <2>4. ~Owning(s)
    BY <1>2 DEF Owning
  <2> QED BY <2>2, <2>3, <2>4 DEF Told
<1> QED BY <1>3, <1>4, <1>5 DEF FinalInv, Smooth, Holds, Shut, FinalCheckpoint, Finished

LEMMA NextSmooth == ASSUME RuntimeInv, HeedInv, FinalInv, Next PROVE FinalInv'
<1>1. faults \in Nat /\ Holds /\ Shut /\ (faults = 0 => Smooth)
  BY DEF FinalInv
<1>2. CASE FrontEnd
  <2>1. Holds' /\ Shut' /\ faults' = faults /\ (app' = "done" => Reconcile)
    BY <1>1, <1>2, FrontEndHolds
  <2>2. faults' = 0 => Smooth'
    BY <1>1, <1>2, <2>1, FrontEndSmooth
  <2>3. FinalCheckpoint'
    <3>1. CASE Reconcile
      BY <1>1, <3>1, ReconcileStores
    <3>2. CASE app' # "done"
      BY <3>2 DEF FinalCheckpoint, Finished
    <3> QED BY <2>1, <3>1, <3>2
  <2> QED BY <1>1, <2>1, <2>2, <2>3 DEF FinalInv
<1>3. CASE Engine
  <2>1. Holds' /\ Shut' /\ app' # "done"
    BY <1>1, <1>3, EngineHolds
  <2>2. faults' = faults \/ faults' = faults + 1
    BY <1>3, EngineCounted DEF Counted
  <2>3. faults' = 0 => Smooth'
    <3>1. faults' = 0 => faults = 0 /\ faults' = faults
      BY <1>1, <2>2
    <3> QED BY <1>1, <1>3, <3>1, NotFaulty, EngineSmooth
  <2>4. FinalCheckpoint'
    BY <2>1 DEF FinalCheckpoint, Finished
  <2>5. faults' \in Nat
    BY <1>1, <2>2
  <2> QED BY <2>1, <2>3, <2>4, <2>5 DEF FinalInv
<1> QED BY <1>2, <1>3 DEF Next

(* app.rs and runtime.rs: what a shutdown stores for the adopted media that    *)
(* was being heard is its final position, or the target stored for it, unless  *)
(* something failed: every event the engine left is heard first.               *)
THEOREM FinalPositionIsStored == Spec => []FinalCheckpoint
<1> DEFINE Inv == RuntimeInv /\ HeedInv /\ FinalInv
<1>1. Init => Inv
  BY InitIs, InitHeeds, InitSmooth
<1>2. Inv /\ [Next]_vars => Inv'
  <2> SUFFICES ASSUME RuntimeInv, HeedInv, FinalInv, [Next]_vars
               PROVE  RuntimeInv' /\ HeedInv' /\ FinalInv'
    OBVIOUS
  <2>1. RuntimeInv'
    BY NextIs
  <2>2. CASE UNCHANGED vars
    <3>1. UNCHANGED <<s, cmds, events, e, app, stopBit, faults>>
      BY <2>2 DEF vars
    <3>2. HeedInv' /\ FinalInv'
      BY <3>1 DEF HeedInv, FinalInv, Holds, Shut, Smooth, FinalCheckpoint, Finished
    <3> QED BY <2>1, <3>2
  <2>3. CASE Next
    <3>1. HeedInv'
      BY <2>3, FrontEndHeeds, EngineHeeds DEF Next
    <3> QED BY <2>1, <2>3, <3>1, NextSmooth
  <2> QED BY <2>2, <2>3
<1>3. Inv => FinalCheckpoint
  BY DEF FinalInv
<1> QED BY <1>1, <1>2, <1>3, PTL DEF Spec

-----------------------------------------------------------------------------
(* At rest.  The state the front end shows follows what the events say of it.  *)

Says(ev) == ev.k \in {"State", "EndOfTrack", "Loaded"}
Said(ev) ==
    IF ev.k = "State" THEN ev.state ELSE IF ev.k = "EndOfTrack" THEN "Ended" ELSE "Loading"

(* What was shown as one state is shown as another when evs are heard. *)
Mute(evs) == \A i \in DOMAIN evs : ~Says(evs[i])
Speaking(evs, to) ==
    \E i \in DOMAIN evs : /\ Says(evs[i]) /\ Said(evs[i]) = to
                          /\ \A j \in DOMAIN evs : i < j => ~Says(evs[j])
Shifts(evs, from, to) == (Mute(evs) /\ to = from) \/ Speaking(evs, to)
(* An end of track is heard while the state shown is Playing. *)
PlaysAt(evs, i, from) ==
    \/ from = "Playing" /\ \A k \in DOMAIN evs : k < i => ~Says(evs[k])
    \/ \E j \in DOMAIN evs : /\ j < i /\ Says(evs[j]) /\ Said(evs[j]) = "Playing"
                             /\ \A k \in DOMAIN evs : j < k /\ k < i => ~Says(evs[k])
EndsPlaying(evs, from) ==
    \A i \in DOMAIN evs : evs[i].k = "EndOfTrack" => PlaysAt(evs, i, from)
Tells(evs, from, to) == Shifts(evs, from, to) /\ EndsPlaying(evs, from)

LEMMA TellsOn ==
  ASSUME NEW S, NEW p \in Seq(S), NEW q \in Seq(S), NEW x, NEW y, NEW z,
         Tells(p, x, y), Tells(q, y, z)
  PROVE  Tells(p \o q, x, z)
<1> DEFINE j == p \o q
<1>1. /\ Len(p) \in Nat /\ Len(q) \in Nat /\ DOMAIN p = 1 .. Len(p) /\ DOMAIN q = 1 .. Len(q)
      /\ DOMAIN j = 1 .. Len(p) + Len(q)
      /\ \A i \in DOMAIN p : j[i] = p[i]
      /\ \A i \in DOMAIN q : j[Len(p) + i] = q[i]
      /\ \A i \in DOMAIN j :
            i \in DOMAIN p \/ (i > Len(p) /\ i - Len(p) \in DOMAIN q /\ j[i] = q[i - Len(p)])
  BY JoinAt
<1> HIDE DEF j
<1>2. ASSUME Speaking(q, z) PROVE Speaking(j, z)
  <2>1. PICK i \in DOMAIN q : /\ Says(q[i]) /\ Said(q[i]) = z
                              /\ \A k \in DOMAIN q : i < k => ~Says(q[k])
    BY <1>2 DEF Speaking
  <2>2. PICK n : n = Len(p) + i
    OBVIOUS
  <2>3. n \in DOMAIN j /\ j[n] = q[i]
    BY <1>1, <2>2
  <2>4. ASSUME NEW k \in DOMAIN j, n < k PROVE ~Says(j[k])
    <3>1. k - Len(p) \in DOMAIN q /\ j[k] = q[k - Len(p)] /\ i < k - Len(p)
      BY <1>1, <2>2, <2>4
    <3> QED BY <2>1, <3>1
  <2> QED BY <2>1, <2>3, <2>4 DEF Speaking
<1>3. ASSUME Mute(q), Speaking(p, z) PROVE Speaking(j, z)
  <2>1. PICK i \in DOMAIN p : /\ Says(p[i]) /\ Said(p[i]) = z
                              /\ \A k \in DOMAIN p : i < k => ~Says(p[k])
    BY <1>3 DEF Speaking
  <2>2. i \in DOMAIN j /\ j[i] = p[i]
    BY <1>1
  <2>3. ASSUME NEW k \in DOMAIN j, i < k PROVE ~Says(j[k])
    BY <1>1, <1>3, <2>1, <2>3 DEF Mute
  <2> QED BY <2>1, <2>2, <2>3 DEF Speaking
<1>4. ASSUME Mute(p), Mute(q) PROVE Mute(j)
  BY <1>1, <1>4 DEF Mute
<1>5. Shifts(p, x, y) /\ Shifts(q, y, z) /\ EndsPlaying(p, x) /\ EndsPlaying(q, y)
  BY DEF Tells
<1>6. Shifts(j, x, z)
  BY <1>2, <1>3, <1>4, <1>5 DEF Shifts
<1>7. ASSUME NEW i \in DOMAIN p, PlaysAt(p, i, x) PROVE PlaysAt(j, i, x)
  <2>1. i \in Nat /\ i <= Len(p)
    BY <1>1
  <2>2. \A k \in DOMAIN j : k < i => k \in DOMAIN p /\ j[k] = p[k]
    BY <1>1, <2>1
  <2>3. CASE x = "Playing" /\ \A k \in DOMAIN p : k < i => ~Says(p[k])
    <3>1. \A k \in DOMAIN j : k < i => ~Says(j[k])
      BY <2>2, <2>3
    <3> QED BY <2>3, <3>1 DEF PlaysAt
  <2>4. ASSUME NEW n \in DOMAIN p, n < i, Says(p[n]), Said(p[n]) = "Playing",
               \A k \in DOMAIN p : n < k /\ k < i => ~Says(p[k])
        PROVE  PlaysAt(j, i, x)
    <3>1. n \in DOMAIN j /\ j[n] = p[n]
      BY <1>1
    <3>2. \A k \in DOMAIN j : n < k /\ k < i => ~Says(j[k])
      BY <2>2, <2>4
    <3> QED BY <2>4, <3>1, <3>2 DEF PlaysAt
  <2> QED BY <1>7, <2>3, <2>4 DEF PlaysAt
<1>8. ASSUME NEW n \in DOMAIN q, PlaysAt(q, n, y) PROVE PlaysAt(j, Len(p) + n, x)
  <2>1. PICK i : i = Len(p) + n
    OBVIOUS
  <2>2. i \in DOMAIN j /\ n \in Nat /\ n >= 1
    BY <1>1, <2>1
  <2>3. \A k \in DOMAIN j : k < i => \/ k \in DOMAIN p /\ j[k] = p[k] /\ k <= Len(p)
                                     \/ /\ k > Len(p) /\ k - Len(p) \in DOMAIN q /\ k - Len(p) < n
                                        /\ j[k] = q[k - Len(p)]
    BY <1>1, <2>1, <2>2
  <2>4. ASSUME NEW m \in DOMAIN q, m < n, Says(q[m]), Said(q[m]) = "Playing",
               \A k \in DOMAIN q : m < k /\ k < n => ~Says(q[k])
        PROVE  PlaysAt(j, i, x)
    <3>1. PICK h : h = Len(p) + m
      OBVIOUS
    <3>2. h \in DOMAIN j /\ j[h] = q[m] /\ h < i
      BY <1>1, <2>1, <2>2, <2>4, <3>1
    <3>3. ASSUME NEW k \in DOMAIN j, h < k, k < i PROVE ~Says(j[k])
      <4>1. /\ k - Len(p) \in DOMAIN q /\ m < k - Len(p) /\ k - Len(p) < n
            /\ j[k] = q[k - Len(p)]
        BY <1>1, <2>1, <2>2, <2>3, <3>1, <3>3
      <4> QED BY <2>4, <4>1
    <3> QED BY <2>4, <3>2, <3>3 DEF PlaysAt
  <2>5. ASSUME y = "Playing", \A k \in DOMAIN q : k < n => ~Says(q[k]) PROVE PlaysAt(j, i, x)
    <3>1. CASE Mute(p) /\ y = x
      <4>1. ASSUME NEW k \in DOMAIN j, k < i PROVE ~Says(j[k])
        <5>1. CASE k \in DOMAIN p /\ j[k] = p[k]
          BY <3>1, <5>1 DEF Mute
        <5>2. CASE k - Len(p) \in DOMAIN q /\ k - Len(p) < n /\ j[k] = q[k - Len(p)]
          <6>1. PICK m \in DOMAIN q : m = k - Len(p)
            BY <5>2
          <6> QED BY <2>5, <5>2, <6>1
        <5> QED BY <2>3, <4>1, <5>1, <5>2
      <4> QED BY <2>5, <3>1, <4>1 DEF PlaysAt
    <3>2. CASE Speaking(p, y)
      <4>1. PICK h \in DOMAIN p : /\ Says(p[h]) /\ Said(p[h]) = y
                                  /\ \A k \in DOMAIN p : h < k => ~Says(p[k])
        BY <3>2 DEF Speaking
      <4>2. h \in DOMAIN j /\ j[h] = p[h] /\ h < i
        BY <1>1, <2>1, <2>2
      <4>3. ASSUME NEW k \in DOMAIN j, h < k, k < i PROVE ~Says(j[k])
        <5>1. CASE k \in DOMAIN p /\ j[k] = p[k]
          BY <4>1, <4>3, <5>1
        <5>2. CASE k - Len(p) \in DOMAIN q /\ k - Len(p) < n /\ j[k] = q[k - Len(p)]
          <6>1. PICK m \in DOMAIN q : m = k - Len(p)
            BY <5>2
          <6> QED BY <2>5, <5>2, <6>1
        <5> QED BY <2>3, <4>3, <5>1, <5>2
      <4> QED BY <2>5, <4>1, <4>2, <4>3 DEF PlaysAt
    <3> QED BY <1>5, <3>1, <3>2 DEF Shifts
  <2>6. \/ y = "Playing" /\ \A k \in DOMAIN q : k < n => ~Says(q[k])
        \/ \E m \in DOMAIN q : /\ m < n /\ Says(q[m]) /\ Said(q[m]) = "Playing"
                                /\ \A k \in DOMAIN q : m < k /\ k < n => ~Says(q[k])
    BY <1>8 DEF PlaysAt
  <2>7. PlaysAt(j, i, x)
    BY <2>4, <2>5, <2>6
  <2> QED BY <2>1, <2>7
<1>9. EndsPlaying(j, x)
  <2> SUFFICES ASSUME NEW i \in DOMAIN j, j[i].k = "EndOfTrack" PROVE PlaysAt(j, i, x)
    BY DEF EndsPlaying
  <2>1. CASE i \in DOMAIN p
    <3>1. PlaysAt(p, i, x)
      BY <1>1, <1>5, <2>1 DEF EndsPlaying
    <3> QED BY <1>7, <2>1, <3>1
  <2>2. CASE i > Len(p) /\ i - Len(p) \in DOMAIN q /\ j[i] = q[i - Len(p)]
    <3>1. PICK n \in DOMAIN q : n = i - Len(p)
      BY <2>2
    <3>2. PlaysAt(q, n, y) /\ i = Len(p) + n
      BY <1>1, <1>5, <2>2, <3>1 DEF EndsPlaying
    <3> QED BY <1>8, <3>2
  <2> QED BY <1>1, <2>1, <2>2
<1>10. Tells(j, x, z)
  BY <1>6, <1>9 DEF Tells
<1> QED BY <1>10 DEF j

LEMMA TellsTail ==
  ASSUME NEW S, NEW evs \in Seq(S), evs # <<>>, NEW from, NEW to, Tells(evs, from, to)
  PROVE  \E mid : /\ Tells(Tail(evs), mid, to)
                  /\ mid = IF Says(Head(evs)) THEN Said(Head(evs)) ELSE from
<1>1. /\ DOMAIN evs = 1 .. Len(evs) /\ DOMAIN Tail(evs) = 1 .. Len(evs) - 1
      /\ \A i \in DOMAIN Tail(evs) : i \in Nat /\ i + 1 \in DOMAIN evs /\ Tail(evs)[i] = evs[i + 1]
      /\ 1 \in DOMAIN evs /\ Head(evs) = evs[1] /\ Len(evs) \in Nat
  BY TailAt
<1>2. PICK t : t = Tail(evs)
  OBVIOUS
<1>3. PICK mid : mid = IF Says(Head(evs)) THEN Said(Head(evs)) ELSE from
  OBVIOUS
<1>4. ASSUME Mute(evs), to = from PROVE Shifts(t, mid, to)
  <2>1. Mute(t)
    BY <1>1, <1>2, <1>4 DEF Mute
  <2>2. mid = to
    BY <1>1, <1>3, <1>4 DEF Mute
  <2> QED BY <2>1, <2>2 DEF Shifts
<1>5. ASSUME Speaking(evs, to) PROVE Shifts(t, mid, to)
  <2>1. PICK i \in DOMAIN evs : /\ Says(evs[i]) /\ Said(evs[i]) = to
                                /\ \A k \in DOMAIN evs : i < k => ~Says(evs[k])
    BY <1>5 DEF Speaking
  <2>2. CASE i = 1
    <3>1. Mute(t)
      BY <1>1, <1>2, <2>1, <2>2 DEF Mute
    <3>2. mid = to
      BY <1>1, <1>3, <2>1, <2>2
    <3> QED BY <3>1, <3>2 DEF Shifts
  <2>3. CASE i # 1
    <3>1. PICK n : n = i - 1
      OBVIOUS
    <3>2. n \in DOMAIN t /\ t[n] = evs[i]
      BY <1>1, <1>2, <2>3, <3>1
    <3>3. ASSUME NEW k \in DOMAIN t, n < k PROVE ~Says(t[k])
      <4>1. k + 1 \in DOMAIN evs /\ t[k] = evs[k + 1] /\ i < k + 1
        BY <1>1, <1>2, <3>1, <3>3
      <4> QED BY <2>1, <4>1
    <3>4. Speaking(t, to)
      BY <2>1, <3>2, <3>3 DEF Speaking
    <3> QED BY <3>4 DEF Shifts
  <2> QED BY <2>2, <2>3
<1>6. Shifts(evs, from, to) /\ EndsPlaying(evs, from)
  BY DEF Tells
<1>7. Shifts(t, mid, to)
  BY <1>4, <1>5, <1>6 DEF Shifts
<1>8. ASSUME NEW i \in DOMAIN t, PlaysAt(evs, i + 1, from) PROVE PlaysAt(t, i, mid)
  <2>1. i \in Nat /\ i >= 1
    BY <1>1, <1>2
  <2>2. \A k \in DOMAIN t : k \in Nat /\ k >= 1 /\ k + 1 \in DOMAIN evs /\ t[k] = evs[k + 1]
    BY <1>1, <1>2
  <2>3. CASE from = "Playing" /\ \A k \in DOMAIN evs : k < i + 1 => ~Says(evs[k])
    <3>1. mid = "Playing"
      BY <1>1, <1>3, <2>1, <2>3
    <3>2. \A k \in DOMAIN t : k < i => ~Says(t[k])
      BY <2>1, <2>2, <2>3
    <3> QED BY <3>1, <3>2 DEF PlaysAt
  <2>4. ASSUME NEW j \in DOMAIN evs, j < i + 1, Says(evs[j]), Said(evs[j]) = "Playing",
               \A k \in DOMAIN evs : j < k /\ k < i + 1 => ~Says(evs[k])
        PROVE  PlaysAt(t, i, mid)
    <3>1. CASE j = 1
      <4>1. mid = "Playing"
        BY <1>1, <1>3, <2>4, <3>1
      <4>2. ASSUME NEW k \in DOMAIN t, k < i PROVE ~Says(t[k])
        <5>1. /\ k + 1 \in DOMAIN evs /\ t[k] = evs[k + 1] /\ j < k + 1 /\ k + 1 < i + 1
          BY <2>1, <2>2, <3>1, <4>2
        <5> QED BY <2>4, <5>1
      <4> QED BY <4>1, <4>2 DEF PlaysAt
    <3>2. CASE j # 1
      <4>1. PICK n : n = j - 1
        OBVIOUS
      <4>2. n \in DOMAIN t /\ t[n] = evs[j] /\ n < i
        BY <1>1, <1>2, <2>1, <2>4, <3>2, <4>1
      <4>3. ASSUME NEW k \in DOMAIN t, n < k, k < i PROVE ~Says(t[k])
        <5>1. k + 1 \in DOMAIN evs /\ t[k] = evs[k + 1] /\ j < k + 1 /\ k + 1 < i + 1
          BY <1>1, <2>1, <2>2, <4>1, <4>3
        <5> QED BY <2>4, <5>1
      <4> QED BY <2>4, <4>2, <4>3 DEF PlaysAt
    <3> QED BY <3>1, <3>2
  <2> QED BY <1>8, <2>3, <2>4 DEF PlaysAt
<1>9. EndsPlaying(t, mid)
  <2> SUFFICES ASSUME NEW i \in DOMAIN t, t[i].k = "EndOfTrack" PROVE PlaysAt(t, i, mid)
    BY DEF EndsPlaying
  <2>1. i + 1 \in DOMAIN evs /\ evs[i + 1].k = "EndOfTrack"
    BY <1>1, <1>2
  <2>2. PlaysAt(evs, i + 1, from)
    BY <1>6, <2>1 DEF EndsPlaying
  <2> QED BY <1>8, <2>2
<1> QED BY <1>2, <1>3, <1>7, <1>9 DEF Tells

LEMMA TellsNothing == ASSUME NEW st PROVE Tells(<<>>, st, st) /\ Mute(<<>>)
BY DEF Tells, Shifts, EndsPlaying, Mute

LEMMA TellsOne ==
  ASSUME NEW ev
  PROVE  /\ Says(ev) /\ ev.k # "EndOfTrack" => \A from : Tells(<<ev>>, from, Said(ev))
         /\ ev.k = "EndOfTrack" => Tells(<<ev>>, "Playing", "Ended")
         /\ ~Says(ev) => \A st : Tells(<<ev>>, st, st)
<1>1. PICK q : q = <<ev>>
  OBVIOUS
<1>2. DOMAIN q = {1} /\ q[1] = ev
  BY <1>1
<1>3. Says(ev) => \A from : Shifts(q, from, Said(ev))
  BY <1>2 DEF Shifts, Speaking
<1>4. ~Says(ev) => ev.k # "EndOfTrack" /\ \A st : Shifts(q, st, st)
  BY <1>2 DEF Shifts, Mute, Says
<1>5. ev.k # "EndOfTrack" => \A from : EndsPlaying(q, from)
  BY <1>2 DEF EndsPlaying
<1>6. ev.k = "EndOfTrack" => Says(ev) /\ Said(ev) = "Ended"
  BY DEF Says, Said
<1>7. EndsPlaying(q, "Playing")
  BY <1>2 DEF EndsPlaying, PlaysAt
<1> QED BY <1>1, <1>3, <1>4, <1>5, <1>6, <1>7 DEF Tells

LEMMA StateEventSays ==
  ASSUME NEW x \in EngineSet, NEW state \in States
  PROVE  LET a == StateEvent(x, state) IN
         /\ a \in EventSet /\ Says(a) /\ Said(a) = state
         /\ \A from : Tells(<<a>>, from, state)
         /\ Tells(Announced(x, state), x.state, state) /\ Announced(x, state) \in Seq(EventSet)
         /\ <<a>> \in Seq(EventSet)
<1>1. PICK a : a = StateEvent(x, state)
  OBVIOUS
<1>2. x.loading \in Nat /\ x.loading <= x.loading
  BY DEF EngineSet
<1>3. a \in EventSet
  BY <1>1, <1>2, StateEventIn DEF Known
<1>4. a.k = "State" /\ a.state = state
  BY <1>1 DEF StateEvent, Event
<1>5. Says(a) /\ Said(a) = state
  BY <1>4 DEF Says, Said
<1>6. \A from : Tells(<<a>>, from, state)
  BY <1>4, <1>5, TellsOne
<1>7. <<a>> \in Seq(EventSet) /\ <<>> \in Seq(EventSet)
  BY <1>3
<1>8. Tells(Announced(x, state), x.state, state) /\ Announced(x, state) \in Seq(EventSet)
  BY <1>1, <1>6, <1>7, TellsNothing DEF Announced
<1> QED BY <1>1, <1>3, <1>5, <1>6, <1>7, <1>8

(* What places the load, fails, or reports on it says nothing of a state. *)
LEMMA OtherSilent ==
  ASSUME NEW x \in EngineSet, NEW p \in Positions, NEW k \in {"Landing", "TargetStored"}
  PROVE  /\ \A st : Tells(<<Positioned(k, x, p)>>, st, st)
         /\ <<Positioned(k, x, p)>> \in Seq(EventSet)
<1>1. PICK a : a = Positioned(k, x, p)
  OBVIOUS
<1>2. a.k = k
  BY <1>1 DEF Positioned, Event
<1>3. a \in EventSet
  <2>1. PICK n \in Nat : n = 0
    OBVIOUS
  <2>2. PICK kind \in {"Failed", "Landing", "TargetStored", "EndOfTrack", "Capabilities", "DeviceRecovered"} : kind = k
    OBVIOUS
  <2>3. a \in Known(n, x.rev)
    BY <1>1, <2>2, EventIn
  <2> QED BY <2>3 DEF Known
<1>4. ~Says(a)
  BY <1>2 DEF Says
<1>5. <<a>> \in Seq(EventSet)
  BY <1>3
<1> QED BY <1>1, <1>4, <1>5, TellsOne

LEMMA EventSilent ==
  ASSUME NEW x \in EngineSet, NEW k \in {"Failed", "DeviceRecovered"}
  PROVE  /\ \A st : Tells(<<Event(k, x)>>, st, st)
         /\ <<Event(k, x)>> \in Seq(EventSet) /\ Event(k, x) \in EventSet
<1>1. PICK a : a = Event(k, x)
  OBVIOUS
<1>2. a.k = k
  BY <1>1 DEF Event
<1>3. a \in EventSet
  <2>1. PICK n \in Nat : n = 0
    OBVIOUS
  <2>2. PICK kind \in {"Failed", "Landing", "TargetStored", "EndOfTrack", "Capabilities", "DeviceRecovered"} : kind = k
    OBVIOUS
  <2>3. a \in Known(n, x.rev)
    BY <1>1, <2>2, NoPosIn, EventIn
  <2> QED BY <2>3 DEF Known
<1>4. ~Says(a)
  BY <1>2 DEF Says
<1>5. <<a>> \in Seq(EventSet)
  BY <1>3
<1> QED BY <1>1, <1>3, <1>4, <1>5, TellsOne

(* What a handler does of itself: it says what state it comes to, and nothing  *)
(* is taken up again but by a command. *)
Lively == {"Playing", "Paused", "Reconnecting", "Ended"}
Sober ==
    /\ e'.state \in Lively /\ ~e'.revived => e.state \in Lively /\ ~e.revived
    /\ e'.state = "Idle" => e.state = "Idle"
Utters == \E new \in Seq(EventSet) : events' = events \o new /\ Tells(new, e.state, e'.state)
Sounds == Sober /\ Utters

LEMMA SoundsBy ==
  ASSUME NEW h, NEW new \in Seq(EventSet), Settle(h, new), Tells(new, e.state, h.state),
         h.state \in Lively /\ ~h.revived => e.state \in Lively /\ ~e.revived,
         h.state = "Idle" => e.state = "Idle"
  PROVE  Sounds
<1>1. e' = h /\ events' = events \o new
  BY DEF Settle
<1> QED BY <1>1 DEF Sounds, Sober, Utters

LEMMA NothingSounds == ASSUME Nothing PROVE Sounds
<1>1. <<>> \in Seq(EventSet)
  OBVIOUS
<1> QED BY <1>1, TellsNothing, SoundsBy DEF Nothing

LEMMA StateSounds ==
  ASSUME NEW x, x.revived = e.revived, DOMAIN x = DOMAIN e, "state" \in DOMAIN e,
         "revived" \in DOMAIN e, NEW state,
         state \in Lively => e.state \in Lively, state = "Idle" => e.state = "Idle",
         NEW new \in Seq(EventSet), Tells(new, e.state, state), Settle([x EXCEPT !.state = state], new)
  PROVE  Sounds
<1> DEFINE h == [x EXCEPT !.state = state]
<1>1. h.state = state /\ h.revived = e.revived
  OBVIOUS
<1>2. Settle(h, new)
  OBVIOUS
<1> HIDE DEF h
<1> QED BY <1>1, <1>2, SoundsBy

LEMMA PlaysSounds ==
  ASSUME RuntimeInv, e.state # "Idle", NEW x \in EngineSet, x.revived = e.revived,
         NEW before \in Seq(EventSet), NEW after \in Seq(EventSet),
         Tells(before, e.state, x.state), Tells(after, "Playing", "Playing"),
         Plays(x, before, after)
  PROVE  Sounds
<1> DEFINE at == Heard(x.at)
           heard == x.heard \union {e.load}
           revived == x.revived \/ e.state \in {"Stopped", "Loading", "Failed"}
           y == [x EXCEPT !.state = "Playing", !.at = at, !.closed = FALSE]
           h == [y EXCEPT !.heard = heard, !.revived = revived]
<1>1. PICK new : new = before \o Announced(x, "Playing") \o after
  OBVIOUS
<1>2. Settle(h, new)
  BY <1>1 DEF Plays
<1>3. e.state \in States /\ e.revived \in BOOLEAN
  BY InvParts
<1>4. ~revived => e.state \in Lively /\ ~e.revived
  BY <1>3 DEF States, Lively
<1> HIDE DEF at, heard, revived
<1>5. y.state = "Playing" /\ DOMAIN y = DOMAIN x
  BY DEF EngineSet
<1> HIDE DEF y
<1>6. h.state = "Playing" /\ h.revived = revived
  BY <1>5 DEF EngineSet
<1> HIDE DEF h
<1>7. "Playing" \in States
  BY DEF States
<1>8. Tells(Announced(x, "Playing"), x.state, "Playing") /\ Announced(x, "Playing") \in Seq(EventSet)
  BY <1>7, StateEventSays
<1>9. PICK a : a = Announced(x, "Playing")
  OBVIOUS
<1>10. before \o a \in Seq(EventSet) /\ Tells(before \o a, e.state, "Playing")
  BY <1>8, <1>9, TellsOn
<1>12. PICK q : q = before \o a
  OBVIOUS
<1>13. q \in Seq(EventSet) /\ Tells(q, e.state, "Playing")
  BY <1>10, <1>12
<1>14. q \o after \in Seq(EventSet) /\ Tells(q \o after, e.state, "Playing")
  BY <1>13, TellsOn
<1>11. new \in Seq(EventSet) /\ Tells(new, e.state, "Playing")
  BY <1>1, <1>9, <1>12, <1>14
<1> QED BY <1>2, <1>4, <1>6, <1>11, SoundsBy

LEMMA FailsTells ==
  ASSUME NEW x \in EngineSet, NEW before \in Seq(EventSet), NEW from, NEW mid, Tells(before, from, mid)
  PROVE  LET new == before \o <<Event("Failed", x), StateEvent(x, "Failed")>> IN
         new \in Seq(EventSet) /\ Tells(new, from, "Failed")
<1>1. PICK a : a = Event("Failed", x)
  OBVIOUS
<1>2. PICK b : b = StateEvent(x, "Failed")
  OBVIOUS
<1>3. PICK k \in {"Failed", "DeviceRecovered"} : k = "Failed"
  OBVIOUS
<1>4. a \in EventSet /\ <<a>> \in Seq(EventSet) /\ Tells(<<a>>, mid, mid)
  BY <1>1, <1>3, EventSilent
<1>5. "Failed" \in States
  BY DEF States
<1>6. b \in EventSet /\ <<b>> \in Seq(EventSet) /\ Tells(<<b>>, mid, "Failed")
  BY <1>2, <1>5, StateEventSays
<1>7. <<a>> \o <<b>> = <<a, b>>
  BY Joins
<1>8. PICK q : q = <<a, b>>
  OBVIOUS
<1>11. PICK u : u = <<a>>
  OBVIOUS
<1>12. PICK v : v = <<b>>
  OBVIOUS
<1>14. u \in Seq(EventSet) /\ v \in Seq(EventSet) /\ Tells(u, mid, mid) /\ Tells(v, mid, "Failed")
  BY <1>4, <1>6, <1>11, <1>12
<1>13. u \o v \in Seq(EventSet) /\ Tells(u \o v, mid, "Failed")
  BY <1>14, TellsOn
<1>9. q \in Seq(EventSet) /\ Tells(q, mid, "Failed")
  BY <1>7, <1>8, <1>11, <1>12, <1>13
<1>10. before \o q \in Seq(EventSet) /\ Tells(before \o q, from, "Failed")
  BY <1>9, TellsOn
<1> QED BY <1>1, <1>2, <1>8, <1>10

LEMMA RestoresSounds ==
  ASSUME RuntimeInv, e.state # "Idle", NEW x \in EngineSet, x.revived = e.revived,
         NEW before \in Seq(EventSet), Tells(before, e.state, x.state), Restores(x, before)
  PROVE  Sounds
<1>1. /\ x.at \in Positions /\ x.pend.to \in Positions /\ x.media \in MediaN
      /\ x.earned \in SUBSET MediaN
  BY DEF EngineSet, Intents
<1>2. CASE Nothing
  BY <1>2, NothingSounds
<1>3. CASE \E pos \in (IF x.live THEN {x.at}
                       ELSE Relandings(IF x.pend = NoIntent THEN x.at ELSE x.pend.to)) :
             Plays([x EXCEPT !.at = pos, !.pend = NoIntent,
                             !.earned = @ \union Restarted(x)], before,
                   IF x.pend = NoIntent \/ x.live THEN <<>>
                   ELSE <<Positioned("Landing", x, pos)>>)
  <2>1. PICK pos \in (IF x.live THEN {x.at}
                      ELSE Relandings(IF x.pend = NoIntent THEN x.at ELSE x.pend.to)) :
             Plays([x EXCEPT !.at = pos, !.pend = NoIntent,
                             !.earned = @ \union Restarted(x)], before,
                   IF x.pend = NoIntent \/ x.live THEN <<>>
                   ELSE <<Positioned("Landing", x, pos)>>)
    BY <1>3
  <2> DEFINE earned == x.earned \union Restarted(x)
             y == [x EXCEPT !.at = pos, !.pend = NoIntent]
             z == [y EXCEPT !.earned = earned]
             after == IF x.pend = NoIntent \/ x.live THEN <<>>
                      ELSE <<Positioned("Landing", x, pos)>>
  <2>2. Plays(z, before, after)
    BY <2>1
  <2>3. pos \in Positions
    <3>1. PICK p \in Positions : pos \in Relandings(p) \/ pos = p
      BY <1>1, <2>1
    <3> QED BY <3>1, RelandingsIn
  <2>4. after \in Seq(EventSet) /\ Tells(after, "Playing", "Playing")
    <3>1. PICK k \in {"Landing", "TargetStored"} : k = "Landing"
      OBVIOUS
    <3>2. PICK a : a = <<Positioned("Landing", x, pos)>>
      OBVIOUS
    <3>3. a \in Seq(EventSet) /\ Tells(a, "Playing", "Playing")
      BY <2>3, <3>1, <3>2, OtherSilent
    <3>4. <<>> \in Seq(EventSet)
      OBVIOUS
    <3> QED BY <3>2, <3>3, <3>4, TellsNothing
  <2> HIDE DEF after
  <2>5. earned \in SUBSET MediaN
    BY <1>1 DEF Restarted
  <2> HIDE DEF earned
  <2>6. y \in EngineSet
    BY <1>1, <2>3, NoIntentIn DEF EngineSet
  <2>7. y.state = x.state /\ y.revived = e.revived
    BY DEF EngineSet
  <2> HIDE DEF y
  <2>8. z \in EngineSet
    BY <2>5, <2>6 DEF EngineSet
  <2>9. z.state = x.state /\ z.revived = e.revived
    BY <2>6, <2>7 DEF EngineSet
  <2> HIDE DEF z
  <2> QED BY <2>2, <2>4, <2>8, <2>9, PlaysSounds
<1>4. CASE Settle([x EXCEPT !.state = "Stopped"], before \o Announced(x, "Stopped"))
  <2>1. PICK a : a = Announced(x, "Stopped")
    OBVIOUS
  <2>2. "Stopped" \in States
    BY DEF States
  <2>3. a \in Seq(EventSet) /\ Tells(a, x.state, "Stopped")
    BY <2>1, <2>2, StateEventSays
  <2>4. before \o a \in Seq(EventSet) /\ Tells(before \o a, e.state, "Stopped")
    BY <2>3, TellsOn
  <2>5. DOMAIN x = DOMAIN e /\ "state" \in DOMAIN e /\ "revived" \in DOMAIN e
    BY InvParts DEF EngineSet
  <2>6. Settle([x EXCEPT !.state = "Stopped"], before \o a)
    BY <1>4, <2>1
  <2>7. PICK state : state = "Stopped" /\ state \notin Lively
    BY DEF Lively
  <2> QED BY <2>4, <2>5, <2>6, <2>7, StateSounds
<1>5. CASE Settle([x EXCEPT !.state = "Failed"],
                  before \o <<Event("Failed", x), StateEvent(x, "Failed")>>)
  <2>1. PICK new : new = before \o <<Event("Failed", x), StateEvent(x, "Failed")>>
    OBVIOUS
  <2>2. new \in Seq(EventSet) /\ Tells(new, e.state, "Failed")
    BY <2>1, FailsTells
  <2>3. DOMAIN x = DOMAIN e /\ "state" \in DOMAIN e /\ "revived" \in DOMAIN e
    BY InvParts DEF EngineSet
  <2>4. PICK state : state = "Failed" /\ state \notin Lively
    BY DEF Lively
  <2>5. Settle([x EXCEPT !.state = state], new)
    BY <1>5, <2>1, <2>4
  <2> QED BY <2>2, <2>3, <2>4, <2>5, StateSounds
<1> QED BY <1>2, <1>3, <1>4, <1>5 DEF Restores

LEMMA PlaySounds == ASSUME RuntimeInv, Play(TRUE) \/ Play(FALSE) PROVE Sounds
<1>1. e \in EngineSet /\ e.state \in States
  BY InvParts
<1>2. <<>> \in Seq(EventSet)
  OBVIOUS
<1>3. CASE e.state = "Paused" /\ Plays(e, <<>>, <<>>)
  BY <1>1, <1>2, <1>3, TellsNothing, PlaysSounds
<1>4. CASE e.state \in {"Paused", "Stopped", "Loading"} /\ Restores(e, <<>>)
  BY <1>1, <1>2, <1>4, TellsNothing, RestoresSounds
<1>5. CASE LET x == [e EXCEPT !.state = "Loading"]
           IN e.state = "Failed" /\ Restores(x, <<StateEvent(x, "Loading")>>)
  <2> DEFINE x == [e EXCEPT !.state = "Loading"]
  <2>1. "Loading" \in States
    BY DEF States
  <2>2. x \in EngineSet /\ x.state = "Loading" /\ x.revived = e.revived
    BY <1>1, <2>1 DEF EngineSet
  <2>3. e.state = "Failed" /\ Restores(x, <<StateEvent(x, "Loading")>>)
    BY <1>5
  <2> HIDE DEF x
  <2>4. PICK before : before = <<StateEvent(x, "Loading")>>
    OBVIOUS
  <2>5. before \in Seq(EventSet) /\ Tells(before, e.state, "Loading")
    BY <2>1, <2>2, <2>4, StateEventSays
  <2> QED BY <2>2, <2>3, <2>4, <2>5, RestoresSounds
<1>6. CASE Nothing
  BY <1>6, NothingSounds
<1>7. \/ e.state = "Paused" /\ Plays(e, <<>>, <<>>)
      \/ e.state \in {"Paused", "Stopped", "Loading"} /\ Restores(e, <<>>)
      \/ LET x == [e EXCEPT !.state = "Loading"]
         IN e.state = "Failed" /\ Restores(x, <<StateEvent(x, "Loading")>>)
      \/ Nothing
  BY DEF Play
<1> QED BY <1>3, <1>4, <1>5, <1>6, <1>7

(* A state is said, by the engine or by what it becomes. *)
LEMMA SaidSounds ==
  ASSUME NEW x \in EngineSet, NEW h, h.revived = e.revived, h.state \in States,
         h.state \in Lively => e.state \in Lively, h.state = "Idle" => e.state = "Idle",
         Settle(h, <<StateEvent(x, h.state)>>)
  PROVE  Sounds
<1>1. PICK new : new = <<StateEvent(x, h.state)>>
  OBVIOUS
<1>2. new \in Seq(EventSet) /\ Tells(new, e.state, h.state)
  BY <1>1, StateEventSays
<1> QED BY <1>1, <1>2, SoundsBy

LEMMA PauseSounds == ASSUME RuntimeInv, Pause PROVE Sounds
<1>1. e \in EngineSet /\ e.state \in States /\ e.rev \in Nat /\ "Paused" \in States
  BY InvParts DEF States
<1>2. CASE e.state = "Playing" /\ Settle([e EXCEPT !.state = "Paused"], <<StateEvent(e, "Paused")>>)
  <2> DEFINE h == [e EXCEPT !.state = "Paused"]
  <2>1. h.state = "Paused" /\ h.revived = e.revived
    BY <1>1 DEF EngineSet
  <2>2. Settle(h, <<StateEvent(e, "Paused")>>)
    BY <1>2
  <2> HIDE DEF h
  <2> QED BY <1>1, <1>2, <2>1, <2>2, SaidSounds DEF Lively
<1>3. CASE /\ e.state \in {"Playing", "Reconnecting"}
           /\ \/ Settle(PauseCloses(e), <<StateEvent(e, "Paused")>>)
              \/ Settle(PauseCloses(e), <<StateEvent(PauseCloses(e), "Paused")>>)
  <2> DEFINE rev == e.rev + 1
             y == [e EXCEPT !.rev = rev, !.state = "Paused"]
             x == PauseCloses(e)
  <2>1. rev \in Nat
    BY <1>1
  <2>2. x = [y EXCEPT !.closed = TRUE]
    BY <1>1 DEF PauseCloses, EngineSet
  <2> HIDE DEF rev
  <2>3. y \in EngineSet /\ y.state = "Paused" /\ y.revived = e.revived
    BY <1>1, <2>1 DEF EngineSet
  <2> HIDE DEF y
  <2>4. \/ Settle(x, <<StateEvent(e, "Paused")>>)
        \/ Settle(x, <<StateEvent(x, "Paused")>>)
    BY <1>3
  <2> HIDE DEF x
  <2>5. x \in EngineSet /\ x.state = "Paused" /\ x.revived = e.revived
    BY <2>2, <2>3 DEF EngineSet
  <2> QED BY <1>1, <1>3, <2>4, <2>5, SaidSounds DEF Lively
<1>4. CASE Nothing
  BY <1>4, NothingSounds
<1> QED BY <1>2, <1>3, <1>4 DEF Pause

LEMMA StoredSounds ==
  ASSUME RuntimeInv, NEW what \in {"seek", "restart"}, NEW n \in Nat, Stored(what, n)
  PROVE  Sounds
<1> DEFINE to == [of |-> e.media, n |-> n,
                  kind |-> IF e.at.kind = "guess" THEN "guess" ELSE "sure"]
           intent == [what |-> what, to |-> to]
           heard == e.heard \union {e.load}
           h == [e EXCEPT !.pend = intent, !.heard = heard]
<1>1. e \in EngineSet /\ e.media \in MediaN
  BY InvParts
<1>2. to \in Positions
  BY <1>1 DEF Positions, MediaN
<1>3. Settle(h, <<Positioned("TargetStored", e, to)>>)
  BY DEF Stored
<1> HIDE DEF to, heard, intent
<1>4. h.state = e.state /\ h.revived = e.revived
  BY <1>1 DEF EngineSet
<1> HIDE DEF h
<1>5. PICK k \in {"Landing", "TargetStored"} : k = "TargetStored"
  OBVIOUS
<1>6. PICK new : new = <<Positioned("TargetStored", e, to)>>
  OBVIOUS
<1>7. new \in Seq(EventSet) /\ Tells(new, e.state, h.state)
  BY <1>1, <1>2, <1>4, <1>5, <1>6, OtherSilent
<1> QED BY <1>3, <1>4, <1>6, <1>7, SoundsBy

LEMMA SeekSounds == ASSUME RuntimeInv, Seek PROVE Sounds
<1>1. e \in EngineSet /\ e.media \in MediaN /\ e.state \in States
  BY InvParts
<1>2. CASE Nothing
  BY <1>2, NothingSounds
<1>3. CASE \E n \in 0 .. MaxPos : Stored("seek", n)
  <2>1. PICK n \in 0 .. MaxPos : Stored("seek", n)
    BY <1>3
  <2>2. n \in Nat
    BY RuntimeAssumption
  <2>3. PICK what \in {"seek", "restart"} : what = "seek"
    OBVIOUS
  <2> QED BY <2>1, <2>2, <2>3, StoredSounds
<1>4. ASSUME NEW n \in 0 .. MaxPos, NEW pos \in Landings(e.media, n),
             LET state == IF e.state = "Ended" THEN "Paused" ELSE e.state
             IN Settle([e EXCEPT !.at = pos, !.pend = NoIntent,
                                 !.heard = @ \union {e.load}, !.state = state],
                       Announced(e, state) \o <<Positioned("Landing", e, pos)>>)
      PROVE  Sounds
  <2> DEFINE state == IF e.state = "Ended" THEN "Paused" ELSE e.state
             heard == e.heard \union {e.load}
             y == [e EXCEPT !.at = pos, !.pend = NoIntent]
             h == [y EXCEPT !.heard = heard, !.state = state]
  <2>1. n \in Nat
    BY RuntimeAssumption
  <2>2. pos \in Positions
    BY <1>1, <2>1, LandingsIn
  <2>3. Settle(h, Announced(e, state) \o <<Positioned("Landing", e, pos)>>)
    BY <1>4
  <2>4. state \in States /\ (state \in Lively => e.state \in Lively) /\ (state = "Idle" => e.state = "Idle")
    BY <1>1 DEF States, Lively
  <2> HIDE DEF state, heard
  <2>5. DOMAIN y = DOMAIN e /\ y.revived = e.revived
    BY <1>1 DEF EngineSet
  <2> HIDE DEF y
  <2>6. h.state = state /\ h.revived = e.revived
    BY <1>1, <2>5 DEF EngineSet
  <2> HIDE DEF h
  <2>7. PICK a : a = Announced(e, state)
    OBVIOUS
  <2>8. a \in Seq(EventSet) /\ Tells(a, e.state, state)
    BY <1>1, <2>4, <2>7, StateEventSays
  <2>9. PICK k \in {"Landing", "TargetStored"} : k = "Landing"
    OBVIOUS
  <2>10. PICK b : b = <<Positioned("Landing", e, pos)>>
    OBVIOUS
  <2>11. b \in Seq(EventSet) /\ Tells(b, state, state)
    BY <1>1, <2>2, <2>9, <2>10, OtherSilent
  <2>12. a \o b \in Seq(EventSet) /\ Tells(a \o b, e.state, state)
    BY <2>8, <2>11, TellsOn
  <2> QED BY <2>3, <2>4, <2>6, <2>7, <2>10, <2>12, SoundsBy
<1>5. \/ Nothing
      \/ \E n \in 0 .. MaxPos : Stored("seek", n)
      \/ \E n \in 0 .. MaxPos : \E pos \in Landings(e.media, n) :
             LET state == IF e.state = "Ended" THEN "Paused" ELSE e.state
             IN Settle([e EXCEPT !.at = pos, !.pend = NoIntent,
                                 !.heard = @ \union {e.load}, !.state = state],
                       Announced(e, state) \o <<Positioned("Landing", e, pos)>>)
  BY DEF Seek
<1> QED BY <1>2, <1>3, <1>4, <1>5

LEMMA RestartSounds ==
  ASSUME RuntimeInv, e.state = "Idle" => ~Openable(e), Restart PROVE Sounds
<1>1. e \in EngineSet /\ e.media \in MediaN /\ e.earned \in SUBSET MediaN
  BY InvParts
<1>2. CASE Nothing
  BY <1>2, NothingSounds
<1>3. CASE Stored("restart", 0)
  <2>1. PICK what \in {"seek", "restart"} : what = "restart"
    OBVIOUS
  <2>2. PICK n \in Nat : n = 0
    OBVIOUS
  <2> QED BY <1>3, <2>1, <2>2, StoredSounds
<1>4. ASSUME Openable(e), NEW pos \in Landings(e.media, 0),
             Plays([e EXCEPT !.at = pos, !.pend = NoIntent, !.earned = @ \union {e.media}],
                   <<Positioned("Landing", e, pos)>>, <<>>)
      PROVE  Sounds
  <2> DEFINE earned == e.earned \union {e.media}
             y == [e EXCEPT !.at = pos, !.pend = NoIntent]
             x == [y EXCEPT !.earned = earned]
  <2>1. PICK n \in Nat : n = 0
    OBVIOUS
  <2>2. pos \in Positions
    BY <1>1, <1>4, <2>1, LandingsIn
  <2>3. Plays(x, <<Positioned("Landing", e, pos)>>, <<>>)
    BY <1>4
  <2>4. earned \in SUBSET MediaN
    BY <1>1
  <2> HIDE DEF earned
  <2>5. y \in EngineSet /\ y.state = e.state /\ y.revived = e.revived
    BY <1>1, <2>2, NoIntentIn DEF EngineSet
  <2> HIDE DEF y
  <2>6. x \in EngineSet /\ x.state = e.state /\ x.revived = e.revived
    BY <2>4, <2>5 DEF EngineSet
  <2> HIDE DEF x
  <2>7. PICK k \in {"Landing", "TargetStored"} : k = "Landing"
    OBVIOUS
  <2>8. PICK b : b = <<Positioned("Landing", e, pos)>>
    OBVIOUS
  <2>13. b \in Seq(EventSet) /\ \A st : Tells(b, st, st)
    BY <1>1, <2>2, <2>7, <2>8, OtherSilent
  <2>9. b \in Seq(EventSet) /\ Tells(b, e.state, x.state) /\ <<>> \in Seq(EventSet)
    BY <2>6, <2>13
  <2>10. PICK after : after = <<>>
    OBVIOUS
  <2>11. after \in Seq(EventSet) /\ Tells(after, "Playing", "Playing")
    BY <2>9, <2>10, TellsNothing
  <2>12. Plays(x, b, after) /\ e.state # "Idle"
    BY <1>4, <2>3, <2>8, <2>10
  <2> QED BY <2>6, <2>9, <2>11, <2>12, PlaysSounds
<1>5. \/ Nothing \/ Stored("restart", 0)
      \/ Openable(e) /\ \E pos \in Landings(e.media, 0) :
            Plays([e EXCEPT !.at = pos, !.pend = NoIntent, !.earned = @ \union {e.media}],
                  <<Positioned("Landing", e, pos)>>, <<>>)
  BY DEF Restart
<1> QED BY <1>2, <1>3, <1>4, <1>5

LEMMA AloneSounds ==
  ASSUME RuntimeInv, Advance \/ EndOfTrack \/ Breaks \/ Rebuild \/ Lose \/ Regain
  PROVE  Sounds
<1>1. /\ e \in EngineSet /\ e.state \in States /\ e.at \in Positions /\ e.rev \in Nat
      /\ e.media \in MediaN /\ e.earned \in SUBSET MediaN /\ e.live \in BOOLEAN
  BY InvParts
<1>2. CASE Advance
  <2> DEFINE n == e.at.n + 1
             at == [e.at EXCEPT !.n = n]
             h == [e EXCEPT !.at = at]
  <2>1. Settle(h, <<>>)
    BY <1>1, <1>2 DEF Advance, EngineSet, Positions
  <2> HIDE DEF at
  <2>2. h.state = e.state /\ h.revived = e.revived
    BY <1>1 DEF EngineSet
  <2> HIDE DEF h
  <2>3. <<>> \in Seq(EventSet)
    OBVIOUS
  <2> QED BY <2>1, <2>2, <2>3, TellsNothing, SoundsBy
<1>3. CASE EndOfTrack
  <2> DEFINE at == Proven(e.at)
             earned == e.earned \union {e.media}
             x == [e EXCEPT !.at = at, !.earned = earned]
             h == [x EXCEPT !.state = "Ended"]
  <2>1. Settle(h, <<Positioned("EndOfTrack", x, x.at), StateEvent(x, "Ended")>>)
        /\ e.state = "Playing"
    BY <1>3 DEF EndOfTrack
  <2>2. at \in Positions /\ earned \in SUBSET MediaN /\ "Ended" \in States
    BY <1>1, HeardIn DEF States
  <2> HIDE DEF at, earned
  <2>3. x \in EngineSet /\ x.at = at /\ x.revived = e.revived
    BY <1>1, <2>2 DEF EngineSet
  <2> HIDE DEF x
  <2>4. h.state = "Ended" /\ h.revived = e.revived
    BY <2>3 DEF EngineSet
  <2> HIDE DEF h
  <2>5. PICK a : a = Positioned("EndOfTrack", x, at)
    OBVIOUS
  <2>6. a \in EventSet
    <3>1. PICK n \in Nat : n = 0
      OBVIOUS
    <3>2. PICK k \in {"Failed", "Landing", "TargetStored", "EndOfTrack", "Capabilities",
                      "DeviceRecovered"} : k = "EndOfTrack"
      OBVIOUS
    <3>3. a \in Known(n, x.rev)
      BY <2>2, <2>3, <2>5, <3>2, EventIn
    <3> QED BY <3>3 DEF Known
  <2>7. a.k = "EndOfTrack"
    BY <2>5 DEF Positioned, Event
  <2>8. PICK b : b = StateEvent(x, "Ended")
    OBVIOUS
  <2>9. PICK u : u = <<a>>
    OBVIOUS
  <2>10. PICK v : v = <<b>>
    OBVIOUS
  <2>11. u \in Seq(EventSet) /\ Tells(u, e.state, "Ended")
    BY <2>1, <2>6, <2>7, <2>9, TellsOne
  <2>12. v \in Seq(EventSet) /\ Tells(v, "Ended", "Ended")
    BY <2>2, <2>3, <2>8, <2>10, StateEventSays
  <2>13. u \o v \in Seq(EventSet) /\ Tells(u \o v, e.state, "Ended")
    BY <2>11, <2>12, TellsOn
  <2>14. u \o v = <<a, b>>
    BY <2>9, <2>10, Joins
  <2>15. Settle(h, u \o v)
    BY <2>1, <2>3, <2>5, <2>8, <2>14
  <2>16. e.state \in Lively
    BY <2>1 DEF Lively
  <2> QED BY <2>4, <2>13, <2>15, <2>16, SoundsBy
<1>4. CASE Breaks
  <2>1. Settle([e EXCEPT !.state = "Failed"], <<Event("Failed", e), StateEvent(e, "Failed")>>)
    BY <1>4 DEF Breaks, Fails
  <2>2. PICK before : before = <<>>
    OBVIOUS
  <2>3. before \in Seq(EventSet) /\ Tells(before, e.state, e.state)
    BY <2>2, TellsNothing
  <2>4. PICK q : q = <<Event("Failed", e), StateEvent(e, "Failed")>>
    OBVIOUS
  <2>5. before \o q \in Seq(EventSet) /\ Tells(before \o q, e.state, "Failed")
    BY <1>1, <2>3, <2>4, FailsTells
  <2>6. before \o q = q
    BY <2>2, <2>4
  <2>7. q \in Seq(EventSet) /\ Tells(q, e.state, "Failed")
    BY <2>5, <2>6
  <2> DEFINE h == [e EXCEPT !.state = "Failed"]
  <2>8. h.state = "Failed" /\ h.revived = e.revived
    BY <1>1 DEF EngineSet
  <2>9. Settle(h, q)
    BY <2>1, <2>4
  <2> HIDE DEF h
  <2> QED BY <2>7, <2>8, <2>9, SoundsBy DEF Lively
<1>5. CASE Rebuild
  <2>1. PICK pos \in Relandings(e.at) :
          LET x == [e EXCEPT !.rev = @ + 1, !.at = pos]
          IN Settle(x, <<Event("DeviceRecovered", x)>>)
    BY <1>5 DEF Rebuild
  <2> DEFINE rev == e.rev + 1
             x == [e EXCEPT !.rev = rev, !.at = pos]
  <2>2. rev \in Nat /\ pos \in Positions
    BY <1>1, <2>1, RelandingsIn
  <2>3. Settle(x, <<Event("DeviceRecovered", x)>>)
    BY <2>1
  <2> HIDE DEF rev
  <2>4. x \in EngineSet /\ x.state = e.state /\ x.revived = e.revived
    BY <1>1, <2>2 DEF EngineSet
  <2> HIDE DEF x
  <2>5. PICK k \in {"Failed", "DeviceRecovered"} : k = "DeviceRecovered"
    OBVIOUS
  <2>6. PICK q : q = <<Event("DeviceRecovered", x)>>
    OBVIOUS
  <2>7. q \in Seq(EventSet) /\ \A st : Tells(q, st, st)
    BY <2>4, <2>5, <2>6, EventSilent
  <2>8. Tells(q, e.state, x.state)
    BY <2>4, <2>7
  <2> QED BY <2>3, <2>4, <2>6, <2>7, <2>8, SoundsBy
<1>6. CASE Lose
  <2>1. Settle([e EXCEPT !.state = "Reconnecting"], <<StateEvent(e, "Reconnecting")>>)
        /\ e.state \in Lively
    BY <1>6 DEF Lose, Lively
  <2> DEFINE h == [e EXCEPT !.state = "Reconnecting"]
  <2>2. h.state = "Reconnecting" /\ h.revived = e.revived /\ "Reconnecting" \in States
    BY <1>1 DEF EngineSet, States
  <2>3. Settle(h, <<StateEvent(e, h.state)>>)
    BY <2>1, <2>2
  <2> HIDE DEF h
  <2> QED BY <1>1, <2>1, <2>2, <2>3, SaidSounds
<1>7. CASE Regain
  <2>1. PICK a : a = [Event("Capabilities", e) EXCEPT !.live = e.live]
    OBVIOUS
  <2>2. a \in EventSet
    <3>1. PICK n \in Nat : n = 0
      OBVIOUS
    <3>2. PICK k \in {"Failed", "Landing", "TargetStored", "EndOfTrack", "Capabilities",
                      "DeviceRecovered"} : k = "Capabilities"
      OBVIOUS
    <3>3. a \in Known(n, e.rev)
      BY <1>1, <2>1, <3>2, EventIn
    <3> QED BY <3>3 DEF Known
  <2>3. ~Says(a)
    BY <2>1 DEF Event, Says
  <2>4. PICK q : q = <<a>>
    OBVIOUS
  <2>5. q \in Seq(EventSet) /\ Tells(q, e.state, e.state)
    BY <2>2, <2>3, <2>4, TellsOne
  <2>6. Restores(e, q) /\ e.state # "Idle"
    BY <1>7, <2>1, <2>4 DEF Regain
  <2> QED BY <1>1, <2>5, <2>6, RestoresSounds
<1> QED BY <1>2, <1>3, <1>4, <1>5, <1>6, <1>7

LEMMA TakeStopSounds ==
  ASSUME RuntimeInv, TakeStop PROVE Sounds /\ e'.state \in {"Idle", "Stopped", "Failed"}
<1>1. e \in EngineSet /\ e.rev \in Nat
  BY InvParts
<1>2. CASE e.state \in {"Idle", "Stopped", "Failed"} /\ Settle(e, <<>>)
  <2>1. <<>> \in Seq(EventSet)
    OBVIOUS
  <2>2. Sounds
    BY <1>2, <2>1, TellsNothing, SoundsBy
  <2> QED BY <1>2, <2>2 DEF Settle
<1>3. CASE LET x == [e EXCEPT !.rev = @ + 1]
           IN Settle([x EXCEPT !.state = "Stopped", !.closed = FALSE], <<StateEvent(x, "Stopped")>>)
  <2> DEFINE rev == e.rev + 1
             x == [e EXCEPT !.rev = rev]
             h == [x EXCEPT !.state = "Stopped", !.closed = FALSE]
  <2>1. rev \in Nat
    BY <1>1
  <2>2. Settle(h, <<StateEvent(x, "Stopped")>>)
    BY <1>3
  <2> HIDE DEF rev
  <2>3. x \in EngineSet /\ x.revived = e.revived
    BY <1>1, <2>1 DEF EngineSet
  <2> HIDE DEF x
  <2>4. h.state = "Stopped" /\ h.revived = e.revived /\ "Stopped" \in States /\ "Stopped" \notin Lively
    BY <2>3 DEF EngineSet, States, Lively
  <2> HIDE DEF h
  <2>5. Settle(h, <<StateEvent(x, h.state)>>)
    BY <2>2, <2>4
  <2>6. Sounds
    BY <2>3, <2>4, <2>5, SaidSounds
  <2> QED BY <2>2, <2>4, <2>6 DEF Settle
<1> QED BY <1>2, <1>3 DEF TakeStop

LEMMA LoadTells ==
  ASSUME RuntimeInv, NEW c \in Submitted(s.next), Load(c)
  PROVE  /\ Utters /\ e'.state = "Loading" /\ e'.load = 0
         /\ e'.loading = c.token /\ e'.media = c.media
<1> DEFINE rev == e.rev + 1
           at == StartOf(c.media, c.token)
           y == [e EXCEPT !.rev = rev, !.load = 0, !.loading = c.token, !.media = c.media]
           z == [y EXCEPT !.resume = c.resume, !.pend = NoIntent, !.closed = FALSE]
           x == [z EXCEPT !.revived = FALSE, !.at = at]
           h == [x EXCEPT !.state = "Loading"]
<1>1. /\ c.media \in MediaN /\ c.token \in Nat /\ c.resume \in Intents
  BY DEF Submitted, Commands
<1>2. e \in EngineSet /\ e.rev \in Nat
  BY InvParts
<1>3. rev \in Nat /\ at \in Positions /\ "Loading" \in States
  BY <1>1, <1>2, StartIn DEF States
<1>4. Settle(h, Announced(x, "Loading"))
  <2>1. x = [e EXCEPT !.rev = @ + 1, !.load = 0, !.loading = c.token, !.media = c.media,
                      !.resume = c.resume, !.pend = NoIntent, !.closed = FALSE,
                      !.revived = FALSE, !.at = StartOf(c.media, c.token)]
    BY <1>2 DEF EngineSet
  <2> HIDE DEF x
  <2> QED BY <2>1 DEF Load
<1> HIDE DEF rev, at
<1>5. /\ y \in EngineSet /\ y.load = 0 /\ y.loading = c.token /\ y.media = c.media
      /\ y.state = e.state
  BY <1>1, <1>2, <1>3 DEF EngineSet
<1> HIDE DEF y
<1>6. /\ z \in EngineSet /\ z.load = 0 /\ z.loading = c.token /\ z.media = c.media
      /\ z.state = e.state
  BY <1>1, <1>5, NoIntentIn DEF EngineSet
<1> HIDE DEF z
<1>7. /\ x \in EngineSet /\ x.load = 0 /\ x.loading = c.token /\ x.media = c.media
      /\ x.state = e.state
  BY <1>3, <1>6 DEF EngineSet
<1> HIDE DEF x
<1>8. h.state = "Loading" /\ h.load = 0 /\ h.loading = c.token /\ h.media = c.media
  BY <1>7 DEF EngineSet
<1> HIDE DEF h
<1>9. PICK new : new = Announced(x, "Loading")
  OBVIOUS
<1>10. new \in Seq(EventSet) /\ Tells(new, e.state, h.state)
  BY <1>3, <1>7, <1>8, <1>9, StateEventSays
<1>11. e' = h /\ events' = events \o new
  BY <1>4, <1>9 DEF Settle
<1> QED BY <1>8, <1>10, <1>11 DEF Utters

LEMMA OutcomeSilent ==
  ASSUME NEW x \in EngineSet, NEW token \in Nat, NEW k \in {"Failed", "LoadCancelled"}
  PROVE  /\ \A st : Tells(<<Outcome(k, x, token)>>, st, st)
         /\ <<Outcome(k, x, token)>> \in Seq(EventSet) /\ Outcome(k, x, token) \in EventSet
<1>1. PICK a : a = Outcome(k, x, token)
  OBVIOUS
<1>2. token <= token /\ x.rev \in Nat
  BY DEF EngineSet
<1>3. a \in EventSet
  <2>1. a \in Known(token, x.rev)
    BY <1>1, <1>2, OutcomeIn
  <2> QED BY <2>1 DEF Known
<1>4. ~Says(a)
  BY <1>1 DEF Outcome, Event, Says
<1>5. <<a>> \in Seq(EventSet)
  BY <1>3
<1> QED BY <1>1, <1>3, <1>4, <1>5, TellsOne

LEMMA LoadCancelledTells ==
  ASSUME RuntimeInv, LoadCancelled
  PROVE  /\ Utters /\ e'.state = e.state /\ e'.load = e.load
         /\ e'.loading = 0 /\ e'.media = e.media
<1>1. e \in EngineSet /\ e.loading \in Nat
  BY InvParts
<1> DEFINE h == [e EXCEPT !.loading = 0]
<1>2. PICK k \in {"Failed", "LoadCancelled"} : k = "LoadCancelled"
  OBVIOUS
<1>3. PICK new : new = <<Outcome("LoadCancelled", e, e.loading)>>
  OBVIOUS
<1>4. Settle(h, new)
  BY <1>3 DEF LoadCancelled
<1>5. new \in Seq(EventSet) /\ \A st : Tells(new, st, st)
  BY <1>1, <1>2, <1>3, OutcomeSilent
<1>6. h.state = e.state /\ h.load = e.load /\ h.loading = 0 /\ h.media = e.media
  BY <1>1 DEF EngineSet
<1> HIDE DEF h
<1>7. e' = h /\ events' = events \o new
  BY <1>4 DEF Settle
<1>8. Tells(new, e.state, h.state)
  BY <1>5, <1>6
<1> QED BY <1>5, <1>6, <1>7, <1>8 DEF Utters

LEMMA LoadFailsTells ==
  ASSUME RuntimeInv, LoadFails
  PROVE  Utters /\ e'.state = "Failed" /\ e'.loading = 0
<1>1. e \in EngineSet /\ e.loading \in Nat /\ "Failed" \in States
  BY InvParts DEF States
<1> DEFINE h == [e EXCEPT !.loading = 0, !.state = "Failed"]
<1>2. PICK k \in {"Failed", "LoadCancelled"} : k = "Failed"
  OBVIOUS
<1>3. PICK a : a = Outcome("Failed", e, e.loading)
  OBVIOUS
<1>4. PICK b : b = StateEvent(e, "Failed")
  OBVIOUS
<1>5. Settle(h, <<a, b>>)
  BY <1>3, <1>4 DEF LoadFails
<1>6. <<a>> \in Seq(EventSet) /\ \A st : Tells(<<a>>, st, st)
  BY <1>1, <1>2, <1>3, OutcomeSilent
<1>7. <<b>> \in Seq(EventSet) /\ \A from : Tells(<<b>>, from, "Failed")
  BY <1>1, <1>4, StateEventSays
<1>8. PICK u \in Seq(EventSet) : u = <<a>>
  BY <1>6
<1>9. PICK v \in Seq(EventSet) : v = <<b>>
  BY <1>7
<1>10. Tells(u, e.state, e.state) /\ Tells(v, e.state, "Failed")
  BY <1>6, <1>7, <1>8, <1>9
<1>11. u \o v \in Seq(EventSet) /\ Tells(u \o v, e.state, "Failed")
  BY <1>10, TellsOn
<1>12. u \o v = <<a, b>>
  BY <1>8, <1>9, Joins
<1>13. h.state = "Failed" /\ h.loading = 0
  BY <1>1 DEF EngineSet
<1> HIDE DEF h
<1>14. e' = h /\ events' = events \o (u \o v)
  BY <1>5, <1>12 DEF Settle
<1> QED BY <1>11, <1>13, <1>14 DEF Utters

(* What has been opened stays so while nothing cuts it off. *)
LEMMA CalmOn ==
  ASSUME NEW S, NEW p \in Seq(S), NEW q \in Seq(S), Still(q), NEW i, Calm(p, i, Len(p) + 1)
  PROVE  Calm(p \o q, i, Len(p \o q) + 1)
<1> DEFINE j == p \o q
<1>1. /\ Len(p) \in Nat /\ DOMAIN p = 1 .. Len(p)
      /\ \A n \in DOMAIN p : j[n] = p[n]
      /\ \A n \in DOMAIN j :
            n \in DOMAIN p \/ (n > Len(p) /\ n - Len(p) \in DOMAIN q /\ j[n] = q[n - Len(p)])
  BY JoinAt
<1> HIDE DEF j
<1>2. ASSUME NEW n \in DOMAIN j, i <= n PROVE ~Cut(j[n])
  <2>1. CASE n \in DOMAIN p
    BY <1>1, <1>2, <2>1 DEF Calm
  <2>2. CASE n - Len(p) \in DOMAIN q /\ j[n] = q[n - Len(p)]
    BY <2>2 DEF Still
  <2> QED BY <1>1, <2>1, <2>2
<1>3. Calm(j, i, Len(j) + 1)
  BY <1>2 DEF Calm
<1> QED BY <1>3 DEF j

LEMMA OpenedOn ==
  ASSUME NEW S, NEW p \in Seq(S), NEW q \in Seq(S), Still(q), NEW L, NEW m,
         Opened(p, Len(p) + 1, L, m)
  PROVE  Opened(p \o q, Len(p \o q) + 1, L, m)
<1> DEFINE j == p \o q
<1>1. /\ Len(p) \in Nat /\ Len(q) \in Nat /\ DOMAIN p = 1 .. Len(p) /\ DOMAIN j = 1 .. Len(j)
      /\ Len(j) = Len(p) + Len(q)
      /\ \A n \in DOMAIN p : j[n] = p[n]
  BY JoinAt
<1>2. PICK k \in DOMAIN p : Opens(p[k], L, m) /\ Calm(p, k + 1, Len(p) + 1)
  BY DEF Opened
<1>3. Calm(j, k + 1, Len(j) + 1)
  BY <1>2, CalmOn
<1> HIDE DEF j
<1>4. k \in DOMAIN j /\ k < Len(j) + 1 /\ Opens(j[k], L, m)
  BY <1>1, <1>2
<1>5. Opened(j, Len(j) + 1, L, m)
  BY <1>3, <1>4 DEF Opened
<1> QED BY <1>5 DEF j

LEMMA ReignsOn ==
  ASSUME NEW S, NEW p \in Seq(S), NEW q \in Seq(S), Still(q), NEW x, NEW L, NEW m,
         Reigns(x, p, Len(p) + 1, L, m)
  PROVE  Reigns(x, p \o q, Len(p \o q) + 1, L, m)
BY CalmOn, OpenedOn DEF Reigns

LEMMA OpenedAfter ==
  ASSUME NEW S, NEW p \in Seq(S), NEW q \in Seq(S), NEW L, NEW m, Opened(q, Len(q) + 1, L, m)
  PROVE  Opened(p \o q, Len(p \o q) + 1, L, m)
<1> DEFINE j == p \o q
<1>1. /\ Len(p) \in Nat /\ Len(q) \in Nat /\ DOMAIN p = 1 .. Len(p) /\ DOMAIN q = 1 .. Len(q)
      /\ DOMAIN j = 1 .. Len(p) + Len(q) /\ Len(j) = Len(p) + Len(q)
      /\ \A n \in DOMAIN q : j[Len(p) + n] = q[n]
      /\ \A n \in DOMAIN j :
            n \in DOMAIN p \/ (n > Len(p) /\ n - Len(p) \in DOMAIN q /\ j[n] = q[n - Len(p)])
  BY JoinAt
<1> HIDE DEF j
<1>2. PICK k \in DOMAIN q : Opens(q[k], L, m) /\ Calm(q, k + 1, Len(q) + 1)
  BY DEF Opened
<1>3. PICK n : n = Len(p) + k
  OBVIOUS
<1>4. n \in DOMAIN j /\ n < Len(j) + 1 /\ j[n] = q[k]
  BY <1>1, <1>3
<1>5. ASSUME NEW i \in DOMAIN j, n + 1 <= i PROVE ~Cut(j[i])
  <2>1. /\ i - Len(p) \in DOMAIN q /\ j[i] = q[i - Len(p)] /\ k + 1 <= i - Len(p)
        /\ i - Len(p) < Len(q) + 1
    BY <1>1, <1>3, <1>5
  <2> QED BY <1>2, <2>1 DEF Calm
<1>6. Opened(j, Len(j) + 1, L, m)
  BY <1>2, <1>4, <1>5 DEF Opened, Calm
<1> QED BY <1>6 DEF j

LEMMA JoinsThree ==
  ASSUME NEW S, NEW a \in S, NEW b \in S, NEW c \in S
  PROVE  <<a>> \o <<b, c>> = <<a, b, c>>
<1>1. <<a>> \in Seq(S) /\ <<b, c>> \in Seq(S) /\ <<a, b, c>> \in Seq(S)
  OBVIOUS
<1>2. PICK p \in Seq(S) : p = <<a>>
  BY <1>1
<1>3. PICK q \in Seq(S) : q = <<b, c>>
  BY <1>1
<1>4. PICK k \in Seq(S) : k = <<a, b, c>>
  BY <1>1
<1>5. p \o q \in Seq(S)
  BY JoinIn
<1>6. PICK j \in Seq(S) : j = p \o q
  BY <1>5
<1>7. Len(p) = 1 /\ p[1] = a /\ Len(q) = 2 /\ q[1] = b /\ q[2] = c
  BY <1>2, <1>3
<1>8. Len(j) = 3 /\ j[1] = a /\ j[2] = b /\ j[3] = c
  <2>0. Len(j) = Len(p) + Len(q) /\ \A i \in DOMAIN p : j[i] = p[i]
    BY <1>6, JoinAt
  <2>1. Len(j) = 3 /\ j[1] = p[1]
    BY <1>7, <2>0
  <2>2. \A i \in DOMAIN q : j[Len(p) + i] = q[i]
    BY <1>6, JoinAt
  <2>3. 1 \in DOMAIN q /\ 2 \in DOMAIN q
    BY <1>7
  <2>4. j[Len(p) + 1] = q[1] /\ j[Len(p) + 2] = q[2]
    BY <2>2, <2>3
  <2> QED BY <1>7, <2>1, <2>4
<1>9. Len(k) = 3 /\ k[1] = a /\ k[2] = b /\ k[3] = c
  BY <1>4
<1>10. j \in [1 .. 3 -> S] /\ k \in [1 .. 3 -> S]
  BY <1>8, <1>9
<1>11. \A i \in 1 .. 3 : j[i] = k[i]
  BY <1>8, <1>9
<1>12. j = k
  BY <1>10, <1>11
<1> QED BY <1>2, <1>3, <1>4, <1>6, <1>12

LEMMA LoadEndsTells ==
  ASSUME RuntimeInv, LoadEnds
  PROVE  /\ Utters /\ e'.load = e.loading /\ e'.loading = 0 /\ e'.media = e.media
         /\ e'.state \in {"Paused", "Failed"} /\ (e'.state = "Failed" => Faulty)
         /\ e'.state = "Paused" =>
               \E new \in Seq(EventSet) :
                  events' = events \o new /\ Opened(new, Len(new) + 1, e.loading, e.media)
<1>1. PICK x, loaded :
         /\ LoadsAs(x, loaded)
         /\ \/ /\ Settle([x EXCEPT !.state = "Paused"], <<loaded, StateEvent(x, "Paused")>>)
               /\ UNCHANGED faults
            \/ /\ Settle([x EXCEPT !.state = "Failed"],
                         <<loaded, Event("Failed", x), StateEvent(x, "Failed")>>)
               /\ Faulty
  BY LoadEndsAs
<1>2. /\ x \in EngineSet /\ x.load = e.loading /\ x.loading = 0 /\ x.media = e.media
      /\ loaded \in EventSet /\ loaded.k = "Loaded" /\ loaded.token = e.loading
      /\ loaded.media = e.media /\ e.loading # 0
  BY <1>1 DEF LoadsAs, LoadEnds
<1>3. Says(loaded) /\ Said(loaded) = "Loading" /\ Opens(loaded, e.loading, e.media)
  BY <1>2 DEF Says, Said, Opens
<1>4. <<loaded>> \in Seq(EventSet) /\ Tells(<<loaded>>, e.state, "Loading")
  BY <1>2, <1>3, TellsOne
<1>5. PICK u \in Seq(EventSet) : u = <<loaded>>
  BY <1>4
<1>6. Tells(u, e.state, "Loading")
  BY <1>4, <1>5
<1>7. CASE Settle([x EXCEPT !.state = "Paused"], <<loaded, StateEvent(x, "Paused")>>)
  <2> DEFINE h == [x EXCEPT !.state = "Paused"]
  <2>1. PICK b : b = StateEvent(x, "Paused")
    OBVIOUS
  <2>2. "Paused" \in States
    BY DEF States
  <2>3. <<b>> \in Seq(EventSet) /\ Tells(<<b>>, "Loading", "Paused") /\ b.k = "State"
        /\ b.state = "Paused"
    BY <1>2, <2>1, <2>2, StateEventSays, StateHeard
  <2>4. PICK v \in Seq(EventSet) : v = <<b>>
    BY <2>3
  <2>5. Tells(v, "Loading", "Paused")
    BY <2>3, <2>4
  <2>6. u \o v \in Seq(EventSet) /\ Tells(u \o v, e.state, "Paused")
    BY <1>6, <2>5, TellsOn
  <2>7. u \o v = <<loaded, b>>
    BY <1>5, <2>4, Joins
  <2>8. PICK new \in Seq(EventSet) : new = <<loaded, b>>
    BY <2>6, <2>7
  <2>9. h.state = "Paused" /\ h.load = e.loading /\ h.loading = 0 /\ h.media = e.media
    BY <1>2 DEF EngineSet
  <2>10. e' = h /\ events' = events \o new
    BY <1>7, <2>1, <2>8 DEF Settle
  <2> HIDE DEF h
  <2>11. ~Cut(b)
    BY <2>3 DEF Cut, IsOutcome
  <2>12. Opened(new, Len(new) + 1, e.loading, e.media)
    <3>1. /\ DOMAIN new = {1, 2} /\ new[1] = loaded /\ new[2] = b /\ Len(new) = 2
      BY <2>8
    <3>2. Calm(new, 1 + 1, Len(new) + 1)
      BY <2>11, <3>1 DEF Calm
    <3> QED BY <1>3, <3>1, <3>2 DEF Opened
  <2>13. Tells(new, e.state, h.state)
    BY <2>6, <2>7, <2>8, <2>9
  <2>14. Utters
    BY <2>10, <2>13 DEF Utters
  <2> QED BY <2>9, <2>10, <2>12, <2>14
<1>8. CASE /\ Settle([x EXCEPT !.state = "Failed"],
                     <<loaded, Event("Failed", x), StateEvent(x, "Failed")>>)
           /\ Faulty
  <2> DEFINE h == [x EXCEPT !.state = "Failed"]
  <2>1. PICK w : w = u \o <<Event("Failed", x), StateEvent(x, "Failed")>>
    OBVIOUS
  <2>2. w \in Seq(EventSet) /\ Tells(w, e.state, "Failed")
    BY <1>2, <1>6, <2>1, FailsTells
  <2>3. w = <<loaded, Event("Failed", x), StateEvent(x, "Failed")>>
    <3>1. PICK f : f = Event("Failed", x)
      OBVIOUS
    <3>2. PICK g : g = StateEvent(x, "Failed")
      OBVIOUS
    <3>3. PICK k \in {"Failed", "DeviceRecovered"} : k = "Failed"
      OBVIOUS
    <3>4. "Failed" \in States
      BY DEF States
    <3>5. f \in EventSet /\ g \in EventSet
      BY <1>2, <3>1, <3>2, <3>3, <3>4, EventSilent, StateEventSays
    <3>6. <<loaded>> \o <<f, g>> = <<loaded, f, g>>
      BY <1>2, <3>5, JoinsThree
    <3> QED BY <1>5, <2>1, <3>1, <3>2, <3>6
  <2>4. h.state = "Failed" /\ h.load = e.loading /\ h.loading = 0 /\ h.media = e.media
    BY <1>2 DEF EngineSet
  <2>5. e' = h /\ events' = events \o w
    BY <1>8, <2>3 DEF Settle
  <2> HIDE DEF h
  <2>6. Utters
    BY <2>2, <2>4, <2>5 DEF Utters
  <2> QED BY <1>8, <2>4, <2>5, <2>6
<1> QED BY <1>1, <1>7, <1>8

(* A handler that leaves the load alone cuts nothing off. *)
Mild ==
    /\ e'.load = e.load /\ e'.loading = e.loading /\ e'.media = e.media
    /\ \E new \in Seq(EventSet) : events' = events \o new /\ Still(new)
Apart == UNCHANGED <<s, mirror, app, wanted>>

LEMMA AptMild == ASSUME Aptly PROVE Mild /\ Apart
<1>1. PICK x, evs : \E rev \in Nat :
         /\ Follows(e, x) /\ EngineFits(x) /\ e.rev <= rev /\ evs \in Seq(News(x, rev))
         /\ Settle(x, evs)
  BY DEF Aptly
<1>2. PICK rev \in Nat : evs \in Seq(News(x, rev))
  BY <1>1
<1>3. evs \in Seq(EventSet)
  <2>1. News(x, rev) \subseteq EventSet
    BY DEF News
  <2> QED BY <1>2, <2>1, SeqGrows
<1>4. Still(evs)
  <2>1. \A i \in DOMAIN evs : evs[i] \in News(x, rev)
    BY <1>2
  <2> QED BY <2>1 DEF Still, News
<1>5. e' = x /\ events' = events \o evs
  BY <1>1 DEF Settle
<1> QED BY <1>1, <1>3, <1>4, <1>5 DEF Mild, Apart, Follows, Settle

(* What has stopped or has not begun does not run by itself. *)
Quelled == {"Idle", "Stopped", "Failed"}
Begins ==
    /\ e.state = "Idle" => e.media = NoMedia /\ e.load = 0
    /\ e.loading # 0 => e.state = "Loading" /\ e.load = 0

LEMMA IdleShut == ASSUME Begins, e.state = "Idle" PROVE ~Openable(e)
<1>1. NoMedia \notin Podcasts \union Stations
  BY RuntimeAssumption
<1> QED BY <1>1 DEF Begins, Openable

(* The commands that do not load. *)
LEMMA DispatchQuiet ==
  ASSUME RuntimeInv, HeedInv, Begins, Dispatch, Head(cmds).cmd # "Load"
  PROVE  Mild /\ Apart /\ Sounds
<1>1. e.loading = 0 /\ EngineFits(e)
  BY HeedParts DEF Dispatch
<1>2. PICK c : c = Head(cmds)
  OBVIOUS
<1>3. CASE Nothing
  BY <1>1, <1>3, NothingApt, AptMild, NothingSounds
<1>4. CASE Play(TRUE) \/ Play(FALSE)
  BY <1>1, <1>4, PlayApt, AptMild, PlaySounds
<1>5. CASE Pause
  BY <1>1, <1>5, PauseApt, AptMild, PauseSounds
<1>6. CASE Seek
  BY <1>1, <1>6, SeekApt, AptMild, SeekSounds
<1>7. CASE Restart
  BY <1>1, <1>7, RestartApt, AptMild, RestartSounds, IdleShut
<1>8. c.cmd \in {"PlayLoaded", "Play", "Pause", "Seek", "Restart"}
  <2>1. cmds \in Seq(Submitted(s.next)) /\ cmds # <<>>
    BY HeedParts DEF Dispatch
  <2>2. c \in Submitted(s.next)
    BY <1>2, <2>1, TailIn
  <2> QED BY <1>2, <2>2 DEF Submitted, Commands
<1>9. /\ c.cmd = "PlayLoaded" => Play(TRUE) \/ Nothing
      /\ c.cmd = "Play" => Play(FALSE)
      /\ c.cmd = "Pause" => Pause
      /\ c.cmd = "Seek" => Seek
      /\ c.cmd = "Restart" => Restart
  BY <1>2 DEF Dispatch
<1> QED BY <1>3, <1>4, <1>5, <1>6, <1>7, <1>8, <1>9

-----------------------------------------------------------------------------
(* What holds while the program runs: the front end shows what it was told,    *)
(* and what goes on by itself is the load the session owns, or is on its way   *)
(* to one it will own, or is about to end. *)

Running == app \in {"ui", "drain", "sample"}
Queued(q) == \E i \in DOMAIN q : q[i].cmd = "Load"
Echoes ==
    \E from : /\ Tells(events, from, e.state)
              /\ Owning(s) => from = mirror.state /\ mirror.load = s.adopted.token
Claimed ==
    e.state \in Lively /\ ~e.revived =>
        Reigns(s, events, Len(events) + 1, e.load, e.media) \/ stopBit \/ Queued(cmds)

(* The kinds of step the engine takes while the program runs. *)
Shortened == cmds # <<>> /\ cmds' = Tail(cmds)
Quietens ==
    /\ Mild /\ Apart /\ Sounds /\ e.loading = 0 /\ stopBit' = stopBit
    /\ cmds' = cmds \/ (Shortened /\ Head(cmds).cmd # "Load")
Stills == Mild /\ Apart /\ Sounds /\ e.loading = 0 /\ stopBit /\ cmds' = cmds /\ e'.state \in Quelled
LoadsNext ==
    /\ Shortened /\ Head(cmds).cmd = "Load" /\ Head(cmds) \in Submitted(s.next)
    /\ Load(Head(cmds)) /\ Apart /\ e.loading = 0 /\ stopBit' = stopBit
Concludes == (LoadCancelled \/ LoadFails \/ LoadEnds) /\ Apart /\ cmds' = cmds /\ stopBit' = stopBit

(* The steps of a shutdown come after those. *)
Closes == EngineCloses \/ Discard \/ EngineShutdown

LEMMA HandlerKinds ==
  ASSUME RuntimeInv, HeedInv, Begins, Engine, ~Closes
  PROVE  Quietens \/ Stills \/ LoadsNext \/ Concludes
<1>1. EngineFits(e) /\ cmds \in Seq(Submitted(s.next))
  BY HeedParts
<1>2. CASE Dispatch
  <2>1. e.loading = 0 /\ stopBit' = stopBit /\ Shortened
    BY <1>2 DEF Dispatch, Shortened
  <2>2. CASE Head(cmds).cmd # "Load"
    BY <1>2, <2>1, <2>2, DispatchQuiet DEF Quietens
  <2>3. CASE Head(cmds).cmd = "Load"
    <3>1. Load(Head(cmds))
      BY <1>2, <2>3 DEF Dispatch
    <3>2. Apart
      BY <3>1 DEF Load, Settle, Apart
    <3>3. Head(cmds) \in Submitted(s.next)
      BY <1>1, <2>1, TailIn DEF Shortened
    <3> QED BY <2>1, <2>3, <3>1, <3>2, <3>3 DEF LoadsNext
  <2> QED BY <2>2, <2>3
<1>3. CASE Advance \/ EndOfTrack \/ Breaks \/ Rebuild \/ Lose \/ Regain
  <2>1. /\ cmds' = cmds /\ stopBit' = stopBit
        /\ e.state \in {"Playing", "Paused", "Reconnecting"}
    BY <1>3 DEF Advance, EndOfTrack, Breaks, Rebuild, Lose, Regain, Alone
  <2>2. e.loading = 0
    BY <2>1 DEF Begins
  <2> QED BY <1>1, <1>3, <2>1, <2>2, AloneApt, AptMild, AloneSounds DEF Quietens
<1>4. CASE TakeStop
  <2>1. stopBit /\ e.loading = 0 /\ cmds' = cmds
    BY <1>4 DEF TakeStop
  <2> QED BY <1>1, <1>4, <2>1, TakeStopApt, AptMild, TakeStopSounds DEF Stills, Quelled
<1>5. CASE LoadCancelled \/ LoadFails \/ LoadEnds
  <2>1. Apart /\ cmds' = cmds /\ stopBit' = stopBit
    BY <1>5 DEF LoadCancelled, LoadFails, LoadEnds, Settle, Apart
  <2> QED BY <1>5, <2>1 DEF Concludes
<1> QED BY <1>2, <1>3, <1>4, <1>5 DEF Engine, Closes

LEMMA RunningOn == ASSUME Running PROVE ~Closes
BY DEF Running, Closes, EngineCloses, Discard, EngineShutdown

LEMMA EngineKinds ==
  ASSUME RuntimeInv, HeedInv, Begins, Running, Engine
  PROVE  Quietens \/ Stills \/ LoadsNext \/ Concludes
BY RunningOn, HandlerKinds

LEMMA LoadNextTells ==
  ASSUME RuntimeInv, LoadsNext
  PROVE  /\ Utters /\ e'.state = "Loading" /\ e'.load = 0
         /\ e'.loading = Head(cmds).token /\ e'.media = Head(cmds).media
<1>1. PICK c \in Submitted(s.next) : c = Head(cmds)
  BY DEF LoadsNext
<1>2. Load(c)
  BY <1>1 DEF LoadsNext
<1> QED BY <1>1, <1>2, LoadTells

LEMMA HandlerBegins ==
  ASSUME RuntimeInv, HeedInv, Begins, Engine, ~Closes PROVE Begins' /\ Apart
<1>1. CASE Quietens \/ Stills
  <2>1. /\ Apart /\ e.loading = 0 /\ e'.loading = e.loading /\ e'.load = e.load
        /\ e'.media = e.media /\ (e'.state = "Idle" => e.state = "Idle")
    BY <1>1 DEF Quietens, Stills, Mild, Sounds, Sober
  <2> QED BY <2>1 DEF Begins, Apart
<1>2. CASE LoadsNext
  BY <1>2, LoadNextTells DEF Begins, Apart, LoadsNext
<1>3. CASE Concludes /\ LoadCancelled
  <2>1. e.loading # 0
    BY <1>3 DEF LoadCancelled
  <2> QED BY <1>3, <2>1, LoadCancelledTells DEF Begins, Apart, Concludes
<1>4. CASE Concludes /\ LoadFails
  BY <1>4, LoadFailsTells DEF Begins, Apart, Concludes
<1>5. CASE Concludes /\ LoadEnds
  BY <1>5, LoadEndsTells DEF Begins, Apart, Concludes
<1> QED BY <1>1, <1>2, <1>3, <1>4, <1>5, HandlerKinds DEF Concludes

LEMMA EngineBegins ==
  ASSUME RuntimeInv, HeedInv, Begins, Running, Engine PROVE Begins' /\ Running' /\ Apart
<1>1. Begins' /\ Apart
  BY RunningOn, HandlerBegins
<1> QED BY <1>1 DEF Running, Apart

LEMMA HandlerUtters ==
  ASSUME RuntimeInv, HeedInv, Begins, Engine, ~Closes PROVE Utters
<1>1. CASE Quietens \/ Stills
  BY <1>1 DEF Quietens, Stills, Sounds
<1>2. CASE LoadsNext
  BY <1>2, LoadNextTells
<1>3. CASE Concludes
  BY <1>3, LoadCancelledTells, LoadFailsTells, LoadEndsTells DEF Concludes
<1> QED BY <1>1, <1>2, <1>3, HandlerKinds

LEMMA EngineUtters ==
  ASSUME RuntimeInv, HeedInv, Begins, Running, Engine PROVE Utters
BY RunningOn, HandlerUtters

LEMMA EventsAre == ASSUME RuntimeInv PROVE events \in Seq(EventSet)
<1>1. events \in Seq(Known(s.next, e.rev)) /\ Known(s.next, e.rev) \subseteq EventSet
  BY FrontEndParts DEF Known
<1> QED BY <1>1, SeqGrows

LEMMA EngineEchoes ==
  ASSUME RuntimeInv, HeedInv, Begins, Running, Engine, Echoes PROVE Echoes'
<1>1. PICK from : /\ Tells(events, from, e.state)
                  /\ Owning(s) => from = mirror.state /\ mirror.load = s.adopted.token
  BY DEF Echoes
<1>2. PICK new \in Seq(EventSet) : events' = events \o new /\ Tells(new, e.state, e'.state)
  BY EngineUtters DEF Utters
<1>3. PICK h : h = e'.state
  OBVIOUS
<1>4. PICK p \in Seq(EventSet) : p = events
  BY EventsAre
<1>5. Tells(p, from, e.state) /\ Tells(new, e.state, h)
  BY <1>1, <1>2, <1>3, <1>4
<1>6. Tells(p \o new, from, h)
  BY <1>5, TellsOn
<1>7. s' = s /\ mirror' = mirror
  BY EngineBegins DEF Apart
<1>8. Owning(s') => from = mirror'.state /\ mirror'.load = s'.adopted.token
  BY <1>1, <1>7
<1>9. Tells(events', from, e'.state)
  BY <1>2, <1>3, <1>4, <1>6
<1> QED BY <1>8, <1>9 DEF Echoes

LEMMA QueuedLess ==
  ASSUME NEW S, NEW q \in Seq(S), q # <<>>, Head(q).cmd # "Load"
  PROVE  Queued(q) <=> Queued(Tail(q))
<1>1. /\ \A i \in DOMAIN Tail(q) : i + 1 \in DOMAIN q /\ Tail(q)[i] = q[i + 1]
      /\ \A i \in DOMAIN q : i = 1 \/ (i - 1 \in DOMAIN Tail(q) /\ Tail(q)[i - 1] = q[i])
      /\ Head(q) = q[1]
  BY TailAt, TailIn
<1> QED BY <1>1 DEF Queued

LEMMA EngineClaimed ==
  ASSUME RuntimeInv, HeedInv, Begins, Running, Engine, Claimed PROVE Claimed'
<1>1. events \in Seq(EventSet) /\ cmds \in Seq(Submitted(s.next)) /\ s' = s
  BY EventsAre, HeedParts, EngineBegins DEF Apart
<1>2. CASE Quietens
  <2>1. PICK new \in Seq(EventSet) : events' = events \o new /\ Still(new)
    BY <1>2 DEF Quietens, Mild
  <2>2. /\ e'.load = e.load /\ e'.media = e.media /\ stopBit' = stopBit
        /\ e'.state \in Lively /\ ~e'.revived => e.state \in Lively /\ ~e.revived
    BY <1>2 DEF Quietens, Mild, Sounds, Sober
  <2>3. Queued(cmds) => Queued(cmds')
    BY <1>1, <1>2, QueuedLess DEF Quietens, Shortened
  <2>4. PICK L : L = e.load
    OBVIOUS
  <2>5. PICK m : m = e.media
    OBVIOUS
  <2>6. Reigns(s, events, Len(events) + 1, L, m)
          => Reigns(s, events \o new, Len(events \o new) + 1, L, m)
    BY <1>1, ReignsOn, <2>1
  <2> QED BY <1>1, <2>1, <2>2, <2>3, <2>4, <2>5, <2>6 DEF Claimed
<1>3. CASE Stills
  BY <1>3 DEF Stills, Quelled, Claimed, Lively
<1>4. CASE LoadsNext
  BY <1>4, LoadNextTells DEF Claimed, Lively
<1>5. CASE Concludes /\ LoadCancelled
  <2>1. e.loading # 0
    BY <1>5 DEF LoadCancelled
  <2> QED BY <2>1, <1>5, LoadCancelledTells DEF Begins, Claimed, Lively
<1>6. CASE Concludes /\ LoadFails
  BY <1>6, LoadFailsTells DEF Claimed, Lively
<1>7. CASE Concludes /\ LoadEnds
  <2>1. CASE e'.state = "Failed"
    BY <2>1 DEF Claimed, Lively
  <2>2. CASE e'.state = "Paused"
    <3>1. PICK new \in Seq(EventSet) :
             events' = events \o new /\ Opened(new, Len(new) + 1, e.loading, e.media)
      BY <1>7, <2>2, LoadEndsTells
    <3>2. PICK L : L = e.loading
      OBVIOUS
    <3>3. PICK m : m = e.media
      OBVIOUS
    <3>4. Opened(events \o new, Len(events \o new) + 1, L, m)
      BY <1>1, <3>1, <3>2, <3>3, OpenedAfter
    <3>5. e'.load = L /\ e'.media = m
      BY <1>7, <3>2, <3>3, LoadEndsTells
    <3> QED BY <3>1, <3>4, <3>5 DEF Claimed, Reigns
  <2> QED BY <1>7, <2>1, <2>2, LoadEndsTells
<1> QED BY <1>2, <1>3, <1>4, <1>5, <1>6, <1>7, EngineKinds DEF Concludes

(* What the session keeps to, beside the lists and the loads it waits for,      *)
(* while it only takes note of where it is. *)
Rests(x, y) == y.stop = x.stop /\ y.media = x.media /\ y.last = x.last
Abides(x, y) == Keeps(x, y) /\ Rests(x, y)

LEMMA AbidesOn ==
  ASSUME NEW x, NEW y, NEW z, Abides(x, y), Abides(y, z) PROVE Abides(x, z)
BY DEF Abides, Keeps, Rests

LEMMA AbidesItself == ASSUME NEW x PROVE Abides(x, x)
BY DEF Abides, Keeps, Rests

LEMMA RecordedAbides ==
  ASSUME NEW x \in SessionSet, NEW y, Recorded(x, y) PROVE Abides(x, y)
<1>1. PICK c \in Checkpoints : y = [x EXCEPT !.ck = c]
  BY DEF Recorded
<1>2. Rests(x, y)
  BY <1>1 DEF SessionSet, Rests
<1> QED BY <1>2, RecordedKeeps DEF Abides

LEMMA CaptureAbides ==
  ASSUME NEW x \in SessionSet, NEW p \in Samplings PROVE Abides(x, CaptureCurrent(x, p))
<1>1. /\ p.pos \in Positions /\ x.sample.pos \in Positions /\ x.sample.guess \in BOOLEAN
      /\ Estimated(p.pos) \in BOOLEAN
  BY DEF Samplings, Samples, SessionSet, Estimated
<1>2. ASSUME NEW guess \in BOOLEAN, NEW pos \in Positions
      PROVE  Abides(x, CheckpointFromProgress([x EXCEPT !.guess = guess], pos))
  <2> DEFINE z == [x EXCEPT !.guess = guess]
  <2>1. z \in SessionSet /\ Abides(x, z)
    BY DEF SessionSet, Abides, Keeps, Rests
  <2> HIDE DEF z
  <2>2. Abides(z, CheckpointFromProgress(z, pos))
    BY <2>1, CheckpointFromProgressIs, RecordedAbides
  <2>3. Abides(x, CheckpointFromProgress(z, pos))
    BY <2>1, <2>2, AbidesOn
  <2> QED BY <2>3 DEF z
<1>3. Abides(x, x)
  BY AbidesItself
<1>4. CASE x.media # NoMedia /\ AcceptsSample(x, p)
  BY <1>1, <1>2, <1>4 DEF CaptureCurrent
<1>5. CASE ~(x.media # NoMedia /\ AcceptsSample(x, p))
           /\ x.media # NoMedia /\ x.sample.rev = x.rev /\ x.sample.media = x.media
  BY <1>1, <1>2, <1>5 DEF CaptureCurrent
<1>6. CASE ~(x.media # NoMedia /\ AcceptsSample(x, p))
           /\ ~(x.media # NoMedia /\ x.sample.rev = x.rev /\ x.sample.media = x.media)
  BY <1>3, <1>6 DEF CaptureCurrent
<1> QED BY <1>4, <1>5, <1>6

LEMMA TickAbides ==
  ASSUME NEW x \in SessionSet, NEW p \in Samplings, NEW due PROVE Abides(x, Tick(x, p, due))
<1> DEFINE sample == [rev |-> p.rev, media |-> x.media, pos |-> p.pos, guess |-> Estimated(p.pos)]
           y == [x EXCEPT !.sample = sample, !.guess = Estimated(p.pos)]
           z == [y EXCEPT !.force = 0]
<1>1. Estimated(p.pos) \in BOOLEAN /\ p.pos \in Positions /\ p.rev \in Nat
  BY DEF Estimated, Samplings
<1>2. sample \in Samples
  BY <1>1 DEF Samples, SessionSet
<1> HIDE DEF sample
<1>3. y \in SessionSet
  BY ZenonT(60), <1>1, <1>2 DEF SessionSet
<1>4. Abides(x, y)
  BY DEF Abides, Keeps, Rests, SessionSet
<1> HIDE DEF y
<1>5. z \in SessionSet /\ Abides(y, z)
  BY <1>3 DEF SessionSet, Abides, Keeps, Rests
<1> HIDE DEF z
<1>6. /\ Abides(z, CheckpointFromProgress(z, p.pos))
      /\ Abides(y, CheckpointFromProgress(y, p.pos))
  BY <1>1, <1>3, <1>5, CheckpointFromProgressIs, RecordedAbides
<1>7. /\ Abides(x, CheckpointFromProgress(z, p.pos)) /\ Abides(x, CheckpointFromProgress(y, p.pos))
      /\ Abides(x, x)
  BY <1>4, <1>5, <1>6, AbidesOn, AbidesItself
<1>8. Tick(x, p, due) \in {x, CheckpointFromProgress(z, p.pos), CheckpointFromProgress(y, p.pos), y}
  BY DEF Tick, y, z, sample
<1> QED BY <1>4, <1>7, <1>8

LEMMA OutgoingAbides ==
  ASSUME NEW x \in SessionSet PROVE Abides(x, RecordOutgoing(x))
<1> DEFINE y == [x EXCEPT !.sample = NoSample]
<1>1. y \in SessionSet
  BY NoSampleIn DEF SessionSet
<1>2. Abides(x, y)
  BY DEF SessionSet, Abides, Keeps, Rests
<1> HIDE DEF y
<1>3. x.sample.media \in MediaN /\ PositionFor(x, x.sample.pos) \in Positions
  BY DEF SessionSet, Samples, PositionFor
<1>4. Abides(y, Write(y, x.sample.media, PositionFor(x, x.sample.pos), FALSE))
  BY <1>1, <1>3, WriteIs, RecordedAbides
<1>5. Abides(x, Write(y, x.sample.media, PositionFor(x, x.sample.pos), FALSE))
  BY <1>2, <1>4, AbidesOn
<1>6. RecordOutgoing(x) \in
         {x, y, Write(y, x.sample.media, PositionFor(x, x.sample.pos), FALSE)}
  BY DEF RecordOutgoing, y
<1> QED BY <1>2, <1>5, <1>6, AbidesItself

LEMMA OnStateAbides ==
  ASSUME NEW x \in SessionSet, NEW state \in States PROVE Rests(x, OnState(x, state))
<1> DEFINE y == [x EXCEPT !.playback = state]
           z == [y EXCEPT !.target = NoPos, !.established = TRUE,
                          !.completed = FALSE, !.seen = <<0, 0>>]
           w == [y EXCEPT !.force = x.rev]
<1>1. OnState(x, state) \in {y, z, w}
  BY DEF OnState
<1>2. y \in SessionSet /\ Rests(x, y)
  BY DEF SessionSet, Rests
<1> HIDE DEF y
<1>3. Rests(y, z) /\ Rests(y, w)
  BY <1>2 DEF SessionSet, Rests
<1> HIDE DEF z, w
<1> QED BY <1>1, <1>2, <1>3 DEF Rests

LEMMA OnLandingAbides ==
  ASSUME NEW x \in SessionSet, NEW ev \in EventSet PROVE Rests(x, OnLanding(x, ev))
BY DEF OnLanding, Rests, SessionSet

LEMMA OnTargetAbides ==
  ASSUME NEW x \in SessionSet, NEW ev \in EventSet PROVE Rests(x, OnTargetStored(x, ev))
<1> DEFINE y == [x EXCEPT !.target = ev.pos, !.established = TRUE, !.completed = FALSE,
                          !.seen = <<0, 0>>]
<1>0. ev.pos \in Positions
  BY DEF EventSet
<1>1. y \in SessionSet /\ Rests(x, y)
  BY <1>0 DEF SessionSet, Rests
<1>2. OnTargetStored(x, ev) = RecordCurrent(y, ev.pos)
  BY DEF OnTargetStored
<1> HIDE DEF y
<1>3. Abides(y, OnTargetStored(x, ev))
  BY <1>0, <1>1, <1>2, RecordCurrentIs, RecordedAbides
<1> QED BY <1>1, <1>3 DEF Abides, Rests

LEMMA OnEndAbides ==
  ASSUME NEW x \in SessionSet, NEW ev \in EventSet PROVE Rests(x, OnEndOfTrack(x, ev))
<1> DEFINE key == <<x.adopted.token, x.rev>>
           guess == Estimated(ev.pos)
           protected == x.protected /\ guess
           y == [x EXCEPT !.seen = key, !.target = NoPos, !.established = TRUE,
                          !.completed = TRUE]
           z == [y EXCEPT !.guess = guess, !.protected = protected]
           w == RecordCurrent(z, ev.pos)
           following == IF Has(x.set, x.adopted.target)
                        THEN Following(x.set, x.adopted.target) ELSE None
           advance == IF x.adopted.target = Detached THEN w.advance ELSE following
           v == [w EXCEPT !.advance = advance]
<1>1. key \in Nat \X Nat /\ ev.pos \in Positions /\ guess \in BOOLEAN /\ protected \in BOOLEAN
  BY DEF SessionSet, Loads, EventSet, Estimated
<1>2. OnEndOfTrack(x, ev) \in {x, v}
  BY DEF OnEndOfTrack
<1> HIDE DEF key
<1>3. y \in SessionSet /\ Rests(x, y)
  BY <1>1, NoPosIn DEF SessionSet, Rests
<1> HIDE DEF guess, protected, y
<1>4. z \in SessionSet
  BY ZenonT(60), <1>1, <1>3 DEF SessionSet
<1>5. Rests(y, z)
  BY <1>3 DEF SessionSet, Rests
<1> HIDE DEF z
<1>6. Abides(z, w) /\ w \in SessionSet
  BY <1>1, <1>4, RecordCurrentIs, RecordedAbides, RecordedKeeps
<1> HIDE DEF w, advance
<1>7. Rests(w, v)
  BY <1>6 DEF SessionSet, Rests
<1> HIDE DEF v
<1> QED BY <1>2, <1>3, <1>5, <1>6, <1>7 DEF Abides, Rests

LEMMA MediaEventRests ==
  ASSUME NEW x, Sane(x), NEW ev \in EventSet
  PROVE  LET y == MediaEvent(x, ev) IN
         Rests(x, y) /\ y.set = x.set /\ y.pending = x.pending /\ y.adopted = x.adopted
<1> DEFINE force == IF x.force = 0 THEN 0 ELSE ev.rev
           z == [x EXCEPT !.latest = ev.rev, !.rev = ev.rev, !.force = force]
           w == [z EXCEPT !.checkpointable = z.checkpointable /\ ~ev.live]
           y == MediaEvent(x, ev)
<1>1. x \in SessionSet /\ ev.rev \in Nat /\ force \in Nat /\ ev.state \in States
  BY DEF Sane, EventSet
<1> HIDE DEF force
<1>2. z \in SessionSet
  BY <1>1 DEF SessionSet
<1>3. Rests(x, z) /\ z.set = x.set /\ z.pending = x.pending /\ z.adopted = x.adopted
  BY <1>1 DEF SessionSet, Rests
<1>4. y \in {OnState(z, ev.state), OnLanding(z, ev), OnTargetStored(z, ev),
             OnEndOfTrack(z, ev), w, z}
  BY DEF MediaEvent, force
<1> HIDE DEF z
<1>5. Rests(z, w) /\ w.set = z.set /\ w.pending = z.pending /\ w.adopted = z.adopted
  BY <1>2 DEF SessionSet, Rests
<1> HIDE DEF w, y
<1>6. /\ Rests(z, OnState(z, ev.state)) /\ Keeps(z, OnState(z, ev.state))
      /\ Rests(z, OnLanding(z, ev)) /\ Keeps(z, OnLanding(z, ev))
      /\ Rests(z, OnTargetStored(z, ev)) /\ Keeps(z, OnTargetStored(z, ev))
      /\ Rests(z, OnEndOfTrack(z, ev)) /\ Keeps(z, OnEndOfTrack(z, ev))
  BY <1>1, <1>2, OnStateIs, OnLandingIs, OnTargetStoredIs, OnEndOfTrackIs,
     OnStateAbides, OnLandingAbides, OnTargetAbides, OnEndAbides
<1>7. Rests(z, y) /\ y.set = z.set /\ y.pending = z.pending /\ y.adopted = z.adopted
  BY <1>4, <1>5, <1>6 DEF Keeps, Rests
<1> QED BY <1>3, <1>7 DEF Rests, y

(* What the session still waits for it waits for as before. *)
Clings(x, y) ==
    /\ Rests(x, y) /\ y.adopted = x.adopted /\ y.set = x.set
    /\ \A t \in DOMAIN x.pending : t \in DOMAIN y.pending /\ y.pending[t] = x.pending[t]

LEMMA ClingsOn ==
  ASSUME NEW x, NEW y, NEW z, Clings(x, y), Clings(y, z) PROVE Clings(x, z)
BY DEF Clings, Rests

LEMMA AbidesClings == ASSUME NEW x, NEW y, Abides(x, y) PROVE Clings(x, y)
BY DEF Abides, Keeps, Clings

LEMMA RetractClings ==
  ASSUME NEW x, Sane(x), NEW token
  PROVE  LET y == Retract(x, token) IN
         /\ Rests(x, y) /\ y.adopted = x.adopted /\ y.set = x.set
         /\ \A t \in DOMAIN y.pending : y.pending[t] = x.pending[t]
         /\ \A t \in DOMAIN x.pending : t # token => t \in DOMAIN y.pending
<1> DEFINE f == [t \in DOMAIN x.pending \ {token} |-> x.pending[t]]
           y == Retract(x, token)
<1>1. x \in SessionSet
  BY DEF Sane
<1>2. y = [x EXCEPT !.pending = f]
  BY DEF Retract
<1>3. \A t \in DOMAIN f : f[t] = x.pending[t]
  OBVIOUS
<1>4. \A t \in DOMAIN x.pending : t # token => t \in DOMAIN f
  OBVIOUS
<1> HIDE DEF f, y
<1>5. y.pending = f /\ Rests(x, y) /\ y.adopted = x.adopted /\ y.set = x.set
  BY <1>1, <1>2 DEF SessionSet, Rests
<1> QED BY <1>3, <1>4, <1>5 DEF y

LEMMA RegisterClings ==
  ASSUME NEW x, Sane(x), NEW target, NEW media
  PROVE  LET y == Register(x, target, media) IN
         /\ Clings(x, y) /\ x.next + 1 \in DOMAIN y.pending
         /\ y.pending[x.next + 1] = [target |-> target, media |-> media, valid |-> TRUE]
<1> DEFINE t0 == x.next + 1
           registration == [target |-> target, media |-> media, valid |-> TRUE]
           f == [t \in DOMAIN x.pending \union {t0} |->
                   IF t \in DOMAIN x.pending THEN x.pending[t] ELSE registration]
           y == Register(x, target, media)
<1>1. x \in SessionSet /\ x.next \in Nat /\ t0 \notin DOMAIN x.pending
  BY DEF Sane, SessionSet
<1>2. y = [[x EXCEPT !.next = t0] EXCEPT !.pending = f]
  BY DEF Register
<1>3. t0 \in DOMAIN f /\ f[t0] = registration
  BY <1>1
<1>4. \A t \in DOMAIN x.pending : t \in DOMAIN f /\ f[t] = x.pending[t]
  OBVIOUS
<1> HIDE DEF f, y, t0, registration
<1>5. y.pending = f /\ Rests(x, y) /\ y.adopted = x.adopted /\ y.set = x.set
  BY <1>1, <1>2 DEF SessionSet, Rests
<1> QED BY <1>3, <1>4, <1>5 DEF y, t0, registration, Clings

LEMMA AdoptsWhole ==
  ASSUME NEW x \in SessionSet, NEW ev \in EventSet, ev.media \in Media, NEW token, NEW target
  PROVE  LET y == AdoptLoaded(x, token, target, ev) IN
         /\ y.stop = x.stop /\ y.last = x.last /\ y.media = ev.media /\ y.pending = x.pending
         /\ y.adopted = [token |-> token, target |-> target]
         /\ y.set = IF target = Detached THEN x.set ELSE Adopt(x.set, target)
<1> DEFINE m == ev.media
           gone == IF x.media # m THEN RecordOutgoing(x) ELSE x
           reset == [gone EXCEPT !.force = 0, !.target = NoPos, !.established = FALSE,
                                 !.guess = FALSE, !.protected = ev.fallback]
           moved == AdoptMedia(reset, m, target)
           y == AdoptLoaded(x, token, target, ev)
<1>1. gone \in SessionSet /\ Abides(x, gone)
  BY RecordOutgoingIs, OutgoingAbides, AbidesItself
<1>2. y = [moved EXCEPT
             !.sample = [rev |-> x.rev, media |-> m, pos |-> ev.pos, guess |-> FALSE],
             !.checkpointable = ~ev.live,
             !.set = IF target = Detached THEN moved.set ELSE Adopt(moved.set, target),
             !.adopted = [token |-> token, target |-> target]]
  BY DEF AdoptLoaded, gone
<1> HIDE DEF gone
<1>3. reset \in SessionSet /\ Abides(gone, reset)
  <2>1. ev.fallback \in BOOLEAN
    BY DEF EventSet
  <2>2. reset \in SessionSet
    BY ZenonT(60), <1>1, <2>1, NoPosIn DEF SessionSet
  <2>3. Abides(gone, reset)
    BY <1>1 DEF SessionSet, Abides, Keeps, Rests
  <2> QED BY <2>2, <2>3
<1> HIDE DEF reset
<1>4. /\ moved.stop = reset.stop /\ moved.last = reset.last /\ moved.media = m
      /\ moved.pending = reset.pending /\ moved.set = reset.set
  <2>1. moved = [reset EXCEPT !.media = m, !.completed = reset.ck[m].done,
                    !.saved = IF target # Detached \/ Cursor(reset.set) = None THEN m ELSE @]
    BY DEF AdoptMedia
  <2> HIDE DEF moved, m
  <2> QED BY <1>3, <2>1 DEF SessionSet
<1>5. moved \in SessionSet
  BY <1>3, AdoptMediaIs
<1>6. m = ev.media
  OBVIOUS
<1> HIDE DEF moved, y, m
<1>7. /\ y.stop = moved.stop /\ y.last = moved.last /\ y.media = moved.media
      /\ y.pending = moved.pending /\ y.adopted = [token |-> token, target |-> target]
      /\ y.set = IF target = Detached THEN moved.set ELSE Adopt(moved.set, target)
  BY <1>2, <1>5 DEF SessionSet
<1> QED BY <1>1, <1>3, <1>4, <1>6, <1>7 DEF y, Abides, Keeps, Rests

(* What an event changes of what the session owns and waits for. *)
Accepted(x, ev) == ev.k = "Loaded" /\ Accepts(x, ev)
Adopted(x, ev, y) ==
    LET target == x.pending[ev.token].target IN
    /\ y.stop = x.stop /\ y.last = ev.token /\ y.media = ev.media
    /\ y.adopted = [token |-> ev.token, target |-> target]
    /\ y.set = IF target = Detached THEN x.set ELSE Adopt(x.set, target)
Released(x, ev, y) ==
    /\ y.adopted = x.adopted /\ y.set = x.set /\ y.media = x.media
    /\ ev.k # "Loaded" => y.last = 0 /\ y.stop = x.stop
    /\ ev.k = "Loaded" => y.last = ev.token /\ y.stop = TRUE

LEMMA OutcomeReleases ==
  ASSUME NEW x, Sane(x), NEW ev \in EventSet, ev.k = "Loaded" => ev.media \in Media,
         IsOutcome(ev), ev.token \in DOMAIN x.pending, x.latest <= ev.rev,
         NEW y, y = Observe(x, ev)
  PROVE  /\ \A t \in DOMAIN y.pending : y.pending[t] = x.pending[t]
         /\ \A t \in DOMAIN x.pending : t # ev.token => t \in DOMAIN y.pending
         /\ Accepted(x, ev) => Adopted(x, ev, y)
         /\ ~Accepted(x, ev) => Released(x, ev, y)
<1> DEFINE gone == Retract(x, ev.token)
           known == WithLatest(gone, ev.rev, 0)
           later == WithLatest(gone, ev.rev, ev.token)
           stopping == [later EXCEPT !.stop = TRUE]
           owning == [later EXCEPT !.rev = ev.rev]
           target == x.pending[ev.token].target
           adopting == AdoptLoaded(owning, ev.token, target, ev)
<1>1. /\ x \in SessionSet /\ ev.rev \in Nat /\ x.latest \in Nat /\ ev.token \in 1 .. x.next
      /\ ev.token \in Nat /\ ~(ev.rev < x.latest) /\ ev.rev >= x.latest
  BY DEF Sane, SessionSet, EventSet
<1>2. /\ Sane(gone) /\ gone.latest = x.latest /\ gone.adopted = x.adopted
      /\ gone.set = x.set /\ Rests(x, gone)
      /\ \A t \in DOMAIN gone.pending : gone.pending[t] = x.pending[t]
      /\ \A t \in DOMAIN x.pending : t # ev.token => t \in DOMAIN gone.pending
  BY RetractIs, RetractClings
<1>3. /\ ev.k # "Loaded" => y = known
      /\ ev.k = "Loaded" /\ ~Accepts(x, ev) => y = stopping
      /\ ev.k = "Loaded" /\ Accepts(x, ev) => y = adopting
  <2>1. y = LoadOutcome(x, ev, Accepts(x, ev))
    BY <1>1 DEF Observe
  <2> QED BY <1>1, <2>1 DEF LoadOutcome, WithLatest, gone
<1>4. gone \in SessionSet
  BY <1>2 DEF Sane
<1>5. gone.stop = x.stop /\ gone.media = x.media /\ gone.last = x.last
  BY <1>2 DEF Rests
<1>9. PICK goal : goal = target
  OBVIOUS
<1> HIDE DEF gone, target
<1>6. CASE ev.k # "Loaded"
  <2>1. Sane(known) /\ known.pending = gone.pending
    BY <1>1, <1>2, LatestIs
  <2>2. /\ known.adopted = gone.adopted /\ known.set = gone.set
        /\ known.media = gone.media /\ known.last = 0 /\ known.stop = gone.stop
    BY <1>4 DEF WithLatest, SessionSet
  <2> HIDE DEF known
  <2> QED BY <1>2, <1>3, <1>5, <1>6, <2>1, <2>2 DEF Released, Accepted
<1>7. CASE ev.k = "Loaded"
  <2>1. Sane(later) /\ later.pending = gone.pending
    BY <1>1, <1>2, LatestIs
  <2>2. /\ later.adopted = gone.adopted /\ later.set = gone.set
        /\ later.media = gone.media /\ later.last = ev.token /\ later.stop = gone.stop
    BY <1>4 DEF WithLatest, SessionSet
  <2>3. later \in SessionSet
    BY <2>1 DEF Sane
  <2> HIDE DEF later
  <2>4. CASE ~Accepts(x, ev)
    <3>1. /\ stopping.pending = later.pending /\ stopping.adopted = later.adopted
          /\ stopping.set = later.set /\ stopping.media = later.media
          /\ stopping.last = later.last /\ stopping.stop = TRUE
      BY <2>3 DEF SessionSet
    <3> HIDE DEF stopping
    <3> QED BY <1>2, <1>3, <1>5, <1>7, <2>1, <2>2, <2>4, <3>1 DEF Released, Accepted
  <2>5. CASE Accepts(x, ev)
    <3>1. /\ owning.pending = later.pending /\ owning.set = later.set
          /\ owning.last = later.last /\ owning.stop = later.stop /\ owning \in SessionSet
      BY <1>1, <2>3 DEF SessionSet
    <3> HIDE DEF owning
    <3>2. PICK u \in SessionSet : u = owning
      BY <3>1
    <3>4. PICK z : z = AdoptLoaded(u, ev.token, goal, ev)
      OBVIOUS
    <3>5. y = z
      BY <1>3, <1>7, <1>9, <2>5, <3>2, <3>4
    <3>6. ev.media \in Media
      BY <1>7
    <3>7. /\ z.stop = u.stop /\ z.last = u.last /\ z.media = ev.media /\ z.pending = u.pending
          /\ z.adopted = [token |-> ev.token, target |-> goal]
          /\ z.set = IF goal = Detached THEN u.set ELSE Adopt(u.set, goal)
      BY <3>4, <3>6, AdoptsWhole
    <3>8. goal = x.pending[ev.token].target
      BY <1>9 DEF target
    <3>9. /\ y.stop = x.stop /\ y.last = ev.token /\ y.media = ev.media
          /\ y.pending = gone.pending /\ y.adopted = [token |-> ev.token, target |-> goal]
          /\ y.set = IF goal = Detached THEN x.set ELSE Adopt(x.set, goal)
      BY <1>2, <1>5, <2>1, <2>2, <3>1, <3>2, <3>5, <3>7
    <3>10. Adopted(x, ev, y)
      BY <3>8, <3>9 DEF Adopted
    <3> QED BY <1>2, <1>7, <2>5, <3>9, <3>10 DEF Accepted
  <2> QED BY <2>4, <2>5
<1> QED BY <1>6, <1>7

LEMMA LoadingReleases ==
  ASSUME NEW x, Sane(x), NEW ev \in EventSet, ~IsOutcome(ev), Cut(ev),
         ev.token \in DOMAIN x.pending, x.latest <= ev.rev, NEW y, y = Observe(x, ev)
  PROVE  /\ y.last = 0 /\ y.stop = x.stop /\ y.adopted = x.adopted /\ y.set = x.set
         /\ y.media = x.media /\ y.pending = x.pending
<1> DEFINE shown == [x EXCEPT !.playback = "Loading"]
<1>1. /\ x \in SessionSet /\ ev.rev \in Nat /\ x.latest \in Nat /\ ~(ev.rev < x.latest)
  BY DEF Sane, SessionSet, EventSet
<1>2. y = Loading(x, ev)
  BY DEF Observe, Cut
<1>3. /\ shown \in SessionSet /\ shown.latest = x.latest /\ shown.stop = x.stop
      /\ shown.adopted = x.adopted /\ shown.set = x.set /\ shown.media = x.media
      /\ shown.pending = x.pending
  BY <1>1 DEF SessionSet, States
<1>4. y = WithLatest(shown, ev.rev, 0)
  BY <1>1, <1>2, <1>3 DEF Loading, WithLatest
<1> HIDE DEF shown
<1>5. /\ y.last = 0 /\ y.stop = shown.stop /\ y.adopted = shown.adopted /\ y.set = shown.set
      /\ y.media = shown.media /\ y.pending = shown.pending
  BY <1>3, <1>4 DEF WithLatest, SessionSet
<1> QED BY <1>3, <1>5

LEMMA QuietObserved ==
  ASSUME NEW x, Sane(x), NEW ev \in EventSet, ~Cut(ev), NEW y, y = Observe(x, ev)
  PROVE  Rests(x, y) /\ y.set = x.set /\ y.pending = x.pending /\ y.adopted = x.adopted
<1>1. DOMAIN x.pending \subseteq 1 .. x.next /\ x \in SessionSet
  BY DEF Sane
<1>2. 0 \notin DOMAIN x.pending
  BY <1>1
<1>3. y = IF Accepts(x, ev) THEN MediaEvent(x, ev) ELSE x
  BY <1>2 DEF Observe, Cut
<1> QED BY <1>3, MediaEventRests DEF Rests

(* The entries that are not taken away stay, with their media. *)
LEMMA RemoveKeeps ==
  ASSUME NEW set, SoundSet(set), NEW id, Has(set, id), NEW v, v # id, Has(set, v)
  PROVE  Has(RemoveFrom(set, id), v) /\ MediaOf(RemoveFrom(set, id), v) = MediaOf(set, v)
<1> DEFINE new == RemoveFrom(set, id)
           k == Owner(set, id)
           list == set.lists[k]
           p == Position(list, id)
           rest == RemoveAt(list.entries, p)
           less == [list EXCEPT !.entries = rest, !.cursor = IF @ = id THEN None ELSE @]
<1>1. k \in DOMAIN set.lists /\ p \in DOMAIN list.entries /\ list.entries[p].id = id
  BY HasIs
<1>2. new = [set EXCEPT !.lists[k] = less] /\ SameMediaIn(set, new)
  BY RemoveFromIs DEF RemoveFrom, WithList
<1> HIDE DEF p
<1>3. /\ set \in PlaylistSets /\ set.lists \in Seq(PlayLists)
      /\ list \in PlayLists /\ DOMAIN list.entries = 1 .. Len(list.entries)
      /\ Len(list.entries) \in Nat /\ list.entries \in Seq(EntrySets)
  BY <1>1, SoundParts DEF PlayLists
<1>4. /\ DOMAIN rest = 1 .. Len(list.entries) - 1
      /\ \A i \in 1 .. Len(list.entries) - 1 :
            rest[i] = IF i < p THEN list.entries[i] ELSE list.entries[i + 1]
  BY ZenonT(60), <1>1, <1>3, RemovedIs
<1> HIDE DEF rest
<1>5. less.entries = rest
  BY <1>3 DEF PlayLists
<1> HIDE DEF less
<1>6. /\ DOMAIN new.lists = DOMAIN set.lists /\ new.lists[k] = less
      /\ \A l \in DOMAIN set.lists : l # k => new.lists[l] = set.lists[l]
  BY <1>1, <1>2, <1>3 DEF PlaylistSets
<1> HIDE DEF new, list, k
<1>7. PICK l \in DOMAIN set.lists : \E i \in DOMAIN set.lists[l].entries : set.lists[l].entries[i].id = v
  BY DEF Has, Ids
<1>8. CASE l # k
  <2>1. Has(new, v)
    BY <1>6, <1>7, <1>8 DEF Has, Ids
  <2> QED BY <1>2, <2>1 DEF SameMediaIn, new
<1>9. CASE l = k
  <2>1. PICK j \in DOMAIN list.entries : list.entries[j].id = v
    BY <1>7, <1>9 DEF list
  <2>2. j \in 1 .. Len(list.entries) /\ j # p /\ p \in 1 .. Len(list.entries)
    BY <1>1, <1>3, <2>1
  <2>3. \E i \in DOMAIN rest : rest[i].id = v
    <3>1. CASE j < p
      BY SMTT(60), <1>3, <1>4, <2>1, <2>2, <3>1
    <3>2. CASE j > p
      <4>1. j - 1 \in 1 .. Len(list.entries) - 1 /\ ~(j - 1 < p) /\ (j - 1) + 1 = j
        BY <1>3, <2>2, <3>2
      <4>2. rest[j - 1] = list.entries[(j - 1) + 1]
        BY <1>4, <4>1
      <4> QED BY <1>4, <2>1, <4>1, <4>2
    <3> QED BY <1>3, <2>2, <3>1, <3>2
  <2>4. Has(new, v)
    BY <1>1, <1>5, <1>6, <2>3 DEF Has, Ids
  <2> QED BY <1>2, <2>4 DEF SameMediaIn, new
<1> QED BY <1>8, <1>9

LEMMA AdoptKeepsEntries ==
  ASSUME NEW set, SoundSet(set), NEW id, Has(set, id), NEW v, Has(set, v)
  PROVE  Has(Adopt(set, id), v) /\ MediaOf(Adopt(set, id), v) = MediaOf(set, v)
<1> DEFINE new == Adopt(set, id)
           k == Owner(set, id)
<1>1. k \in DOMAIN set.lists
  BY HasIs
<1>2. set \in PlaylistSets /\ set.lists \in Seq(PlayLists) /\ set.lists[k] \in PlayLists
  BY <1>1, SoundParts
<1> HIDE DEF k
<1>3. /\ new = [set EXCEPT !.lists[k].cursor = id, !.playing = set.lists[k].id]
      /\ SameMediaIn(set, new)
  BY AdoptIs DEF Adopt, k
<1> DEFINE moved == [set.lists[k] EXCEPT !.cursor = id]
<1>4. /\ DOMAIN new.lists = DOMAIN set.lists /\ new.lists[k] = moved
      /\ \A l \in DOMAIN set.lists : l # k => new.lists[l] = set.lists[l]
  BY <1>1, <1>2, <1>3 DEF PlaylistSets
<1>5. moved.entries = set.lists[k].entries
  BY <1>2 DEF PlayLists
<1> HIDE DEF new, moved
<1>6. \A l \in DOMAIN set.lists : new.lists[l].entries = set.lists[l].entries
  BY <1>4, <1>5
<1>7. Has(new, v)
  BY <1>4, <1>6 DEF Has, Ids
<1> QED BY <1>3, <1>7 DEF SameMediaIn, new

LEMMA ClearKeeps ==
  ASSUME NEW set, SoundSet(set), NEW list \in Members(set),
         NEW v, Has(set, v), v \notin Ids(set.lists[Index(set, list)])
  PROVE  Has(ClearList(set, list), v) /\ MediaOf(ClearList(set, list), v) = MediaOf(set, v)
<1> DEFINE new == ClearList(set, list)
           k == Index(set, list)
           less == [set.lists[k] EXCEPT !.entries = <<>>, !.cursor = None]
<1>1. k \in DOMAIN set.lists
  BY MemberIs
<1>2. new = [set EXCEPT !.lists[k] = less] /\ SameMediaIn(set, new)
  BY ClearListIs DEF ClearList, WithList
<1>3. set \in PlaylistSets
  BY SoundParts
<1> HIDE DEF less, k
<1>4. /\ DOMAIN new.lists = DOMAIN set.lists
      /\ \A l \in DOMAIN set.lists : l # k => new.lists[l] = set.lists[l]
  BY <1>1, <1>2, <1>3 DEF PlaylistSets
<1> HIDE DEF new
<1>5. PICK l \in DOMAIN set.lists : v \in Ids(set.lists[l])
  BY DEF Has
<1>6. l # k
  BY <1>5 DEF k
<1>7. Has(new, v)
  BY <1>4, <1>5, <1>6 DEF Has
<1> QED BY <1>2, <1>7 DEF SameMediaIn, new

LEMMA DeleteKeeps ==
  ASSUME NEW set, SoundSet(set), NEW list, Deletable(set, list),
         NEW v, Has(set, v), v \notin Ids(set.lists[Index(set, list)])
  PROVE  Has(DeleteList(set, list), v) /\ MediaOf(DeleteList(set, list), v) = MediaOf(set, v)
<1> DEFINE new == DeleteList(set, list)
           k == Index(set, list)
           rest == RemoveAt(set.lists, k)
           next == IF k <= Len(rest) THEN k ELSE Len(rest)
<1>1. k \in DOMAIN set.lists
  BY MemberIs DEF Deletable
<1>2. /\ new = [set EXCEPT !.lists = rest,
                           !.playing = IF set.playing = list THEN rest[next].id ELSE set.playing]
      /\ SameMediaIn(set, new)
  BY DeleteListIs DEF DeleteList
<1> HIDE DEF k
<1>3. /\ set \in PlaylistSets /\ set.lists \in Seq(PlayLists)
      /\ DOMAIN set.lists = 1 .. Len(set.lists) /\ Len(set.lists) \in Nat
  BY SoundParts
<1>4. /\ DOMAIN rest = 1 .. Len(set.lists) - 1
      /\ \A l \in 1 .. Len(set.lists) - 1 :
            rest[l] = IF l < k THEN set.lists[l] ELSE set.lists[l + 1]
  BY <1>1, <1>3, RemovedIs
<1> HIDE DEF rest, next
<1>5. new.lists = rest
  BY <1>2, <1>3 DEF PlaylistSets
<1> HIDE DEF new
<1>6. PICK l \in DOMAIN set.lists : v \in Ids(set.lists[l])
  BY DEF Has
<1>7. l # k /\ l \in 1 .. Len(set.lists) /\ k \in 1 .. Len(set.lists)
  BY <1>1, <1>3, <1>6 DEF k
<1>8. \E i \in DOMAIN rest : rest[i] = set.lists[l]
  <2>1. CASE l < k
    BY SMTT(60), <1>3, <1>4, <1>7, <2>1
  <2>2. CASE l > k
    <3>1. l - 1 \in 1 .. Len(set.lists) - 1 /\ ~(l - 1 < k) /\ (l - 1) + 1 = l
      BY <1>3, <1>7, <2>2
    <3>2. rest[l - 1] = set.lists[(l - 1) + 1]
      BY <1>4, <3>1
    <3> QED BY <1>4, <3>1, <3>2
  <2> QED BY <1>3, <1>7, <2>1, <2>2
<1>9. Has(new, v)
  BY <1>5, <1>6, <1>8 DEF Has
<1> QED BY <1>2, <1>9 DEF SameMediaIn, new

(* What is left to the session when the entries ids go. *)
Bereft(x, ids, y) ==
    /\ Rests(x, y) /\ y.adopted = IF OwnsAny(x, ids) THEN NoLoad ELSE x.adopted
    /\ DOMAIN y.pending = DOMAIN x.pending
    /\ \A t \in DOMAIN x.pending : x.pending[t].target \notin ids => y.pending[t] = x.pending[t]
    /\ \A v : v \notin ids /\ Has(x.set, v) =>
                 Has(y.set, v) /\ MediaOf(y.set, v) = MediaOf(x.set, v)

LEMMA VacateRests ==
  ASSUME NEW x \in SessionSet, NEW ids, NEW p \in Samplings
  PROVE  LET y == Vacate(x, ids, p) IN
         /\ Rests(x, y)
         /\ \A t \in DOMAIN x.pending : x.pending[t].target \notin ids => y.pending[t] = x.pending[t]
<1> DEFINE f == [t \in DOMAIN x.pending |->
                   IF x.pending[t].target \in ids THEN [x.pending[t] EXCEPT !.valid = FALSE]
                   ELSE x.pending[t]]
           y == [x EXCEPT !.pending = f]
           c == CaptureCurrent(y, p)
           z == [c EXCEPT !.adopted = NoLoad, !.sample = NoSample]
<1>1. f \in Pendings
  <2>1. DOMAIN x.pending \in SUBSET Nat /\ x.pending \in [DOMAIN x.pending -> Registrations]
    BY PendingOut DEF SessionSet
  <2> DEFINE D == DOMAIN x.pending
  <2>2. f \in [D -> Registrations]
    BY <2>1 DEF Registrations
  <2>3. D \in SUBSET Nat
    BY <2>1
  <2> HIDE DEF D, f
  <2> QED BY <2>2, <2>3, PendingIn
<1>2. Vacate(x, ids, p) = IF OwnsAny(x, ids) THEN z ELSE y
  BY DEF Vacate, Invalidate, ReleaseActive
<1>3. \A t \in DOMAIN x.pending : x.pending[t].target \notin ids => f[t] = x.pending[t]
  OBVIOUS
<1> HIDE DEF f
<1>4. y \in SessionSet /\ y.pending = f /\ Rests(x, y)
  BY <1>1 DEF SessionSet, Rests
<1> HIDE DEF y
<1>5. Abides(y, c) /\ c \in SessionSet
  BY <1>4, CaptureAbides, CaptureCurrentIs
<1> HIDE DEF c
<1>6. Rests(c, z) /\ z.pending = c.pending
  BY <1>5 DEF SessionSet, Rests
<1> HIDE DEF z
<1>7. Rests(x, z) /\ z.pending = f
  BY <1>4, <1>5, <1>6 DEF Abides, Keeps, Rests
<1> QED BY <1>2, <1>3, <1>4, <1>7

LEMMA BereftBy ==
  ASSUME NEW x \in SessionSet, NEW ids, NEW p \in Samplings, NEW v, v = Vacate(x, ids, p),
         NEW set, NEW saved, NEW y, y = WithPlaylists(v, set, saved),
         \A id : id \notin ids /\ Has(x.set, id) =>
                    Has(set, id) /\ MediaOf(set, id) = MediaOf(x.set, id)
  PROVE  Bereft(x, ids, y)
<1>1. /\ Vacated(x, ids, v) /\ Rests(x, v)
      /\ \A t \in DOMAIN x.pending : x.pending[t].target \notin ids => v.pending[t] = x.pending[t]
  BY VacateIs, VacateRests
<1>2. v \in SessionSet
  BY <1>1 DEF Vacated
<1>3. Rests(v, y) /\ y.set = set /\ y.pending = v.pending /\ y.adopted = v.adopted
  BY <1>2 DEF WithPlaylists, SessionSet, Rests
<1> QED BY <1>1, <1>3 DEF Bereft, Vacated, Rests

LEMMA QueueBereaves ==
  ASSUME RuntimeInv, Queue PROVE \E ids : ApplyRemoval(ids, s') /\ Bereft(s, ids, s')
<1>1. Removes
  BY DEF Queue
<1>2. s \in SessionSet /\ Progress \in Samplings /\ SoundSet(s.set)
  BY FrontEndParts DEF SessionSet, SoundSets
<1>3. ASSUME NEW ids, NEW v, v = Vacate(s, ids, Progress), NEW set, s' = [v EXCEPT !.set = set]
      PROVE  s' = WithPlaylists(v, set, v.saved) /\ v.set = s.set
  <2>1. v \in SessionSet /\ v.set = s.set
    BY <1>2, <1>3, VacateIs DEF Vacated
  <2> QED BY <1>3, <2>1 DEF SessionSet, WithPlaylists
<1>4. ASSUME NEW id \in AllIds(s.set), ApplyRemoval({id}, RemoveEntry(s, id, Progress))
      PROVE  ApplyRemoval({id}, s') /\ Bereft(s, {id}, s')
  <2>1. s' = RemoveEntry(s, id, Progress) /\ ApplyRemoval({id}, s')
    BY <1>4 DEF ApplyRemoval
  <2>2. PICK v : v = Vacate(s, {id}, Progress)
    OBVIOUS
  <2>3. s' = [v EXCEPT !.set = RemoveFrom(v.set, id)]
    BY <2>1, <2>2 DEF RemoveEntry
  <2>4. PICK set : set = RemoveFrom(s.set, id)
    OBVIOUS
  <2>5. v.set = s.set
    BY <1>3, <2>2, <2>3
  <2>6. s' = WithPlaylists(v, set, v.saved)
    BY <1>3, <2>2, <2>3, <2>4, <2>5
  <2>7. Has(s.set, id)
    BY DEF AllIds, Has
  <2>8. \A w : w \notin {id} /\ Has(s.set, w) =>
                  Has(set, w) /\ MediaOf(set, w) = MediaOf(s.set, w)
    BY <1>2, <2>4, <2>7, RemoveKeeps
  <2> QED BY <1>2, <2>1, <2>2, <2>6, <2>8, BereftBy
<1>5. ASSUME NEW list \in Members(s.set),
             ApplyRemoval(EntriesOf(list), ClearPlaylist(s, list, Progress))
      PROVE  \E ids : ApplyRemoval(ids, s') /\ Bereft(s, ids, s')
  <2>1. PICK ids : ids = EntriesOf(list)
    OBVIOUS
  <2>2. s' = ClearPlaylist(s, list, Progress) /\ ApplyRemoval(ids, s')
    BY <1>5, <2>1 DEF ApplyRemoval
  <2>3. PICK v : v = Vacate(s, ids, Progress)
    OBVIOUS
  <2>4. s' = [v EXCEPT !.set = ClearList(v.set, list)]
    BY <2>1, <2>2, <2>3 DEF ClearPlaylist, EntriesOf
  <2>5. v.set = s.set
    BY <1>3, <2>3, <2>4
  <2>6. PICK set : set = ClearList(s.set, list)
    OBVIOUS
  <2>7. s' = WithPlaylists(v, set, v.saved)
    BY <1>3, <2>3, <2>4, <2>5, <2>6
  <2>8. \A w : w \notin ids /\ Has(s.set, w) =>
                  Has(set, w) /\ MediaOf(set, w) = MediaOf(s.set, w)
    BY <1>2, <2>1, <2>6, ClearKeeps DEF EntriesOf
  <2> QED BY <1>2, <2>2, <2>3, <2>7, <2>8, BereftBy
<1>6. ASSUME NEW list \in Members(s.set), Deletable(s.set, list),
             ApplyRemoval(EntriesOf(list), DeletePlaylist(s, list, Progress))
      PROVE  \E ids : ApplyRemoval(ids, s') /\ Bereft(s, ids, s')
  <2>1. PICK ids : ids = EntriesOf(list)
    OBVIOUS
  <2>2. s' = DeletePlaylist(s, list, Progress) /\ ApplyRemoval(ids, s')
    BY <1>6, <2>1 DEF ApplyRemoval
  <2>3. PICK v : v = Vacate(s, ids, Progress)
    OBVIOUS
  <2>4. v.set = s.set
    BY <1>2, <2>3, VacateIs DEF Vacated
  <2>5. PICK set : set = DeleteList(s.set, list)
    OBVIOUS
  <2>6. PICK saved : saved = CASE v.set.playing # list -> v.saved
                               [] v.set.playing = list /\ Cursor(set) = None -> NoMedia
                               [] OTHER -> MediaOf(set, Cursor(set))
    OBVIOUS
  <2>7. s' = WithPlaylists(v, set, saved)
    BY <2>1, <2>2, <2>3, <2>4, <2>5, <2>6 DEF DeletePlaylist, WithPlaylists, EntriesOf
  <2>8. \A w : w \notin ids /\ Has(s.set, w) =>
                  Has(set, w) /\ MediaOf(set, w) = MediaOf(s.set, w)
    BY <1>2, <1>6, <2>1, <2>5, DeleteKeeps DEF EntriesOf
  <2> QED BY <1>2, <2>2, <2>3, <2>7, <2>8, BereftBy
<1> QED BY <1>1, <1>4, <1>5, <1>6 DEF Removes

(* What a submission adds: nothing, or one load and perhaps its start. *)
Refused(x, y) == y.cmds = x.cmds /\ Clings(x.s, y.s)
Lodged(x, target, media, y) ==
    LET token == x.s.next + 1 IN
    /\ Clings(x.s, y.s) /\ y.s.next = token /\ token \in DOMAIN y.s.pending
    /\ y.s.pending[token] = [target |-> target, media |-> media, valid |-> TRUE]
    /\ \E load, start :
          /\ load.cmd = "Load" /\ load.token = token /\ load.media = media
          /\ start.cmd = "PlayLoaded"
          /\ y.cmds \in {Append(x.cmds, load), Append(Append(x.cmds, load), start)}

LEMMA SubmitLodges ==
  ASSUME NEW x, Sane(x.s), NEW target \in Nat, NEW media \in Media,
         \E session, queue : x = [s |-> session, cmds |-> queue]
  PROVE  LET y == SubmitLoad(x, target, media) IN Refused(x, y) \/ Lodged(x, target, media, y)
<1>1. PICK u : u = x.s
  OBVIOUS
<1>2. Sane(u)
  BY <1>1
<1>3. PICK r : r = Register(u, target, media)
  OBVIOUS
<1>4. /\ Sane(r) /\ r.next = u.next + 1 /\ Clings(u, r) /\ u.next + 1 \in DOMAIN r.pending
      /\ r.pending[u.next + 1] = [target |-> target, media |-> media, valid |-> TRUE]
      /\ u.next + 1 \notin DOMAIN u.pending
  BY <1>2, <1>3, RegisterIs, RegisterClings
<1>5. PICK t : t = Retract(r, r.next)
  OBVIOUS
<1>6. Clings(u, t)
  <2>1. PICK token : token = r.next
    OBVIOUS
  <2>2. /\ Rests(r, t) /\ t.adopted = r.adopted /\ t.set = r.set
        /\ \A k \in DOMAIN t.pending : t.pending[k] = r.pending[k]
        /\ \A k \in DOMAIN r.pending : k # token => k \in DOMAIN t.pending
    BY <1>4, <1>5, <2>1, RetractClings
  <2> QED BY <1>4, <2>1, <2>2 DEF Clings, Rests
<1>7. PICK y : y = SubmitLoad(x, target, media)
  OBVIOUS
<1>8. CASE Busy(u)
  <2>1. y = x
    BY <1>1, <1>7, <1>8 DEF SubmitLoad
  <2> QED BY <1>7, <2>1 DEF Refused, Clings, Rests
<1>9. CASE ~Busy(u) /\ ~Room(x.cmds)
  <2>1. y = [x EXCEPT !.s = t]
    BY <1>1, <1>3, <1>5, <1>7, <1>9 DEF SubmitLoad
  <2>2. y.s = t /\ y.cmds = x.cmds
    BY <2>1
  <2> QED BY <1>1, <1>6, <1>7, <2>2 DEF Refused
<1>10. CASE ~Busy(u) /\ Room(x.cmds)
  <2>1. y = Admitted(x, r, media)
    BY <1>1, <1>3, <1>7, <1>10 DEF SubmitLoad
  <2>2. PICK load : load = Command("Load", r.next, media, ResumeIntent(r, media))
    OBVIOUS
  <2>3. PICK start : start = Command("PlayLoaded", r.next, NoMedia, NoIntent)
    OBVIOUS
  <2>4. /\ load.cmd = "Load" /\ load.token = r.next /\ load.media = media
        /\ start.cmd = "PlayLoaded"
    BY <2>2, <2>3 DEF Command
  <2>5. y.s = r /\ y.cmds \in {Append(x.cmds, load), Append(Append(x.cmds, load), start)}
    BY <2>1, <2>2, <2>3 DEF Admitted
  <2>6. Lodged(x, target, media, y)
    BY <1>1, <1>4, <2>4, <2>5 DEF Lodged
  <2> QED BY <1>7, <2>6
<1> QED BY <1>8, <1>9, <1>10

LEMMA LoadEntryLodges ==
  ASSUME NEW x, Sane(x.s), NEW id, \E session, queue : x = [s |-> session, cmds |-> queue]
  PROVE  LET y == LoadEntry(x, id) IN
         \/ Refused(x, y)
         \/ id \in Nat /\ Has(x.s.set, id) /\ Lodged(x, id, MediaOf(x.s.set, id), y)
<1>1. CASE Has(x.s.set, id)
  <2>1. SoundSet(x.s.set)
    BY DEF Sane, SessionSet, SoundSets
  <2>2. id \in Nat /\ MediaOf(x.s.set, id) \in Media
    BY <1>1, <2>1, MediaOfEntry
  <2> QED BY <1>1, <2>2, SubmitLodges DEF LoadEntry
<1>2. CASE ~Has(x.s.set, id)
  BY <1>2 DEF LoadEntry, Refused, Clings, Rests
<1> QED BY <1>1, <1>2

LEMMA AppendAny ==
  ASSUME NEW S, NEW q \in Seq(S), NEW v
  PROVE  LET j == Append(q, v) IN
         /\ Len(j) = Len(q) + 1 /\ Len(q) \in Nat /\ DOMAIN q = 1 .. Len(q)
         /\ DOMAIN j = 1 .. Len(q) + 1 /\ j \in Seq(S \union {v})
         /\ \A i \in DOMAIN q : i \in DOMAIN j /\ j[i] = q[i]
         /\ j[Len(q) + 1] = v
         /\ \A i \in DOMAIN j : i \in DOMAIN q \/ i = Len(q) + 1
<1> DEFINE T == S \union {v}
           j == Append(q, v)
<1>1. q \in Seq(T) /\ v \in T
  BY SeqGrows
<1>2. Len(q) \in Nat /\ DOMAIN q = 1 .. Len(q)
  OBVIOUS
<1>3. /\ j \in Seq(T) /\ Len(j) = Len(q) + 1
      /\ \A i \in DOMAIN q : i \in DOMAIN j /\ j[i] = q[i]
      /\ j[Len(q) + 1] = v
  BY <1>1, AppendIn
<1>4. DOMAIN j = 1 .. Len(q) + 1
  BY <1>3
<1> HIDE DEF j
<1>5. \A i \in DOMAIN j : i \in DOMAIN q \/ i = Len(q) + 1
  BY <1>2, <1>4
<1> QED BY <1>2, <1>3, <1>4, <1>5 DEF j

(* What a front end that may ask for a load does: the load goes last, and is    *)
(* wanted from then on, unless an interrupt is up. *)
Lodges(target, media) ==
    LET token == s.next + 1 IN
    /\ token \in DOMAIN s'.pending
    /\ s'.pending[token] = [target |-> target, media |-> media, valid |-> TRUE]
    /\ target # None => Has(s.set, target) /\ MediaOf(s.set, target) = media
    /\ wanted' = IF stopBit THEN NoLoad ELSE [token |-> token, target |-> target]
    /\ target \in Nat
    /\ \E load, start :
          /\ load.cmd = "Load" /\ load.token = token /\ load.media = media
          /\ start.cmd = "PlayLoaded"
          /\ cmds' \in {Append(cmds, load), Append(Append(cmds, load), start)}
Submits ==
    /\ Clings(s, s') /\ UNCHANGED <<mirror, stopBit, events, e, faults>>
    /\ \/ cmds' = cmds /\ wanted' = wanted
       \/ \E target, media : Lodges(target, media)

LEMMA LodgedWants ==
  ASSUME RuntimeInv, NEW x, x.cmds = cmds, x.s.next = s.next, Clings(s, x.s),
         NEW target \in Nat, NEW media,
         target # None => Has(x.s.set, target) /\ MediaOf(x.s.set, target) = media,
         NEW y, Lodged(x, target, media, y), NEW t \in {target}, Wants(y, t), cmds' = y.cmds,
         \A k \in DOMAIN y.s.pending : k \in DOMAIN s'.pending /\ s'.pending[k] = y.s.pending[k]
  PROVE  Lodges(target, media)
<1>1. s.next + 1 = y.s.next
  BY DEF Lodged
<1>2. PICK load, start :
         /\ load.cmd = "Load" /\ load.token = s.next + 1 /\ load.media = media
         /\ start.cmd = "PlayLoaded"
         /\ y.cmds \in {Append(cmds, load), Append(Append(cmds, load), start)}
  BY DEF Lodged
<1>3. cmds \in Seq(Submitted(s.next))
  BY FrontEndParts
<1>4. PICK j : j = Append(cmds, load)
  OBVIOUS
<1>5. Len(j) = Len(cmds) + 1 /\ Len(cmds) \in Nat /\ j \in Seq(Submitted(s.next) \union {load})
  BY <1>3, <1>4, AppendAny
<1>6. Len(Append(j, start)) = Len(j) + 1
  BY <1>5, AppendAny
<1>7. Len(y.cmds) # Len(cmds) /\ Len(y.cmds) > Len(cmds)
  BY <1>2, <1>4, <1>5, <1>6
<1>8. wanted' = IF stopBit THEN NoLoad ELSE [token |-> s.next + 1, target |-> target]
  BY <1>1, <1>7 DEF Wants
<1>9. /\ s.next + 1 \in DOMAIN s'.pending
      /\ s'.pending[s.next + 1] = [target |-> target, media |-> media, valid |-> TRUE]
  BY DEF Lodged
<1>10. target # None => Has(s.set, target) /\ MediaOf(s.set, target) = media
  BY DEF Clings
<1> QED BY <1>2, <1>8, <1>9, <1>10 DEF Lodges

LEMMA RefusedWants ==
  ASSUME RuntimeInv, NEW y, y.cmds = cmds, NEW t, Wants(y, t) PROVE wanted' = wanted
BY DEF Wants

LEMMA PlayEntrySubmits == ASSUME RuntimeInv, PlayEntry PROVE Submits
<1>1. PICK id :
         LET x == LoadEntry([s |-> s, cmds |-> cmds], id)
         IN s' = x.s /\ cmds' = x.cmds /\ Wants(x, id)
  BY DEF PlayEntry
<1>2. PICK x : x = [s |-> s, cmds |-> cmds]
  OBVIOUS
<1>3. PICK y : y = LoadEntry(x, id)
  OBVIOUS
<1>4. x.s = s /\ x.cmds = cmds /\ s' = y.s /\ cmds' = y.cmds /\ Wants(y, id)
  BY <1>1, <1>2, <1>3
<1>5. Sane(x.s)
  BY <1>4, FrontEndParts
<1>6. \/ Refused(x, y)
      \/ id \in Nat /\ Has(x.s.set, id) /\ Lodged(x, id, MediaOf(x.s.set, id), y)
  BY <1>2, <1>3, <1>5, LoadEntryLodges
<1>7. UNCHANGED <<mirror, stopBit, events, e, faults>>
  BY DEF PlayEntry
<1>8. CASE Refused(x, y)
  <2>1. cmds' = cmds /\ wanted' = wanted /\ Clings(s, s')
    BY <1>4, <1>8, RefusedWants DEF Refused
  <2> QED BY <1>7, <2>1 DEF Submits
<1>9. CASE id \in Nat /\ Has(x.s.set, id) /\ Lodged(x, id, MediaOf(x.s.set, id), y)
  <2>1. PICK media : media = MediaOf(x.s.set, id)
    OBVIOUS
  <2>2. Clings(s, s') /\ Clings(s, x.s)
    BY <1>4, <1>9 DEF Lodged, Clings, Rests
  <2>3. Lodges(id, media)
    BY <1>4, <1>9, <2>1, <2>2, LodgedWants
  <2> QED BY <1>7, <2>2, <2>3 DEF Submits
<1> QED BY <1>6, <1>8, <1>9

LEMMA PlayDetachedSubmits == ASSUME RuntimeInv, PlayDetached PROVE Submits
<1>1. PICK m \in Media :
         LET x == SubmitLoad([s |-> s, cmds |-> cmds], Detached, m)
         IN s' = x.s /\ cmds' = x.cmds /\ Wants(x, Detached)
  BY DEF PlayDetached
<1>2. PICK x : x = [s |-> s, cmds |-> cmds]
  OBVIOUS
<1>3. PICK y : y = SubmitLoad(x, Detached, m)
  OBVIOUS
<1>4. x.s = s /\ x.cmds = cmds /\ s' = y.s /\ cmds' = y.cmds /\ Wants(y, Detached)
  BY <1>1, <1>2, <1>3
<1>5. Sane(x.s) /\ Detached \in Nat
  BY <1>4, FrontEndParts DEF Detached, None
<1>6. Refused(x, y) \/ Lodged(x, Detached, m, y)
  BY <1>2, <1>3, <1>5, SubmitLodges
<1>7. UNCHANGED <<mirror, stopBit, events, e, faults>>
  BY DEF PlayDetached
<1>8. CASE Refused(x, y)
  <2>1. cmds' = cmds /\ wanted' = wanted /\ Clings(s, s')
    BY <1>4, <1>8, RefusedWants DEF Refused
  <2> QED BY <1>7, <2>1 DEF Submits
<1>9. CASE Lodged(x, Detached, m, y)
  <2>2. Clings(s, s') /\ Clings(s, x.s)
    BY <1>4, <1>9 DEF Lodged, Clings, Rests
  <2>3. Lodges(Detached, m)
    BY <1>4, <1>5, <1>9, <2>2, LodgedWants DEF Detached
  <2> QED BY <1>7, <2>2, <2>3 DEF Submits
<1> QED BY <1>6, <1>8, <1>9

LEMMA SampleSubmits == ASSUME RuntimeInv, Sample PROVE Submits
<1> DEFINE asked == [s EXCEPT !.advance = None]
<1>1. PICK due \in BOOLEAN :
         LET x == LoadEntry([s |-> asked, cmds |-> cmds], s.advance)
         IN s' = Tick(x.s, Progress, due) /\ cmds' = x.cmds /\ Wants(x, s.advance)
  BY DEF Sample
<1>2. s \in SessionSet /\ Sane(s) /\ Progress \in Samplings
  BY FrontEndParts
<1>3. asked \in SessionSet /\ Keeps(s, asked) /\ Rests(s, asked) /\ asked.next = s.next
  BY <1>2 DEF SessionSet, None, Keeps, Rests
<1>4. Sane(asked) /\ Clings(s, asked)
  BY <1>2, <1>3, KeepsSane, AbidesClings DEF Abides
<1>5. PICK x : x = [s |-> asked, cmds |-> cmds]
  OBVIOUS
<1>6. PICK y : y = LoadEntry(x, s.advance)
  OBVIOUS
<1>7. s' = Tick(y.s, Progress, due) /\ cmds' = y.cmds /\ Wants(y, s.advance)
  BY <1>1, <1>5, <1>6
<1> HIDE DEF asked
<1>8. x.s = asked /\ x.cmds = cmds
  BY <1>5
<1>9. PICK id : id = s.advance
  OBVIOUS
<1>10. \/ Refused(x, y)
       \/ id \in Nat /\ Has(x.s.set, id) /\ Lodged(x, id, MediaOf(x.s.set, id), y)
  BY <1>4, <1>5, <1>6, <1>8, <1>9, LoadEntryLodges
<1>11. Clings(s, x.s) /\ Clings(x.s, y.s)
  BY <1>4, <1>8, <1>10 DEF Refused, Lodged
<1>12. Clings(y.s, s')
  <2>1. PICK z : z = y.s
    OBVIOUS
  <2>2. z \in SessionSet
    <3>1. Handing(x)
      BY <1>3, <1>4, <1>8, FrontEndParts DEF Handing, Keeps
    <3>2. Handed(x, y)
      BY <1>5, <1>6, <3>1, LoadEntryIs
    <3> QED BY <2>1, <3>2 DEF Handed, Sane
  <2>3. Abides(z, Tick(z, Progress, due))
    BY <1>2, <2>2, TickAbides
  <2> QED BY <1>7, <2>1, <2>3, AbidesClings
<1>13. Clings(s, s')
  BY <1>11, <1>12, ClingsOn
<1>14. UNCHANGED <<mirror, stopBit, events, e, faults>>
  BY DEF Sample
<1>15. CASE Refused(x, y)
  <2>1. cmds' = cmds /\ wanted' = wanted
    BY <1>7, <1>8, <1>15, RefusedWants DEF Refused
  <2> QED BY <1>13, <1>14, <2>1 DEF Submits
<1>16. CASE id \in Nat /\ Has(x.s.set, id) /\ Lodged(x, id, MediaOf(x.s.set, id), y)
  <2>1. PICK media : media = MediaOf(x.s.set, id)
    OBVIOUS
  <2>2. \A k \in DOMAIN y.s.pending : k \in DOMAIN s'.pending /\ s'.pending[k] = y.s.pending[k]
    BY <1>12 DEF Clings
  <2>3. x.s.next = s.next
    BY <1>3, <1>8
  <2>4. Lodges(id, media)
    BY <1>7, <1>8, <1>9, <1>11, <1>16, <2>1, <2>2, <2>3, LodgedWants
  <2> QED BY <1>13, <1>14, <2>4 DEF Submits
<1> QED BY <1>10, <1>15, <1>16

-----------------------------------------------------------------------------
(* The front end's steps, and what goes on by itself. *)

Grounded == ~s.stop /\ Begins /\ Echoes /\ Claimed

LEMMA RestsGrounded ==
  ASSUME Grounded, Rests(s, s'), s'.adopted = s.adopted, UNCHANGED <<mirror, events, e>>,
         stopBit => stopBit', Queued(cmds) => Queued(cmds')
  PROVE  Grounded'
<1>1. s'.stop = s.stop /\ s'.last = s.last /\ s'.media = s.media
  BY DEF Rests
<1>2. Begins'
  BY DEF Grounded, Begins
<1>3. Echoes'
  <2>1. PICK from : /\ Tells(events, from, e.state)
                    /\ Owning(s) => from = mirror.state /\ mirror.load = s.adopted.token
    BY DEF Grounded, Echoes
  <2>2. /\ Tells(events', from, e'.state)
        /\ Owning(s') => from = mirror'.state /\ mirror'.load = s'.adopted.token
    BY <1>1, <2>1 DEF Owning
  <2> QED BY <2>2 DEF Echoes
<1>4. Claimed'
  <2>1. \A L, m : Mine(s, L, m) => Mine(s', L, m)
    BY <1>1 DEF Mine
  <2>2. PICK i, L, m : i = Len(events) + 1 /\ L = e.load /\ m = e.media
    OBVIOUS
  <2>3. Reigns(s, events, i, L, m) => Reigns(s', events, i, L, m)
    BY <2>1, ReignsShrink
  <2> QED BY <2>2, <2>3 DEF Grounded, Claimed
<1> QED BY <1>1, <1>2, <1>3, <1>4 DEF Grounded

LEMMA QueuedMore ==
  ASSUME NEW S, NEW q \in Seq(S), NEW a, NEW b
  PROVE  /\ Queued(q) => Queued(Append(q, a)) /\ Queued(Append(Append(q, a), b))
         /\ a.cmd = "Load" => Queued(Append(q, a)) /\ Queued(Append(Append(q, a), b))
<1>1. PICK j : j = Append(q, a)
  OBVIOUS
<1>2. /\ j \in Seq(S \union {a}) /\ \A i \in DOMAIN q : i \in DOMAIN j /\ j[i] = q[i]
      /\ Len(q) + 1 \in DOMAIN j /\ j[Len(q) + 1] = a
  BY <1>1, AppendAny
<1>3. \A i \in DOMAIN j : i \in DOMAIN Append(j, b) /\ Append(j, b)[i] = j[i]
  BY <1>2, AppendAny
<1> QED BY <1>1, <1>2, <1>3 DEF Queued

LEMMA SubmitsGrounded == ASSUME RuntimeInv, Grounded, Submits PROVE Grounded'
<1>1. /\ Rests(s, s') /\ s'.adopted = s.adopted /\ UNCHANGED <<mirror, events, e>>
      /\ stopBit' = stopBit
  BY DEF Submits, Clings
<1>2. cmds \in Seq(Submitted(s.next))
  BY FrontEndParts
<1>3. Queued(cmds) => Queued(cmds')
  <2>1. CASE cmds' = cmds
    BY <2>1
  <2>2. CASE \E target, media : Lodges(target, media)
    <3>1. PICK load, start : cmds' \in {Append(cmds, load), Append(Append(cmds, load), start)}
      BY <2>2 DEF Lodges
    <3> QED BY <1>2, <3>1, QueuedMore
  <2> QED BY <2>1, <2>2 DEF Submits
<1> QED BY <1>1, <1>3, RestsGrounded

LEMMA TransportGrounded ==
  ASSUME RuntimeInv, Grounded, NEW kind \in {"Toggle", "Seek", "Restart"}, Transport(kind)
  PROVE  Grounded'
<1>1. cmds \in Seq(Submitted(s.next))
  BY FrontEndParts
<1>2. PICK c : cmds' = Append(cmds, c)
  BY DEF Transport
<1>3. Queued(cmds) => Queued(cmds')
  BY <1>1, <1>2, QueuedMore
<1> QED BY <1>3, RestsGrounded DEF Transport, Rests

LEMMA SteadyGrounded ==
  ASSUME Grounded, Stop \/ DrainDone PROVE Grounded'
BY RestsGrounded DEF Stop, DrainDone, Rests

LEMMA QueueGrounded == ASSUME RuntimeInv, Grounded, Queue PROVE Grounded'
<1>1. PICK ids : ApplyRemoval(ids, s') /\ Bereft(s, ids, s')
  BY QueueBereaves
<1>2. /\ Rests(s, s') /\ DOMAIN s'.pending = DOMAIN s.pending
      /\ s'.adopted = IF OwnsAny(s, ids) THEN NoLoad ELSE s.adopted
  BY <1>1 DEF Bereft
<1>3. /\ stopBit => stopBit'
      /\ OwnsAny(s, ids) /\ mirror # NoMirror /\ DOMAIN s'.pending = {} => stopBit'
      /\ mirror' = IF s'.adopted.token = 0 THEN NoMirror ELSE mirror
  BY <1>1 DEF ApplyRemoval
<1>4. UNCHANGED <<cmds, events, e>>
  BY DEF Queue
<1>5. s'.stop = s.stop /\ s'.last = s.last /\ s'.media = s.media
  BY <1>2 DEF Rests
<1>6. Begins' /\ ~s'.stop
  BY <1>4, <1>5 DEF Grounded, Begins
<1>7. Owning(s') => Owning(s) /\ mirror' = mirror /\ s'.adopted = s.adopted
  BY <1>2, <1>3, <1>5 DEF Owning, NoLoad
<1>8. Echoes'
  <2>1. PICK from : /\ Tells(events, from, e.state)
                    /\ Owning(s) => from = mirror.state /\ mirror.load = s.adopted.token
    BY DEF Grounded, Echoes
  <2>2. /\ Tells(events', from, e'.state)
        /\ Owning(s') => from = mirror'.state /\ mirror'.load = s'.adopted.token
    BY <1>4, <1>7, <2>1
  <2> QED BY <2>2 DEF Echoes
<1>9. Claimed'
  <2>0. PICK i, L, m : i = Len(events) + 1 /\ L = e.load /\ m = e.media
    OBVIOUS
  <2> SUFFICES ASSUME e.state \in Lively, ~e.revived
               PROVE  Reigns(s', events, i, L, m) \/ stopBit' \/ Queued(cmds)
    BY <1>4, <2>0 DEF Claimed
  <2>1. Reigns(s, events, i, L, m) \/ stopBit \/ Queued(cmds)
    BY <2>0 DEF Grounded, Claimed
  <2>2. CASE stopBit \/ Queued(cmds) \/ Opened(events, i, L, m)
    BY <1>3, <2>2 DEF Reigns
  <2>3. CASE Mine(s, L, m) /\ Calm(events, 1, i)
    <3>1. CASE ~OwnsAny(s, ids)
      BY <1>2, <1>5, <2>3, <3>1 DEF Reigns, Mine
    <3>2. CASE OwnsAny(s, ids)
      <4>1. mirror # NoMirror
        BY <2>3 DEF Mine, Owning, Grounded, Echoes, NoMirror
      <4>2. CASE DOMAIN s'.pending = {}
        BY <1>3, <3>2, <4>1, <4>2
      <4>3. CASE DOMAIN s'.pending # {}
        <5>1. PICK t : t \in DOMAIN s.pending
          BY <1>2, <4>3
        <5>2. t # 0 /\ events \in Seq(EventSet) /\ t \in Nat
          BY <5>1, FrontEndParts, EventsAre
        <5>3. e.loading # t
          BY <5>2 DEF Grounded, Begins, Lively
        <5>4. \A k \in DOMAIN events : ~IsOutcome(events[k])
          <6>1. \A k \in DOMAIN events : 1 <= k /\ k < i
            BY <2>0, <5>2
          <6> QED BY <2>3, <6>1 DEF Calm, Cut
        <5>5. PendingIsOwed
          BY DEF RuntimeInv
        <5> QED BY <5>1, <5>3, <5>4, <5>5 DEF PendingIsOwed, Queued
      <4> QED BY <4>2, <4>3
    <3> QED BY <3>1, <3>2
  <2> QED BY <2>1, <2>2, <2>3 DEF Reigns
<1> QED BY <1>6, <1>8, <1>9 DEF Grounded

LEMMA ReignsForth ==
  ASSUME NEW S, NEW evs \in Seq(S), evs # <<>>, NEW x, NEW L, NEW m,
         Reigns(x, evs, Len(evs) + 1, L, m)
  PROVE  \/ Mine(x, L, m) /\ ~Cut(Head(evs)) /\ Calm(Tail(evs), 1, Len(Tail(evs)) + 1)
         \/ Opened(Tail(evs), Len(Tail(evs)) + 1, L, m)
         \/ Opens(Head(evs), L, m) /\ Calm(Tail(evs), 1, Len(Tail(evs)) + 1)
<1>1. /\ Tail(evs) \in Seq(S) /\ Len(evs) \in Nat /\ Len(Tail(evs)) = Len(evs) - 1
      /\ DOMAIN evs = 1 .. Len(evs) /\ DOMAIN Tail(evs) = 1 .. Len(evs) - 1
      /\ \A i \in DOMAIN Tail(evs) : i \in Nat /\ i + 1 \in DOMAIN evs /\ Tail(evs)[i] = evs[i + 1]
      /\ 1 \in DOMAIN evs /\ Head(evs) = evs[1]
  BY TailAt
<1>2. CASE Mine(x, L, m) /\ Calm(evs, 1, Len(evs) + 1)
  <2>1. \A i \in DOMAIN evs : ~Cut(evs[i])
    BY <1>1, <1>2 DEF Calm
  <2>2. ~Cut(Head(evs)) /\ \A i \in DOMAIN Tail(evs) : ~Cut(Tail(evs)[i])
    BY <1>1, <2>1
  <2> QED BY <1>2, <2>2 DEF Calm
<1>3. CASE Opened(evs, Len(evs) + 1, L, m)
  <2>1. PICK k \in DOMAIN evs : Opens(evs[k], L, m) /\ Calm(evs, k + 1, Len(evs) + 1)
    BY <1>3 DEF Opened
  <2>2. \A i \in DOMAIN evs : i > k => ~Cut(evs[i])
    BY <1>1, <2>1 DEF Calm
  <2>3. \A i \in DOMAIN Tail(evs) : i >= k => ~Cut(Tail(evs)[i])
    BY <1>1, <2>2
  <2>4. CASE k = 1
    <3>1. \A i \in DOMAIN Tail(evs) : ~Cut(Tail(evs)[i])
      BY <1>1, <2>3, <2>4
    <3> QED BY <1>1, <2>1, <2>4, <3>1 DEF Calm
  <2>5. CASE k # 1
    <3>1. k - 1 \in DOMAIN Tail(evs) /\ Tail(evs)[k - 1] = evs[k] /\ k - 1 < Len(Tail(evs)) + 1
      BY <1>1, <2>5
    <3>2. Calm(Tail(evs), k - 1 + 1, Len(Tail(evs)) + 1)
      BY <1>1, <2>3 DEF Calm
    <3> QED BY <2>1, <3>1, <3>2 DEF Opened
  <2> QED BY <2>4, <2>5
<1> QED BY <1>2, <1>3 DEF Reigns

(* What one event does to a session: it is passed over, it ends a load that is *)
(* adopted, refused or given up, or it says that a load has begun.             *)
Overheard(x, y) == Rests(x, y) /\ y.set = x.set /\ y.pending = x.pending /\ y.adopted = x.adopted
Concerns(x, ev, y) ==
    /\ ev.token \in DOMAIN x.pending /\ ev.token # 0 /\ x.adopted.token # ev.token
    /\ \A t \in DOMAIN y.pending : y.pending[t] = x.pending[t]
    /\ \A t \in DOMAIN x.pending : t # ev.token => t \in DOMAIN y.pending
Begun(x, y) ==
    /\ y.last = 0 /\ y.stop = x.stop /\ y.adopted = x.adopted /\ y.set = x.set
    /\ y.media = x.media /\ y.pending = x.pending
Observed(x, ev, y) ==
    \/ ~Cut(ev) /\ Overheard(x, y)
    \/ IsOutcome(ev) /\ Concerns(x, ev, y) /\ Accepted(x, ev) /\ Adopted(x, ev, y)
    \/ IsOutcome(ev) /\ Concerns(x, ev, y) /\ ~Accepted(x, ev) /\ Released(x, ev, y)
    \/ Cut(ev) /\ ~IsOutcome(ev) /\ ev.k = "State" /\ Begun(x, y)

LEMMA HeadIs ==
  ASSUME RuntimeInv, HeedInv, events # <<>>
  PROVE  LET ev == Head(events) IN
         /\ ev \in EventSet /\ (ev.k = "Loaded" => ev.media \in Media) /\ s.latest <= ev.rev
         /\ Cut(ev) => ev.token \in DOMAIN s.pending
         /\ s.adopted.token \notin DOMAIN s.pending
         /\ 0 \notin DOMAIN s.pending /\ ev \in Known(s.next, e.rev)
<1>1. /\ events \in Seq(Known(s.next, e.rev)) /\ CutsFit(s, events) /\ Ordered(s, events)
      /\ 0 \notin DOMAIN s.pending
  BY HeedParts DEF Heed
<1>2. 1 \in DOMAIN events /\ Head(events) = events[1] /\ Head(events) \in Known(s.next, e.rev)
  BY <1>1, TailAt, TailIn
<1> QED BY <1>1, <1>2 DEF CutsFit, Ordered, Known

LEMMA HeadObserved ==
  ASSUME RuntimeInv, HeedInv, events # <<>>
  PROVE  Observed(s, Head(events), Observe(s, Head(events)))
<1>1. PICK ev \in EventSet : ev = Head(events)
  BY HeadIs
<1>2. PICK y : y = Observe(s, ev)
  OBVIOUS
<1>3. /\ ev.k = "Loaded" => ev.media \in Media
      /\ s.latest <= ev.rev /\ (Cut(ev) => ev.token \in DOMAIN s.pending)
      /\ s.adopted.token \notin DOMAIN s.pending /\ 0 \notin DOMAIN s.pending
  BY <1>1, HeadIs
<1>4. Sane(s)
  BY FrontEndParts
<1>5. CASE ~Cut(ev)
  <2>1. Overheard(s, y)
    BY <1>2, <1>4, <1>5, QuietObserved DEF Overheard
  <2> QED BY <1>1, <1>2, <1>5, <2>1 DEF Observed
<1>6. CASE IsOutcome(ev)
  <2>1. ev.token \in DOMAIN s.pending
    BY <1>3, <1>6 DEF Cut
  <2>2. /\ \A t \in DOMAIN y.pending : y.pending[t] = s.pending[t]
        /\ \A t \in DOMAIN s.pending : t # ev.token => t \in DOMAIN y.pending
        /\ Accepted(s, ev) => Adopted(s, ev, y)
        /\ ~Accepted(s, ev) => Released(s, ev, y)
    BY <1>2, <1>3, <1>4, <1>6, <2>1, OutcomeReleases
  <2>3. Concerns(s, ev, y)
    BY <1>3, <2>1, <2>2 DEF Concerns
  <2> QED BY <1>1, <1>2, <1>6, <2>2, <2>3 DEF Observed
<1>7. CASE Cut(ev) /\ ~IsOutcome(ev)
  <2>1. ev.token \in DOMAIN s.pending /\ ev.k = "State"
    BY <1>3, <1>7 DEF Cut
  <2>2. /\ y.last = 0 /\ y.stop = s.stop /\ y.adopted = s.adopted /\ y.set = s.set
        /\ y.media = s.media /\ y.pending = s.pending
    BY <1>2, <1>3, <1>4, <1>7, <2>1, LoadingReleases
  <2> QED BY <1>1, <1>2, <1>7, <2>1, <2>2 DEF Observed, Begun
<1> QED BY <1>5, <1>6, <1>7

LEMMA DrainsTo ==
  ASSUME RuntimeInv, DrainOne
  PROVE  LET y == Observe(s, Head(events)) IN
         /\ s'.stop = FALSE /\ s'.last = y.last /\ s'.media = y.media /\ s'.adopted = y.adopted
         /\ s'.set = y.set /\ s'.pending = y.pending
         /\ stopBit' = (stopBit \/ AnswersStop(y)) /\ mirror' = Mirrored(Head(events), y)
         /\ events # <<>> /\ events' = Tail(events) /\ UNCHANGED <<cmds, e, wanted, faults>>
<1>1. PICK ev : ev = Head(events)
  OBVIOUS
<1>2. PICK y : y = Observe(s, ev)
  OBVIOUS
<1>3. events # <<>> /\ events \in Seq(Known(s.next, e.rev)) /\ Sane(s) /\ s.next \in Nat
      /\ e.rev \in Nat
  BY FrontEndParts, InvParts DEF DrainOne
<1>4. ev \in Known(s.next, e.rev)
  BY <1>1, <1>3, TailIn
<1>5. Sane(y)
  BY <1>2, <1>3, <1>4, ObserveIs
<1>6. y \in SessionSet
  BY <1>5 DEF Sane
<1>7. s' = [y EXCEPT !.stop = FALSE]
  BY <1>1, <1>2 DEF DrainOne
<1>8. /\ s'.stop = FALSE /\ s'.last = y.last /\ s'.media = y.media /\ s'.adopted = y.adopted
      /\ s'.set = y.set /\ s'.pending = y.pending
  BY <1>6, <1>7 DEF SessionSet
<1>9. /\ stopBit' = (stopBit \/ AnswersStop(y)) /\ mirror' = Mirrored(ev, y)
      /\ events' = Tail(events) /\ UNCHANGED <<cmds, e, wanted, faults>>
  BY <1>1, <1>2 DEF DrainOne
<1> QED BY <1>1, <1>2, <1>3, <1>8, <1>9

LEMMA MirroredIn ==
  ASSUME RuntimeInv, NEW ev \in EventSet, NEW y, Observed(s, ev, y), s.latest <= ev.rev,
         Owning(s) => mirror.load = s.adopted.token, Owning(y)
  PROVE  LET w == Mirrored(ev, y) IN
         /\ w.load = y.adopted.token
         /\ Says(ev) => w.state = Said(ev)
         /\ ~Says(ev) => Owning(s) /\ w.state = mirror.state
<1>1. mirror \in Mirrors /\ ev.rev \in Nat /\ s.latest \in Nat
  BY FrontEndParts DEF EventSet
<1>2. CASE ~Cut(ev) /\ Overheard(s, y)
  <2>1. Owning(s) /\ y.adopted = s.adopted /\ mirror.load # 0 /\ mirror.load = s.adopted.token
    BY <1>2 DEF Overheard, Rests, Owning
  <2>2. ev.k # "Loaded" /\ ~IsOutcome(ev)
    BY <1>2 DEF Cut, IsOutcome
  <2>3. Accepts(s, ev) /\ mirror # NoMirror
    BY <1>1, <2>1, <2>2 DEF Accepts, Owns, Owning, NoMirror
  <2>4. Mirrored(ev, y) = [mirror EXCEPT !.rev = ev.rev,
                           !.state = CASE ev.k = "State"      -> ev.state
                                       [] ev.k = "EndOfTrack" -> "Ended"
                                       [] OTHER               -> @]
    BY <2>2, <2>3 DEF Mirrored
  <2>5. /\ Mirrored(ev, y).load = mirror.load
        /\ ev.k = "State" => Mirrored(ev, y).state = ev.state
        /\ ev.k = "EndOfTrack" => Mirrored(ev, y).state = "Ended"
        /\ ev.k \notin {"State", "EndOfTrack"} => Mirrored(ev, y).state = mirror.state
    BY <1>1, <2>4 DEF Mirrors
  <2> QED BY <2>1, <2>2, <2>5 DEF Says, Said
<1>3. CASE IsOutcome(ev) /\ Accepted(s, ev) /\ Adopted(s, ev, y)
  <2>1. ev.k = "Loaded" /\ Accepts(s, ev) /\ y.adopted.token = ev.token
    BY <1>3 DEF Accepted, Adopted
  <2>2. Mirrored(ev, y) = [load |-> ev.token, rev |-> ev.rev, state |-> "Loading", live |-> ev.live]
    BY <1>3, <2>1 DEF Mirrored
  <2> QED BY <2>1, <2>2 DEF Says, Said
<1>4. CASE IsOutcome(ev) /\ Concerns(s, ev, y) /\ ~Accepted(s, ev) /\ Released(s, ev, y)
  <2>1. ev.token # s.adopted.token /\ y.adopted = s.adopted /\ y.last \in {0, ev.token}
    BY <1>4 DEF Released, Concerns
  <2> QED BY <2>1 DEF Owning
<1>5. CASE Begun(s, y)
  BY <1>5 DEF Begun, Owning
<1> QED BY <1>2, <1>3, <1>4, <1>5 DEF Observed

LEMMA DrainEchoes == ASSUME RuntimeInv, HeedInv, Echoes, DrainOne PROVE Echoes'
<1>1. PICK from : /\ Tells(events, from, e.state)
                  /\ Owning(s) => from = mirror.state /\ mirror.load = s.adopted.token
  BY DEF Echoes
<1>2. events # <<>> /\ events' = Tail(events) /\ e' = e
  BY DrainsTo
<1>3. PICK ev \in EventSet : ev = Head(events) /\ s.latest <= ev.rev
  BY <1>2, HeadIs
<1>4. PICK y : y = Observe(s, ev)
  OBVIOUS
<1>5. PICK mid : Tells(Tail(events), mid, e.state) /\ mid = IF Says(ev) THEN Said(ev) ELSE from
  <2>1. PICK p \in Seq(EventSet) : p = events
    BY EventsAre
  <2>2. PICK st : st = e.state
    OBVIOUS
  <2>3. p # <<>> /\ Tells(p, from, st)
    BY <1>1, <1>2, <2>1, <2>2
  <2>4. \E mid : Tells(Tail(p), mid, st) /\ mid = IF Says(Head(p)) THEN Said(Head(p)) ELSE from
    BY <2>3, TellsTail
  <2> QED BY <1>3, <2>1, <2>2, <2>4
<1>6. s'.adopted = y.adopted /\ s'.last = y.last /\ mirror' = Mirrored(ev, y)
  BY <1>3, <1>4, DrainsTo
<1>7. Observed(s, ev, y)
  BY <1>2, <1>3, <1>4, HeadObserved
<1>8. Owning(s') => mid = mirror'.state /\ mirror'.load = s'.adopted.token
  <2> SUFFICES ASSUME Owning(s') PROVE mid = mirror'.state /\ mirror'.load = s'.adopted.token
    OBVIOUS
  <2>1. Owning(y)
    BY <1>6 DEF Owning
  <2>2. LET w == Mirrored(ev, y) IN
        /\ w.load = y.adopted.token
        /\ Says(ev) => w.state = Said(ev)
        /\ ~Says(ev) => Owning(s) /\ w.state = mirror.state
    BY <1>1, <1>3, <1>7, <2>1, MirroredIn
  <2> QED BY <1>1, <1>5, <1>6, <2>2
<1>9. Tells(events', mid, e'.state)
  BY <1>2, <1>5
<1> QED BY <1>8, <1>9 DEF Echoes

LEMMA DrainClaimed ==
  ASSUME RuntimeInv, HeedInv, Begins, Claimed, DrainOne, RuntimeInv' PROVE Claimed'
<1>1. events # <<>> /\ events' = Tail(events) /\ e' = e /\ cmds' = cmds
  BY DrainsTo
<1>2. PICK ev \in EventSet : ev = Head(events)
  BY <1>1, HeadIs
<1>3. PICK y : y = Observe(s, ev)
  OBVIOUS
<1>4. /\ s'.adopted = y.adopted /\ s'.last = y.last /\ s'.media = y.media
      /\ s'.pending = y.pending /\ stopBit' = (stopBit \/ AnswersStop(y))
  BY <1>2, <1>3, DrainsTo
<1>5. Observed(s, ev, y)
  BY <1>1, <1>2, <1>3, HeadObserved
<1>6. PICK p \in Seq(EventSet) : p = events /\ p # <<>>
  BY <1>1, EventsAre
<1>7. PICK L, m : L = e.load /\ m = e.media
  OBVIOUS
<1> DEFINE rest == Tail(p)
<1>8. rest \in Seq(EventSet) /\ Len(rest) \in Nat
  BY <1>6, TailAt
<1> SUFFICES ASSUME e.state \in Lively, ~e.revived
             PROVE  Reigns(s', rest, Len(rest) + 1, L, m) \/ stopBit' \/ Queued(cmds)
  BY <1>1, <1>6, <1>7 DEF Claimed
<1>9. Reigns(s, p, Len(p) + 1, L, m) \/ stopBit \/ Queued(cmds)
  BY <1>6, <1>7 DEF Claimed
<1>10. CASE stopBit \/ Queued(cmds)
  BY <1>4, <1>10
<1>11. CASE Reigns(s, p, Len(p) + 1, L, m)
  <2>1. \/ Mine(s, L, m) /\ ~Cut(ev) /\ Calm(rest, 1, Len(rest) + 1)
        \/ Opened(rest, Len(rest) + 1, L, m)
        \/ Opens(ev, L, m) /\ Calm(rest, 1, Len(rest) + 1)
    BY <1>2, <1>6, <1>11, ReignsForth
  <2>2. CASE Mine(s, L, m) /\ ~Cut(ev) /\ Calm(rest, 1, Len(rest) + 1)
    <3>1. Overheard(s, y)
      BY <1>5, <2>2 DEF Observed, Cut
    <3>2. Mine(s', L, m)
      BY <1>4, <2>2, <3>1 DEF Overheard, Rests, Mine
    <3> QED BY <2>2, <3>2 DEF Reigns
  <2>3. CASE Opened(rest, Len(rest) + 1, L, m)
    BY <2>3 DEF Reigns
  <2>4. CASE Opens(ev, L, m) /\ Calm(rest, 1, Len(rest) + 1)
    <3>1. IsOutcome(ev) /\ ev.k = "Loaded" /\ ev.token = L /\ ev.media = m /\ L # 0
      BY <2>4 DEF Opens, IsOutcome
    <3>2. CASE Accepted(s, ev) /\ Adopted(s, ev, y)
      <4>1. Mine(s', L, m)
        BY <1>4, <3>1, <3>2 DEF Adopted, Mine
      <4> QED BY <2>4, <4>1 DEF Reigns
    <3>3. CASE Released(s, ev, y)
      <4>1. y.stop = TRUE
        BY <3>1, <3>3 DEF Released
      <4>2. CASE DOMAIN y.pending = {}
        BY <1>4, <4>1, <4>2 DEF AnswersStop
      <4>3. CASE DOMAIN y.pending # {}
        <5>1. PICK t : t \in DOMAIN s'.pending
          BY <1>4, <4>3
        <5>2. PendingIsOwed' /\ DOMAIN s'.pending \subseteq 1 .. s'.next
          BY FrontEndParts, RuntimeInv' DEF RuntimeInv, FrontEndOk, Sane
        <5>3. t # 0
          BY <5>1, <5>2
        <5>4. e'.loading # t
          BY <1>1, <5>3 DEF Begins, Lively
        <5>5. \A k \in DOMAIN rest : ~IsOutcome(rest[k])
          <6>1. \A k \in DOMAIN rest : 1 <= k /\ k < Len(rest) + 1
            BY <1>8
          <6> QED BY <2>4, <6>1 DEF Calm, Cut
        <5>6. \A k \in DOMAIN events' : ~IsOutcome(events'[k])
          BY <1>1, <1>6, <5>5
        <5> QED BY <1>1, <5>1, <5>2, <5>4, <5>6 DEF PendingIsOwed, Queued
      <4> QED BY <4>2, <4>3
    <3> QED BY <1>5, <3>1, <3>2, <3>3 DEF Observed, Cut
  <2> QED BY <2>1, <2>2, <2>3, <2>4
<1> QED BY <1>9, <1>10, <1>11

LEMMA DrainGrounded ==
  ASSUME RuntimeInv, HeedInv, Grounded, DrainOne, plan' = plan PROVE Grounded'
<1>1. RuntimeInv' /\ e' = e /\ ~s'.stop
  BY DrainOneIs, DrainsTo
<1>2. Begins'
  BY <1>1 DEF Grounded, Begins
<1> QED BY <1>1, <1>2, DrainEchoes, DrainClaimed DEF Grounded

LEMMA FrontEndGrounded ==
  ASSUME RuntimeInv, HeedInv, Running, Grounded, FrontEnd, plan' = plan
  PROVE  Running' => Grounded'
<1>1. CASE PlayEntry \/ PlayDetached \/ Sample
  BY <1>1, PlayEntrySubmits, PlayDetachedSubmits, SampleSubmits, SubmitsGrounded
<1>2. CASE Stop \/ DrainDone
  BY <1>2, SteadyGrounded
<1>3. CASE Quit
  BY <1>3 DEF Quit, Running
<1>4. CASE \E kind \in {"Toggle", "Seek", "Restart"} : Transport(kind)
  BY <1>4, TransportGrounded
<1> QED BY <1>1, <1>2, <1>3, <1>4, QueueGrounded, DrainGrounded DEF FrontEnd, Running, Replay, Reconcile

LEMMA EngineGrounded ==
  ASSUME RuntimeInv, HeedInv, Running, Grounded, Engine PROVE Running' /\ Grounded'
<1>1. Begins' /\ Running' /\ Apart
  BY EngineBegins DEF Grounded
<1> QED BY <1>1, EngineEchoes, EngineClaimed DEF Grounded, Apart

-----------------------------------------------------------------------------
(* The load asked for last: a seek is never queued behind a load, so nothing   *)
(* the listener sends gives up a load but a later one.                         *)

SeekOrder ==
    /\ \A i, j \in DOMAIN cmds : cmds[i].cmd = "Load" /\ cmds[j].cmd = "Seek" => j < i
    /\ e.loading # 0 => \A j \in DOMAIN cmds : cmds[j].cmd # "Seek"

LEMMA EngineSeeks ==
  ASSUME RuntimeInv, HeedInv, Begins, Running, Engine, SeekOrder PROVE SeekOrder'
<1>1. cmds \in Seq(Submitted(s.next))
  BY FrontEndParts
<1>2. ASSUME Shortened
      PROVE  /\ \A i \in DOMAIN cmds' : i \in Nat /\ i + 1 \in DOMAIN cmds /\ cmds'[i] = cmds[i + 1]
             /\ 1 \in DOMAIN cmds /\ Head(cmds) = cmds[1]
  BY <1>1, <1>2, TailAt DEF Shortened
<1>3. ASSUME Shortened
      PROVE  \A i, j \in DOMAIN cmds' : cmds'[i].cmd = "Load" /\ cmds'[j].cmd = "Seek" => j < i
  <2> TAKE i, j \in DOMAIN cmds'
  <2>1. /\ i + 1 \in DOMAIN cmds /\ cmds'[i] = cmds[i + 1] /\ i \in Nat
        /\ j + 1 \in DOMAIN cmds /\ cmds'[j] = cmds[j + 1] /\ j \in Nat
    BY <1>2, <1>3
  <2>2. cmds'[i].cmd = "Load" /\ cmds'[j].cmd = "Seek" => j + 1 < i + 1
    BY <2>1 DEF SeekOrder
  <2> QED BY <2>1, <2>2
<1>4. CASE Quietens \/ Stills
  <2>1. e.loading = 0 /\ e'.loading = e.loading /\ (cmds' = cmds \/ Shortened)
    BY <1>4 DEF Quietens, Stills, Mild
  <2> QED BY <1>3, <2>1 DEF SeekOrder
<1>5. CASE LoadsNext
  <2>1. Shortened /\ cmds[1].cmd = "Load"
    BY <1>2, <1>5 DEF LoadsNext
  <2>2. \A j \in DOMAIN cmds' : cmds'[j].cmd # "Seek"
    <3> TAKE j \in DOMAIN cmds'
    <3>1. j \in Nat /\ j + 1 \in DOMAIN cmds /\ cmds'[j] = cmds[j + 1] /\ 1 \in DOMAIN cmds
      BY <1>2, <2>1
    <3>2. cmds[j + 1].cmd = "Seek" => j + 1 < 1
      BY <2>1, <3>1 DEF SeekOrder
    <3> QED BY <3>1, <3>2
  <2> QED BY <1>3, <2>1, <2>2 DEF SeekOrder
<1>6. CASE Concludes
  BY <1>6, LoadCancelledTells, LoadFailsTells, LoadEndsTells DEF Concludes, SeekOrder
<1> QED BY <1>4, <1>5, <1>6, EngineKinds

LEMMA SeekAlone ==
  ASSUME RuntimeInv, HeedInv, Transport("Seek")
  PROVE  e.loading = 0 /\ ~Queued(cmds)
<1>1. DOMAIN s.pending = {}
  BY DEF Transport, Allows, Phase, Controlled
<1> QED BY <1>1, HeedParts DEF OpeningFits, QueuedFits, Queued

LEMMA FrontEndSeeks ==
  ASSUME RuntimeInv, HeedInv, Running, FrontEnd, SeekOrder, Running' PROVE SeekOrder'
<1>1. cmds \in Seq(Submitted(s.next))
  BY FrontEndParts
<1>2. CASE cmds' = cmds /\ e' = e
  BY <1>2 DEF SeekOrder
<1>3. CASE Submits
  <2>1. CASE cmds' = cmds
    BY <1>2, <1>3, <2>1 DEF Submits
  <2>2. CASE \E target, media : Lodges(target, media)
    <3>1. PICK load, start :
             /\ load.cmd = "Load" /\ start.cmd = "PlayLoaded"
             /\ cmds' \in {Append(cmds, load), Append(Append(cmds, load), start)}
      BY <2>2 DEF Lodges
    <3>2. PICK j : j = Append(cmds, load)
      OBVIOUS
    <3>3. /\ j \in Seq(Submitted(s.next) \union {load}) /\ Len(cmds) \in Nat
          /\ DOMAIN cmds = 1 .. Len(cmds) /\ Len(j) = Len(cmds) + 1
          /\ \A i \in DOMAIN cmds : j[i] = cmds[i]
          /\ j[Len(cmds) + 1] = load
          /\ \A i \in DOMAIN j : i \in DOMAIN cmds \/ i = Len(cmds) + 1
      BY <1>1, <3>2, AppendAny
    <3>4. PICK k : k = Append(j, start)
      OBVIOUS
    <3>5. /\ Len(j) \in Nat /\ \A i \in DOMAIN j : k[i] = j[i]
          /\ k[Len(j) + 1] = start
          /\ \A i \in DOMAIN k : i \in DOMAIN j \/ i = Len(j) + 1
      BY <3>3, <3>4, AppendAny
    <3>6. \A i \in DOMAIN cmds' :
             \/ i \in DOMAIN cmds /\ cmds'[i] = cmds[i]
             \/ i = Len(cmds) + 1 /\ cmds'[i].cmd = "Load"
             \/ i = Len(cmds) + 2 /\ cmds'[i].cmd = "PlayLoaded"
      BY <3>1, <3>2, <3>3, <3>4, <3>5
    <3>7. e' = e
      BY <1>3 DEF Submits
    <3>8. \A i, l \in DOMAIN cmds' : cmds'[i].cmd = "Load" /\ cmds'[l].cmd = "Seek" => l < i
      <4> TAKE i, l \in DOMAIN cmds'
      <4> SUFFICES ASSUME cmds'[i].cmd = "Load", cmds'[l].cmd = "Seek" PROVE l < i
        OBVIOUS
      <4>1. l \in DOMAIN cmds /\ cmds[l].cmd = "Seek"
        BY <3>6
      <4>2. CASE i \in DOMAIN cmds /\ cmds'[i] = cmds[i]
        BY <4>1, <4>2 DEF SeekOrder
      <4>3. CASE i = Len(cmds) + 1
        BY <3>3, <4>1, <4>3
      <4> QED BY <3>6, <4>2, <4>3
    <3>9. e'.loading # 0 => \A l \in DOMAIN cmds' : cmds'[l].cmd # "Seek"
      BY <3>6, <3>7 DEF SeekOrder
    <3> QED BY <3>8, <3>9 DEF SeekOrder
  <2> QED BY <1>3, <2>1, <2>2 DEF Submits
<1>4. CASE \E kind \in {"Toggle", "Seek", "Restart"} : Transport(kind)
  <2>1. PICK kind \in {"Toggle", "Seek", "Restart"} : Transport(kind)
    BY <1>4
  <2>2. PICK c : c = Plain(Sent(kind))
    OBVIOUS
  <2>3. c.cmd # "Load" /\ (kind # "Seek" => c.cmd # "Seek")
    BY <2>1, <2>2 DEF Plain, Command, Sent
  <2>4. cmds' = Append(cmds, c) /\ e' = e
    BY <2>1, <2>2 DEF Transport
  <2>5. \A i \in DOMAIN cmds' :
           \/ i \in DOMAIN cmds /\ cmds'[i] = cmds[i]
           \/ i = Len(cmds) + 1 /\ cmds'[i] = c
    <3>1. PICK j : j = Append(cmds, c)
      OBVIOUS
    <3>2. /\ \A i \in DOMAIN cmds : j[i] = cmds[i]
          /\ j[Len(cmds) + 1] = c
          /\ \A i \in DOMAIN j : i \in DOMAIN cmds \/ i = Len(cmds) + 1
      BY <1>1, <3>1, AppendAny
    <3>3. cmds' = j
      BY <2>4, <3>1
    <3> QED BY <3>2, <3>3
  <2>6. CASE kind = "Seek"
    <3>1. e.loading = 0 /\ ~Queued(cmds)
      BY <2>1, <2>6, SeekAlone
    <3> QED BY <2>3, <2>4, <2>5, <3>1 DEF SeekOrder, Queued
  <2>7. CASE kind # "Seek"
    BY <2>3, <2>4, <2>5, <2>7 DEF SeekOrder
  <2> QED BY <2>6, <2>7
<1>5. CASE PlayEntry \/ PlayDetached \/ Sample
  BY <1>3, <1>5, PlayEntrySubmits, PlayDetachedSubmits, SampleSubmits
<1>6. CASE Stop \/ Queue \/ DrainOne \/ DrainDone
  BY <1>2, <1>6 DEF Stop, Queue, DrainOne, DrainDone
<1> QED BY <1>4, <1>5, <1>6 DEF FrontEnd, Running, Quit, Replay, Reconcile

(* Where the load w the listener wants is, while nothing fails: queued behind  *)
(* every other load, being opened, opened and on its way, or adopted.          *)
Wish(x, w, m) ==
    /\ w.token \in DOMAIN x.pending
    /\ x.pending[w.token] = [target |-> w.target, media |-> m, valid |-> TRUE]
    /\ w.target # None => Has(x.set, w.target) /\ MediaOf(x.set, w.target) = m
LastLoad(q, i) ==
    /\ i \in DOMAIN q /\ q[i].cmd = "Load"
    /\ \A j \in DOMAIN q : q[j].cmd = "Load" => j <= i
Asked(x, q, w) == \E i : LastLoad(q, i) /\ q[i].token = w.token /\ Wish(x, w, q[i].media)
Attempting(x, g, w) == g.loading = w.token /\ Wish(x, w, g.media)
Arriving(x, evs, g, w) ==
    g.load = w.token /\ Opened(evs, Len(evs) + 1, g.load, g.media) /\ Wish(x, w, g.media)
Arrived(x, evs, g, w) ==
    /\ g.load = w.token /\ Mine(x, g.load, g.media) /\ Calm(evs, 1, Len(evs) + 1)
    /\ x.adopted = w
Awaited(x, q, evs, g, w) ==
    \/ Asked(x, q, w)
    \/ ~Queued(q) /\ (Attempting(x, g, w) \/ Arriving(x, evs, g, w) \/ Arrived(x, evs, g, w))
Sought == faults = 0 /\ wanted # NoLoad => ~stopBit /\ Awaited(s, cmds, events, e, wanted)

LEMMA WishNonzero ==
  ASSUME RuntimeInv, NEW w, NEW m, Wish(s, w, m)
  PROVE  w.token # 0 /\ w.token \in Nat
<1>1. DOMAIN s.pending \subseteq 1 .. s.next
  BY FrontEndParts
<1> QED BY <1>1 DEF Wish

LEMMA AskedLess ==
  ASSUME RuntimeInv, Shortened, NEW w, Asked(s, cmds, w)
  PROVE  \/ Asked(s, cmds', w)
         \/ /\ Head(cmds).cmd = "Load" /\ Head(cmds).token = w.token /\ ~Queued(cmds')
            /\ Wish(s, w, Head(cmds).media)
<1>1. cmds \in Seq(Submitted(s.next))
  BY FrontEndParts
<1>2. /\ \A i \in DOMAIN cmds' : i \in Nat /\ i + 1 \in DOMAIN cmds /\ cmds'[i] = cmds[i + 1]
      /\ \A i \in DOMAIN cmds : i = 1 \/ (i - 1 \in DOMAIN cmds' /\ cmds'[i - 1] = cmds[i])
      /\ Head(cmds) = cmds[1] /\ DOMAIN cmds = 1 .. Len(cmds) /\ Len(cmds) \in Nat
  BY <1>1, TailAt, TailIn DEF Shortened
<1>3. PICK i : LastLoad(cmds, i) /\ cmds[i].token = w.token /\ Wish(s, w, cmds[i].media)
  BY DEF Asked
<1>4. i \in DOMAIN cmds /\ i \in Nat /\ cmds[i].cmd = "Load"
  BY <1>2, <1>3 DEF LastLoad
<1>5. \A j \in DOMAIN cmds' : cmds'[j].cmd = "Load" => j + 1 <= i
  BY <1>2, <1>3 DEF LastLoad
<1>6. CASE i = 1
  <2>1. ~Queued(cmds')
    <3>1. \A j \in DOMAIN cmds' : j \in Nat
      BY <1>2
    <3>2. \A j \in DOMAIN cmds' : j >= 1
      BY <1>1, TailAt DEF Shortened
    <3> QED BY <1>5, <1>6, <3>1, <3>2 DEF Queued
  <2> QED BY <1>2, <1>3, <1>4, <1>6, <2>1
<1>7. CASE i # 1
  <2>1. i - 1 \in DOMAIN cmds' /\ cmds'[i - 1] = cmds[i]
    BY <1>2, <1>4, <1>7
  <2>2. \A j \in DOMAIN cmds' : cmds'[j].cmd = "Load" => j <= i - 1
    BY <1>2, <1>4, <1>5
  <2>3. LastLoad(cmds', i - 1)
    BY <1>4, <2>1, <2>2 DEF LastLoad
  <2> QED BY <1>3, <2>1, <2>3 DEF Asked
<1> QED BY <1>6, <1>7

LEMMA AskedQueued == ASSUME NEW x, NEW q, NEW w, Asked(x, q, w) PROVE Queued(q)
BY DEF Asked, LastLoad, Queued

LEMMA OpenedBefore ==
  ASSUME NEW S, NEW p \in Seq(S), NEW q \in Seq(S), Still(q), NEW L, NEW m
  PROVE  /\ Opened(p, Len(p) + 1, L, m) => Opened(p \o q, Len(p \o q) + 1, L, m)
         /\ Calm(p, 1, Len(p) + 1) => Calm(p \o q, 1, Len(p \o q) + 1)
<1>1. PICK i : i = 1
  OBVIOUS
<1>2. Calm(p, i, Len(p) + 1) => Calm(p \o q, i, Len(p \o q) + 1)
  BY CalmOn
<1> QED BY <1>1, <1>2, OpenedOn

LEMMA EngineAwaits ==
  ASSUME RuntimeInv, HeedInv, Begins, Running, Engine, SeekOrder, ~Faulty, ~stopBit,
         NEW w, Awaited(s, cmds, events, e, w)
  PROVE  ~stopBit' /\ Awaited(s, cmds', events', e', w)
<1>1. events \in Seq(EventSet) /\ cmds \in Seq(Submitted(s.next))
  BY EventsAre, FrontEndParts
<1>2. Attempting(s, e, w) => e.loading # 0
  BY WishNonzero DEF Attempting
<1>3. Arriving(s, events, e, w) \/ Arrived(s, events, e, w) => e.load # 0 /\ e.loading = 0
  BY WishNonzero DEF Arriving, Arrived, Mine, Begins
<1>4. CASE Quietens
  <2>1. PICK new \in Seq(EventSet) : events' = events \o new /\ Still(new)
    BY <1>4 DEF Quietens, Mild
  <2>2. /\ e'.load = e.load /\ e'.media = e.media /\ stopBit' = stopBit /\ e.loading = 0
        /\ cmds' = cmds \/ (Shortened /\ Head(cmds).cmd # "Load")
    BY <1>4 DEF Quietens, Mild
  <2>3. CASE Asked(s, cmds, w)
    <3>1. Asked(s, cmds', w)
      BY <2>2, <2>3, AskedLess
    <3> QED BY <2>2, <3>1 DEF Awaited
  <2>4. CASE ~Queued(cmds) /\ (Arriving(s, events, e, w) \/ Arrived(s, events, e, w))
    <3>1. ~Queued(cmds')
      BY <1>1, <2>2, <2>4, QueuedLess DEF Shortened
    <3>2. PICK L, m : L = e.load /\ m = e.media
      OBVIOUS
    <3>3. /\ Opened(events, Len(events) + 1, L, m)
                => Opened(events \o new, Len(events \o new) + 1, L, m)
          /\ Calm(events, 1, Len(events) + 1) => Calm(events \o new, 1, Len(events \o new) + 1)
      BY <1>1, <2>1, OpenedBefore
    <3>4. Arriving(s, events', e', w) \/ Arrived(s, events', e', w)
      BY <2>1, <2>2, <2>4, <3>2, <3>3 DEF Arriving, Arrived
    <3> QED BY <2>2, <3>1, <3>4 DEF Awaited
  <2> QED BY <1>2, <2>2, <2>3, <2>4 DEF Awaited
<1>5. CASE Stills
  BY <1>5 DEF Stills
<1>6. CASE LoadsNext
  <2>1. Asked(s, cmds, w)
    <3>1. Queued(cmds)
      BY <1>1, <1>6, TailAt DEF LoadsNext, Shortened, Queued
    <3> QED BY <3>1 DEF Awaited
  <2>2. stopBit' = stopBit /\ Shortened
    BY <1>6 DEF LoadsNext
  <2>3. e'.loading = Head(cmds).token /\ e'.media = Head(cmds).media
    BY <1>6, LoadNextTells
  <2> QED BY <2>1, <2>2, <2>3, AskedLess DEF Awaited, Attempting
<1>7. CASE Concludes
  <2>1. cmds' = cmds /\ stopBit' = stopBit /\ e.loading # 0
    BY <1>7 DEF Concludes, LoadCancelled, LoadFails, LoadEnds
  <2>2. CASE Asked(s, cmds, w)
    BY <2>1, <2>2 DEF Awaited
  <2>3. CASE ~Queued(cmds) /\ Attempting(s, e, w)
    <3>1. CASE LoadCancelled
      BY <2>1, <2>3, <3>1 DEF LoadCancelled, SeekOrder, Running, Queued
    <3>2. CASE LoadFails
      BY <3>2 DEF LoadFails
    <3>3. CASE LoadEnds
      <4>1. /\ e'.load = e.loading /\ e'.media = e.media /\ e'.state = "Paused"
            /\ \E new \in Seq(EventSet) :
                  events' = events \o new /\ Opened(new, Len(new) + 1, e.loading, e.media)
        BY <3>3, LoadEndsTells
      <4>2. PICK new \in Seq(EventSet) :
               events' = events \o new /\ Opened(new, Len(new) + 1, e.loading, e.media)
        BY <4>1
      <4>3. PICK L, m : L = e.loading /\ m = e.media
        OBVIOUS
      <4>4. Opened(new, Len(new) + 1, L, m)
        BY <4>2, <4>3
      <4>5. Opened(events \o new, Len(events \o new) + 1, L, m)
        BY <1>1, <4>4, OpenedAfter
      <4>6. Arriving(s, events', e', w)
        BY <2>3, <4>1, <4>2, <4>3, <4>5 DEF Arriving, Attempting
      <4> QED BY <2>1, <2>3, <4>6 DEF Awaited
    <3> QED BY <1>7, <3>1, <3>2, <3>3 DEF Concludes
  <2> QED BY <1>3, <2>1, <2>2, <2>3 DEF Awaited
<1> QED BY <1>4, <1>5, <1>6, <1>7, EngineKinds

LEMMA EngineSought ==
  ASSUME RuntimeInv, HeedInv, Begins, Running, Engine, SeekOrder, faults \in Nat, Sought
  PROVE  Sought' /\ faults' \in Nat
<1>1. faults' = faults \/ faults' = faults + 1
  BY EngineCounted DEF Counted
<1>2. s' = s /\ wanted' = wanted
  BY EngineBegins DEF Apart
<1> SUFFICES ASSUME faults' = 0, wanted # NoLoad
             PROVE  ~stopBit' /\ Awaited(s, cmds', events', e', wanted)
  BY <1>1, <1>2 DEF Sought
<1>3. faults = 0 /\ faults' = faults
  BY <1>1
<1>4. ~Faulty
  BY <1>3, NotFaulty
<1>5. PICK w : w = wanted
  OBVIOUS
<1>6. ~stopBit /\ Awaited(s, cmds, events, e, w)
  BY <1>3, <1>5 DEF Sought
<1>7. ~stopBit' /\ Awaited(s, cmds', events', e', w)
  BY <1>4, <1>6, EngineAwaits
<1> QED BY <1>5, <1>7

(* The last load of a queue is still the last, and is the command c. *)
Upholds(q, r) == \A i : LastLoad(q, i) => LastLoad(r, i) /\ r[i] = q[i]
Lastly(q, c) == \E i : LastLoad(q, i) /\ q[i] = c

LEMMA ClingsAwaits ==
  ASSUME NEW x, NEW y, Clings(x, y), NEW q, NEW r, Queued(r) <=> Queued(q),
         Upholds(q, r), NEW evs, NEW g, NEW w, Awaited(x, q, evs, g, w)
  PROVE  Awaited(y, r, evs, g, w)
<1>1. \A m : Wish(x, w, m) => Wish(y, w, m)
  BY DEF Clings, Wish
<1>2. Mine(x, g.load, g.media) => Mine(y, g.load, g.media)
  BY DEF Clings, Rests, Mine
<1>3. Asked(x, q, w) => Asked(y, r, w)
  BY <1>1 DEF Asked, Upholds
<1>4. x.adopted = y.adopted
  BY DEF Clings
<1>5. /\ Attempting(x, g, w) => Attempting(y, g, w)
      /\ Arriving(x, evs, g, w) => Arriving(y, evs, g, w)
      /\ Arrived(x, evs, g, w) => Arrived(y, evs, g, w)
  BY <1>1, <1>2, <1>4 DEF Attempting, Arriving, Arrived
<1> QED BY <1>3, <1>5 DEF Awaited

LEMMA LastAfter ==
  ASSUME NEW S, NEW q \in Seq(S), NEW c, c.cmd = "Load", NEW j, j = Append(q, c)
  PROVE  Lastly(j, c)
<1>1. /\ Len(q) \in Nat /\ DOMAIN q = 1 .. Len(q)
      /\ DOMAIN j = 1 .. Len(q) + 1 /\ j[Len(q) + 1] = c
  BY AppendAny
<1>2. LastLoad(j, Len(q) + 1)
  BY <1>1 DEF LastLoad
<1> QED BY <1>1, <1>2 DEF Lastly

LEMMA QueuedStill ==
  ASSUME NEW S, NEW q \in Seq(S), NEW c, c.cmd # "Load", NEW j, j = Append(q, c)
  PROVE  Queued(j) <=> Queued(q)
<1>1. /\ \A i \in DOMAIN q : i \in DOMAIN j /\ j[i] = q[i]
      /\ j[Len(q) + 1] = c
      /\ \A i \in DOMAIN j : i \in DOMAIN q \/ i = Len(q) + 1
  BY AppendAny
<1> QED BY <1>1 DEF Queued

LEMMA LastStill ==
  ASSUME NEW S, NEW q \in Seq(S), NEW c, c.cmd # "Load", NEW j, j = Append(q, c)
  PROVE  Upholds(q, j)
<1>1. /\ \A l \in DOMAIN q : l \in DOMAIN j /\ j[l] = q[l]
      /\ j[Len(q) + 1] = c
      /\ \A l \in DOMAIN j : l \in DOMAIN q \/ l = Len(q) + 1
  BY AppendAny
<1> QED BY <1>1 DEF LastLoad, Upholds

LEMMA UpheldLast == ASSUME NEW q, NEW r, NEW c, Upholds(q, r), Lastly(q, c) PROVE Lastly(r, c)
BY DEF Upholds, Lastly

LEMMA SubmitsSought ==
  ASSUME RuntimeInv, Sought, wanted \in Loads, Submits PROVE Sought' /\ wanted' \in Loads
<1>1. cmds \in Seq(Submitted(s.next)) /\ s.next \in Nat
  BY FrontEndParts
<1>2. Clings(s, s') /\ UNCHANGED <<mirror, stopBit, events, e, faults>>
  BY DEF Submits
<1>3. CASE cmds' = cmds /\ wanted' = wanted
  <2>1. PICK q, evs, g, w : q = cmds /\ evs = events /\ g = e /\ w = wanted
    OBVIOUS
  <2>2. Awaited(s, q, evs, g, w) => Awaited(s', q, evs, g, w)
    <3>1. Upholds(q, q)
      BY DEF Upholds
    <3> QED BY <1>2, <3>1, ClingsAwaits
  <2>3. Awaited(s, cmds, events, e, wanted) => Awaited(s', cmds', events', e', wanted')
    BY <1>2, <1>3, <2>1, <2>2
  <2> QED BY <1>2, <1>3, <2>3 DEF Sought
<1>4. ASSUME NEW target, NEW media, Lodges(target, media) PROVE Sought' /\ wanted' \in Loads
  <2>1. PICK w : w = [token |-> s.next + 1, target |-> target]
    OBVIOUS
  <2>2. /\ w.token \in DOMAIN s'.pending
        /\ s'.pending[w.token] = [target |-> w.target, media |-> media, valid |-> TRUE]
        /\ w.target # None => Has(s.set, w.target) /\ MediaOf(s.set, w.target) = media
        /\ wanted' = IF stopBit THEN NoLoad ELSE w
        /\ w.target \in Nat
    BY <1>4, <2>1 DEF Lodges
  <2>3. PICK load, start :
           /\ load.cmd = "Load" /\ load.token = w.token /\ load.media = media
           /\ start.cmd = "PlayLoaded"
           /\ cmds' \in {Append(cmds, load), Append(Append(cmds, load), start)}
    BY <1>4, <2>1 DEF Lodges
  <2>4. Wish(s', w, media)
    BY <1>2, <2>2 DEF Wish, Clings
  <2>5. PICK j : j = Append(cmds, load)
    OBVIOUS
  <2>6. j \in Seq(Submitted(s.next) \union {load})
    BY <1>1, <2>5, AppendAny
  <2>7. load.cmd = "Load" /\ start.cmd # "Load"
    BY <2>3
  <2>8. Lastly(cmds', load)
    <3>1. PICK q \in Seq(Submitted(s.next)) : q = cmds
      BY <1>1
    <3>2. Lastly(j, load)
      BY <2>5, <2>7, <3>1, LastAfter
    <3>3. CASE cmds' = j
      BY <3>2, <3>3
    <3>4. CASE cmds' = Append(j, start)
      <4>1. PICK k : k = Append(j, start)
        OBVIOUS
      <4>2. Upholds(j, k)
        BY <2>6, <2>7, <4>1, LastStill
      <4> QED BY <3>2, <3>4, <4>1, <4>2, UpheldLast
    <3> QED BY <2>3, <2>5, <3>3, <3>4
  <2>9. Asked(s', cmds', w)
    BY <2>3, <2>4, <2>8 DEF Asked, Lastly
  <2>10. Sought'
    BY <1>2, <2>2, <2>9 DEF Sought, Awaited
  <2>11. wanted' \in Loads
    BY <1>1, <2>1, <2>2, NoLoadIn DEF Loads
  <2> QED BY <2>10, <2>11
<1> QED BY <1>3, <1>4, wanted \in Loads, Sought DEF Submits

LEMMA TransportSought ==
  ASSUME RuntimeInv, Sought, NEW kind \in {"Toggle", "Seek", "Restart"}, Transport(kind)
  PROVE  Sought' /\ wanted' = wanted
<1>1. cmds \in Seq(Submitted(s.next))
  BY FrontEndParts
<1>2. PICK c : c = Plain(Sent(kind))
  OBVIOUS
<1>3. c.cmd # "Load"
  BY <1>2 DEF Plain, Command, Sent
<1>4. cmds' = Append(cmds, c) /\ UNCHANGED <<s, stopBit, events, e, wanted, faults>>
  BY <1>2 DEF Transport
<1>5. PICK j : j = Append(cmds, c)
  OBVIOUS
<1>6. (Queued(j) <=> Queued(cmds)) /\ Upholds(cmds, j)
  <2>1. PICK q \in Seq(Submitted(s.next)) : q = cmds
    BY <1>1
  <2>2. j = Append(q, c)
    BY <1>5, <2>1
  <2>3. (Queued(j) <=> Queued(q)) /\ Upholds(q, j)
    BY <1>3, <2>2, QueuedStill, LastStill
  <2> QED BY <2>1, <2>3
<1>7. PICK x, q, evs, g, w : x = s /\ q = cmds /\ evs = events /\ g = e /\ w = wanted
  OBVIOUS
<1>8. Clings(x, x)
  BY DEF Clings, Rests
<1>9. Awaited(x, q, evs, g, w) => Awaited(x, j, evs, g, w)
  BY <1>6, <1>7, <1>8, ClingsAwaits
<1>10. Awaited(s, cmds, events, e, wanted) => Awaited(s', cmds', events', e', wanted')
  BY <1>4, <1>5, <1>7, <1>9
<1> QED BY <1>4, <1>10 DEF Sought

LEMMA SteadySought ==
  ASSUME Sought, wanted \in Loads, Stop \/ DrainDone PROVE Sought' /\ wanted' \in Loads
<1>1. CASE Stop
  BY <1>1, NoLoadIn DEF Stop, Sought
<1>2. CASE DrainDone
  BY <1>2 DEF DrainDone, Sought
<1> QED BY <1>1, <1>2

LEMMA QueueSought ==
  ASSUME RuntimeInv, Sought, wanted \in Loads, Queue PROVE Sought' /\ wanted' \in Loads
<1>1. PICK ids : ApplyRemoval(ids, s') /\ Bereft(s, ids, s')
  BY QueueBereaves
<1>2. /\ stopBit' = (stopBit \/ (OwnsAny(s, ids) /\ mirror # NoMirror /\ DOMAIN s'.pending = {}))
      /\ wanted' = IF wanted.target \in ids THEN NoLoad ELSE wanted
  BY <1>1 DEF ApplyRemoval
<1>3. UNCHANGED <<cmds, events, e, faults>>
  BY DEF Queue
<1>4. wanted' \in Loads
  BY <1>2, NoLoadIn
<1> SUFFICES ASSUME faults = 0, wanted' # NoLoad
             PROVE  ~stopBit' /\ Awaited(s', cmds, events, e, wanted')
  BY <1>3, <1>4 DEF Sought
<1>5. wanted' = wanted /\ wanted.target \notin ids
  BY <1>2
<1>6. PICK w : w = wanted /\ w.target \notin ids
  BY <1>5
<1>7. ~stopBit /\ Awaited(s, cmds, events, e, w)
  BY <1>5, <1>6 DEF Sought
<1>8. \A m : Wish(s, w, m) => Wish(s', w, m) /\ DOMAIN s'.pending # {}
  <2> TAKE m
  <2> SUFFICES ASSUME Wish(s, w, m) PROVE Wish(s', w, m) /\ DOMAIN s'.pending # {}
    OBVIOUS
  <2>1. /\ w.token \in DOMAIN s.pending /\ s.pending[w.token].target = w.target
        /\ s.pending[w.token] = [target |-> w.target, media |-> m, valid |-> TRUE]
        /\ w.target # None => Has(s.set, w.target) /\ MediaOf(s.set, w.target) = m
    BY DEF Wish
  <2>2. w.token \in DOMAIN s'.pending /\ s'.pending[w.token] = s.pending[w.token]
    BY <1>1, <1>6, <2>1 DEF Bereft
  <2>3. w.target # None => Has(s'.set, w.target) /\ MediaOf(s'.set, w.target) = m
    BY <1>1, <1>6, <2>1 DEF Bereft
  <2> QED BY <2>1, <2>2, <2>3 DEF Wish
<1>9. CASE Arrived(s, events, e, w) /\ ~Queued(cmds)
  <2>1. s.adopted = w /\ ~OwnsAny(s, ids)
    BY <1>6, <1>9 DEF Arrived, OwnsAny
  <2>2. s'.adopted = s.adopted /\ Rests(s, s')
    BY <1>1, <2>1 DEF Bereft
  <2>3. Arrived(s', events, e, w)
    BY <1>9, <2>2 DEF Arrived, Rests, Mine
  <2> QED BY <1>2, <1>5, <1>6, <1>7, <1>9, <2>1, <2>3 DEF Awaited
<1>10. CASE Asked(s, cmds, w)
  BY <1>2, <1>5, <1>6, <1>7, <1>8, <1>10 DEF Asked, Awaited
<1>11. CASE ~Queued(cmds) /\ (Attempting(s, e, w) \/ Arriving(s, events, e, w))
  BY <1>2, <1>5, <1>6, <1>7, <1>8, <1>11 DEF Attempting, Arriving, Awaited
<1> QED BY <1>7, <1>9, <1>10, <1>11 DEF Awaited

LEMMA OpenedForth ==
  ASSUME NEW S, NEW evs \in Seq(S), evs # <<>>, NEW L, NEW m, Opened(evs, Len(evs) + 1, L, m)
  PROVE  \/ Opened(Tail(evs), Len(Tail(evs)) + 1, L, m)
         \/ Opens(Head(evs), L, m) /\ Calm(Tail(evs), 1, Len(Tail(evs)) + 1)
<1>1. PICK x : x = [adopted |-> [token |-> 0]]
  OBVIOUS
<1>2. Reigns(x, evs, Len(evs) + 1, L, m)
  BY DEF Reigns
<1>3. ~Mine(x, L, m)
  BY <1>1 DEF Mine
<1> QED BY <1>2, <1>3, ReignsForth

LEMMA CalmForth ==
  ASSUME NEW S, NEW evs \in Seq(S), evs # <<>>, Calm(evs, 1, Len(evs) + 1)
  PROVE  ~Cut(Head(evs)) /\ Calm(Tail(evs), 1, Len(Tail(evs)) + 1)
<1>1. /\ Len(evs) \in Nat /\ DOMAIN evs = 1 .. Len(evs)
      /\ \A i \in DOMAIN Tail(evs) : i \in Nat /\ i + 1 \in DOMAIN evs /\ Tail(evs)[i] = evs[i + 1]
      /\ 1 \in DOMAIN evs /\ Head(evs) = evs[1]
  BY TailAt
<1>2. \A i \in DOMAIN evs : ~Cut(evs[i])
  BY <1>1 DEF Calm
<1>3. \A i \in DOMAIN Tail(evs) : ~Cut(Tail(evs)[i])
  BY <1>1, <1>2
<1> QED BY <1>1, <1>2, <1>3 DEF Calm

LEMMA RestSounds ==
  ASSUME NEW S, NEW evs \in Seq(S), evs # <<>>, NEW x, CutsFit(x, evs), IsOutcome(Head(evs)),
         NEW L, NEW m, Opened(Tail(evs), Len(Tail(evs)) + 1, L, m)
  PROVE  Head(evs).token # L
<1>1. PICK k \in DOMAIN Tail(evs) : Opens(Tail(evs)[k], L, m)
  BY DEF Opened
<1>2. /\ k \in Nat /\ k + 1 \in DOMAIN evs /\ Tail(evs)[k] = evs[k + 1]
      /\ 1 \in DOMAIN evs /\ Head(evs) = evs[1] /\ k # 0
  BY <1>1, TailAt
<1>3. Cut(evs[k + 1]) /\ evs[k + 1].token = L
  BY <1>1, <1>2 DEF Opens, Cut, IsOutcome
<1> QED BY <1>2, <1>3 DEF CutsFit

(* An event that does not end the wanted load leaves it as it was.             *)
LEMMA WishPasses ==
  ASSUME RuntimeInv, NEW ev \in EventSet, NEW y, Observed(s, ev, y), NEW w, NEW m, Wish(s, w, m),
         IsOutcome(ev) => ev.token # w.token
  PROVE  Wish(y, w, m) /\ DOMAIN y.pending # {}
<1>1. SoundSet(s.set)
  BY FrontEndParts, CursorWithin
<1>2. /\ w.token \in DOMAIN s.pending
      /\ s.pending[w.token] = [target |-> w.target, media |-> m, valid |-> TRUE]
      /\ w.target # None => Has(s.set, w.target) /\ MediaOf(s.set, w.target) = m
  BY DEF Wish
<1>3. CASE y.pending = s.pending /\ y.set = s.set
  BY <1>2, <1>3 DEF Wish
<1>4. CASE IsOutcome(ev) /\ Concerns(s, ev, y)
  <2>1. w.token \in DOMAIN y.pending /\ y.pending[w.token] = s.pending[w.token]
    BY <1>2, <1>4 DEF Concerns
  <2>2. CASE y.set = s.set
    BY <1>2, <2>1, <2>2 DEF Wish
  <2>3. CASE Accepted(s, ev) /\ Adopted(s, ev, y)
    <3>1. PICK target : target = s.pending[ev.token].target
      OBVIOUS
    <3>2. y.set = IF target = Detached THEN s.set ELSE Adopt(s.set, target)
      BY <2>3, <3>1 DEF Adopted
    <3>3. target # Detached => Has(s.set, target)
      BY <2>3, <3>1 DEF Accepted, Accepts, Registered
    <3>4. w.target # None => Has(y.set, w.target) /\ MediaOf(y.set, w.target) = m
      BY <1>1, <1>2, <3>2, <3>3, AdoptKeepsEntries
    <3> QED BY <1>2, <2>1, <3>4 DEF Wish
  <2>4. (Accepted(s, ev) /\ Adopted(s, ev, y)) \/ Released(s, ev, y)
    BY <1>4 DEF Observed, Cut
  <2> QED BY <2>2, <2>3, <2>4 DEF Released
<1> QED BY <1>3, <1>4 DEF Observed, Overheard, Begun

(* The outcome of the wanted load is taken, and the load is adopted. *)
LEMMA WishGranted ==
  ASSUME RuntimeInv, NEW ev \in EventSet, s.latest <= ev.rev, NEW y, Observed(s, ev, y),
         NEW w \in Loads, NEW m, Wish(s, w, m), Opens(ev, w.token, m)
  PROVE  Mine(y, w.token, m) /\ y.adopted = w /\ y.stop = s.stop
<1>1. /\ w.token \in DOMAIN s.pending
      /\ s.pending[w.token] = [target |-> w.target, media |-> m, valid |-> TRUE]
      /\ w.target # None => Has(s.set, w.target) /\ MediaOf(s.set, w.target) = m
  BY DEF Wish
<1>2. ev.k = "Loaded" /\ ev.token = w.token /\ ev.media = m /\ w.token # 0 /\ IsOutcome(ev)
  BY DEF Opens, IsOutcome
<1>3. ev.rev >= s.latest
  BY FrontEndParts DEF EventSet
<1>4. Registered(s, ev.token, ev.media)
  BY <1>1, <1>2 DEF Registered, Detached
<1>5. Accepted(s, ev)
  BY <1>2, <1>3, <1>4 DEF Accepted, Accepts
<1>6. Adopted(s, ev, y)
  BY <1>2, <1>5 DEF Observed, Cut
<1>7. s.pending[w.token].target = w.target
  BY <1>1
<1>8. y.adopted = [token |-> w.token, target |-> w.target] /\ y.last = w.token /\ y.media = m
      /\ y.stop = s.stop
  BY <1>2, <1>6, <1>7 DEF Adopted
<1>9. y.adopted = w
  BY <1>8 DEF Loads
<1> QED BY <1>2, <1>8, <1>9 DEF Mine

LEMMA DrainSought ==
  ASSUME RuntimeInv, HeedInv, ~s.stop, Sought, wanted \in Loads, DrainOne
  PROVE  Sought' /\ wanted' \in Loads
<1>1. events # <<>> /\ events' = Tail(events) /\ UNCHANGED <<cmds, e, wanted, faults>>
  BY DrainsTo
<1>2. PICK ev \in EventSet : ev = Head(events) /\ s.latest <= ev.rev
  BY <1>1, HeadIs
<1>3. PICK y : y = Observe(s, ev)
  OBVIOUS
<1>4. /\ s'.adopted = y.adopted /\ s'.last = y.last /\ s'.media = y.media /\ s'.set = y.set
      /\ s'.pending = y.pending /\ stopBit' = (stopBit \/ AnswersStop(y))
  BY <1>2, <1>3, DrainsTo
<1>5. Observed(s, ev, y)
  BY <1>1, <1>2, <1>3, HeadObserved
<1>6. PICK p \in Seq(EventSet) : p = events /\ p # <<>>
  BY <1>1, EventsAre
<1>7. PICK w \in Loads : w = wanted
  OBVIOUS
<1>8. PICK L, m : L = e.load /\ m = e.media
  OBVIOUS
<1>9. PICK rest : rest = Tail(p)
  OBVIOUS
<1>10. CutsFit(s, p) /\ OpeningFits(s, p, e) /\ QueuedFits(s, cmds, p, e) /\ 1 \in DOMAIN p
       /\ p[1] = ev
  BY <1>2, <1>6, HeedParts, TailAt
<1> SUFFICES ASSUME faults = 0, wanted # NoLoad
             PROVE  ~stopBit' /\ Awaited(s', cmds, rest, e, w)
  BY <1>1, <1>6, <1>7, <1>9 DEF Sought
<1>11. ~stopBit /\ Awaited(s, cmds, p, e, w)
  BY <1>6, <1>7 DEF Sought
<1>12. ASSUME NEW n, Wish(s, w, n), IsOutcome(ev) => ev.token # w.token
       PROVE  Wish(s', w, n) /\ ~stopBit'
  <2>1. Wish(y, w, n) /\ DOMAIN y.pending # {}
    BY <1>5, <1>12, WishPasses
  <2> QED BY <1>4, <1>11, <2>1 DEF Wish, AnswersStop
<1>13. CASE Asked(s, cmds, w)
  <2>1. PICK i : LastLoad(cmds, i) /\ cmds[i].token = w.token /\ Wish(s, w, cmds[i].media)
    BY <1>13 DEF Asked
  <2>2. IsOutcome(ev) => ev.token # w.token
    BY <1>10, <2>1 DEF QueuedFits, LastLoad, Cut
  <2> QED BY <1>12, <2>1, <2>2 DEF Awaited, Asked
<1>14. CASE ~Queued(cmds) /\ Attempting(s, e, w)
  <2>1. e.loading = w.token /\ w.token # 0 /\ Wish(s, w, e.media)
    BY <1>14, WishNonzero DEF Attempting
  <2>2. IsOutcome(ev) => ev.token # w.token
    BY <1>10, <2>1 DEF OpeningFits
  <2> QED BY <1>12, <1>14, <2>1, <2>2 DEF Awaited, Attempting
<1>15. CASE ~Queued(cmds) /\ Arriving(s, p, e, w)
  <2>1. L = w.token /\ Opened(p, Len(p) + 1, L, m) /\ Wish(s, w, m)
    BY <1>8, <1>15 DEF Arriving
  <2>2. \/ Opened(rest, Len(rest) + 1, L, m)
        \/ Opens(ev, L, m) /\ Calm(rest, 1, Len(rest) + 1)
    BY <1>2, <1>6, <1>9, <2>1, OpenedForth
  <2>3. CASE Opened(rest, Len(rest) + 1, L, m)
    <3>1. IsOutcome(ev) => ev.token # w.token
      BY <1>2, <1>6, <1>9, <1>10, <2>1, <2>3, RestSounds
    <3> QED BY <1>8, <1>12, <1>15, <2>1, <2>3, <3>1 DEF Awaited, Arriving
  <2>4. CASE Opens(ev, L, m) /\ Calm(rest, 1, Len(rest) + 1)
    <3>1. Mine(y, w.token, m) /\ y.adopted = w /\ y.stop = s.stop
      BY <1>2, <1>5, <2>1, <2>4, WishGranted
    <3>2. Mine(s', L, m) /\ s'.adopted = w /\ ~stopBit'
      BY <1>4, <1>11, <2>1, <3>1 DEF Mine, AnswersStop
    <3>3. Arrived(s', rest, e, w)
      BY <1>8, <2>1, <2>4, <3>2 DEF Arrived
    <3> QED BY <1>15, <3>2, <3>3 DEF Awaited
  <2> QED BY <2>2, <2>3, <2>4
<1>16. CASE ~Queued(cmds) /\ Arrived(s, p, e, w)
  <2>1. e.load = w.token /\ Mine(s, e.load, e.media) /\ Calm(p, 1, Len(p) + 1) /\ s.adopted = w
    BY <1>16 DEF Arrived
  <2>2. ~Cut(ev) /\ Calm(rest, 1, Len(rest) + 1)
    BY <1>2, <1>6, <1>9, <2>1, CalmForth
  <2>3. Overheard(s, y)
    BY <1>5, <2>2 DEF Observed, Cut
  <2>4. Mine(s', e.load, e.media) /\ s'.adopted = w /\ ~stopBit'
    BY <1>4, <1>11, <2>1, <2>3 DEF Overheard, Rests, Mine, AnswersStop
  <2> QED BY <1>16, <2>1, <2>2, <2>4 DEF Awaited, Arrived
<1> QED BY <1>11, <1>13, <1>14, <1>15, <1>16 DEF Awaited

LEMMA FrontEndSought ==
  ASSUME RuntimeInv, HeedInv, Running, ~s.stop, Sought, wanted \in Loads, FrontEnd, Running'
  PROVE  Sought' /\ wanted' \in Loads
<1>1. CASE PlayEntry \/ PlayDetached \/ Sample
  BY <1>1, PlayEntrySubmits, PlayDetachedSubmits, SampleSubmits, SubmitsSought
<1>2. CASE Stop \/ DrainDone
  BY <1>2, SteadySought
<1>3. CASE \E kind \in {"Toggle", "Seek", "Restart"} : Transport(kind)
  BY <1>3, TransportSought
<1> QED BY <1>1, <1>2, <1>3, QueueSought, DrainSought
     DEF FrontEnd, Running, Quit, Replay, Reconcile

(* Inductive, with RuntimeInv and HeedInv, while the program runs. *)
RestInv ==
    Running => /\ Grounded /\ SeekOrder /\ Sought
               /\ faults \in Nat /\ wanted \in Loads

LEMMA InitRests == ASSUME Init PROVE RestInv
<1>1. /\ e.state = "Idle" /\ e.media = NoMedia /\ e.load = 0 /\ e.loading = 0
      /\ events = <<>> /\ cmds = <<>> /\ wanted = NoLoad /\ faults = 0
  BY DEF Init
<1>2. s.stop = FALSE /\ s.adopted.token = 0
  BY DEF Init, NewSession, NoLoad
<1>3. Begins
  BY <1>1 DEF Begins
<1>4. Echoes
  <2>1. Tells(<<>>, "Idle", "Idle")
    BY TellsNothing
  <2> QED BY <1>1, <1>2, <2>1 DEF Echoes, Owning
<1>5. Claimed
  BY <1>1 DEF Claimed, Lively
<1>6. SeekOrder
  BY <1>1 DEF SeekOrder
<1>7. Sought
  BY <1>1 DEF Sought
<1> QED BY <1>1, <1>2, <1>3, <1>4, <1>5, <1>6, <1>7, NoLoadIn DEF RestInv, Grounded

LEMMA RunsOn == ASSUME RuntimeInv, HeedInv, Next, Running' PROVE Running
<1>1. EngineFits(e) /\ cmds \in Seq(Submitted(s.next))
  BY HeedParts
<1>2. CASE Dispatch
  <2>1. cmds # <<>> /\ e.loading = 0
    BY <1>2 DEF Dispatch
  <2>2. PICK c \in Submitted(s.next) : c = Head(cmds)
    BY <1>1, <2>1, TailIn
  <2>3. c.cmd \in {"Load", "PlayLoaded", "Play", "Pause", "Seek", "Restart"}
    BY DEF Submitted, Commands
  <2>4. Load(c) \/ Play(TRUE) \/ Play(FALSE) \/ Pause \/ Seek \/ Restart \/ Nothing
    BY <1>2, <2>2, <2>3 DEF Dispatch
  <2>5. Load(c) \/ Aptly
    BY <1>1, <2>1, <2>4, PlayApt, PauseApt, SeekApt, RestartApt, NothingApt
  <2> QED BY <2>5 DEF Load, Aptly, Settle, Running
<1>3. CASE TakeStop
  <2>1. Aptly
    BY <1>1, <1>3, TakeStopApt
  <2> QED BY <2>1 DEF Aptly, Settle, Running
<1>4. CASE Advance \/ EndOfTrack \/ Breaks \/ Rebuild \/ Lose \/ Regain
  <2>1. Aptly
    BY <1>1, <1>4, AloneApt
  <2> QED BY <2>1 DEF Aptly, Settle, Running
<1>5. CASE LoadCancelled \/ LoadFails \/ LoadEnds
  BY <1>5, LoadEndsAs DEF LoadCancelled, LoadFails, Settle, Running
<1>6. CASE EngineCloses \/ Discard \/ EngineShutdown
  BY <1>6 DEF EngineCloses, Discard, EngineShutdown, Settle, Running
<1>7. CASE FrontEnd
  BY <1>7 DEF FrontEnd, PlayEntry, PlayDetached, Stop, Queue, Quit, Transport, DrainOne, DrainDone,
              Sample, Replay, Reconcile, Running, Input
<1> QED BY <1>2, <1>3, <1>4, <1>5, <1>6, <1>7 DEF Next, Engine

LEMMA FrontEndRests ==
  ASSUME RuntimeInv, HeedInv, RestInv, FrontEnd, plan' = plan, Running, Running'
  PROVE  /\ Grounded' /\ SeekOrder' /\ Sought'
         /\ faults' \in Nat /\ wanted' \in Loads
<1>1. Grounded /\ SeekOrder /\ Sought /\ faults \in Nat /\ wanted \in Loads
  BY DEF RestInv
<1>2. Grounded'
  BY <1>1, FrontEndGrounded
<1>3. SeekOrder'
  BY <1>1, FrontEndSeeks
<1>4. Sought' /\ wanted' \in Loads
  BY <1>1, FrontEndSought DEF Grounded
<1>5. faults' = faults
  BY DEF FrontEnd, PlayEntry, PlayDetached, Stop, Queue, Quit, Transport, DrainOne, DrainDone,
         Sample, Replay, Reconcile
<1> QED BY <1>1, <1>2, <1>3, <1>4, <1>5

LEMMA NextRests ==
  ASSUME RuntimeInv, HeedInv, RestInv, Next PROVE RestInv'
<1> SUFFICES ASSUME Running'
             PROVE  /\ Grounded' /\ SeekOrder' /\ Sought'
                    /\ faults' \in Nat /\ wanted' \in Loads
  BY DEF RestInv
<1>1. Running
  BY RunsOn
<1>2. Grounded /\ SeekOrder /\ Sought /\ faults \in Nat /\ wanted \in Loads
  BY <1>1 DEF RestInv
<1>3. CASE FrontEnd /\ plan' = plan
  BY <1>1, <1>3, FrontEndRests
<1>4. CASE Engine
  <2>1. Begins
    BY <1>2 DEF Grounded
  <2>2. Grounded'
    BY <1>1, <1>2, <1>4, EngineGrounded
  <2>3. SeekOrder'
    BY <1>1, <1>2, <1>4, <2>1, EngineSeeks
  <2>4. Sought' /\ faults' \in Nat
    BY <1>1, <1>2, <1>4, <2>1, EngineSought
  <2>5. wanted' = wanted
    BY <1>1, <1>4, <2>1, EngineBegins DEF Apart
  <2> QED BY <1>2, <2>2, <2>3, <2>4, <2>5
<1> QED BY <1>3, <1>4 DEF Next

LEMMA StaysAtRest ==
  ASSUME RestInv, UNCHANGED <<s, mirror, cmds, stopBit, events, e, app, wanted, faults>>
  PROVE  RestInv'
BY DEF RestInv, Running, Grounded, Begins, Echoes, Claimed, SeekOrder, Sought

(* With nothing left on the way, what is wanted is adopted.                    *)
LEMMA WantedArrives ==
  ASSUME RuntimeInv, RestInv, AtRest, faults = 0, wanted # NoLoad
  PROVE  s.adopted = wanted /\ e.load = wanted.token
<1>1. cmds = <<>> /\ events = <<>> /\ e.loading = 0 /\ Running
  BY DEF AtRest, Running
<1>2. Awaited(s, cmds, events, e, wanted)
  BY <1>1 DEF RestInv, Sought
<1>3. ~Asked(s, cmds, wanted)
  BY <1>1 DEF Asked, LastLoad
<1>4. ~Attempting(s, e, wanted)
  BY <1>1, WishNonzero DEF Attempting
<1>5. ~Arriving(s, events, e, wanted)
  BY <1>1 DEF Arriving, Opened
<1> QED BY <1>2, <1>3, <1>4, <1>5 DEF Awaited, Arrived

(* With nothing left on the way, what goes on by itself is owned and shown.    *)
LEMMA AudibleRests ==
  ASSUME RestInv, AtRest, e.state \in {"Playing", "Reconnecting"}, ~e.revived
  PROVE  Owned
<1>1. cmds = <<>> /\ events = <<>> /\ ~stopBit /\ Running
  BY DEF AtRest, Running
<1>2. Echoes /\ Claimed
  BY <1>1 DEF RestInv, Grounded
<1>3. Mine(s, e.load, e.media)
  <2>1. Reigns(s, events, Len(events) + 1, e.load, e.media)
    BY <1>1, <1>2 DEF Claimed, Lively, Queued
  <2> QED BY <1>1, <2>1 DEF Reigns, Opened
<1>4. Owning(s) /\ s.adopted.token = e.load
  BY <1>3 DEF Mine, Owning
<1>5. PICK from : Tells(events, from, e.state) /\ from = mirror.state
                  /\ mirror.load = s.adopted.token
  BY <1>2, <1>4 DEF Echoes
<1>6. e.state = from
  BY <1>1, <1>5 DEF Tells, Shifts, Speaking
<1> QED BY <1>4, <1>5, <1>6 DEF Owned

(* runtime.rs and engine.rs: once every command is taken and every event is    *)
(* heard, the load asked for last is the one adopted, unless it was stopped,   *)
(* its entry removed, or something failed; and what goes on by itself is the   *)
(* playback the session owns, in the state the front end shows.                *)
THEOREM RestAlwaysAgrees == Spec => []RestAgrees
<1> DEFINE Inv == RuntimeInv /\ HeedInv /\ RestInv
<1>1. Init => Inv
  BY InitIs, InitHeeds, InitRests
<1>2. Inv /\ [Next]_vars => Inv'
  <2> SUFFICES ASSUME RuntimeInv, HeedInv, RestInv, [Next]_vars
               PROVE  RuntimeInv' /\ HeedInv' /\ RestInv'
    OBVIOUS
  <2>1. RuntimeInv'
    BY NextIs
  <2>2. CASE UNCHANGED vars
    <3>1. UNCHANGED <<s, mirror, cmds, stopBit, events, e, app, wanted, faults>>
      BY <2>2 DEF vars
    <3>2. HeedInv'
      BY <3>1 DEF HeedInv
    <3>3. RestInv'
      BY <3>1, StaysAtRest
    <3> QED BY <2>1, <3>2, <3>3
  <2>3. CASE Next
    <3>1. HeedInv'
      BY <2>3, FrontEndHeeds, EngineHeeds DEF Next
    <3> QED BY <2>1, <2>3, <3>1, NextRests
  <2> QED BY <2>2, <2>3
<1>3. Inv => RestAgrees
  BY WantedArrives, AudibleRests DEF RestAgrees, WantedIsAdopted, AudibleIsOwned
<1> QED BY <1>1, <1>2, <1>3, PTL DEF Spec

-----------------------------------------------------------------------------
(* The ends of a playthrough.  An end is heard while the session is shown as    *)
(* playing, and what is shown as playing has not been completed.                *)
Fresh(x) == ~x.completed /\ x.seen = <<0, 0>>
Gone == app \in {"joined", "done"}
Heedful(x, evs, gone, state) ==
    \E from, to : /\ Tells(evs, from, to) /\ (gone \/ to = state)
                  /\ (Owning(x) /\ from = "Playing" => Fresh(x))
(* Inductive, with RuntimeInv and HeedInv. *)
EndsInv == Holds /\ Shut /\ (Gone \/ Begins) /\ Heedful(s, events, Gone, e.state)

LEMMA InitEnds == ASSUME Init PROVE EndsInv
<1>1. Holds /\ Shut
  BY InitSmooth DEF FinalInv
<1>2. e.state = "Idle" /\ e.media = NoMedia /\ e.load = 0 /\ e.loading = 0 /\ events = <<>>
  BY DEF Init
<1>3. Begins
  BY <1>2 DEF Begins
<1>4. Tells(<<>>, "Idle", "Idle")
  BY TellsNothing
<1>5. Heedful(s, <<>>, Gone, "Idle")
  BY <1>4 DEF Heedful
<1> QED BY <1>1, <1>2, <1>3, <1>5 DEF EndsInv

LEMMA AttendsHeedful ==
  ASSUME NEW x, NEW y, Attends(x, y), NEW evs, NEW gone, NEW state, Heedful(x, evs, gone, state)
  PROVE  Heedful(y, evs, gone, state)
<1>1. PICK from, to : /\ Tells(evs, from, to) /\ (gone \/ to = state)
                      /\ (Owning(x) /\ from = "Playing" => Fresh(x))
  BY DEF Heedful
<1>2. Owning(y) => Owning(x) /\ (Fresh(x) => Fresh(y))
  BY DEF Attends, Fresh
<1>3. Owning(y) /\ from = "Playing" => Fresh(y)
  BY <1>1, <1>2
<1> QED BY <1>1, <1>3 DEF Heedful

(* What sets playback going, and what leaves it going. *)
LEMMA MediaEventFresh ==
  ASSUME NEW x \in SessionSet, NEW ev \in EventSet,
         Says(ev) => ev.k = "State" /\ ev.state = "Playing", ~Says(ev) => Fresh(x)
  PROVE  Fresh(MediaEvent(x, ev))
<1> DEFINE force == IF x.force = 0 THEN 0 ELSE ev.rev
           z == [x EXCEPT !.latest = ev.rev, !.rev = ev.rev, !.force = force]
           y == MediaEvent(x, ev)
<1>1. /\ ev.rev \in Nat /\ force \in Nat /\ ev.pos \in Positions
  BY DEF SessionSet, EventSet
<1>2. /\ ev.k = "State" => y = OnState(z, ev.state)
      /\ ev.k = "Landing" => y = OnLanding(z, ev)
      /\ ev.k = "TargetStored" => y = OnTargetStored(z, ev)
      /\ ev.k = "EndOfTrack" => y = OnEndOfTrack(z, ev)
      /\ ev.k = "Capabilities" => y = [z EXCEPT !.checkpointable = @ /\ ~ev.live]
      /\ ~(ev.k = "State" \/ Locates(ev) \/ ev.k = "Capabilities") => y = z
  BY DEF MediaEvent, Locates
<1> HIDE DEF force
<1>3. z \in SessionSet /\ z.completed = x.completed /\ z.seen = x.seen
  BY <1>1 DEF SessionSet
<1> HIDE DEF z, y
<1> SUFFICES Fresh(y)
  BY DEF y
<1>4. CASE ev.k = "State"
  <2>1. y.completed = FALSE /\ y.seen = <<0, 0>>
    BY <1>2, <1>3, <1>4 DEF Says, OnState, SessionSet
  <2> QED BY <2>1 DEF Fresh
<1>5. CASE ev.k = "Landing"
  <2>1. y.completed = FALSE /\ y.seen = <<0, 0>>
    BY <1>2, <1>3, <1>5 DEF OnLanding, SessionSet
  <2> QED BY <2>1 DEF Fresh
<1>6. CASE ev.k = "TargetStored"
  <2> DEFINE u == [z EXCEPT !.target = ev.pos, !.established = TRUE, !.completed = FALSE,
                            !.seen = <<0, 0>>]
  <2>1. u \in SessionSet /\ u.completed = FALSE /\ u.seen = <<0, 0>>
    BY <1>1, <1>3 DEF SessionSet
  <2>2. y = RecordCurrent(u, ev.pos)
    BY <1>2, <1>6 DEF OnTargetStored
  <2> HIDE DEF u
  <2>3. y.completed = u.completed /\ y.seen = u.seen
    BY <1>1, <2>1, <2>2, RecordCurrentIs, RecordedAttends
  <2> QED BY <2>1, <2>3 DEF Fresh
<1>7. CASE ev.k \notin {"State", "Landing", "TargetStored"}
  <2>1. ~Says(ev)
    BY <1>7 DEF Says
  <2>2. y = z \/ y = [z EXCEPT !.checkpointable = @ /\ ~ev.live]
    BY <1>2, <1>7, <2>1 DEF Says, Locates
  <2>3. y.completed = z.completed /\ y.seen = z.seen
    BY <1>3, <2>2 DEF SessionSet
  <2>4. Fresh(x)
    BY <2>1
  <2> QED BY <1>3, <2>3, <2>4 DEF Fresh
<1> QED BY <1>4, <1>5, <1>6, <1>7

LEMMA HeadFresh ==
  ASSUME RuntimeInv, HeedInv, events # <<>>, NEW from, Owning(s) /\ from = "Playing" => Fresh(s),
         NEW y, y = Observe(s, Head(events)), Owning(y),
         (IF Says(Head(events)) THEN Said(Head(events)) ELSE from) = "Playing"
  PROVE  Fresh(y)
<1>1. PICK ev \in EventSet : ev = Head(events) /\ s.latest <= ev.rev
  BY HeadIs
<1>2. Observed(s, ev, y)
  BY <1>1, HeadObserved
<1>3. /\ s \in SessionSet /\ s.latest \in Nat /\ ev.rev \in Nat
      /\ DOMAIN s.pending \subseteq 1 .. s.next
  BY FrontEndParts DEF EventSet
<1>4. CASE ~Cut(ev) /\ Overheard(s, y)
  <2>1. Owning(s) /\ ev.k # "Loaded" /\ ~IsOutcome(ev)
    BY <1>4 DEF Overheard, Rests, Owning, Cut, IsOutcome
  <2>2. ~(ev.k = "State" /\ ev.state = "Loading" /\ ev.token \in DOMAIN s.pending)
    BY <1>3, <1>4 DEF Cut
  <2>3. Accepts(s, ev)
    BY <1>1, <1>3, <2>1 DEF Accepts, Owns, Owning
  <2>4. y = MediaEvent(s, ev)
    BY <1>1, <2>1, <2>2, <2>3 DEF Observe
  <2>5. Says(ev) => ev.k = "State" /\ ev.state = "Playing"
    BY <1>1, <2>1 DEF Says, Said
  <2>6. ~Says(ev) => Fresh(s)
    BY <1>1, <2>1
  <2> QED BY <1>3, <2>4, <2>5, <2>6, MediaEventFresh
<1>5. CASE Accepted(s, ev)
  <2>1. Says(ev) /\ Said(ev) = "Loading"
    BY <1>5 DEF Accepted, Says, Said
  <2> QED BY <1>1, <2>1
<1>6. CASE IsOutcome(ev) /\ Concerns(s, ev, y) /\ Released(s, ev, y)
  <2>1. ev.token # s.adopted.token /\ y.adopted = s.adopted /\ y.last \in {0, ev.token}
    BY <1>6 DEF Released, Concerns
  <2> QED BY <2>1 DEF Owning
<1>7. CASE Begun(s, y)
  BY <1>7 DEF Begun, Owning
<1> QED BY <1>2, <1>4, <1>5, <1>6, <1>7 DEF Observed

LEMMA HearsEnds ==
  ASSUME RuntimeInv, HeedInv, Heedful(s, events, Gone, e.state), DrainOne \/ Replay
  PROVE  Heedful(s', events', Gone', e'.state)
<1>1. PICK y : y = Observe(s, Head(events))
  OBVIOUS
<1>2. PICK z : z = [y EXCEPT !.stop = FALSE]
  OBVIOUS
<1>3. events # <<>> /\ events' = Tail(events) /\ e' = e /\ (s' = y \/ s' = z)
  BY <1>1, <1>2 DEF DrainOne, Replay
<1>4. Gone => Gone'
  BY DEF DrainOne, Replay, Gone
<1>5. PICK from, to : /\ Tells(events, from, to) /\ (Gone \/ to = e.state)
                      /\ (Owning(s) /\ from = "Playing" => Fresh(s))
  BY DEF Heedful
<1>6. PICK mid : /\ Tells(Tail(events), mid, to)
                 /\ mid = IF Says(Head(events)) THEN Said(Head(events)) ELSE from
  <2>1. PICK p \in Seq(EventSet) : p = events
    BY EventsAre
  <2>2. p # <<>> /\ Tells(p, from, to)
    BY <1>3, <1>5, <2>1
  <2>3. \E mid : Tells(Tail(p), mid, to) /\ mid = IF Says(Head(p)) THEN Said(Head(p)) ELSE from
    BY <2>2, TellsTail
  <2> QED BY <2>1, <2>3
<1>7. Owning(y) /\ mid = "Playing" => Fresh(y)
  BY <1>1, <1>3, <1>5, <1>6, HeadFresh
<1>8. y \in SessionSet
  <2>1. PICK ev \in Known(s.next, e.rev) : ev = Head(events)
    BY <1>3, HeadIs
  <2>2. Sane(s) /\ s.next \in Nat /\ e.rev \in Nat
    BY FrontEndParts, InvParts
  <2>3. Sane(y)
    BY <1>1, <2>1, <2>2, ObserveIs
  <2> QED BY <2>3 DEF Sane
<1>9. Attends(y, z) /\ Attends(y, y)
  <2>1. Unmoved(y, z) /\ Unmoved(y, y)
    BY <1>2, <1>8 DEF Unmoved, SessionSet
  <2> QED BY <2>1, UnmovedAttends
<1>10. Heedful(y, Tail(events), Gone', e.state)
  BY <1>4, <1>5, <1>6, <1>7 DEF Heedful
<1>11. Heedful(z, Tail(events), Gone', e.state)
  BY <1>9, <1>10, AttendsHeedful
<1> QED BY <1>3, <1>10, <1>11

(* A submission leaves what is heard as it was. *)
LEMMA FrontEndAttends ==
  ASSUME RuntimeInv, FrontEnd, ~DrainOne, ~Replay
  PROVE  Attends(s, s') /\ events' = events /\ e' = e /\ (Gone' <=> Gone)
<1>1. s \in SessionSet /\ Sane(s) /\ Progress \in Samplings
  BY FrontEndParts
<1>2. PICK x : x = [s |-> s, cmds |-> cmds]
  OBVIOUS
<1>3. x.s = s /\ \E session, queue : x = [s |-> session, cmds |-> queue]
  BY <1>2
<1>4. CASE PlayEntry
  <2>1. PICK id : s' = LoadEntry(x, id).s
    BY <1>2, <1>4 DEF PlayEntry
  <2>2. Attends(s, s')
    BY <1>1, <1>3, <2>1, LoadEntryUnmoved, UnmovedAttends
  <2> QED BY <1>4, <2>2 DEF PlayEntry, Gone
<1>5. CASE PlayDetached
  <2>1. PICK m \in Media : s' = SubmitLoad(x, Detached, m).s
    BY <1>2, <1>5 DEF PlayDetached
  <2>2. Detached \in Nat
    BY DEF Detached, None
  <2>3. Attends(s, s')
    BY <1>1, <1>3, <2>1, <2>2, SubmitUnmoved, UnmovedAttends
  <2> QED BY <1>5, <2>3 DEF PlayDetached, Gone
<1>6. CASE Queue
  <2>1. PICK ids, v, set, saved :
           v = Vacate(s, ids, Progress) /\ s' = WithPlaylists(v, set, saved)
    BY <1>6, QueueRemoves
  <2>2. v \in SessionSet /\ Attends(s, v)
    BY <1>1, <2>1, VacateIs, VacateAttends DEF Vacated
  <2>3. Attends(v, s')
    BY <2>1, <2>2, PlaylistsUnmoved, UnmovedAttends
  <2>4. Attends(s, s')
    BY <2>2, <2>3, AttendsOn
  <2> QED BY <1>6, <2>4 DEF Queue, Gone
<1>7. CASE Sample
  <2> DEFINE asked == [s EXCEPT !.advance = None]
  <2>1. PICK due \in BOOLEAN :
           s' = Tick(LoadEntry([s |-> asked, cmds |-> cmds], s.advance).s, Progress, due)
    BY <1>7 DEF Sample
  <2>2. /\ asked \in SessionSet /\ Keeps(s, asked) /\ Unmoved(s, asked)
        /\ asked.next = s.next /\ asked.pending = s.pending
    BY <1>1 DEF SessionSet, None, Keeps, Unmoved
  <2>3. Sane(asked)
    BY <1>1, <2>2, KeepsSane
  <2> HIDE DEF asked
  <2>4. PICK w : w = [s |-> asked, cmds |-> cmds]
    OBVIOUS
  <2>5. PICK y : y = LoadEntry(w, s.advance)
    OBVIOUS
  <2>6. w.s = asked /\ w.cmds = cmds /\ Sane(w.s) /\ s' = Tick(y.s, Progress, due)
    BY <2>1, <2>3, <2>4, <2>5
  <2>7. Unmoved(w.s, y.s)
    BY <2>4, <2>5, <2>6, LoadEntryUnmoved
  <2>8. y.s \in SessionSet
    <3>1. Handing(w)
      BY <2>2, <2>6, FrontEndParts DEF Handing
    <3>2. Handed(w, y)
      BY <2>4, <2>5, <3>1, LoadEntryIs
    <3> QED BY <3>2 DEF Handed, Sane
  <2>9. PICK v : v = y.s
    OBVIOUS
  <2>10. Unmoved(v, s')
    BY <1>1, <2>6, <2>8, <2>9, TickUnmoved
  <2>11. Attends(s, s')
    BY <2>2, <2>6, <2>7, <2>9, <2>10, UnmovedOn, UnmovedAttends
  <2> QED BY <1>7, <2>11 DEF Sample, Gone
<1>8. CASE Reconcile
  <2>1. Attends(s, s')
    BY <1>1, <1>8, CaptureUnmoved, UnmovedAttends DEF Reconcile
  <2> QED BY <1>8, <2>1 DEF Reconcile, Gone
<1>9. CASE Stop \/ Quit \/ DrainDone \/ \E kind \in {"Toggle", "Seek", "Restart"} : Transport(kind)
  <2>1. s' = s /\ events' = events /\ e' = e /\ (Gone' <=> Gone)
    BY <1>9 DEF Stop, Quit, DrainDone, Transport, Input, Gone
  <2> QED BY <2>1 DEF Attends
<1> QED BY <1>4, <1>5, <1>6, <1>7, <1>8, <1>9 DEF FrontEnd

LEMMA FrontEndEnds == ASSUME RuntimeInv, HeedInv, EndsInv, FrontEnd PROVE EndsInv'
<1>1. Holds /\ Shut /\ (Gone \/ Begins) /\ Heedful(s, events, Gone, e.state)
  BY DEF EndsInv
<1>2. Holds' /\ Shut'
  BY <1>1, FrontEndHolds
<1>3. Heedful(s', events', Gone', e'.state)
  <2>1. CASE DrainOne \/ Replay
    BY <1>1, <2>1, HearsEnds
  <2>2. CASE ~DrainOne /\ ~Replay
    <3>1. Attends(s, s') /\ events' = events /\ e' = e /\ (Gone' <=> Gone)
      BY <2>2, FrontEndAttends
    <3>2. Heedful(s', events, Gone, e.state)
      BY <1>1, <3>1, AttendsHeedful
    <3> QED BY <3>1, <3>2 DEF Heedful
  <2> QED BY <2>1, <2>2
<1>4. e' = e /\ (Gone => Gone')
  BY DEF FrontEnd, PlayEntry, PlayDetached, Stop, Queue, Quit, Transport, DrainOne, DrainDone,
         Sample, Replay, Reconcile, Gone
<1>5. Gone' \/ Begins'
  BY <1>1, <1>4 DEF Begins
<1> QED BY <1>2, <1>3, <1>5 DEF EndsInv

(* The engine runs no longer than its thread. *)
LEMMA HandlersRun == ASSUME Shut, Engine PROVE ~Gone
<1>1. Gone => /\ e.loading = 0 /\ cmds = <<>> /\ ~stopBit
              /\ app \notin {"ui", "drain", "sample", "join", "closing"}
  BY DEF Shut, Gone
<1>2. Dispatch \/ Discard => cmds # <<>>
  BY DEF Dispatch, Discard
<1>3. LoadCancelled \/ LoadFails \/ LoadEnds => e.loading # 0
  BY Zenon DEF LoadCancelled, LoadFails, LoadEnds
<1>4. TakeStop => stopBit
  BY DEF TakeStop
<1>5. Advance \/ EndOfTrack \/ Breaks \/ Rebuild \/ Lose \/ Regain
         => app \in {"ui", "drain", "sample", "join"}
  BY Zenon DEF Advance, EndOfTrack, Breaks, Rebuild, Lose, Regain, Alone
<1>6. EngineCloses \/ EngineShutdown => app \in {"join", "closing"}
  BY DEF EngineCloses, EngineShutdown
<1> QED BY <1>1, <1>2, <1>3, <1>4, <1>5, <1>6 DEF Engine

LEMMA EngineEnds == ASSUME RuntimeInv, HeedInv, EndsInv, Engine PROVE EndsInv'
<1>1. Holds /\ Shut /\ ~Gone /\ Begins /\ Heedful(s, events, Gone, e.state)
  BY HandlersRun DEF EndsInv
<1>2. Holds' /\ Shut'
  BY <1>1, EngineHolds
<1>3. PICK from : /\ Tells(events, from, e.state)
                  /\ (Owning(s) /\ from = "Playing" => Fresh(s))
  BY <1>1 DEF Heedful
<1>4. PICK p \in Seq(EventSet) : p = events
  BY EventsAre
<1>5. ASSUME NEW new \in Seq(EventSet), events' = events \o new, Tells(new, e.state, e'.state),
             s' = s
      PROVE  Heedful(s', events', Gone', e'.state)
  <2>1. PICK g, h : g = e.state /\ h = e'.state
    OBVIOUS
  <2>2. Tells(p, from, g) /\ Tells(new, g, h)
    BY <1>3, <1>4, <1>5, <2>1
  <2>3. Tells(p \o new, from, h)
    BY <2>2, TellsOn
  <2>4. Tells(events', from, e'.state)
    BY <1>4, <1>5, <2>1, <2>3
  <2> QED BY <1>3, <1>5, <2>4 DEF Heedful
<1>6. CASE ~Closes
  <2>1. Begins' /\ Apart /\ Utters
    BY <1>1, <1>6, HandlerBegins, HandlerUtters
  <2>2. Heedful(s', events', Gone', e'.state)
    BY <1>5, <2>1 DEF Utters, Apart
  <2> QED BY <1>2, <2>1, <2>2 DEF EndsInv
<1>7. CASE EngineCloses
  <2>1. e' = e /\ events' = events /\ s' = s
    BY <1>7 DEF EngineCloses
  <2>2. Begins' /\ Heedful(s', events', Gone', e'.state)
    BY <1>1, <1>3, <2>1 DEF Begins, Heedful
  <2> QED BY <1>2, <2>2 DEF EndsInv
<1>8. CASE Discard
  <2>1. PICK c \in Submitted(s.next) : c = Head(cmds)
    BY <1>8, FrontEndParts, TailIn DEF Discard
  <2>2. c.token \in Nat /\ e \in EngineSet
    BY InvParts DEF Submitted, Commands
  <2>3. Settle(e, <<Outcome("LoadCancelled", e, c.token)>>) \/ Settle(e, <<>>)
    BY <1>8, <2>1 DEF Discard
  <2>4. /\ Tells(<<Outcome("LoadCancelled", e, c.token)>>, e.state, e.state)
        /\ <<Outcome("LoadCancelled", e, c.token)>> \in Seq(EventSet)
    BY <2>2, OutcomeSilent
  <2>5. Tells(<<>>, e.state, e.state) /\ <<>> \in Seq(EventSet)
    BY TellsNothing
  <2>6. Heedful(s', events', Gone', e'.state)
    BY <1>5, <2>3, <2>4, <2>5 DEF Settle
  <2>7. Begins'
    BY <1>1, <2>3 DEF Begins, Settle
  <2> QED BY <1>2, <2>6, <2>7 DEF EndsInv
<1>9. CASE EngineShutdown
  <2>1. Gone' /\ s' = s /\ events' = events
    BY <1>9 DEF EngineShutdown, Gone
  <2>2. Heedful(s', events', Gone', e'.state)
    BY <1>3, <2>1 DEF Heedful
  <2> QED BY <1>2, <2>1, <2>2 DEF EndsInv
<1> QED BY <1>6, <1>7, <1>8, <1>9 DEF Closes

(* An end that is heard is the end of what was playing. *)
LEMMA EndIsHeeded ==
  ASSUME RuntimeInv, HeedInv, EndsInv, DrainOne \/ Replay,
         Head(events).k = "EndOfTrack", Owns(s, Head(events).rev)
  PROVE  /\ ~s.completed /\ s'.completed
         /\ s.adopted.target # Detached => s'.advance = Following(s.set, s.adopted.target)
<1>1. events # <<>> /\ \E y : y = Observe(s, Head(events)) /\ (s' = y \/ s' = [y EXCEPT !.stop = FALSE])
  BY DEF DrainOne, Replay
<1>2. PICK ev \in EventSet : ev = Head(events) /\ ev \in Known(s.next, e.rev)
  BY <1>1, HeadIs
<1>3. PICK y : y = Observe(s, ev) /\ (s' = y \/ s' = [y EXCEPT !.stop = FALSE])
  BY <1>1, <1>2
<1>4. /\ s \in SessionSet /\ Sane(s) /\ s.next \in Nat /\ e.rev \in Nat
      /\ ev.rev \in Nat /\ ev.pos \in Positions
  BY FrontEndParts, InvParts DEF EventSet
<1>5. Owning(s) /\ s.adopted.token # 0 /\ Accepts(s, ev)
  BY <1>2 DEF Owns, Owning, Accepts
<1>6. Fresh(s)
  <2>1. PICK from, to : /\ Tells(events, from, to)
                        /\ (Owning(s) /\ from = "Playing" => Fresh(s))
    BY DEF EndsInv, Heedful
  <2>2. 1 \in DOMAIN events /\ events[1] = ev /\ DOMAIN events \subseteq Nat
    BY <1>1, <1>2, EventsAre, TailAt
  <2>3. PlaysAt(events, 1, from)
    BY <1>2, <2>1, <2>2 DEF Tells, EndsPlaying
  <2>4. \A j \in DOMAIN events : ~(j < 1)
    BY EventsAre
  <2>5. from = "Playing"
    BY <2>3, <2>4 DEF PlaysAt
  <2> QED BY <1>5, <2>1, <2>5
<1> DEFINE force == IF s.force = 0 THEN 0 ELSE ev.rev
           z == [s EXCEPT !.latest = ev.rev, !.rev = ev.rev, !.force = force]
           key == <<z.adopted.token, z.rev>>
           protected == z.protected /\ Estimated(ev.pos)
           u == [z EXCEPT !.seen = key, !.target = NoPos, !.established = TRUE,
                          !.completed = TRUE, !.guess = Estimated(ev.pos),
                          !.protected = protected]
           q == RecordCurrent(u, ev.pos)
           advance == IF z.adopted.target = Detached THEN q.advance
                      ELSE IF Has(z.set, z.adopted.target)
                           THEN Following(z.set, z.adopted.target) ELSE None
<1>7. y = OnEndOfTrack(z, ev)
  <2>1. ~IsOutcome(ev) /\ ev.k = "EndOfTrack"
    BY <1>2 DEF IsOutcome
  <2>2. y = MediaEvent(s, ev)
    BY <1>3, <1>5, <2>1 DEF Observe
  <2> QED BY <2>1, <2>2 DEF MediaEvent
<1>8. force \in Nat
  BY <1>4 DEF SessionSet
<1> HIDE DEF force
<1>9. /\ z \in SessionSet /\ z.adopted = s.adopted /\ z.set = s.set /\ z.seen = s.seen
      /\ z.protected \in BOOLEAN /\ z.rev \in Nat /\ z.adopted.token \in Nat
  BY <1>4, <1>8 DEF SessionSet, Loads
<1> HIDE DEF z
<1>10. z.seen # key
  BY <1>5, <1>6, <1>9 DEF Fresh
<1>11. y = [q EXCEPT !.advance = advance]
  BY <1>7, <1>10 DEF OnEndOfTrack
<1>12. key \in Nat \X Nat /\ protected \in BOOLEAN /\ Estimated(ev.pos) \in BOOLEAN
  BY <1>4, <1>9 DEF Estimated
<1> HIDE DEF key, protected
<1>13. u \in SessionSet /\ u.completed = TRUE
  <2>1. u \in SessionSet
    BY ZenonT(60), <1>9, <1>12, NoPosIn DEF SessionSet
  <2>2. u.completed = TRUE
    BY <1>9 DEF SessionSet
  <2> QED BY <2>1, <2>2
<1> HIDE DEF u
<1>14. q \in SessionSet /\ q.completed = TRUE
  BY <1>4, <1>13, RecordCurrentIs, RecordedAttends
<1> HIDE DEF q
<1>15. s.adopted.target # Detached => advance = Following(s.set, s.adopted.target)
  <2> SUFFICES ASSUME s.adopted.target # Detached
               PROVE  advance = Following(s.set, s.adopted.target)
    OBVIOUS
  <2>1. Has(s.set, s.adopted.target)
    BY <1>4 DEF Sane, AgreesIn, Detached
  <2> QED BY <1>9, <2>1
<1> HIDE DEF advance
<1>16. y.completed = TRUE /\ y.advance = advance
  BY <1>11, <1>14 DEF SessionSet
<1>17. y \in SessionSet
  BY <1>2, <1>3, <1>4, ObserveIs DEF Sane
<1>18. s'.completed = TRUE /\ s'.advance = advance
  BY <1>3, <1>16, <1>17 DEF SessionSet
<1> QED BY <1>6, <1>15, <1>18 DEF Fresh

(* No other step takes an event away. *)
LEMMA OnlyHears ==
  ASSUME RuntimeInv, HeedInv, EndsInv, [Next]_vars, events # <<>>, events' = Tail(events)
  PROVE  DrainOne \/ Replay
<1>1. PICK p \in Seq(EventSet) : p = events
  BY EventsAre
<1>2. Tail(p) # p /\ \A new \in Seq(EventSet) : Tail(p) # p \o new
  <2>1. Len(p) \in Nat /\ Len(Tail(p)) = Len(p) - 1
    BY <1>1, TailAt
  <2>2. \A new \in Seq(EventSet) : Len(p \o new) = Len(p) + Len(new) /\ Len(new) \in Nat
    BY JoinAt
  <2> QED BY <2>1, <2>2
<1>3. events' # events /\ \A new \in Seq(EventSet) : events' # events \o new
  BY <1>1, <1>2
<1>4. ~UNCHANGED vars
  BY <1>3 DEF vars
<1>5. ~Engine
  <2> SUFFICES ASSUME Engine PROVE FALSE
    OBVIOUS
  <2>1. Begins
    BY HandlersRun DEF EndsInv
  <2>2. CASE ~Closes
    BY <1>3, <2>1, <2>2, HandlerUtters DEF Utters
  <2>3. CASE EngineCloses \/ EngineShutdown
    BY <1>3, <2>3 DEF EngineCloses, EngineShutdown
  <2>4. CASE Discard
    <3>1. PICK c \in Submitted(s.next) : c = Head(cmds)
      BY <2>4, FrontEndParts, TailIn DEF Discard
    <3>2. c.token \in Nat /\ e \in EngineSet
      BY InvParts DEF Submitted, Commands
    <3>3. Settle(e, <<Outcome("LoadCancelled", e, c.token)>>) \/ Settle(e, <<>>)
      BY <2>4, <3>1 DEF Discard
    <3>4. <<Outcome("LoadCancelled", e, c.token)>> \in Seq(EventSet)
      BY <3>2, OutcomeSilent
    <3>5. \E new \in Seq(EventSet) : events' = events \o new
      <4>1. CASE Settle(e, <<>>)
        <5>1. PICK new : new = <<>>
          OBVIOUS
        <5>2. new \in Seq(EventSet) /\ events' = events \o new
          BY <4>1, <5>1 DEF Settle
        <5> QED BY <5>2
      <4>2. CASE Settle(e, <<Outcome("LoadCancelled", e, c.token)>>)
        <5>1. PICK new : new = <<Outcome("LoadCancelled", e, c.token)>>
          OBVIOUS
        <5>2. new \in Seq(EventSet) /\ events' = events \o new
          BY <3>4, <4>2, <5>1 DEF Settle
        <5> QED BY <5>2
      <4> QED BY <3>3, <4>1, <4>2
    <3> QED BY <1>3, <3>5
  <2> QED BY <2>2, <2>3, <2>4 DEF Closes
<1>6. FrontEnd
  BY <1>4, <1>5 DEF Next
<1> QED BY <1>3, <1>6, FrontEndAttends

(* session.rs, runtime.rs and engine.rs: an end of track the session owns comes *)
(* of a playthrough it has not completed yet; it completes it, and asks for the *)
(* entry after the one that ended.                                              *)
THEOREM EndsAlwaysHeeded == Spec => EndsAreHeeded
<1> DEFINE Inv == RuntimeInv /\ HeedInv /\ EndsInv
           Advances == events # <<>> /\ events' = Tail(events)
                    /\ Head(events).k = "EndOfTrack" /\ Owns(s, Head(events).rev)
                    => /\ ~s.completed /\ s'.completed
                       /\ s.adopted.target # Detached =>
                             s'.advance = Following(s.set, s.adopted.target)
<1>1. Init => Inv
  BY InitIs, InitHeeds, InitEnds
<1>2. Inv /\ [Next]_vars => Inv'
  <2> SUFFICES ASSUME RuntimeInv, HeedInv, EndsInv, [Next]_vars
               PROVE  RuntimeInv' /\ HeedInv' /\ EndsInv'
    OBVIOUS
  <2>1. RuntimeInv'
    BY NextIs
  <2>2. CASE UNCHANGED vars
    <3>1. UNCHANGED <<s, cmds, events, e, app, stopBit>>
      BY <2>2 DEF vars
    <3>2. HeedInv' /\ EndsInv'
      BY <3>1 DEF HeedInv, EndsInv, Holds, Shut, Gone, Begins, Heedful
    <3> QED BY <2>1, <3>2
  <2>3. CASE Next
    <3>1. HeedInv'
      BY <2>3, FrontEndHeeds, EngineHeeds DEF Next
    <3>2. EndsInv'
      BY <2>3, FrontEndEnds, EngineEnds DEF Next
    <3> QED BY <2>1, <3>1, <3>2
  <2> QED BY <2>2, <2>3
<1>3. Inv /\ [Next]_vars => [Advances]_vars
  <2> SUFFICES ASSUME RuntimeInv, HeedInv, EndsInv, [Next]_vars,
                      events # <<>>, events' = Tail(events),
                      Head(events).k = "EndOfTrack", Owns(s, Head(events).rev)
               PROVE  /\ ~s.completed /\ s'.completed
                      /\ s.adopted.target # Detached =>
                            s'.advance = Following(s.set, s.adopted.target)
    OBVIOUS
  <2> QED BY OnlyHears, EndIsHeeded
<1> QED BY <1>1, <1>2, <1>3, PTL DEF Spec, EndsAreHeeded
===============================================================================
