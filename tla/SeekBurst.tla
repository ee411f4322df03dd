------------------------------- MODULE SeekBurst -------------------------------
(* application/seek.rs and its uses in application/runtime.rs: arrow keys     *)
(* accumulate in a burst, the burst is submitted as one seek after a quiet    *)
(* window, and the display holds its target until the worker answers.  The    *)
(* worker is reduced to what it answers and when; several seeks may be queued *)
(* or unanswered at once, and commands that supersede them come in between.   *)
EXTENDS Naturals, Sequences, SequencesExt, FiniteSets

CONSTANTS SeekTop,      \* the length of the media
          SeekQueueCap, \* the engine's command queue
          MaxKeys       \* bound: keys pressed and tracks ended

ASSUME SeekAssumption == SeekTop \in Nat /\ SeekQueueCap \in Nat /\ MaxKeys \in Nat

VARIABLES
    burst,      \* SeekBurst.open: its target, or NoTarget
    due,        \* the quiet window has passed since the last press
    submitted, storedSeek, flight,  \* KeyRouter: submitted, stored, in_flight
    commands,   \* the engine's queue
    landing,    \* the target the worker stored and has still to land on
    heard,      \* events not yet drained
    burstMirror,     \* the position on display
    keys

SeekVars == <<burst, due, submitted, storedSeek, flight, commands, landing, heard,
              burstMirror, keys>>

NoTarget == SeekTop + 1
SeekTo(target) == [what |-> "seek", at |-> target]
Other(what) == [what |-> what, at |-> 0]
Or(a, b) == IF a # NoTarget THEN a ELSE b

SeekInit ==
    /\ burst = NoTarget /\ due = FALSE
    /\ submitted = NoTarget /\ storedSeek = NoTarget /\ flight = 0
    /\ commands = <<>> /\ landing = NoTarget /\ heard = <<>>
    /\ burstMirror = 0 /\ keys = 0

(* displayed_target, before the mirror's own position. *)
Displayed == Or(burst, Or(submitted, storedSeek))

(* seek_target: clamped at both ends. *)
Target(base, step) ==
    IF step = "forward" THEN IF base < SeekTop THEN base + 1 ELSE SeekTop
                        ELSE IF base > 0 THEN base - 1 ELSE 0

Key == keys < MaxKeys /\ keys' = keys + 1
Release == submitted' = NoTarget /\ storedSeek' = NoTarget /\ flight' = 0

-----------------------------------------------------------------------------
(* Keys. *)

Press ==
    /\ Key
    /\ \E step \in {"forward", "back"} : burst' = Target(Or(Displayed, burstMirror), step)
    /\ due' = FALSE /\ burstMirror' = burst'
    /\ UNCHANGED <<submitted, storedSeek, flight, commands, landing, heard>>

(* A refused command has no effect on the queue. *)
Submits(command) ==
    commands' = IF Len(commands) < SeekQueueCap THEN Append(commands, command) ELSE commands

(* Restart and stop drop the burst and the wait; a stored target stays. *)
SeekSuperseded ==
    /\ Key
    /\ \E what \in {"restart", "stop"} : Submits(Other(what))
    /\ burst' = NoTarget /\ due' = FALSE
    /\ submitted' = NoTarget /\ flight' = 0
    /\ UNCHANGED <<storedSeek, landing, heard, burstMirror>>

(* A load, or an absolute seek past the router, cancels both. *)
SeekCancelled ==
    /\ Key
    /\ \/ Submits(Other("load"))
       \/ \E target \in 0 .. SeekTop : Submits(SeekTo(target))
    /\ burst' = NoTarget /\ due' = FALSE
    /\ Release
    /\ UNCHANGED <<landing, heard, burstMirror>>

QuietWindow ==
    /\ burst # NoTarget /\ ~due
    /\ due' = TRUE
    /\ UNCHANGED <<burst, submitted, storedSeek, flight, commands, landing, heard,
                   burstMirror, keys>>

-----------------------------------------------------------------------------
(* flush and observe. *)

(* Mutant: a refused seek keeps the hold of an answer that will not come. *)
RefusedHolds == submitted' = burst /\ flight' = flight + 1 /\ UNCHANGED storedSeek

(* A refused seek is never answered: it gives its hold up, unless an earlier  *)
(* one's outcome is still to end it.                                          *)
RefusedReleases ==
    IF flight = 0 THEN Release
    ELSE submitted' = burst /\ UNCHANGED <<storedSeek, flight>>

SeekFlush ==
    /\ burst # NoTarget /\ due
    /\ IF Len(commands) < SeekQueueCap
         THEN /\ commands' = Append(commands, SeekTo(burst))
              /\ submitted' = burst /\ flight' = flight + 1
              /\ UNCHANGED storedSeek
         ELSE RefusedReleases /\ UNCHANGED commands
    /\ burst' = NoTarget /\ due' = FALSE
    /\ UNCHANGED <<landing, heard, burstMirror, keys>>

Left == IF flight = 0 THEN 0 ELSE flight - 1

SeekObserve ==
    /\ heard # <<>> /\ heard' = Tail(heard)
    /\ LET event == Head(heard) IN
       /\ CASE event.what = "stored" ->
                 /\ storedSeek' = event.at /\ flight' = Left
                 /\ submitted' = IF Left = 0 THEN NoTarget ELSE submitted
                 /\ UNCHANGED <<burst, due>>
            [] event.what \in {"completed", "rejected", "cancelled"} ->
                 /\ IF Left = 0 THEN Release
                                ELSE flight' = Left /\ UNCHANGED <<submitted, storedSeek>>
                 /\ UNCHANGED <<burst, due>>
            [] event.what \in {"restarted", "ended"} -> Release /\ UNCHANGED <<burst, due>>
            [] event.what \in {"loaded", "failed"} ->
                 Release /\ burst' = NoTarget /\ due' = FALSE
       /\ burstMirror' = IF event.what \in {"completed", "restarted", "loaded"}
                      THEN Or(Displayed', event.at) ELSE Or(Displayed', burstMirror)
    /\ UNCHANGED <<commands, landing, keys>>

-----------------------------------------------------------------------------
(* The worker. *)

Tells(what, at) == heard' = Append(heard, [what |-> what, at |-> at])

(* Each seek is answered once: landed, refused, overtaken, or stored. *)
SeekAnswered ==
    /\ commands # <<>> /\ Head(commands).what = "seek"
    /\ commands' = Tail(commands)
    /\ \/ Tells("completed", Head(commands).at) /\ landing' = NoTarget
       \/ \E what \in {"rejected", "cancelled"} : Tells(what, 0) /\ UNCHANGED landing
       \/ Tells("stored", Head(commands).at) /\ landing' = Head(commands).at
    /\ UNCHANGED <<burst, due, submitted, storedSeek, flight, burstMirror, keys>>

OtherAnswered ==
    /\ commands # <<>> /\ Head(commands).what # "seek"
    /\ commands' = Tail(commands)
    /\ CASE Head(commands).what = "restart" -> Tells("restarted", 0) /\ landing' = NoTarget
         [] Head(commands).what = "load" ->
              /\ \E what \in {"loaded", "failed"} : Tells(what, 0)
              /\ landing' = NoTarget
         [] OTHER -> UNCHANGED <<heard, landing>>
    /\ UNCHANGED <<burst, due, submitted, storedSeek, flight, burstMirror, keys>>

(* A stored target lands when playback comes back. *)
StoredLands ==
    /\ landing # NoTarget
    /\ Tells("completed", landing) /\ landing' = NoTarget
    /\ UNCHANGED <<burst, due, submitted, storedSeek, flight, commands, burstMirror, keys>>

(* The end of the track; nothing is stored while one plays. *)
TrackEnds ==
    /\ Key /\ landing = NoTarget
    /\ Tells("ended", 0)
    /\ UNCHANGED <<burst, due, submitted, storedSeek, flight, commands, landing, burstMirror>>

SeekNext ==
    \/ Press \/ SeekSuperseded \/ SeekCancelled \/ QuietWindow
    \/ SeekFlush \/ SeekObserve
    \/ SeekAnswered \/ OtherAnswered \/ StoredLands \/ TrackEnds

SeekSpec == SeekInit /\ [][SeekNext]_SeekVars

-----------------------------------------------------------------------------
(* Properties *)

SeekCommands == [what : {"seek"}, at : 0 .. SeekTop]
SeekAnswers == [what : {"completed", "rejected", "cancelled", "stored"}, at : 0 .. SeekTop]

SeeksOwed ==
    Cardinality({i \in DOMAIN commands : commands[i] \in SeekCommands})
      + Cardinality({i \in DOMAIN heard : heard[i] \in SeekAnswers})

(* The display never sticks: a target on display without a burst behind it    *)
(* has an outcome on its way that lets it go - an answer for every seek still *)
(* counted, the landing of a stored one, or what supersedes both.             *)
HoldIsOwed ==
    /\ flight <= SeeksOwed
    /\ submitted # NoTarget => flight > 0
    /\ storedSeek # NoTarget =>
         \/ landing # NoTarget
         \/ \E e \in Range(heard) : e.what \in {"completed", "restarted", "loaded", "failed"}
         \/ SeeksOwed > 0
=============================================================================
