------------------------------ MODULE MediaControls ------------------------------
(* application/mpris/mod.rs, mpris/bus.rs, mpris/cover.rs and the two ends of *)
(* them in application/runtime.rs (pump, publish_snapshot): the runtime       *)
(* publishes a snapshot into a slot that keeps the latest, the D-Bus thread   *)
(* tells the desktop what changed since the last one it applied, and the      *)
(* desktop's requests come back through a bounded queue.                      *)
(*                                                                            *)
(* The D-Bus thread runs one executor, so a request's handler runs between    *)
(* its steps and never inside one. Left out: the position, so the Seeked      *)
(* signal; a pass after which only the position differs publishes `moved`.    *)
EXTENDS Naturals, Sequences, SequencesExt

CONSTANTS Tracks, Images,
          TopVolume,       \* volumes are 0..TopVolume
          RequestBacklog,  \* REQUEST_BACKLOG
          MaxDesk          \* bound: changes of the player and requests

ASSUME DeskAssumption == TopVolume \in Nat /\ RequestBacklog \in Nat \ {0} /\ MaxDesk \in Nat

VARIABLES
    desk,       \* what the player is at, as snapshot() reads it
    passDue,        \* it changed since the last pass
    deskChanges,
    deskRequests,   \* crossbeam bounded queue
    seen,       \* mpris_seen: <<>> or <<the snapshot>>
    snapshotSlot,       \* the watch channel: [snapshot, unread]
    bus,        \* the thread: "waits", "tells" or "gone"
    published,  \* Published; last is <<>> or <<the snapshot>>
    message,    \* the properties properties_changed is sending
    previous,   \* the cover file of the thread, NoFile when none
    covers,     \* the cover files of this process on disk
    shell       \* what the desktop believes

DeskVars == <<desk, passDue, deskChanges, deskRequests, seen, snapshotSlot, bus, published,
              message, previous, covers, shell>>

NoTrack == "no track"
NoImage == "no image"
NoFile == [seq |-> 0, image |-> NoImage]
DeskSnapshot(track, length, cover, status, volume, shuffle) ==
    [track |-> track, length |-> length, cover |-> cover,
     status |-> status, volume |-> volume, shuffle |-> shuffle]
Silent == DeskSnapshot(NoTrack, FALSE, NoImage, "Stopped", TopVolume, FALSE)
NoSnapshot == <<>>

DesktopKeys == {"metadata", "seekable", "status", "volume", "shuffle"}

(* What the getters and properties_changed report of a Published. *)
LastOf(p) == IF p.last = NoSnapshot THEN Silent ELSE p.last[1]
TrackId(p) == IF LastOf(p).track = NoTrack THEN 0 ELSE p.seq
Properties(p) ==
    [metadata |-> [id |-> TrackId(p), track |-> LastOf(p).track,
                   length |-> LastOf(p).length, art |-> p.art],
     seekable |-> LastOf(p).length,
     status |-> LastOf(p).status,
     volume |-> LastOf(p).volume, shuffle |-> LastOf(p).shuffle]

DeskInit ==
    /\ desk = Silent /\ passDue = TRUE /\ deskChanges = 0
    /\ deskRequests = <<>> /\ seen = NoSnapshot
    /\ snapshotSlot = [snapshot |-> Silent, unread |-> FALSE]
    /\ bus = "waits"
    /\ published = [last |-> NoSnapshot, seq |-> 0, volumeWritten |-> FALSE,
                    coverSeq |-> 0, coverTaken |-> NoImage, art |-> NoFile]
    /\ message = [x \in {} |-> 0]
    /\ previous = NoFile /\ covers = {}
    /\ shell = Properties(published)

-----------------------------------------------------------------------------
(* The player, between two passes: keys, engine events, a cover that landed. *)

Stirs == deskChanges < MaxDesk /\ deskChanges' = deskChanges + 1 /\ passDue' = TRUE
OfBus == <<seen, snapshotSlot, bus, published, message, previous, covers, shell>>

TrackChanges ==
    /\ Stirs
    /\ \E track \in Tracks, length \in BOOLEAN :
         desk' = [desk EXCEPT !.track = track, !.length = length,
                              !.cover = NoImage, !.status = "Playing"]
    /\ UNCHANGED <<deskRequests>> /\ UNCHANGED OfBus
Stopped ==
    /\ Stirs /\ desk.track # NoTrack
    /\ desk' = [Silent EXCEPT !.volume = desk.volume, !.shuffle = desk.shuffle]
    /\ UNCHANGED deskRequests /\ UNCHANGED OfBus
CoverLands ==
    /\ Stirs /\ desk.track # NoTrack
    /\ \E image \in Images : desk' = [desk EXCEPT !.cover = image]
    /\ UNCHANGED deskRequests /\ UNCHANGED OfBus
VolumeKeys ==
    /\ Stirs
    /\ \E volume \in 0..TopVolume : desk' = [desk EXCEPT !.volume = volume]
    /\ UNCHANGED deskRequests /\ UNCHANGED OfBus

-----------------------------------------------------------------------------
(* One pass of the runtime: every queued request, then publish_snapshot. *)

Flipped(status) == CASE status = "Playing" -> "Paused"
                     [] status = "Paused" -> "Playing"
                     [] OTHER -> status
Clamped(volume) == IF volume > TopVolume THEN TopVolume ELSE volume
Commanded(player, request) ==
    CASE request.kind = "PlayPause" -> [player EXCEPT !.status = Flipped(@)]
      [] request.kind = "SetShuffle" -> [player EXCEPT !.shuffle = request.to]
      [] request.kind = "SetVolume" -> [player EXCEPT !.volume = Clamped(request.to)]

Obeyed(player, requests) == FoldLeft(Commanded, player, requests)

(* Mutant: only a snapshot that differs is published. *)
WorthPublishingChanged(answered, next) == seen # <<next>>
WorthPublishing(answered, next) == answered \/ seen # <<next>>

Pass ==
    LET next == Obeyed(desk, deskRequests)
    IN  /\ bus # "gone"
        /\ desk' = next /\ deskRequests' = <<>> /\ passDue' = FALSE
        /\ \E moved \in BOOLEAN :
             IF moved \/ WorthPublishing(deskRequests # <<>>, next)
             THEN seen' = <<next>> /\ snapshotSlot' = [snapshot |-> next, unread |-> TRUE]
             ELSE UNCHANGED <<seen, snapshotSlot>>
        /\ UNCHANGED <<deskChanges, bus, published, message, previous, covers, shell>>

-----------------------------------------------------------------------------
(* The D-Bus thread. *)

Reports(next, key) ==
    LET last == LastOf(published)
    IN  CASE key \in {"metadata", "seekable"} ->
               <<last.track, last.length, last.cover>> # <<next.track, next.length, next.cover>>
          [] key = "volume" -> last.volume # next.volume \/ published.volumeWritten
          [] key = "status" -> last.status # next.status
          [] key = "shuffle" -> last.shuffle # next.shuffle
Changed(next) ==
    {key \in DesktopKeys : published.last = NoSnapshot \/ Reports(next, key)}

(* A track is named anew when the media differs from the last applied one. *)
Apply(next) ==
    [published EXCEPT
       !.last = <<next>>,
       !.seq = IF next.track # LastOf(published).track THEN @ + 1 ELSE @,
       !.volumeWritten = FALSE]

(* write_pending_cover: the file of a new cover replaces the previous one; a  *)
(* cleared cover, or one that cannot be written, leaves no file and no URL.   *)
WritePendingCover(p, image, ok) ==
    LET seq == IF image = NoImage THEN p.coverSeq ELSE p.coverSeq + 1
        file == IF image # NoImage /\ ok THEN [seq |-> seq, image |-> image] ELSE NoFile
    IN  /\ published' = [p EXCEPT !.coverSeq = seq, !.coverTaken = image, !.art = file]
        /\ previous' = file
        /\ covers' = (covers \ {previous}) \union ({file} \ {NoFile})

TakeSnapshot ==
    /\ bus = "waits" /\ snapshotSlot.unread
    /\ snapshotSlot' = [snapshotSlot EXCEPT !.unread = FALSE]
    /\ LET p == Apply(snapshotSlot.snapshot)
           image == snapshotSlot.snapshot.cover
       IN  IF image = p.coverTaken
           THEN published' = p /\ UNCHANGED <<previous, covers>>
           ELSE \E ok \in BOOLEAN : WritePendingCover(p, image, ok)
    /\ message' = [key \in Changed(snapshotSlot.snapshot) |-> Properties(published')[key]]
    /\ bus' = IF Changed(snapshotSlot.snapshot) = {} THEN "waits" ELSE "tells"
    /\ UNCHANGED <<desk, passDue, deskChanges, deskRequests, seen, shell>>

PropertiesChanged ==
    /\ bus = "tells" /\ bus' = "waits"
    /\ shell' = [key \in DesktopKeys |-> IF key \in DOMAIN message THEN message[key] ELSE shell[key]]
    /\ UNCHANGED <<desk, passDue, deskChanges, deskRequests, seen, snapshotSlot, published,
                   message, previous, covers>>

(* The connection is lost, or the runtime dropped its end: the thread leaves *)
(* and takes its cover file with it.                                         *)
BusGone ==
    /\ bus # "gone" /\ bus' = "gone"
    /\ covers' = covers \ {previous} /\ previous' = NoFile
    /\ UNCHANGED <<desk, passDue, deskChanges, deskRequests, seen, snapshotSlot, published,
                   message, shell>>

-----------------------------------------------------------------------------
(* The desktop. *)

Queued(request) ==
    deskRequests' = IF Len(deskRequests) < RequestBacklog
                    THEN Append(deskRequests, request) ELSE deskRequests
Asks == bus # "gone" /\ deskChanges < MaxDesk /\ deskChanges' = deskChanges + 1

AskPlayPause ==
    /\ Asks /\ Queued([kind |-> "PlayPause"])
    /\ UNCHANGED <<desk, passDue, seen, snapshotSlot, bus, published, message, previous,
                   covers, shell>>
AskShuffle ==
    /\ Asks
    /\ \E to \in BOOLEAN : Queued([kind |-> "SetShuffle", to |-> to])
    /\ UNCHANGED <<desk, passDue, seen, snapshotSlot, bus, published, message, previous,
                   covers, shell>>

(* A widget shows the volume it wrote; one above the top is clamped. *)
WriteVolume ==
    /\ Asks
    /\ \E to \in 0..(TopVolume + 1) :
         /\ Queued([kind |-> "SetVolume", to |-> to])
         /\ shell' = [shell EXCEPT !.volume = to]
    /\ published' = [published EXCEPT !.volumeWritten = TRUE]
    /\ UNCHANGED <<desk, passDue, seen, snapshotSlot, bus, message, previous, covers>>

(* A shell that starts now reads every property. *)
ReadAll ==
    /\ bus # "gone" /\ Asks /\ shell' = Properties(published)
    /\ UNCHANGED <<desk, passDue, deskRequests, seen, snapshotSlot, bus, published, message,
                   previous, covers>>

DeskNext ==
    \/ TrackChanges \/ Stopped \/ CoverLands \/ VolumeKeys
    \/ Pass \/ TakeSnapshot \/ PropertiesChanged \/ BusGone
    \/ AskPlayPause \/ AskShuffle \/ WriteVolume \/ ReadAll
DeskSpec == DeskInit /\ [][DeskNext]_DeskVars

-----------------------------------------------------------------------------
(* At most one cover file of this process is on disk, the one the thread      *)
(* knows of, and none once the thread has left. (write_pending_cover, run.)   *)
OneCoverFile == covers = {previous} \ {NoFile} /\ (bus = "gone" => covers = {})

(* Whenever a pass has run, the D-Bus thread has caught up and no request is  *)
(* left, the desktop shows the player: snapshots skipped in the slot, writes  *)
(* that changed nothing, were clamped or were dropped by a full queue, and    *)
(* covers that could not be written included. The art it shows is the playing *)
(* cover's and its file exists. (Published::apply_at, publish_snapshot,       *)
(* write_pending_cover, set_volume.)                                          *)
DeskAtRest == ~passDue /\ deskRequests = <<>> /\ ~snapshotSlot.unread /\ bus = "waits"
DesktopShowsThePlayer ==
    /\ OneCoverFile
    /\ DeskAtRest =>
        LET told == Properties([published EXCEPT !.last = <<desk>>])
        IN  /\ \A key \in DesktopKeys \ {"metadata"} : shell[key] = told[key]
            /\ [shell.metadata EXCEPT !.art = NoFile] = [told.metadata EXCEPT !.art = NoFile]
            /\ shell.metadata.art # NoFile =>
                 shell.metadata.art.image = desk.cover /\ shell.metadata.art \in covers
=============================================================================
