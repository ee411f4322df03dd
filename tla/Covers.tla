--------------------------------- MODULE Covers ---------------------------------
(* application/cover.rs, artwork/worker.rs and track_covers of                *)
(* application/runtime.rs: the cover of what is playing, the cover fetched    *)
(* ahead for the entry being loaded, and the one worker thread both ask, with *)
(* its slot where a request replaces the one that still waits.                *)
(*                                                                            *)
(* A source is the media it belongs to and a version: a load that brings HTTP *)
(* up or delivers an embedded cover, or a re-probed station, changes it.      *)
EXTENDS Naturals

CONSTANTS CoverMedia, Versions,
          MaxChanges   \* bound: changes of what is playing or loading

ASSUME CoverAssumption == MaxChanges \in Nat

VARIABLES
    playing,    \* the source of the playing entry's cover, and its load
    loading,    \* the source of the loading entry's, or NoCover
    changes,
    pass,       \* where track_covers is: "idle", "want", "ahead" or "poll"
    seenPlaying, seenLoading,      \* cover_seen, loading_seen
    requested, shown, ahead,       \* Covers
    artSlot, inHand, finished         \* the worker's request, job and result

CoverVars == <<playing, loading, changes, pass, seenPlaying, seenLoading,
               requested, shown, ahead, artSlot, inHand, finished>>
Track == <<playing, loading, changes>>
Worker == <<artSlot, inHand, finished>>

Source(media, version) == [media |-> media, version |-> version]
Sources == {Source(m, v) : m \in CoverMedia, v \in Versions}
NoCover == Source("none", "none")
Failed == Source("none", "failed")

(* The image is the source it was loaded from, or NoCover; a failed load     *)
(* leaves no image either, told apart here as history.                       *)
ShowingCover(media, image) == [media |-> media, image |-> image]
NotShown == ShowingCover("none", NoCover)
Ahead(source, image) == [source |-> source, image |-> image]
NoAhead == Ahead(NoCover, NoCover)

CoverInit ==
    /\ playing = [cover |-> NoCover, load |-> 0] /\ loading = NoCover /\ changes = 0
    /\ pass = "idle" /\ seenPlaying = playing /\ seenLoading = loading
    /\ requested = NoCover /\ shown = NotShown /\ ahead = NoAhead
    /\ artSlot = NoCover /\ inHand = NoCover /\ finished = NotShown

-----------------------------------------------------------------------------
(* What the runtime knows, between two passes. *)

Changes == pass = "idle" /\ changes < MaxChanges /\ changes' = changes + 1
Keeps == UNCHANGED <<pass, seenPlaying, seenLoading, requested, shown, ahead>>

StartLoading ==
    /\ Changes
    /\ \E source \in Sources : loading' = source
    /\ UNCHANGED playing /\ Keeps /\ UNCHANGED Worker

(* The entry is the active one now, with the cover source it has by then. *)
Loaded ==
    /\ Changes /\ loading # NoCover
    /\ \E version \in Versions :
         playing' = [cover |-> Source(loading.media, version), load |-> playing.load + 1]
    /\ loading' = NoCover
    /\ Keeps /\ UNCHANGED Worker

(* The load failed or was cancelled: the active entry is still active. *)
CoverLoadFails ==
    /\ Changes /\ loading # NoCover
    /\ loading' = NoCover
    /\ UNCHANGED playing /\ Keeps /\ UNCHANGED Worker

(* HTTP came up, or nothing is active any more. *)
Rekeyed ==
    /\ Changes /\ playing.cover # NoCover
    /\ \E source \in {NoCover} \union {Source(playing.cover.media, v) : v \in Versions} :
         playing' = [cover |-> source, load |-> playing.load + 1]
    /\ UNCHANGED loading /\ Keeps /\ UNCHANGED Worker

-----------------------------------------------------------------------------
(* track_covers: want, want_ahead, poll. *)

TrackCovers ==
    /\ pass = "idle" /\ pass' = "want"
    /\ UNCHANGED <<seenPlaying, seenLoading, requested, shown, ahead>>
    /\ UNCHANGED Track /\ UNCHANGED Worker

Want ==
    /\ pass = "want" /\ pass' = "ahead"
    /\ seenPlaying' = playing
    /\ LET wanted == playing.cover
           fetched == ahead.source = wanted IN
       IF seenPlaying = playing \/ requested = wanted
         THEN UNCHANGED <<requested, shown, ahead, artSlot>>
         ELSE /\ requested' = wanted
              /\ IF wanted = NoCover
                   THEN shown' = NotShown /\ UNCHANGED <<ahead, artSlot>>
                   ELSE /\ ahead' = NoAhead
                        /\ shown' = ShowingCover(wanted.media,
                                                 IF fetched THEN ahead.image ELSE NoCover)
                        /\ artSlot' = IF fetched THEN artSlot ELSE wanted
    /\ UNCHANGED <<seenLoading, inHand, finished>> /\ UNCHANGED Track

WantAhead ==
    /\ pass = "ahead" /\ pass' = "poll"
    /\ seenLoading' = loading
    /\ IF seenLoading = loading
         THEN UNCHANGED <<ahead, artSlot>>
         ELSE /\ ahead' = Ahead(loading, NoCover)
              /\ artSlot' = IF loading = NoCover THEN artSlot ELSE loading
    /\ UNCHANGED <<seenPlaying, requested, shown, inHand, finished>> /\ UNCHANGED Track

(* Mutant: whatever was loaded is shown. *)
IsShownAlways == finished.media # "none"

IsShown == finished.media = requested.media

Poll ==
    /\ pass = "poll" /\ finished.media # "none"
    /\ finished' = NotShown
    /\ IF IsShown
         THEN shown' = finished /\ UNCHANGED ahead
         ELSE /\ ahead' = IF ahead.source.media # finished.media THEN ahead
                          ELSE IF finished.image = Failed THEN NoAhead
                          ELSE [ahead EXCEPT !.image = finished.image]
              /\ UNCHANGED shown
    /\ UNCHANGED <<pass, seenPlaying, seenLoading, requested, artSlot, inHand, Track>>

PollDone ==
    /\ pass = "poll" /\ finished.media = "none" /\ pass' = "idle"
    /\ UNCHANGED <<seenPlaying, seenLoading, requested, shown, ahead>>
    /\ UNCHANGED Track /\ UNCHANGED Worker

-----------------------------------------------------------------------------
(* The worker. *)

TakeJob ==
    /\ inHand = NoCover /\ artSlot # NoCover
    /\ inHand' = artSlot /\ artSlot' = NoCover
    /\ UNCHANGED finished /\ Keeps /\ UNCHANGED Track

(* It holds one result until the runtime has taken the last; a panicking      *)
(* decoder is a failure like any other.                                       *)
FinishJob ==
    /\ inHand # NoCover /\ finished.media = "none"
    /\ \E image \in {inHand, Failed} : finished' = ShowingCover(inHand.media, image)
    /\ inHand' = NoCover
    /\ UNCHANGED artSlot /\ Keeps /\ UNCHANGED Track

CoverNext ==
    \/ StartLoading \/ Loaded \/ CoverLoadFails \/ Rekeyed
    \/ TrackCovers \/ Want \/ WantAhead \/ Poll \/ PollDone
    \/ TakeJob \/ FinishJob

CoverSpec == CoverInit /\ [][CoverNext]_CoverVars

-----------------------------------------------------------------------------
(* Properties *)

(* A cover on show belongs to the media whose cover was last asked for, and   *)
(* between two passes that is the playing entry's: no late answer puts the    *)
(* cover of an entry that was left on the one that plays.                     *)
CoverIsOfPlaying ==
    /\ shown.media = requested.media
    /\ shown.image \notin {NoCover, Failed} => shown.image.media = shown.media
    /\ seenPlaying = playing => shown.media = playing.cover.media
=============================================================================
