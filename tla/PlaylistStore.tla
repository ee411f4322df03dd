------------------------------ MODULE PlaylistStore ------------------------------
(* PersistedState across sessions: the playlist set under its edits            *)
(* (playlist/set.rs, queue.rs) with the allocators that name entries and       *)
(* lists, the media that is current and the capped list of remembered          *)
(* positions (persistence/model.rs), what is stored of them, and their         *)
(* recovery from a document another program or hand may have damaged           *)
(* (persistence/queue_codec.rs, playlist::Recovery).                           *)
(*                                                                             *)
(* Extends the value of module Playlists by each list's shuffle anchor and the *)
(* two allocators.  Names and display fields are left out.  u64 is 1..MaxId,   *)
(* and an allocator at MaxId + 1 is exhausted.                                 *)
EXTENDS Playlists

CONSTANTS EntryMedia,  \* the media of entries
          Elsewhere,   \* a medium that is in no list
          MaxId,       \* u64::MAX
          MaxLists,    \* MAX_PLAYLISTS
          EntryCap,    \* MAX_PLAYLIST_ENTRIES
          PointCap,    \* MAX_ENTRIES, the cap on remembered positions
          MaxEdits,    \* bound: edits
          MaxDamage    \* bound: damaged fields of a stored document, 1 or 2

ASSUME StoreAssumption ==
    /\ MaxId \in Nat \ {0} /\ MaxLists \in Nat \ {0} /\ EntryCap \in Nat
    /\ PointCap \in Nat /\ PointCap >= 2

NoMedium == "none"
AnyMedium == EntryMedia \cup {Elsewhere}
Off == MaxId + 1       \* not shuffled; else the anchor, or None
Exhausted == MaxId + 1

VARIABLES set,         \* PersistedState.playlists
          current,     \* PersistedState.current_media
          points,      \* PersistedState.checkpoints, oldest touch first
          pinned,      \* the current media was recorded since it became current
          issued,      \* every entry id given out, as far as the allocator was kept
          stored,      \* the document just loaded, until the next edit
          edits
storeVars == <<set, current, points, pinned, issued, stored, edits>>

NoDocument == [lists |-> <<>>, playing |-> None, nextEntry |-> 1, nextList |-> 1,
               media |-> NoMedium, intact |-> FALSE]

-----------------------------------------------------------------------------
Tally(n, list) == n + Len(list.entries)
Total(s) == FoldLeft(Tally, 0, s.lists)
CursorMedia(list) ==
    IF list.cursor = None THEN NoMedium
    ELSE list.entries[Position(list, list.cursor)].media
PlainList(id) == [id |-> id, cursor |-> None, first |-> Off, entries |-> <<>>]

(* PlaylistSet::default                                                      *)
DefaultSet == [lists |-> <<PlainList(1)>>, playing |-> 1, entryIds |-> 1, listIds |-> 2]

-----------------------------------------------------------------------------
(* Storing and loading.                                                      *)
Encode(s, media) ==
    [lists |-> [k \in DOMAIN s.lists |->
                    [id |-> s.lists[k].id, cursor |-> s.lists[k].cursor,
                     first |-> s.lists[k].first, entries |-> s.lists[k].entries,
                     readable |-> TRUE]],
     playing |-> s.playing, nextEntry |-> s.entryIds, nextList |-> s.listIds,
     media |-> media, intact |-> TRUE]

StoredIds(doc) == UNION {Ids(doc.lists[k]) : k \in DOMAIN doc.lists}

(* counter: past what was stored and past every id the document names, so    *)
(* that an id made up for a duplicate is not that of a later entry.          *)
CounterOfStored(next, ids) == next
Counter(next, ids) ==
    LET candidates == {next} \cup {id + 1 : id \in ids}
    IN CHOOSE m \in candidates : \A c \in candidates : c <= m

(* decode_entries: all of a list's entries, or none.                         *)
Decoded(record) ==
    IF record.readable /\ IsInjective([i \in DOMAIN record.entries |-> record.entries[i].id])
    THEN record.entries ELSE <<>>

(* push_record, entry by entry: one over the cap is left out, a duplicate is *)
(* renamed, and either loses the cursor if it was on it.                     *)
Uncursored(r, id) == [r EXCEPT !.cursor = IF @ = id THEN None ELSE @]
TakeEntry(r, e) ==
    CASE r.total >= EntryCap -> Uncursored(r, e.id)
      [] r.total < EntryCap /\ e.id \notin r.seen ->
            [r EXCEPT !.entries = Append(@, e), !.seen = @ \cup {e.id}, !.total = @ + 1,
                      !.entryIds = Counter(@, {e.id})]
      [] r.total < EntryCap /\ e.id \in r.seen /\ r.entryIds = Exhausted -> Uncursored(r, e.id)
      [] OTHER ->
            [Uncursored(r, e.id) EXCEPT
                !.entries = Append(@, [e EXCEPT !.id = r.entryIds]),
                !.seen = @ \cup {r.entryIds}, !.total = @ + 1, !.entryIds = @ + 1]

PushRecord(r, record) ==
    LET named == record.id # None /\ record.id \notin r.seenLists
        id == IF named THEN record.id ELSE r.listIds
        took == FoldLeft(TakeEntry, [r EXCEPT !.entries = <<>>, !.cursor = record.cursor],
                         Decoded(record))
        member(x) == \E i \in DOMAIN took.entries : took.entries[i].id = x
        list == [id |-> id,
                 cursor |-> IF member(took.cursor) THEN took.cursor ELSE None,
                 first |-> IF record.first = Off \/ member(record.first) THEN record.first
                           ELSE None,
                 entries |-> took.entries]
    IN IF ~named /\ r.listIds = Exhausted THEN r
       ELSE [took EXCEPT !.lists = Append(@, list), !.seenLists = @ \cup {id},
                         !.listIds = IF named THEN Counter(@, {id}) ELSE @ + 1]

(* recover_playlists and Recovery::finish.                                   *)
Pushed(doc) ==
    FoldLeft(PushRecord,
        [lists |-> <<>>, entries |-> <<>>, cursor |-> None, total |-> 0,
         seen |-> {}, seenLists |-> {},
         entryIds |-> Counter(doc.nextEntry, StoredIds(doc)),
         listIds |-> Counter(doc.nextList, {doc.lists[k].id : k \in DOMAIN doc.lists} \ {None})],
        SubSeq(doc.lists, 1, IF Len(doc.lists) < MaxLists THEN Len(doc.lists) ELSE MaxLists))

Recover(doc) ==
    LET r == Pushed(doc)
        known == {k \in DOMAIN r.lists : r.lists[k].id = doc.playing}
        kept(lists, playing) == [lists |-> lists, playing |-> playing,
                                 entryIds |-> r.entryIds, listIds |-> r.listIds]
    IN CASE r.lists = <<>> ->
              LET id == IF r.listIds = Exhausted THEN 1 ELSE r.listIds IN
              [set |-> [kept(<<PlainList(id)>>, id) EXCEPT
                           !.listIds = IF @ = Exhausted THEN @ ELSE @ + 1],
               media |-> doc.media]
         [] r.lists # <<>> /\ known # {} ->
              LET k == CHOOSE k \in known : TRUE
                  stale == CursorMedia(r.lists[k]) \notin {NoMedium, doc.media}
              IN [set |-> kept(IF stale THEN [r.lists EXCEPT ![k].cursor = None] ELSE r.lists,
                               doc.playing),
                  media |-> doc.media]
         [] OTHER -> [set |-> kept(r.lists, r.lists[1].id), media |-> CursorMedia(r.lists[1])]

(* recover_queue and migrate_queue: a document of the one-queue schema.      *)
Migrate(entries, cursor, media) ==
    LET usable == IsInjective([i \in DOMAIN entries |-> entries[i].id]) /\ Len(entries) <= EntryCap
        kept == IF usable THEN entries ELSE <<>>
        active == {i \in DOMAIN kept : kept[i].id = cursor /\ kept[i].media = media}
    IN Recover([NoDocument EXCEPT
            !.lists = <<[id |-> 1, cursor |-> IF active = {} THEN None ELSE cursor,
                         first |-> Off, entries |-> kept, readable |-> TRUE]>>,
            !.playing = 1, !.nextList = 2, !.media = media])

(* One field of a stored document changed by hand or by another program, or  *)
(* a list pasted in once more.                                               *)
SomeIds == {1, MaxId}
DamagedRecord(record) ==
    {[record EXCEPT !.id = id] : id \in SomeIds \cup {None}}
    \cup {[record EXCEPT !.readable = FALSE]}
    \cup {[record EXCEPT !.cursor = id] : id \in SomeIds}
    \cup {[record EXCEPT !.entries[1].id = id] : id \in {id \in SomeIds : record.entries # <<>>}}
WithRecord(doc, k, record) == [doc EXCEPT !.lists[k] = record]
Altered(doc) ==
    LET lists == DOMAIN doc.lists
    IN (UNION {{WithRecord(doc, k, record) : record \in DamagedRecord(doc.lists[k])} : k \in lists})
       \cup {[doc EXCEPT !.lists = Append(@, doc.lists[k])] : k \in lists}
       \cup {[doc EXCEPT !.playing = id] : id \in SomeIds \cup {None}}
       \cup {[doc EXCEPT !.nextEntry = next] : next \in {1, Exhausted}}
       \cup {[doc EXCEPT !.nextList = next] : next \in {1, Exhausted}}
       \cup {[doc EXCEPT !.lists = <<>>]}
Damaged(doc) == {[d EXCEPT !.intact = FALSE] : d \in Altered(doc)}
DamagedUpTo(doc) ==
    {doc} \cup Damaged(doc)
    \cup IF MaxDamage > 1 THEN UNION {Damaged(d) : d \in Damaged(doc)} ELSE {}

-----------------------------------------------------------------------------
(* record, record_estimated and evict_one: a new position past the cap takes *)
(* the place of the least recently touched one that is neither the current   *)
(* media's nor its own.                                                      *)
EvictableAny == DOMAIN points
Evictable == {i \in DOMAIN points : points[i] # current}
Oldest(indices) == CHOOSE i \in indices : \A j \in indices : i <= j
Recorded(media) ==
    LET own == {i \in DOMAIN points : points[i] = media} IN
    IF own # {} THEN Append(RemoveAt(points, Oldest(own)), media)
    ELSE IF Len(points) < PointCap THEN Append(points, media)
    ELSE IF Evictable = {} THEN points
    ELSE Append(RemoveAt(points, Oldest(Evictable)), media)

(* A first start, or a profile of the one-queue schema, in which the current *)
(* medium was touched before another.                                        *)
StoreInit ==
    /\ \/ set = DefaultSet /\ current = NoMedium /\ points = <<>> /\ pinned = FALSE
       \/ \E ids \in {<<1, 2>>, <<2, 2>>, <<MaxId, 1>>}, cursor \in {None, 1},
             other \in EntryMedia :
            LET media == CHOOSE m \in EntryMedia : TRUE   \* whichever: names do not matter
                entries == <<[id |-> ids[1], media |-> media], [id |-> ids[2], media |-> other]>>
                old == Migrate(entries, cursor, media) IN
            /\ set = old.set /\ current = old.media
            /\ points = <<media, Elsewhere>> /\ pinned = (current = media)
    /\ issued = AllIds(set) /\ stored = NoDocument /\ edits = 0

Edited == edits < MaxEdits /\ edits' = edits + 1 /\ stored' = NoDocument
CurrentIs(media) == current' = media /\ pinned' = (pinned /\ media = current)
SameMedia == UNCHANGED <<current, pinned, points>>

(* enqueue: all of a batch or none of it; a shuffled list is anchored anew.  *)
Batches == {<<m>> : m \in EntryMedia} \cup {<<m, m>> : m \in EntryMedia}
Fits(batch) ==
    /\ Total(set) + Len(batch) <= EntryCap
    /\ set.entryIds + Len(batch) <= Exhausted
Enqueue ==
    /\ Edited
    /\ \E k \in DOMAIN set.lists, batch \in Batches :
        LET new == [i \in DOMAIN batch |-> [id |-> set.entryIds + i - 1, media |-> batch[i]]]
        IN /\ Fits(batch)
           /\ set' = [set EXCEPT !.entryIds = @ + Len(batch),
                                 !.lists[k].entries = @ \o new,
                                 !.lists[k].first = IF @ = Off THEN Off
                                                    ELSE set.lists[k].cursor]
           /\ issued' = issued \cup {new[i].id : i \in DOMAIN new}
    /\ SameMedia

Create ==
    /\ Edited
    /\ Len(set.lists) < MaxLists /\ set.listIds # Exhausted
    /\ set' = [set EXCEPT !.lists = Append(@, PlainList(set.listIds)), !.listIds = @ + 1]
    /\ SameMedia /\ UNCHANGED issued

SetShuffle ==
    /\ Edited
    /\ \E k \in DOMAIN set.lists, on \in BOOLEAN :
        set' = [set EXCEPT !.lists[k].first = IF on THEN set.lists[k].cursor ELSE Off]
    /\ SameMedia /\ UNCHANGED issued

MoveEntry ==
    /\ Edited
    /\ \E k \in DOMAIN set.lists : \E i \in 1..(Len(set.lists[k].entries) - 1) :
        set' = [set EXCEPT !.lists[k].entries =
                    [@ EXCEPT ![i] = set.lists[k].entries[i + 1],
                              ![i + 1] = set.lists[k].entries[i]]]
    /\ SameMedia /\ UNCHANGED issued

DropEntry ==
    /\ Edited
    /\ \E id \in AllIds(set) : set' = RemoveFrom(set, id)
    /\ SameMedia /\ UNCHANGED issued

Clear ==
    /\ Edited
    /\ \E list \in Members(set) : set' = ClearList(set, list)
    /\ SameMedia /\ UNCHANGED issued

(* delete_playlist: the successor's cursor, if any, says what is current.    *)
Delete ==
    /\ Edited
    /\ \E list \in Members(set) :
        /\ Deletable(set, list)
        /\ set' = DeleteList(set, list)
        /\ IF list = set.playing
           THEN CurrentIs(CursorMedia(set'.lists[Index(set', set'.playing)]))
           ELSE UNCHANGED <<current, pinned>>
    /\ UNCHANGED <<points, issued>>

AdoptEntry ==
    /\ Edited
    /\ \E id \in AllIds(set) : set' = Adopt(set, id) /\ CurrentIs(MediaOf(set, id))
    /\ UNCHANGED <<points, issued>>

(* A medium of no list is loaded, and its position or another's is recorded. *)
AdoptElsewhere ==
    /\ Edited /\ CurrentIs(Elsewhere)
    /\ UNCHANGED <<set, points, issued>>
RecordPoint ==
    /\ Edited
    /\ \E media \in AnyMedium :
        points' = Recorded(media) /\ pinned' = (pinned \/ media = current)
    /\ UNCHANGED <<set, current, issued>>

(* The end of a session and the start of the next, over what was stored.     *)
Reload ==
    /\ stored = NoDocument
    /\ \E d \in DamagedUpTo(Encode(set, current)) :
        /\ set' = Recover(d).set
        /\ current' = Recover(d).media
        /\ pinned' = (pinned /\ current' = current)
        /\ stored' = d
        /\ issued' = IF d.nextEntry = set.entryIds THEN issued \cup AllIds(set') ELSE AllIds(set')
    /\ UNCHANGED <<points, edits>>

StoreNext ==
    \/ Enqueue \/ Create \/ SetShuffle \/ MoveEntry \/ DropEntry \/ Clear \/ Delete
    \/ AdoptEntry \/ AdoptElsewhere \/ RecordPoint \/ Reload
StoreSpec == StoreInit /\ [][StoreNext]_storeVars

-----------------------------------------------------------------------------
(* Whatever was edited, stored, damaged and recovered: no entry or list      *)
(* shares its id, the list that plays exists, a cursor is on an entry of its *)
(* list, the caps hold, and no id that was ever given out is ahead of its    *)
(* allocator, so none is given twice (set.rs, Recovery).                     *)
SetIsSound ==
    /\ set.lists # <<>>
    /\ \A k \in DOMAIN set.lists : set.lists[k].cursor \in Ids(set.lists[k]) \cup {None}
    /\ Cardinality(AllIds(set)) = Total(set) /\ Total(set) <= EntryCap
    /\ Cardinality(Members(set)) = Len(set.lists) /\ Len(set.lists) <= MaxLists
    /\ set.playing \in Members(set)
    /\ \A id \in issued \cup AllIds(set) : id < set.entryIds

(* Loading gives back what was stored: all of it when the document is whole, *)
(* but for a cursor on other media than what is current and an anchor that   *)
(* is gone; and from a damaged one every entry that decodes and fits keeps   *)
(* its id, its media and its list unless another entry claimed the id first  *)
(* (queue_codec.rs counter, push_record).                                    *)
Unanchored(lists) ==
    [k \in DOMAIN lists |-> [id |-> lists[k].id, entries |-> lists[k].entries]]
StoredStands ==
    stored # NoDocument =>
        /\ stored.intact =>
            /\ Unanchored(set.lists) = Unanchored(stored.lists)
            /\ set.playing = stored.playing
            /\ set.entryIds = stored.nextEntry /\ set.listIds = stored.nextList
            /\ current = stored.media
            /\ \A k \in DOMAIN set.lists :
                set.lists[k].cursor # stored.lists[k].cursor =>
                    set.lists[k].id = set.playing /\ CursorMedia(stored.lists[k]) # current
        /\ Len(set.lists) = Len(stored.lists) /\ set.listIds # Exhausted =>
            \A k \in DOMAIN set.lists : \A i \in DOMAIN Decoded(stored.lists[k]) :
                LET e == Decoded(stored.lists[k])[i]
                    twin == \E j \in DOMAIN stored.lists \ {k} : e.id \in Ids(stored.lists[j])
                IN twin \/ e \in ToSet(set.lists[k].entries) \/ Total(set) = EntryCap

(* The set that is edited and the document it was read from.                  *)
SetStands == SetIsSound /\ StoredStands

(* The position of what is playing, once recorded, is not evicted by those   *)
(* of other media (model.rs evict_one), and the cap holds.                   *)
CurrentIsRemembered ==
    Len(points) <= PointCap /\ (pinned => current \in ToSet(points))
=============================================================================
