-------------------------------- MODULE Playlists --------------------------------
(* playlist/set.rs and playlist/queue.rs: the playlist set as a value, and   *)
(* the operations that map one set to the next.                              *)
(*                                                                           *)
(*   [lists   |-> <<[id, cursor, entries |-> <<[id, media], ...>>], ...>>,   *)
(*    playing |-> the id of a member]                                        *)
(*                                                                           *)
(* Left out: names, display fields, the allocators of ids, and what adds,    *)
(* moves or shuffles entries; playback follows list order.                   *)
EXTENDS Naturals, Sequences, SequencesExt, FiniteSets

None == 0

Ids(list) == {list.entries[i].id : i \in DOMAIN list.entries}

(* find_entry and owner_of; the owner is an index of set.lists. *)
Has(set, id) == \E k \in DOMAIN set.lists : id \in Ids(set.lists[k])
Owner(set, id) == CHOOSE k \in DOMAIN set.lists : id \in Ids(set.lists[k])
Position(list, id) == CHOOSE i \in DOMAIN list.entries : list.entries[i].id = id
MediaOf(set, id) ==
    LET list == set.lists[Owner(set, id)]
    IN list.entries[Position(list, id)].media

AllIds(set) == UNION {Ids(set.lists[k]) : k \in DOMAIN set.lists}
Members(set) == {set.lists[k].id : k \in DOMAIN set.lists}
Index(set, list) == CHOOSE k \in DOMAIN set.lists : set.lists[k].id = list

Cursor(set) == set.lists[Index(set, set.playing)].cursor

(* neighbor(Down): what an ended entry hands over to. *)
Following(set, id) ==
    LET list == set.lists[Owner(set, id)]
        i == Position(list, id)
    IN IF i < Len(list.entries) THEN list.entries[i + 1].id ELSE None

-----------------------------------------------------------------------------
(* The set with another list in place k. *)
WithList(set, k, list) == [set EXCEPT !.lists[k] = list]

RemoveFrom(set, id) ==
    LET k == Owner(set, id)
        list == set.lists[k]
    IN WithList(set, k,
          [list EXCEPT !.entries = RemoveAt(@, Position(list, id)),
                       !.cursor = IF @ = id THEN None ELSE @])

ClearList(set, list) ==
    LET k == Index(set, list)
    IN WithList(set, k, [set.lists[k] EXCEPT !.entries = <<>>, !.cursor = None])

(* check_delete: the last playlist stays. *)
Deletable(set, list) == list \in Members(set) /\ Len(set.lists) > 1

(* The successor takes the deleted list's place, or the last one's. *)
DeleteList(set, list) ==
    LET k == Index(set, list)
        rest == RemoveAt(set.lists, k)
        next == IF k <= Len(rest) THEN k ELSE Len(rest)
    IN [set EXCEPT !.lists = rest,
                   !.playing = IF @ = list THEN rest[next].id ELSE @]

(* adopt: the entry's owner plays, with its cursor on the entry. *)
Adopt(set, id) ==
    LET k == Owner(set, id)
    IN [set EXCEPT !.lists[k].cursor = id, !.playing = set.lists[k].id]
=============================================================================
