--------------------------- MODULE PlayerRuntimeProofs ---------------------------
(* Proofs about the front end's loop, for every number of playlists, entries,  *)
(* media, loads and commands: every load the session waits for is owed an      *)
(* outcome, the session agrees with itself, and a stored checkpoint is a       *)
(* position of its own media that was heard there.                             *)
EXTENDS PlayerRuntime, Counting, FiniteSetTheorems, SequenceTheorems, TLAPS

-----------------------------------------------------------------------------
(* The playlist set. *)

EntrySets == [id : Nat, media : Media]
PlayLists == [id : Nat, cursor : Nat, entries : Seq(EntrySets)]

(* What a sound set is made of, one place at a time. *)
LEMMA SoundParts ==
  ASSUME NEW set, SoundSet(set)
  PROVE  /\ set \in PlaylistSets /\ set.lists \in Seq(PlayLists) /\ set.playing \in Nat
         /\ DOMAIN set.lists = 1 .. Len(set.lists) /\ Len(set.lists) \in Nat
         /\ \A k \in DOMAIN set.lists :
              /\ set.lists[k] \in PlayLists
              /\ DOMAIN set.lists[k].entries = 1 .. Len(set.lists[k].entries)
              /\ Len(set.lists[k].entries) \in Nat
              /\ \A i \in DOMAIN set.lists[k].entries :
                   /\ set.lists[k].entries[i] \in EntrySets
                   /\ set.lists[k].entries[i].id \in Ids(set.lists[k])
                   /\ set.lists[k].entries[i].id # None
<1>1. /\ set \in PlaylistSets /\ set.lists \in Seq(PlayLists) /\ set.playing \in Nat
  BY DEF SoundSet, PlaylistSets, PlayLists, EntrySets
<1>2. DOMAIN set.lists = 1 .. Len(set.lists) /\ Len(set.lists) \in Nat
  BY <1>1
<1>3. ASSUME NEW k \in DOMAIN set.lists
      PROVE  /\ set.lists[k] \in PlayLists
             /\ DOMAIN set.lists[k].entries = 1 .. Len(set.lists[k].entries)
             /\ Len(set.lists[k].entries) \in Nat
             /\ \A i \in DOMAIN set.lists[k].entries :
                   /\ set.lists[k].entries[i] \in EntrySets
                   /\ set.lists[k].entries[i].id \in Ids(set.lists[k])
                   /\ set.lists[k].entries[i].id # None
  <2>1. set.lists[k] \in PlayLists
    BY <1>1, <1>2
  <2>2. set.lists[k].entries \in Seq(EntrySets)
    BY <2>1 DEF PlayLists
  <2>3. /\ DOMAIN set.lists[k].entries = 1 .. Len(set.lists[k].entries)
        /\ Len(set.lists[k].entries) \in Nat
        /\ \A i \in DOMAIN set.lists[k].entries : set.lists[k].entries[i] \in EntrySets
    BY <2>2
  <2>4. \A i \in DOMAIN set.lists[k].entries : set.lists[k].entries[i].id \in Ids(set.lists[k])
    BY DEF Ids
  <2>5. None \notin Ids(set.lists[k])
    BY DEF SoundSet
  <2> QED BY <2>1, <2>3, <2>4, <2>5
<1> QED BY <1>1, <1>2, <1>3

(* An entry is where its identifier says. *)
LEMMA EntryIs ==
  ASSUME NEW set, SoundSet(set), NEW k \in DOMAIN set.lists, NEW i \in DOMAIN set.lists[k].entries
  PROVE  LET id == set.lists[k].entries[i].id IN
         /\ Has(set, id) /\ Owner(set, id) = k /\ Position(set.lists[k], id) = i
         /\ MediaOf(set, id) = set.lists[k].entries[i].media
<1> DEFINE id == set.lists[k].entries[i].id
<1>1. id \in Ids(set.lists[k])
  BY DEF Ids
<1>2. Has(set, id)
  BY SMTT(60), <1>1 DEF Has
<1>3. \A l \in DOMAIN set.lists : id \in Ids(set.lists[l]) => l = k
  BY DEF Ids, SoundSet
<1>4. Owner(set, id) = k
  BY <1>1, <1>3 DEF Owner
<1>5. \A j \in DOMAIN set.lists[k].entries : set.lists[k].entries[j].id = id => j = i
  BY DEF SoundSet
<1>6. Position(set.lists[k], id) = i
  BY <1>5 DEF Position
<1> QED BY <1>2, <1>4, <1>6 DEF MediaOf

(* Where an entry of the set is. *)
LEMMA HasIs ==
  ASSUME NEW set, SoundSet(set), NEW id, Has(set, id)
  PROVE  \E k \in DOMAIN set.lists : \E i \in DOMAIN set.lists[k].entries :
           /\ set.lists[k].entries[i].id = id /\ Owner(set, id) = k
           /\ Position(set.lists[k], id) = i
           /\ MediaOf(set, id) = set.lists[k].entries[i].media
<1>1. PICK k \in DOMAIN set.lists : id \in Ids(set.lists[k])
  BY DEF Has
<1>2. PICK i \in DOMAIN set.lists[k].entries : set.lists[k].entries[i].id = id
  BY <1>1 DEF Ids
<1> QED BY <1>2, EntryIs

LEMMA MediaOfEntry ==
  ASSUME NEW set, SoundSet(set), NEW id, Has(set, id)
  PROVE  MediaOf(set, id) \in Media /\ id \in Nat /\ id # None
<1>1. PICK k \in DOMAIN set.lists : \E i \in DOMAIN set.lists[k].entries :
         set.lists[k].entries[i].id = id /\ MediaOf(set, id) = set.lists[k].entries[i].media
  BY HasIs
<1>2. PICK i \in DOMAIN set.lists[k].entries :
         set.lists[k].entries[i].id = id /\ MediaOf(set, id) = set.lists[k].entries[i].media
  BY <1>1
<1> QED BY <1>2, SoundParts DEF EntrySets

(* The list that plays, and a list by its identifier. *)
LEMMA IndexIs ==
  ASSUME NEW set, SoundSet(set), NEW k \in DOMAIN set.lists
  PROVE  Index(set, set.lists[k].id) = k
<1>1. \A l \in DOMAIN set.lists : set.lists[l].id = set.lists[k].id => l = k
  BY DEF SoundSet
<1> QED BY <1>1 DEF Index

LEMMA MemberIs ==
  ASSUME NEW set, SoundSet(set), NEW list \in Members(set)
  PROVE  Index(set, list) \in DOMAIN set.lists /\ set.lists[Index(set, list)].id = list
<1>1. PICK k \in DOMAIN set.lists : set.lists[k].id = list
  BY DEF Members
<1> QED BY <1>1, IndexIs

LEMMA CursorIs ==
  ASSUME NEW set, SoundSet(set)
  PROVE  LET k == Index(set, set.playing) IN
         /\ k \in DOMAIN set.lists /\ set.lists[k].id = set.playing
         /\ Cursor(set) = set.lists[k].cursor
         /\ Cursor(set) \in Nat
         /\ Cursor(set) # None => Has(set, Cursor(set)) /\ Owner(set, Cursor(set)) = k
<1> DEFINE k == Index(set, set.playing)
<1>1. k \in DOMAIN set.lists /\ set.lists[k].id = set.playing
  BY MemberIs DEF SoundSet
<1>2. Cursor(set) = set.lists[k].cursor
  BY DEF Cursor
<1>3. set.lists[k].cursor \in Ids(set.lists[k]) \union {None}
  BY <1>1 DEF SoundSet
<1>4. set.lists[k].cursor \in Nat
  BY <1>1, SoundParts DEF PlayLists
<1> HIDE DEF k
<1>5. ASSUME Cursor(set) # None PROVE Has(set, Cursor(set)) /\ Owner(set, Cursor(set)) = k
  <2>1. PICK i \in DOMAIN set.lists[k].entries : set.lists[k].entries[i].id = Cursor(set)
    BY <1>2, <1>3, <1>5 DEF Ids
  <2> QED BY <1>1, <2>1, EntryIs
<1> QED BY <1>1, <1>2, <1>4, <1>5 DEF k

(* What ends hands over to an entry of its list, or to none. *)
LEMMA FollowingIs ==
  ASSUME NEW set, SoundSet(set), NEW id, Has(set, id)
  PROVE  Following(set, id) \in Nat
<1>0. PICK k \in DOMAIN set.lists : \E i \in DOMAIN set.lists[k].entries :
         Owner(set, id) = k /\ Position(set.lists[k], id) = i
  BY HasIs
<1>1. PICK i \in DOMAIN set.lists[k].entries :
         Owner(set, id) = k /\ Position(set.lists[k], id) = i
  BY <1>0
<1>2. /\ DOMAIN set.lists[k].entries = 1 .. Len(set.lists[k].entries)
      /\ Len(set.lists[k].entries) \in Nat
      /\ \A j \in DOMAIN set.lists[k].entries : set.lists[k].entries[j] \in EntrySets
  BY SoundParts
<1>3. i < Len(set.lists[k].entries) => set.lists[k].entries[i + 1].id \in Nat
  BY <1>2 DEF EntrySets
<1> QED BY <1>1, <1>3 DEF Following, None

(* A set made of lists and entries of another one, each at most once. *)
SameMediaIn(old, new) ==
    \A id : Has(new, id) => Has(old, id) /\ MediaOf(new, id) = MediaOf(old, id)

Embedding(old, new, f, g) ==
    /\ \A k \in DOMAIN new.lists :
          f[k] \in DOMAIN old.lists /\ new.lists[k].id = old.lists[f[k]].id
    /\ \A k, l \in DOMAIN new.lists : f[k] = f[l] => k = l
    /\ \A k \in DOMAIN new.lists :
          /\ \A i \in DOMAIN new.lists[k].entries :
                /\ g[k][i] \in DOMAIN old.lists[f[k]].entries
                /\ new.lists[k].entries[i] = old.lists[f[k]].entries[g[k][i]]
          /\ \A i, j \in DOMAIN new.lists[k].entries : g[k][i] = g[k][j] => i = j
          /\ new.lists[k].cursor \in Ids(new.lists[k]) \union {None}
    /\ new.playing \in Members(new)

LEMMA EmbedsIn ==
  ASSUME NEW old, SoundSet(old), NEW new \in PlaylistSets,
         NEW f, NEW g, Embedding(old, new, f, g)
  PROVE  SoundSet(new) /\ SameMediaIn(old, new)
<1> USE DEF Embedding
<1>1. \A k, l \in DOMAIN new.lists : new.lists[k].id = new.lists[l].id => k = l
  BY DEF SoundSet
<1>2. ASSUME NEW k \in DOMAIN new.lists, NEW l \in DOMAIN new.lists,
             NEW i \in DOMAIN new.lists[k].entries, NEW j \in DOMAIN new.lists[l].entries,
             new.lists[k].entries[i].id = new.lists[l].entries[j].id
      PROVE  k = l /\ i = j
  <2>1. /\ f[k] \in DOMAIN old.lists /\ f[l] \in DOMAIN old.lists
        /\ g[k][i] \in DOMAIN old.lists[f[k]].entries
        /\ g[l][j] \in DOMAIN old.lists[f[l]].entries
        /\ old.lists[f[k]].entries[g[k][i]].id = old.lists[f[l]].entries[g[l][j]].id
    BY <1>2
  <2>2. f[k] = f[l] /\ g[k][i] = g[l][j]
    BY SMTT(60), <2>1 DEF SoundSet
  <2>3. k = l
    BY <2>2
  <2> QED BY <2>2, <2>3
<1>3. ASSUME NEW k \in DOMAIN new.lists PROVE None \notin Ids(new.lists[k])
  <2> SUFFICES ASSUME NEW i \in DOMAIN new.lists[k].entries PROVE new.lists[k].entries[i].id # None
    BY DEF Ids
  <2> QED BY SMTT(60), SoundParts
<1>4. SoundSet(new)
  BY SMTT(60), <1>1, <1>2, <1>3 DEF SoundSet
<1>5. ASSUME NEW id, Has(new, id) PROVE Has(old, id) /\ MediaOf(new, id) = MediaOf(old, id)
  <2>0. PICK k \in DOMAIN new.lists : \E i \in DOMAIN new.lists[k].entries :
           /\ new.lists[k].entries[i].id = id
           /\ MediaOf(new, id) = new.lists[k].entries[i].media
    BY <1>4, <1>5, HasIs
  <2>1. PICK i \in DOMAIN new.lists[k].entries :
           /\ new.lists[k].entries[i].id = id
           /\ MediaOf(new, id) = new.lists[k].entries[i].media
    BY <2>0
  <2>2. /\ f[k] \in DOMAIN old.lists /\ g[k][i] \in DOMAIN old.lists[f[k]].entries
        /\ new.lists[k].entries[i] = old.lists[f[k]].entries[g[k][i]]
    BY SMTT(60), <2>1
  <2>3. /\ old.lists[f[k]].entries[g[k][i]].id = id
        /\ old.lists[f[k]].entries[g[k][i]].media = MediaOf(new, id)
    BY <2>1, <2>2
  <2> QED BY <2>2, <2>3, EntryIs
<1> QED BY <1>4, <1>5 DEF SameMediaIn

(* Leaving place p out, two places stay two. *)
Beyond(p, i) == IF i >= p THEN i + 1 ELSE i

LEMMA BeyondOnce ==
  ASSUME NEW p \in Nat, NEW i \in Nat, NEW j \in Nat, Beyond(p, i) = Beyond(p, j)
  PROVE  i = j
BY DEF Beyond

LEMMA RemoveFromIs ==
  ASSUME NEW set, SoundSet(set), NEW id, Has(set, id)
  PROVE  LET new == RemoveFrom(set, id) IN
         /\ SoundSet(new) /\ SameMediaIn(set, new)
         /\ Cursor(new) = IF Cursor(set) = id THEN None ELSE Cursor(set)
<1> DEFINE new == RemoveFrom(set, id)
           k == Owner(set, id)
           list == set.lists[k]
           p == Position(list, id)
           rest == RemoveAt(list.entries, p)
           less == [list EXCEPT !.entries = rest, !.cursor = IF @ = id THEN None ELSE @]
<1>1. k \in DOMAIN set.lists /\ p \in DOMAIN list.entries /\ list.entries[p].id = id
  BY HasIs
<1>2. new = [set EXCEPT !.lists[k] = less]
  BY DEF RemoveFrom, WithList
<1> USE <1>1
<1> HIDE DEF p
<1>3. /\ set \in PlaylistSets /\ set.lists \in Seq(PlayLists)
      /\ list \in PlayLists /\ DOMAIN list.entries = 1 .. Len(list.entries)
      /\ Len(list.entries) \in Nat
      /\ list.entries \in Seq(EntrySets)
  BY SoundParts DEF PlayLists
<1>4. /\ rest \in Seq(EntrySets) /\ DOMAIN rest = 1 .. Len(list.entries) - 1
      /\ \A i \in 1 .. Len(list.entries) - 1 :
            rest[i] = IF i < p THEN list.entries[i] ELSE list.entries[i + 1]
  BY ZenonT(60), <1>3, RemovedIs
<1> HIDE DEF rest
<1>5. /\ less \in PlayLists /\ less.entries = rest /\ less.id = list.id
      /\ less.cursor = IF list.cursor = id THEN None ELSE list.cursor
  BY <1>3, <1>4 DEF PlayLists, None
<1> HIDE DEF less
<1>6. /\ new \in PlaylistSets /\ new.playing = set.playing
      /\ DOMAIN new.lists = DOMAIN set.lists /\ new.lists[k] = less
      /\ \A l \in DOMAIN set.lists : l # k => new.lists[l] = set.lists[l]
  <2>1. new.lists = [set.lists EXCEPT ![k] = less] /\ new.playing = set.playing
    BY <1>2, <1>3 DEF PlaylistSets
  <2>2. [set.lists EXCEPT ![k] = less] \in Seq(PlayLists)
    BY <1>3, <1>5, ExceptSeq
  <2>3. new \in PlaylistSets
    BY <1>2, <1>3, <2>1, <2>2 DEF PlaylistSets, PlayLists, EntrySets
  <2> QED BY <2>1, <2>3, <1>3
<1> HIDE DEF new, list, k
<1> DEFINE g == [l \in DOMAIN set.lists |->
                    [i \in Nat |-> IF l = k /\ i >= p THEN i + 1 ELSE i]]
           f == [l \in DOMAIN set.lists |-> l]
<1>7. /\ \A l \in DOMAIN new.lists : f[l] \in DOMAIN set.lists
      /\ \A l, m \in DOMAIN new.lists : f[l] = f[m] => l = m
      /\ \A l \in DOMAIN new.lists : new.lists[l].id = set.lists[f[l]].id
  BY <1>5, <1>6 DEF list
<1>8. ASSUME NEW l \in DOMAIN new.lists
      PROVE  /\ \A i \in DOMAIN new.lists[l].entries :
                  /\ g[l][i] \in DOMAIN set.lists[f[l]].entries
                  /\ new.lists[l].entries[i] = set.lists[f[l]].entries[g[l][i]]
             /\ \A i, j \in DOMAIN new.lists[l].entries : g[l][i] = g[l][j] => i = j
             /\ new.lists[l].cursor \in Ids(new.lists[l]) \union {None}
  <2>0. l \in DOMAIN set.lists
    BY <1>6
  <2>1. CASE l # k
    <3>1. new.lists[l] = set.lists[l] /\ \A i \in Nat : g[l][i] = i
      BY <1>6, <2>0, <2>1
    <3>2. DOMAIN set.lists[l].entries \subseteq Nat
      BY <2>0, SoundParts
    <3>3. set.lists[l].cursor \in Ids(set.lists[l]) \union {None}
      BY <2>0 DEF SoundSet
    <3> QED BY <2>0, <3>1, <3>2, <3>3
  <2>2. CASE l = k
    <3>1. new.lists[l].entries = rest /\ f[l] = k
          /\ new.lists[l].cursor = IF list.cursor = id THEN None ELSE list.cursor
      BY <1>5, <1>6, <2>2
    <3>2. \A i \in Nat : g[l][i] = IF i >= p THEN i + 1 ELSE i
      BY <2>0, <2>2
    <3>3. p \in 1 .. Len(list.entries) /\ Len(list.entries) \in Nat
      BY <1>1, <1>3 DEF list
    <3> HIDE DEF f, g
    <3>4. ASSUME NEW i \in 1 .. Len(list.entries) - 1
          PROVE  /\ i \in Nat /\ g[l][i] \in 1 .. Len(list.entries)
                 /\ rest[i] = list.entries[g[l][i]]
      <4>1. i \in Nat /\ p \in Nat /\ rest[i] = IF i < p THEN list.entries[i] ELSE list.entries[i + 1]
        BY <1>4, <3>3
      <4>2. g[l][i] = IF i >= p THEN i + 1 ELSE i
        BY <3>2, <4>1
      <4>3. CASE i < p
        BY <3>3, <4>1, <4>2, <4>3
      <4>4. CASE ~(i < p)
        <5>1. g[l][i] = i + 1
          BY <4>1, <4>2, <4>4
        <5> QED BY <3>3, <4>1, <4>4, <5>1
      <4> QED BY <4>3, <4>4
    <3>5. ASSUME NEW i \in 1 .. Len(list.entries) - 1, NEW j \in 1 .. Len(list.entries) - 1,
                 g[l][i] = g[l][j]
          PROVE  i = j
      <4>1. i \in Nat /\ j \in Nat /\ p \in Nat
        BY <3>3
      <4>2. g[l][i] = Beyond(p, i) /\ g[l][j] = Beyond(p, j)
        BY <3>2, <4>1 DEF Beyond
      <4> QED BY <3>5, <4>1, <4>2, BeyondOnce
    <3>6. list.cursor \in Ids(list) \union {None}
      BY DEF list, SoundSet
    <3>7. ASSUME NEW j \in DOMAIN list.entries, list.entries[j].id # id
          PROVE  \E i \in DOMAIN rest : rest[i].id = list.entries[j].id
      <4>1. j \in 1 .. Len(list.entries) /\ j # p
        BY <1>1, <1>3, <3>7 DEF list
      <4>2. CASE j < p
        BY SMTT(60), <1>4, <3>3, <4>1, <4>2
      <4>3. CASE j > p
        <5>1. j - 1 \in 1 .. Len(list.entries) - 1 /\ ~(j - 1 < p) /\ (j - 1) + 1 = j
          BY <3>3, <4>1, <4>3
        <5>2. rest[j - 1] = list.entries[(j - 1) + 1]
          BY <1>4, <5>1
        <5> QED BY <1>4, <5>1, <5>2
      <4> QED BY <3>3, <4>1, <4>2, <4>3
    <3>8. new.lists[l].cursor \in Ids(new.lists[l]) \union {None}
      BY <3>1, <3>6, <3>7 DEF Ids
    <3> QED BY <1>3, <1>4, <3>1, <3>4, <3>5, <3>8 DEF list
  <2> QED BY <2>1, <2>2
<1>9. new.playing \in Members(new)
  <2>1. PICK l \in DOMAIN set.lists : set.lists[l].id = set.playing
    BY DEF SoundSet, Members
  <2>2. l \in DOMAIN new.lists /\ new.lists[l].id = new.playing
    BY <1>6, <1>7, <2>1
  <2> QED BY <2>2 DEF Members
<1> HIDE DEF f, g
<1>10. SoundSet(new) /\ SameMediaIn(set, new)
  <2>1. Embedding(set, new, f, g)
    BY <1>7, <1>8, <1>9, Zenon DEF Embedding
  <2> QED BY <1>6, <2>1, EmbedsIn
<1>11. Cursor(new) = IF Cursor(set) = id THEN None ELSE Cursor(set)
  <2> DEFINE m == Index(set, set.playing)
  <2>1. m \in DOMAIN set.lists /\ set.lists[m].id = set.playing /\ Cursor(set) = set.lists[m].cursor
    BY CursorIs
  <2>2. new.lists[m].id = new.playing
    BY <1>5, <1>6, <2>1 DEF list
  <2>3. Index(new, new.playing) = m
    BY <1>6, <1>10, <2>1, <2>2, IndexIs
  <2>4. Cursor(new) = new.lists[m].cursor
    BY <2>3 DEF Cursor
  <2>5. CASE m = k
    BY <1>5, <1>6, <2>1, <2>4, <2>5 DEF list
  <2>6. CASE m # k
    <3>1. new.lists[m] = set.lists[m]
      BY <1>6, <2>1, <2>6
    <3>2. Cursor(set) # id
      <4>1. Owner(set, id) = k
        BY DEF k
      <4>2. Cursor(set) # None => Owner(set, Cursor(set)) = m
        BY CursorIs
      <4>3. id # None
        BY MediaOfEntry
      <4> QED BY <2>6, <4>1, <4>2, <4>3
    <3> QED BY <2>1, <2>4, <3>1, <3>2
  <2> QED BY <2>5, <2>6
<1> QED BY <1>10, <1>11 DEF new


(* The owner of an entry plays, with its cursor there. *)
LEMMA AdoptIs ==
  ASSUME NEW set, SoundSet(set), NEW id, Has(set, id)
  PROVE  LET new == Adopt(set, id) IN
         /\ SoundSet(new) /\ SameMediaIn(set, new) /\ Has(new, id)
         /\ Cursor(new) = id
<1> DEFINE new == Adopt(set, id)
<1>1. PICK k \in DOMAIN set.lists : \E p \in DOMAIN set.lists[k].entries :
           set.lists[k].entries[p].id = id /\ Owner(set, id) = k
  BY HasIs
<1>2. PICK p \in DOMAIN set.lists[k].entries :
           set.lists[k].entries[p].id = id /\ Owner(set, id) = k
  BY <1>1
<1> DEFINE list == set.lists[k]
           moved == [list EXCEPT !.cursor = id]
<1>3. new = [set EXCEPT !.lists[k] = moved, !.playing = list.id]
  BY <1>1 DEF Adopt
<1>4. /\ set \in PlaylistSets /\ set.lists \in Seq(PlayLists) /\ list \in PlayLists
      /\ DOMAIN set.lists = 1 .. Len(set.lists) /\ Len(set.lists) \in Nat
  BY SoundParts
<1>5. id \in Nat
  BY MediaOfEntry
<1>6. moved \in PlayLists /\ moved.entries = list.entries /\ moved.id = list.id /\ moved.cursor = id
  BY <1>4, <1>5 DEF PlayLists
<1> HIDE DEF moved
<1>7. /\ new \in PlaylistSets /\ new.playing = list.id
      /\ DOMAIN new.lists = DOMAIN set.lists /\ new.lists[k] = moved
      /\ \A l \in DOMAIN set.lists : l # k => new.lists[l] = set.lists[l]
  <2>1. new.lists = [set.lists EXCEPT ![k] = moved] /\ new.playing = list.id
    BY <1>3, <1>4 DEF PlaylistSets
  <2>2. [set.lists EXCEPT ![k] = moved] \in Seq(PlayLists)
    BY <1>4, <1>6, ExceptSeq
  <2>3. new \in PlaylistSets
    BY <1>3, <1>4, <2>1, <2>2 DEF PlaylistSets, PlayLists, EntrySets
  <2> QED BY <2>1, <2>3, <1>4
<1> HIDE DEF new, list
<1> DEFINE f == [l \in DOMAIN set.lists |-> l]
           g == [l \in DOMAIN set.lists |-> [i \in Nat |-> i]]
<1>8. /\ \A l \in DOMAIN new.lists : f[l] \in DOMAIN set.lists
      /\ \A l, m \in DOMAIN new.lists : f[l] = f[m] => l = m
      /\ \A l \in DOMAIN new.lists : new.lists[l].id = set.lists[f[l]].id
  BY <1>6, <1>7 DEF list
<1>9. ASSUME NEW l \in DOMAIN new.lists
      PROVE  /\ \A i \in DOMAIN new.lists[l].entries :
                  /\ g[l][i] \in DOMAIN set.lists[f[l]].entries
                  /\ new.lists[l].entries[i] = set.lists[f[l]].entries[g[l][i]]
             /\ \A i, j \in DOMAIN new.lists[l].entries : g[l][i] = g[l][j] => i = j
             /\ new.lists[l].cursor \in Ids(new.lists[l]) \union {None}
  <2>0. l \in DOMAIN set.lists
    BY <1>7
  <2>1. new.lists[l].entries = set.lists[l].entries
    BY <1>6, <1>7, <2>0 DEF list
  <2>2. DOMAIN set.lists[l].entries \subseteq Nat /\ f[l] = l /\ \A i \in Nat : g[l][i] = i
    BY <2>0, SoundParts
  <2>3. new.lists[l].cursor \in Ids(new.lists[l]) \union {None}
    <3>1. CASE l = k
      BY <1>2, <1>6, <1>7, <2>1, <3>1 DEF Ids, list
    <3>2. CASE l # k
      BY <1>7, <2>0, <3>2 DEF SoundSet
    <3> QED BY <3>1, <3>2
  <2> HIDE DEF f, g
  <2> QED BY <2>1, <2>2, <2>3
<1>10. new.playing \in Members(new)
  BY <1>6, <1>7 DEF Members, list
<1> HIDE DEF f, g
<1>11. SoundSet(new) /\ SameMediaIn(set, new)
  <2>1. Embedding(set, new, f, g)
    BY <1>8, <1>9, <1>10, Zenon DEF Embedding
  <2> QED BY <1>7, <2>1, EmbedsIn
<1>12. Index(new, new.playing) = k
  BY <1>6, <1>7, <1>11, IndexIs
<1>13. Cursor(new) = id
  BY <1>6, <1>7, <1>12 DEF Cursor
<1>14. Has(new, id)
  BY <1>5, <1>11, <1>13, CursorIs, MediaOfEntry
<1> QED BY <1>11, <1>13, <1>14 DEF new

(* A list without its entries, and without its cursor. *)
LEMMA ClearListIs ==
  ASSUME NEW set, SoundSet(set), NEW list \in Members(set)
  PROVE  LET new == ClearList(set, list) IN
         /\ SoundSet(new) /\ SameMediaIn(set, new)
         /\ Cursor(new) = IF set.playing = list THEN None ELSE Cursor(set)
<1> DEFINE new == ClearList(set, list)
           k == Index(set, list)
           less == [set.lists[k] EXCEPT !.entries = <<>>, !.cursor = None]
<1>1. k \in DOMAIN set.lists /\ set.lists[k].id = list
  BY MemberIs
<1>2. new = [set EXCEPT !.lists[k] = less]
  BY DEF ClearList, WithList
<1> HIDE DEF k
<1>3. /\ set \in PlaylistSets /\ set.lists \in Seq(PlayLists) /\ set.lists[k] \in PlayLists
      /\ DOMAIN set.lists = 1 .. Len(set.lists) /\ Len(set.lists) \in Nat
  BY <1>1, SoundParts
<1>4. less \in PlayLists /\ less.entries = <<>> /\ less.id = list /\ less.cursor = None
  <2>1. set.lists[k] \in [id : Nat, cursor : Nat, entries : Seq(EntrySets)]
    BY <1>3 DEF PlayLists
  <2> DEFINE entries == <<>>
  <2>3. entries \in Seq(EntrySets)
    OBVIOUS
  <2> HIDE DEF entries
  <2> DEFINE bare == [set.lists[k] EXCEPT !.entries = entries]
  <2>5. bare \in PlayLists /\ bare.entries = entries /\ bare.id = list
    BY <1>1, <2>1, <2>3 DEF PlayLists
  <2> HIDE DEF bare
  <2>6. less = [bare EXCEPT !.cursor = None]
    BY DEF bare, entries
  <2> QED BY <2>5, <2>6 DEF PlayLists, None, entries
<1> HIDE DEF less
<1>5. /\ new \in PlaylistSets /\ new.playing = set.playing
      /\ DOMAIN new.lists = DOMAIN set.lists /\ new.lists[k] = less
      /\ \A l \in DOMAIN set.lists : l # k => new.lists[l] = set.lists[l]
  <2>1. new.lists = [set.lists EXCEPT ![k] = less] /\ new.playing = set.playing
    BY <1>2, <1>3 DEF PlaylistSets
  <2>2. [set.lists EXCEPT ![k] = less] \in Seq(PlayLists)
    BY <1>1, <1>3, <1>4, ExceptSeq
  <2>3. new \in PlaylistSets
    BY <1>2, <1>3, <2>1, <2>2 DEF PlaylistSets, PlayLists, EntrySets
  <2> QED BY <1>1, <2>1, <2>3, <1>3
<1> HIDE DEF new
<1> DEFINE f == [l \in DOMAIN set.lists |-> l]
           g == [l \in DOMAIN set.lists |-> [i \in Nat |-> i]]
<1>6. /\ \A l \in DOMAIN new.lists :
            f[l] \in DOMAIN set.lists /\ new.lists[l].id = set.lists[f[l]].id
      /\ \A l, m \in DOMAIN new.lists : f[l] = f[m] => l = m
  BY <1>1, <1>4, <1>5
<1>7. ASSUME NEW l \in DOMAIN new.lists
      PROVE  /\ \A i \in DOMAIN new.lists[l].entries :
                  /\ g[l][i] \in DOMAIN set.lists[f[l]].entries
                  /\ new.lists[l].entries[i] = set.lists[f[l]].entries[g[l][i]]
             /\ \A i, j \in DOMAIN new.lists[l].entries : g[l][i] = g[l][j] => i = j
             /\ new.lists[l].cursor \in Ids(new.lists[l]) \union {None}
  <2>0. l \in DOMAIN set.lists
    BY <1>5
  <2>1. CASE l = k
    BY <1>4, <1>5, <2>1
  <2>2. CASE l # k
    <3>1. new.lists[l] = set.lists[l]
      BY <1>5, <2>0, <2>2
    <3>2. DOMAIN set.lists[l].entries \subseteq Nat /\ f[l] = l /\ \A i \in Nat : g[l][i] = i
      BY <2>0, SoundParts
    <3>3. set.lists[l].cursor \in Ids(set.lists[l]) \union {None}
      BY <2>0 DEF SoundSet
    <3> HIDE DEF f, g
    <3> QED BY <3>1, <3>2, <3>3
  <2> QED BY <2>1, <2>2
<1>8. new.playing \in Members(new)
  <2>1. PICK l \in DOMAIN set.lists : set.lists[l].id = set.playing
    BY DEF SoundSet, Members
  <2>2. l \in DOMAIN new.lists /\ new.lists[l].id = new.playing
    BY <1>5, <1>6, <2>1
  <2> QED BY <2>2 DEF Members
<1> HIDE DEF f, g
<1>9. SoundSet(new) /\ SameMediaIn(set, new)
  <2>1. Embedding(set, new, f, g)
    BY <1>6, <1>7, <1>8, Zenon DEF Embedding
  <2> QED BY <1>5, <2>1, EmbedsIn
<1>10. Cursor(new) = IF set.playing = list THEN None ELSE Cursor(set)
  <2> DEFINE m == Index(set, set.playing)
  <2>1. m \in DOMAIN set.lists /\ set.lists[m].id = set.playing /\ Cursor(set) = set.lists[m].cursor
    BY CursorIs
  <2> HIDE DEF m
  <2>2. new.lists[m].id = new.playing /\ m \in DOMAIN new.lists
    BY <1>1, <1>4, <1>5, <2>1
  <2>3. Index(new, new.playing) = m
    BY <1>9, <2>2, IndexIs
  <2>4. Cursor(new) = new.lists[m].cursor
    BY <2>3 DEF Cursor
  <2>5. CASE m = k
    BY <1>1, <1>4, <1>5, <2>1, <2>4, <2>5
  <2>6. CASE m # k
    <3>1. set.playing # list
      BY <1>1, <2>1, <2>6, IndexIs
    <3> QED BY <1>5, <2>1, <2>4, <2>6, <3>1
  <2> QED BY <2>5, <2>6
<1> QED BY <1>9, <1>10 DEF new

(* The lists that stay, the one that plays among them. *)
LEMMA DeleteListIs ==
  ASSUME NEW set, SoundSet(set), NEW list, Deletable(set, list)
  PROVE  LET new == DeleteList(set, list) IN
         /\ SoundSet(new) /\ SameMediaIn(set, new)
         /\ set.playing # list => Cursor(new) = Cursor(set)
<1> DEFINE new == DeleteList(set, list)
           k == Index(set, list)
           rest == RemoveAt(set.lists, k)
           next == IF k <= Len(rest) THEN k ELSE Len(rest)
<1>1. k \in DOMAIN set.lists /\ set.lists[k].id = list /\ Len(set.lists) > 1
  BY MemberIs DEF Deletable
<1>2. new = [set EXCEPT !.lists = rest,
                        !.playing = IF set.playing = list THEN rest[next].id ELSE set.playing]
  BY DEF DeleteList
<1> HIDE DEF k
<1>3. /\ set \in PlaylistSets /\ set.lists \in Seq(PlayLists)
      /\ DOMAIN set.lists = 1 .. Len(set.lists) /\ Len(set.lists) \in Nat
  BY SoundParts
<1>4. /\ rest \in Seq(PlayLists) /\ DOMAIN rest = 1 .. Len(set.lists) - 1
      /\ Len(rest) = Len(set.lists) - 1
      /\ \A l \in 1 .. Len(set.lists) - 1 :
            rest[l] = IF l < k THEN set.lists[l] ELSE set.lists[l + 1]
  BY <1>1, <1>3, RemovedIs
<1> HIDE DEF rest
<1>5. k \in 1 .. Len(set.lists) /\ Len(set.lists) \in Nat
  BY <1>1, <1>3
<1>6. next \in DOMAIN rest
  BY <1>1, <1>4, <1>5
<1> HIDE DEF next
<1> DEFINE f == [l \in Nat |-> Beyond(k, l)]
           g == [l \in Nat |-> [i \in Nat |-> i]]
<1>7. ASSUME NEW l \in DOMAIN rest
      PROVE  l \in Nat /\ f[l] \in DOMAIN set.lists /\ f[l] # k /\ rest[l] = set.lists[f[l]]
  <2>1. l \in 1 .. Len(set.lists) - 1
    BY <1>4
  <2>2. f[l] = Beyond(k, l)
    BY <2>1
  <2>3. rest[l] = IF l < k THEN set.lists[l] ELSE set.lists[l + 1]
    BY <1>4, <2>1
  <2> HIDE DEF f
  <2>4. CASE l < k
    <3>1. f[l] = l
      BY <1>5, <2>1, <2>2, <2>4 DEF Beyond
    <3> QED BY <1>3, <1>5, <2>1, <2>3, <2>4, <3>1
  <2>5. CASE ~(l < k)
    <3>1. f[l] = l + 1
      BY <1>5, <2>1, <2>2, <2>5 DEF Beyond
    <3> QED BY <1>3, <1>5, <2>1, <2>3, <2>5, <3>1
  <2> QED BY <2>4, <2>5
<1>8. \A l, m \in DOMAIN rest : f[l] = f[m] => l = m
  <2> SUFFICES ASSUME NEW l \in DOMAIN rest, NEW m \in DOMAIN rest, f[l] = f[m] PROVE l = m
    OBVIOUS
  <2>1. l \in Nat /\ m \in Nat /\ k \in Nat
    BY <1>5, <1>7
  <2>2. Beyond(k, l) = Beyond(k, m)
    BY <2>1
  <2> QED BY <2>1, <2>2, BeyondOnce
<1>9. ASSUME NEW l \in DOMAIN set.lists, l # k PROVE \E m \in DOMAIN rest : f[m] = l
  <2>1. l \in 1 .. Len(set.lists)
    BY <1>3
  <2>2. CASE l < k
    <3>1. l \in DOMAIN rest
      BY <1>4, <1>5, <2>1, <2>2
    <3>2. f[l] = l
      BY <1>5, <2>1, <2>2 DEF Beyond
    <3> QED BY <3>1, <3>2
  <2>3. CASE l > k
    <3>1. l - 1 \in DOMAIN rest /\ l - 1 \in Nat /\ l - 1 >= k
      BY <1>4, <1>5, <2>1, <2>3
    <3>2. f[l - 1] = (l - 1) + 1
      BY <1>5, <3>1 DEF Beyond
    <3>3. f[l - 1] = l
      BY <2>1, <3>2
    <3> QED BY <3>1, <3>3
  <2> QED BY <1>5, <1>9, <2>1, <2>2, <2>3
<1>10. /\ new \in PlaylistSets /\ new.lists = rest
       /\ new.playing = IF set.playing = list THEN rest[next].id ELSE set.playing
  <2>0. rest \in Seq(PlayLists)
    BY <1>4
  <2>31. rest[next] \in PlayLists
    BY <1>6, <2>0
  <2>1. rest[next].id \in Nat
    BY <2>31 DEF PlayLists
  <2> QED BY <1>2, <1>3, <1>4, <2>1 DEF PlaylistSets, PlayLists, EntrySets
<1> HIDE DEF new
<1>11. ASSUME NEW l \in DOMAIN new.lists
       PROVE  /\ \A i \in DOMAIN new.lists[l].entries :
                   /\ g[l][i] \in DOMAIN set.lists[f[l]].entries
                   /\ new.lists[l].entries[i] = set.lists[f[l]].entries[g[l][i]]
              /\ \A i, j \in DOMAIN new.lists[l].entries : g[l][i] = g[l][j] => i = j
              /\ new.lists[l].cursor \in Ids(new.lists[l]) \union {None}
  <2>1. l \in Nat /\ f[l] \in DOMAIN set.lists /\ new.lists[l] = set.lists[f[l]]
    BY <1>7, <1>10
  <2>2. DOMAIN set.lists[f[l]].entries \subseteq Nat /\ \A i \in Nat : g[l][i] = i
    BY <2>1, SoundParts
  <2>3. set.lists[f[l]].cursor \in Ids(set.lists[f[l]]) \union {None}
    BY <2>1 DEF SoundSet
  <2> HIDE DEF f, g
  <2> QED BY <2>1, <2>2, <2>3
<1>12. new.playing \in Members(new)
  <2>1. CASE set.playing = list
    BY <1>6, <1>10, <2>1 DEF Members
  <2>2. CASE set.playing # list
    <3>1. PICK l \in DOMAIN set.lists : set.lists[l].id = set.playing
      BY DEF SoundSet, Members
    <3>2. l # k
      BY <1>1, <2>2, <3>1
    <3>3. PICK m \in DOMAIN rest : f[m] = l
      BY <1>9, <3>2
    <3>4. m \in DOMAIN new.lists /\ new.lists[m].id = new.playing
      BY <1>7, <1>10, <2>2, <3>1, <3>3
    <3> QED BY <3>4 DEF Members
  <2> QED BY <2>1, <2>2
<1> HIDE DEF f, g
<1>13. SoundSet(new) /\ SameMediaIn(set, new)
  <2>1. \A l \in DOMAIN new.lists :
           f[l] \in DOMAIN set.lists /\ new.lists[l].id = set.lists[f[l]].id
    BY <1>7, <1>10
  <2>2. \A l, m \in DOMAIN new.lists : f[l] = f[m] => l = m
    BY <1>8, <1>10
  <2>3. Embedding(set, new, f, g)
    BY <1>11, <1>12, <2>1, <2>2, Zenon DEF Embedding
  <2> QED BY <1>10, <2>3, EmbedsIn
<1>14. ASSUME set.playing # list PROVE Cursor(new) = Cursor(set)
  <2> DEFINE l == Index(set, set.playing)
  <2>1. l \in DOMAIN set.lists /\ set.lists[l].id = set.playing /\ Cursor(set) = set.lists[l].cursor
    BY CursorIs
  <2> HIDE DEF l
  <2>2. l # k
    BY <1>1, <1>14, <2>1
  <2>3. PICK m \in DOMAIN rest : f[m] = l
    BY <1>9, <2>1, <2>2
  <2>4. m \in DOMAIN new.lists /\ new.lists[m] = set.lists[l] /\ new.playing = set.playing
    BY <1>7, <1>10, <1>14, <2>3
  <2>5. Index(new, new.playing) = m
    BY <1>13, <2>1, <2>4, IndexIs
  <2> QED BY <2>1, <2>4, <2>5 DEF Cursor
<1> QED BY <1>13, <1>14 DEF new

-----------------------------------------------------------------------------
(* The types of what the two sides exchange, and what a checkpoint write keeps. *)

(* The session's fields, and what the engine and the front end exchange. *)
MediaN == Media \union {NoMedia}
States == {"Idle", "Loading", "Playing", "Paused", "Stopped", "Reconnecting", "Ended", "Failed"}
Samples == [rev : Nat, media : MediaN, pos : Positions, guess : BOOLEAN]
Loads == [token : Nat, target : Nat]
Registrations == [target : Nat, media : MediaN, valid : BOOLEAN]
Pendings == UNION {[D -> Registrations] : D \in SUBSET Nat}
Checkpoints == [Media -> StoredEntries]
SoundSets == {x \in PlaylistSets : SoundSet(x)}
SessionSet ==
    [set : SoundSets, saved : MediaN, ck : Checkpoints, rev : Nat, latest : Nat,
     playback : States, media : MediaN, completed : BOOLEAN, sample : Samples,
     force : Nat, target : Positions, established : BOOLEAN, protected : BOOLEAN,
     guess : BOOLEAN, next : Nat, pending : Pendings, adopted : Loads, last : Nat,
     stop : BOOLEAN, advance : Nat, seen : Nat \X Nat, checkpointable : BOOLEAN]
EventSet ==
    [k : {"Loaded", "LoadCancelled", "Failed", "State", "Landing", "TargetStored",
          "EndOfTrack", "Capabilities", "DeviceRecovered"},
     rev : Nat, token : Nat, media : MediaN, state : States, pos : Positions,
     live : BOOLEAN, fallback : BOOLEAN]
Samplings == [rev : Nat, load : Nat, media : MediaN, pos : Positions]

LEMMA NoPosIn == NoPos \in Positions /\ NoPos.kind = "none"
  BY DEF NoPos, Positions

LEMMA NoEntryIn == NoEntry \in StoredEntries
  BY NoPosIn DEF NoEntry, StoredEntries

LEMMA NoSampleIn == NoSample \in Samples
  BY NoPosIn DEF NoSample, Samples, MediaN

LEMMA NoLoadIn == NoLoad \in Loads /\ NoLoad.token = 0 /\ NoLoad.target = None
  BY DEF NoLoad, Loads, None

(* A write touches the checkpoints alone. *)
Recorded(x, y) == \E c \in Checkpoints : y = [x EXCEPT !.ck = c]

LEMMA RecordedSame == ASSUME NEW x \in SessionSet PROVE Recorded(x, x)
<1>1. x.ck \in Checkpoints /\ x = [x EXCEPT !.ck = x.ck]
  BY DEF SessionSet
<1> QED BY <1>1 DEF Recorded

LEMMA WriteIs ==
  ASSUME NEW x \in SessionSet, NEW m \in MediaN, NEW p \in Positions, NEW d \in BOOLEAN
  PROVE  Recorded(x, Write(x, m, p, d))
<1>1. x.ck \in Checkpoints
  BY DEF SessionSet
<1> DEFINE entry == [pos |-> p, est |-> NoPos, done |-> d]
           guessed == [x.ck[m] EXCEPT !.est = p, !.done = d]
<1>2. entry \in StoredEntries
  BY NoPosIn DEF StoredEntries
<1>3. m \in Media => guessed \in StoredEntries
  BY <1>1 DEF StoredEntries, Checkpoints
<1> HIDE DEF entry, guessed
<1>4. [x.ck EXCEPT ![m] = entry] \in Checkpoints
  BY <1>1, <1>2 DEF Checkpoints
<1>5. [x.ck EXCEPT ![m] = guessed] \in Checkpoints
  BY <1>1, <1>3 DEF Checkpoints
<1>6. Record(x, m, p, d) = [x EXCEPT !.ck = [x.ck EXCEPT ![m] = entry]]
  BY DEF Record, entry
<1>7. RecordEstimated(x, m, p, d) = [x EXCEPT !.ck = [x.ck EXCEPT ![m] = guessed]]
  BY DEF RecordEstimated, guessed
<1> QED BY <1>4, <1>5, <1>6, <1>7 DEF Recorded, Write

LEMMA RecordCurrentIs ==
  ASSUME NEW x \in SessionSet, NEW p \in Positions
  PROVE  Recorded(x, RecordCurrent(x, p))
<1>1. x.media \in MediaN /\ x.completed \in BOOLEAN
  BY DEF SessionSet
<1> QED BY <1>1, WriteIs, RecordedSame DEF RecordCurrent

LEMMA CheckpointFromProgressIs ==
  ASSUME NEW x \in SessionSet, NEW p \in Positions
  PROVE  Recorded(x, CheckpointFromProgress(x, p))
<1>1. PositionFor(x, p) \in Positions
  BY DEF PositionFor, SessionSet
<1> QED BY <1>1, RecordCurrentIs, RecordedSame DEF CheckpointFromProgress

(* What a step of the session leaves alone. *)
Keeps(x, y) ==
    /\ y.set = x.set /\ y.saved = x.saved /\ y.rev = x.rev /\ y.latest = x.latest
    /\ y.next = x.next /\ y.pending = x.pending /\ y.adopted = x.adopted

LEMMA RecordedKeeps ==
  ASSUME NEW x \in SessionSet, NEW y, Recorded(x, y)
  PROVE  y \in SessionSet /\ Keeps(x, y)
<1>1. PICK c \in Checkpoints : y = [x EXCEPT !.ck = c]
  BY DEF Recorded
<1>2. y \in SessionSet
  BY <1>1 DEF SessionSet
<1>3. Keeps(x, y)
  BY <1>1 DEF SessionSet, Keeps
<1> QED BY <1>2, <1>3

LEMMA CaptureCurrentIs ==
  ASSUME NEW x \in SessionSet, NEW p \in Samplings
  PROVE  CaptureCurrent(x, p) \in SessionSet /\ Keeps(x, CaptureCurrent(x, p))
<1>1. p.pos \in Positions /\ x.sample.pos \in Positions /\ x.sample.guess \in BOOLEAN
  BY DEF Samplings, Samples, SessionSet
<1>2. ASSUME NEW g \in BOOLEAN, NEW q \in Positions
      PROVE  LET y == CheckpointFromProgress([x EXCEPT !.guess = g], q)
             IN y \in SessionSet /\ Keeps(x, y)
  <2> DEFINE z == [x EXCEPT !.guess = g]
  <2>1. z \in SessionSet
    BY DEF SessionSet
  <2>2. Keeps(x, z)
    BY DEF Keeps, SessionSet
  <2> HIDE DEF z
  <2>3. PICK y : y = CheckpointFromProgress(z, q)
    OBVIOUS
  <2>4. y \in SessionSet /\ Keeps(z, y)
    BY <2>1, <2>3, CheckpointFromProgressIs, RecordedKeeps
  <2>5. Keeps(x, y)
    BY <2>2, <2>4 DEF Keeps
  <2> QED BY <2>3, <2>4, <2>5 DEF z
<1>3. Keeps(x, x)
  BY DEF Keeps
<1>4. Estimated(p.pos) \in BOOLEAN
  BY DEF Estimated
<1>5. CASE x.media # NoMedia /\ AcceptsSample(x, p)
  BY <1>1, <1>2, <1>4, <1>5 DEF CaptureCurrent
<1>6. CASE ~(x.media # NoMedia /\ AcceptsSample(x, p))
           /\ x.media # NoMedia /\ x.sample.rev = x.rev /\ x.sample.media = x.media
  BY <1>1, <1>2, <1>6 DEF CaptureCurrent
<1>7. CASE ~(x.media # NoMedia /\ AcceptsSample(x, p))
           /\ ~(x.media # NoMedia /\ x.sample.rev = x.rev /\ x.sample.media = x.media)
  BY <1>3, <1>7 DEF CaptureCurrent
<1> QED BY <1>5, <1>6, <1>7

LEMMA TickIs ==
  ASSUME NEW x \in SessionSet, NEW p \in Samplings, NEW due
  PROVE  Tick(x, p, due) \in SessionSet /\ Keeps(x, Tick(x, p, due))
<1> DEFINE sample == [rev |-> p.rev, media |-> x.media, pos |-> p.pos, guess |-> Estimated(p.pos)]
           y == [x EXCEPT !.sample = sample, !.guess = Estimated(p.pos)]
           z == [y EXCEPT !.force = 0]
<1>1. Estimated(p.pos) \in BOOLEAN /\ p.pos \in Positions /\ p.rev \in Nat
  BY DEF Estimated, Samplings
<1>2. sample \in Samples
  BY <1>1 DEF Samples, SessionSet
<1> HIDE DEF sample
<1>3. y \in SessionSet
  BY ZenonT(60), <1>1, <1>2 DEF SessionSet
<1>4. Keeps(x, y)
  BY DEF Keeps, SessionSet
<1> HIDE DEF y
<1>5. z \in SessionSet
  BY <1>3 DEF SessionSet
<1>6. Keeps(y, z)
  BY <1>3 DEF Keeps, SessionSet
<1> HIDE DEF z
<1>7. PICK a : a = CheckpointFromProgress(z, p.pos)
  OBVIOUS
<1>8. PICK b : b = CheckpointFromProgress(y, p.pos)
  OBVIOUS
<1>9. a \in SessionSet /\ Keeps(x, a)
  <2>1. a \in SessionSet /\ Keeps(z, a)
    BY <1>1, <1>5, <1>7, CheckpointFromProgressIs, RecordedKeeps
  <2> QED BY <1>4, <1>6, <2>1 DEF Keeps
<1>10. b \in SessionSet /\ Keeps(x, b)
  <2>1. b \in SessionSet /\ Keeps(y, b)
    BY <1>1, <1>3, <1>8, CheckpointFromProgressIs, RecordedKeeps
  <2> QED BY <1>4, <2>1 DEF Keeps
<1>11. Keeps(x, x)
  BY DEF Keeps
<1>12. Tick(x, p, due) \in {x, a, b, y}
  BY <1>7, <1>8 DEF Tick, y, z, sample
<1> QED BY <1>3, <1>4, <1>9, <1>10, <1>11, <1>12

-----------------------------------------------------------------------------
(* The session's consistency, and the registrations. *)

(* The saved media and the adopted load go with the cursor. *)
AgreesIn(x) ==
    /\ Cursor(x.set) # None =>
          Has(x.set, Cursor(x.set)) /\ x.saved = MediaOf(x.set, Cursor(x.set))
    /\ x.adopted.target # None => Cursor(x.set) = x.adopted.target

(* What every call on the session preserves. *)
Sane(x) ==
    /\ x \in SessionSet /\ x.rev <= x.latest
    /\ DOMAIN x.pending \subseteq 1 .. x.next
    /\ x.adopted.token <= x.next
    /\ x.adopted.target # None => x.adopted.token # 0
    /\ AgreesIn(x)

LEMMA KeepsSane ==
  ASSUME NEW x, Sane(x), NEW y \in SessionSet, Keeps(x, y) PROVE Sane(y)
BY DEF Sane, Keeps, AgreesIn

LEMMA PendingIn ==
  ASSUME NEW D \in SUBSET Nat, NEW f \in [D -> Registrations]
  PROVE  f \in Pendings /\ DOMAIN f = D
BY DEF Pendings

LEMMA PendingOut ==
  ASSUME NEW f \in Pendings
  PROVE  DOMAIN f \in SUBSET Nat /\ f \in [DOMAIN f -> Registrations]
BY DEF Pendings

LEMMA RetractIs ==
  ASSUME NEW x, Sane(x), NEW token
  PROVE  LET y == Retract(x, token) IN
         /\ Sane(y) /\ y.next = x.next /\ DOMAIN y.pending = DOMAIN x.pending \ {token}
         /\ y.set = x.set /\ y.saved = x.saved /\ y.adopted = x.adopted
         /\ y.latest = x.latest /\ y.rev = x.rev
<1> DEFINE f == [t \in DOMAIN x.pending \ {token} |-> x.pending[t]]
           y == Retract(x, token)
<1>1. x \in SessionSet /\ x.pending \in Pendings
  BY DEF Sane, SessionSet
<1>2. f \in Pendings /\ DOMAIN f = DOMAIN x.pending \ {token}
  <2>1. DOMAIN x.pending \in SUBSET Nat /\ x.pending \in [DOMAIN x.pending -> Registrations]
    BY <1>1, PendingOut
  <2> DEFINE D == DOMAIN x.pending \ {token}
  <2>2. D \in SUBSET Nat /\ f \in [D -> Registrations]
    BY <2>1
  <2> HIDE DEF D, f
  <2>3. f \in Pendings /\ DOMAIN f = D
    BY <2>2, PendingIn
  <2> QED BY <2>3 DEF D
<1>3. y = [x EXCEPT !.pending = f]
  BY DEF Retract
<1> HIDE DEF f, y
<1>4. y \in SessionSet
  BY <1>1, <1>2, <1>3 DEF SessionSet
<1>5. /\ y.pending = f /\ y.next = x.next /\ y.set = x.set /\ y.saved = x.saved
      /\ y.adopted = x.adopted /\ y.latest = x.latest /\ y.rev = x.rev
  BY <1>1, <1>3 DEF SessionSet
<1>6. Sane(y)
  BY <1>2, <1>4, <1>5 DEF Sane, AgreesIn
<1> QED BY <1>2, <1>5, <1>6 DEF y

LEMMA RegisterIs ==
  ASSUME NEW x, Sane(x), NEW target \in Nat, NEW media \in Media
  PROVE  LET y == Register(x, target, media) IN
         /\ Sane(y) /\ y.next = x.next + 1 /\ x.next \in Nat
         /\ DOMAIN y.pending = DOMAIN x.pending \union {x.next + 1}
         /\ x.next + 1 \notin DOMAIN x.pending
         /\ y.set = x.set /\ y.saved = x.saved /\ y.adopted = x.adopted
         /\ y.latest = x.latest /\ y.rev = x.rev
<1> DEFINE t0 == x.next + 1
           registration == [target |-> target, media |-> media, valid |-> TRUE]
           f == [t \in DOMAIN x.pending \union {t0} |->
                   IF t \in DOMAIN x.pending THEN x.pending[t] ELSE registration]
           y == Register(x, target, media)
<1>1. x \in SessionSet /\ x.pending \in Pendings /\ x.next \in Nat
  BY DEF Sane, SessionSet
<1>2. f \in Pendings /\ DOMAIN f = DOMAIN x.pending \union {t0}
  <2>1. DOMAIN x.pending \in SUBSET Nat /\ x.pending \in [DOMAIN x.pending -> Registrations]
    BY <1>1, PendingOut
  <2> DEFINE D == DOMAIN x.pending \union {t0}
  <2>2. registration \in Registrations
    BY DEF Registrations, MediaN
  <2> HIDE DEF registration
  <2>3. D \in SUBSET Nat
    BY <1>1, <2>1
  <2>4. f \in [D -> Registrations]
    BY <2>1, <2>2
  <2> HIDE DEF D, f
  <2>5. f \in Pendings /\ DOMAIN f = D
    BY <2>3, <2>4, PendingIn
  <2> QED BY <2>5 DEF D
<1>3. y = [[x EXCEPT !.next = t0] EXCEPT !.pending = f]
  BY DEF Register
<1>4. t0 \notin DOMAIN x.pending
  BY <1>1 DEF Sane
<1>5. t0 \in Nat /\ t0 = x.next + 1
  BY <1>1
<1> HIDE DEF f, y, t0
<1>6. y \in SessionSet
  BY <1>1, <1>2, <1>3, <1>5 DEF SessionSet
<1>7. /\ y.pending = f /\ y.next = t0 /\ y.set = x.set /\ y.saved = x.saved
      /\ y.adopted = x.adopted /\ y.latest = x.latest /\ y.rev = x.rev
  BY <1>1, <1>3 DEF SessionSet
<1>8. DOMAIN y.pending \subseteq 1 .. y.next
  BY <1>1, <1>2, <1>5, <1>7 DEF Sane
<1>9. x.adopted.token \in Nat
  BY <1>1 DEF SessionSet, Loads
<1>10. Sane(y)
  BY <1>1, <1>5, <1>6, <1>7, <1>8, <1>9 DEF Sane, AgreesIn
<1> QED BY <1>1, <1>2, <1>4, <1>5, <1>7, <1>10 DEF y, t0

-----------------------------------------------------------------------------
(* A load is adopted. *)

LEMMA RecordOutgoingIs ==
  ASSUME NEW x \in SessionSet
  PROVE  RecordOutgoing(x) \in SessionSet /\ Keeps(x, RecordOutgoing(x))
<1> DEFINE y == [x EXCEPT !.sample = NoSample]
<1>1. y \in SessionSet
  BY NoSampleIn DEF SessionSet
<1>2. Keeps(x, y)
  BY DEF Keeps, SessionSet
<1>3. /\ x.sample.media \in MediaN /\ PositionFor(x, x.sample.pos) \in Positions
  BY DEF SessionSet, Samples, PositionFor
<1> HIDE DEF y
<1>4. PICK z : z = Write(y, x.sample.media, PositionFor(x, x.sample.pos), FALSE)
  OBVIOUS
<1>5. z \in SessionSet /\ Keeps(y, z)
  BY <1>1, <1>3, <1>4, WriteIs, RecordedKeeps
<1>6. Keeps(x, x) /\ Keeps(x, z)
  BY <1>2, <1>5 DEF Keeps
<1>7. RecordOutgoing(x) \in {x, y, z}
  BY <1>4 DEF RecordOutgoing, y
<1> QED BY <1>1, <1>2, <1>5, <1>6, <1>7

(* What the load of an entry, or of a detached medium, leaves saved. *)
SavedWith(x, media, target) ==
    IF target # Detached \/ Cursor(x.set) = None THEN media ELSE x.saved

LEMMA AdoptMediaIs ==
  ASSUME NEW x \in SessionSet, NEW media \in Media, NEW target
  PROVE  LET y == AdoptMedia(x, media, target) IN
         /\ y \in SessionSet
         /\ y.saved = SavedWith(x, media, target)
         /\ y.set = x.set /\ y.rev = x.rev /\ y.latest = x.latest
         /\ y.next = x.next /\ y.pending = x.pending /\ y.adopted = x.adopted
<1> DEFINE done == x.ck[media].done
           saved == IF target # Detached \/ Cursor(x.set) = None THEN media ELSE x.saved
           y == AdoptMedia(x, media, target)
<1>1. done \in BOOLEAN
  <2>1. x.ck[media] \in StoredEntries
    BY DEF SessionSet, Checkpoints
  <2> QED BY <2>1 DEF StoredEntries
<1>2. saved \in MediaN /\ media \in MediaN
  BY DEF SessionSet, MediaN
<1>3. y = [[[x EXCEPT !.media = media] EXCEPT !.completed = done] EXCEPT !.saved = saved]
  BY DEF AdoptMedia, SessionSet
<1> HIDE DEF done, y
<1>4. y \in SessionSet
  BY ZenonT(60), <1>1, <1>2, <1>3 DEF SessionSet
<1>5. /\ y.saved = saved
      /\ y.set = x.set /\ y.rev = x.rev /\ y.latest = x.latest
      /\ y.next = x.next /\ y.pending = x.pending /\ y.adopted = x.adopted
  BY <1>3 DEF SessionSet
<1> QED BY <1>4, <1>5 DEF y, SavedWith

Adoptable(x, target, media) ==
    target # Detached => Has(x.set, target) /\ MediaOf(x.set, target) = media

LEMMA AdoptLoadedIs ==
  ASSUME NEW x, Sane(x), NEW ev \in EventSet, ev.media \in Media,
         NEW token \in 1 .. x.next, NEW target, Adoptable(x, target, ev.media)
  PROVE  LET y == AdoptLoaded(x, token, target, ev) IN
         /\ Sane(y) /\ y.next = x.next /\ y.pending = x.pending
         /\ y.rev = x.rev /\ y.latest = x.latest
         /\ y.adopted.token = token
<1> DEFINE m == ev.media
           gone == IF x.media # m THEN RecordOutgoing(x) ELSE x
           reset == [gone EXCEPT !.force = 0, !.target = NoPos, !.established = FALSE,
                                 !.guess = FALSE, !.protected = ev.fallback]
           moved == AdoptMedia(reset, m, target)
           sample == [rev |-> x.rev, media |-> m, pos |-> ev.pos, guess |-> FALSE]
           set == IF target = Detached THEN x.set ELSE Adopt(x.set, target)
           adopted == [token |-> token, target |-> target]
           y == AdoptLoaded(x, token, target, ev)
<1>1. x \in SessionSet
  BY DEF Sane
<1>2. gone \in SessionSet /\ Keeps(x, gone)
  BY <1>1, RecordOutgoingIs DEF Keeps
<1> HIDE DEF gone
<1>3. reset \in SessionSet /\ Keeps(x, reset)
  <2>1. ev.fallback \in BOOLEAN
    BY DEF EventSet
  <2>2. reset \in SessionSet
    BY ZenonT(60), <1>2, <2>1, NoPosIn DEF SessionSet
  <2>3. Keeps(gone, reset)
    BY <1>2 DEF SessionSet, Keeps
  <2> QED BY <1>2, <2>2, <2>3 DEF Keeps
<1>4. y = [moved EXCEPT !.sample = sample, !.checkpointable = ~ev.live,
                        !.set = IF target = Detached THEN moved.set ELSE Adopt(moved.set, target),
                        !.adopted = adopted]
  BY DEF AdoptLoaded, gone
<1> HIDE DEF reset
<1>5. /\ moved \in SessionSet
      /\ moved.saved = SavedWith(x, m, target)
      /\ moved.set = x.set /\ moved.rev = x.rev /\ moved.latest = x.latest
      /\ moved.next = x.next /\ moved.pending = x.pending
  <2>1. /\ moved \in SessionSet /\ moved.saved = SavedWith(reset, m, target)
        /\ moved.set = reset.set /\ moved.rev = reset.rev /\ moved.latest = reset.latest
        /\ moved.next = reset.next /\ moved.pending = reset.pending
    BY <1>3, AdoptMediaIs
  <2>2. /\ reset.set = x.set /\ reset.saved = x.saved /\ reset.rev = x.rev
        /\ reset.latest = x.latest /\ reset.next = x.next /\ reset.pending = x.pending
    BY <1>3 DEF Keeps
  <2>3. SavedWith(reset, m, target) = SavedWith(x, m, target)
    BY <2>2 DEF SavedWith
  <2> HIDE DEF moved, m
  <2> QED BY <2>1, <2>2, <2>3
<1> HIDE DEF moved, y
<1>6. ASSUME target # Detached
      PROVE  /\ SoundSet(set) /\ Cursor(set) = target /\ Has(set, target)
             /\ MediaOf(set, target) = m /\ target \in Nat
  <2>1. SoundSet(x.set) /\ Has(x.set, target) /\ MediaOf(x.set, target) = m
    BY <1>1, <1>6 DEF SessionSet, SoundSets, Adoptable
  <2>2. PICK new : new = Adopt(x.set, target)
    OBVIOUS
  <2>3. /\ SoundSet(new) /\ SameMediaIn(x.set, new) /\ Has(new, target)
        /\ Cursor(new) = target
    BY <2>1, <2>2, AdoptIs
  <2>4. set = new
    BY <1>6, <2>2
  <2>5. target \in Nat
    BY <2>1, MediaOfEntry
  <2> HIDE DEF set
  <2> QED BY <2>1, <2>3, <2>4, <2>5 DEF SameMediaIn
<1>7. set \in SoundSets /\ target \in Nat
  <2>1. CASE target = Detached
    BY <1>1, <2>1 DEF SessionSet, Detached, None
  <2>2. CASE target # Detached
    BY <1>6, <2>2 DEF SoundSets, SoundSet
  <2> QED BY <2>1, <2>2
<1>8. y = [[[[moved EXCEPT !.sample = sample] EXCEPT !.checkpointable = ~ev.live]
              EXCEPT !.set = set] EXCEPT !.adopted = adopted]
  <2> DEFINE other == IF target = Detached THEN moved.set ELSE Adopt(moved.set, target)
  <2>1. other = set
    BY <1>5
  <2>2. y = [[[[moved EXCEPT !.sample = sample] EXCEPT !.checkpointable = ~ev.live]
                EXCEPT !.set = other] EXCEPT !.adopted = adopted]
    BY <1>4
  <2> HIDE DEF other, set, sample, adopted
  <2> QED BY <2>1, <2>2
<1>9. sample \in Samples /\ (~ev.live) \in BOOLEAN
  BY <1>1 DEF Samples, EventSet, MediaN, SessionSet
<1>10. adopted \in Loads /\ adopted.token = token /\ adopted.target = target
  <2>1. token \in Nat
    BY <1>1 DEF SessionSet
  <2> QED BY <1>7, <2>1 DEF Loads
<1> HIDE DEF sample, adopted, set
<1>11. y \in SessionSet
  BY ZenonT(60), <1>5, <1>7, <1>8, <1>9, <1>10 DEF SessionSet
<1>12. /\ y.set = set /\ y.saved = moved.saved /\ y.adopted = adopted
       /\ y.rev = x.rev /\ y.latest = x.latest /\ y.next = x.next /\ y.pending = x.pending
  BY <1>5, <1>8 DEF SessionSet
<1>13. AgreesIn(y)
  <2>1. CASE target = Detached
    <3>1. set = x.set
      BY <2>1 DEF set
    <3> QED BY <1>5, <1>10, <1>12, <2>1, <3>1 DEF Sane, AgreesIn, Detached, SavedWith
  <2>2. CASE target # Detached
    BY <1>5, <1>6, <1>10, <1>12, <2>2 DEF AgreesIn, SavedWith
  <2> QED BY <2>1, <2>2
<1>14. token \in Nat /\ token # 0 /\ token <= x.next
  BY <1>1 DEF SessionSet
<1>15. Sane(y)
  <2>1. y.rev <= y.latest /\ DOMAIN y.pending \subseteq 1 .. y.next
    BY <1>12 DEF Sane
  <2>2. y.adopted.token <= y.next /\ y.adopted.token # 0
    BY <1>10, <1>12, <1>14
  <2> QED BY <1>11, <1>13, <2>1, <2>2, Zenon DEF Sane
<1> QED BY <1>10, <1>12, <1>15 DEF y

-----------------------------------------------------------------------------
(* The events of a load that was adopted. *)

LEMMA OnStateIs ==
  ASSUME NEW x \in SessionSet, NEW state \in States
  PROVE  OnState(x, state) \in SessionSet /\ Keeps(x, OnState(x, state))
<1> DEFINE y == [x EXCEPT !.playback = state]
           z == [y EXCEPT !.target = NoPos, !.established = TRUE,
                          !.completed = FALSE, !.seen = <<0, 0>>]
           w == [y EXCEPT !.force = x.rev]
<1>1. y \in SessionSet
  BY DEF SessionSet
<1>2. Keeps(x, y)
  BY DEF SessionSet, Keeps
<1> HIDE DEF y
<1>3. z \in SessionSet
  BY ZenonT(60), <1>1, NoPosIn DEF SessionSet
<1>4. Keeps(y, z)
  BY <1>1 DEF SessionSet, Keeps
<1>5. w \in SessionSet
  BY <1>1 DEF SessionSet
<1>6. Keeps(y, w)
  BY <1>1 DEF SessionSet, Keeps
<1>7. OnState(x, state) \in {y, z, w}
  BY DEF OnState, y
<1> HIDE DEF z, w
<1>8. Keeps(x, z) /\ Keeps(x, w)
  BY <1>2, <1>4, <1>6 DEF Keeps
<1> QED BY <1>1, <1>2, <1>3, <1>5, <1>7, <1>8

LEMMA OnLandingIs ==
  ASSUME NEW x \in SessionSet, NEW ev \in EventSet
  PROVE  OnLanding(x, ev) \in SessionSet /\ Keeps(x, OnLanding(x, ev))
<1> DEFINE y == [x EXCEPT !.target = NoPos, !.established = TRUE, !.completed = FALSE,
                          !.seen = <<0, 0>>]
           guess == Estimated(ev.pos)
           protected == x.protected /\ guess
           z == [y EXCEPT !.guess = guess, !.protected = protected, !.force = ev.rev]
<1>1. y \in SessionSet
  BY NoPosIn DEF SessionSet
<1>2. Keeps(x, y)
  BY DEF SessionSet, Keeps
<1>3. guess \in BOOLEAN /\ protected \in BOOLEAN /\ ev.rev \in Nat
  BY DEF EventSet, Estimated
<1>4. OnLanding(x, ev) = z
  BY DEF OnLanding
<1> HIDE DEF y, guess, protected
<1>5. z \in SessionSet
  BY ZenonT(60), <1>1, <1>3 DEF SessionSet
<1>6. Keeps(y, z)
  BY <1>1 DEF SessionSet, Keeps
<1> QED BY <1>2, <1>4, <1>5, <1>6 DEF Keeps

LEMMA OnTargetStoredIs ==
  ASSUME NEW x \in SessionSet, NEW ev \in EventSet
  PROVE  OnTargetStored(x, ev) \in SessionSet /\ Keeps(x, OnTargetStored(x, ev))
<1> DEFINE y == [x EXCEPT !.target = ev.pos, !.established = TRUE, !.completed = FALSE,
                          !.seen = <<0, 0>>]
<1>0. ev.pos \in Positions
  BY DEF EventSet
<1>1. y \in SessionSet
  BY <1>0 DEF SessionSet
<1>2. Keeps(x, y)
  BY DEF SessionSet, Keeps
<1>3. OnTargetStored(x, ev) = RecordCurrent(y, ev.pos)
  BY DEF OnTargetStored
<1> HIDE DEF y
<1>4. OnTargetStored(x, ev) \in SessionSet /\ Keeps(y, OnTargetStored(x, ev))
  BY <1>0, <1>1, <1>3, RecordCurrentIs, RecordedKeeps
<1> QED BY <1>2, <1>4 DEF Keeps

LEMMA OnEndOfTrackIs ==
  ASSUME NEW x \in SessionSet, NEW ev \in EventSet
  PROVE  OnEndOfTrack(x, ev) \in SessionSet /\ Keeps(x, OnEndOfTrack(x, ev))
<1> DEFINE key == <<x.adopted.token, x.rev>>
           guess == Estimated(ev.pos)
           protected == x.protected /\ guess
           y == [x EXCEPT !.seen = key, !.target = NoPos, !.established = TRUE,
                          !.completed = TRUE]
           z == [y EXCEPT !.guess = guess, !.protected = protected]
           following == IF Has(x.set, x.adopted.target)
                        THEN Following(x.set, x.adopted.target) ELSE None
<1>1. key \in Nat \X Nat /\ ev.pos \in Positions /\ guess \in BOOLEAN /\ protected \in BOOLEAN
  BY DEF SessionSet, Loads, EventSet, Estimated
<1> HIDE DEF key
<1>2. y \in SessionSet
  BY <1>1, NoPosIn DEF SessionSet
<1>3. Keeps(x, y)
  BY DEF SessionSet, Keeps
<1> HIDE DEF guess, protected, y
<1>4. z \in SessionSet
  BY ZenonT(60), <1>1, <1>2 DEF SessionSet
<1>5. Keeps(y, z)
  BY <1>2 DEF SessionSet, Keeps
<1>6. following \in Nat
  <2>1. SoundSet(x.set)
    BY DEF SessionSet, SoundSets
  <2> QED BY <2>1, FollowingIs DEF None
<1> HIDE DEF z
<1>7. PICK w : w = RecordCurrent(z, ev.pos)
  OBVIOUS
<1>8. w \in SessionSet /\ Keeps(z, w)
  BY <1>1, <1>4, <1>7, RecordCurrentIs, RecordedKeeps
<1>9. Keeps(x, w)
  BY <1>3, <1>5, <1>8 DEF Keeps
<1> DEFINE advance == IF x.adopted.target = Detached THEN w.advance ELSE following
           v == [w EXCEPT !.advance = advance]
<1>10. advance \in Nat
  BY <1>6, <1>8 DEF SessionSet
<1>11. OnEndOfTrack(x, ev) \in {x, v}
  BY <1>7 DEF OnEndOfTrack, key, guess, protected, y, z
<1> HIDE DEF advance
<1>12. v \in SessionSet
  BY <1>8, <1>10 DEF SessionSet
<1>13. Keeps(w, v)
  BY <1>8 DEF SessionSet, Keeps
<1>14. Keeps(x, x) /\ Keeps(x, v)
  BY <1>9, <1>13 DEF Keeps
<1> QED BY <1>11, <1>12, <1>14

(* An event of the playback itself moves the revisions on, to its own. *)
LEMMA MediaEventIs ==
  ASSUME NEW x, Sane(x), NEW ev \in EventSet
  PROVE  LET y == MediaEvent(x, ev) IN
         /\ Sane(y) /\ y.next = x.next /\ y.pending = x.pending
         /\ y.latest = ev.rev
<1> DEFINE force == IF x.force = 0 THEN 0 ELSE ev.rev
           z == [x EXCEPT !.latest = ev.rev, !.rev = ev.rev, !.force = force]
           w == [z EXCEPT !.checkpointable = z.checkpointable /\ ~ev.live]
           y == MediaEvent(x, ev)
<1>1. x \in SessionSet /\ ev.rev \in Nat /\ force \in Nat /\ ev.state \in States
  BY DEF Sane, EventSet
<1> HIDE DEF force
<1>2. z \in SessionSet
  BY <1>1 DEF SessionSet
<1>3. /\ z.set = x.set /\ z.saved = x.saved /\ z.rev = ev.rev /\ z.latest = ev.rev
      /\ z.next = x.next /\ z.pending = x.pending /\ z.adopted = x.adopted
  BY <1>1 DEF SessionSet
<1> HIDE DEF z
<1>4. Sane(z)
  <2>1. z.rev <= z.latest
    BY <1>1, <1>3
  <2> QED BY <1>2, <1>3, <2>1 DEF Sane, AgreesIn
<1>5. w \in SessionSet
  <2>1. (z.checkpointable /\ ~ev.live) \in BOOLEAN
    OBVIOUS
  <2> QED BY ZenonT(60), <1>2, <2>1 DEF SessionSet
<1>6. Keeps(z, w)
  BY <1>2 DEF SessionSet, Keeps
<1>7. Keeps(z, z)
  BY DEF Keeps
<1>8. y \in {OnState(z, ev.state), OnLanding(z, ev), OnTargetStored(z, ev),
             OnEndOfTrack(z, ev), w, z}
  BY DEF MediaEvent, z, force
<1> HIDE DEF w, y
<1>9. y \in SessionSet /\ Keeps(z, y)
  BY <1>1, <1>2, <1>5, <1>6, <1>7, <1>8, OnStateIs, OnLandingIs, OnTargetStoredIs, OnEndOfTrackIs
<1>10. Sane(y)
  BY <1>4, <1>9, KeepsSane
<1> QED BY <1>3, <1>9, <1>10 DEF Keeps, y

-----------------------------------------------------------------------------
(* Any event, observed. *)

(* The session after an answer of revision rev, and the load it leaves as last. *)
WithLatest(x, rev, last) == [x EXCEPT !.latest = rev, !.last = last]

LEMMA LatestIs ==
  ASSUME NEW x, Sane(x), NEW rev \in Nat, rev >= x.latest, NEW last \in Nat
  PROVE  LET y == WithLatest(x, rev, last) IN
         /\ Sane(y) /\ y.next = x.next /\ y.pending = x.pending /\ y.latest = rev
         /\ y.set = x.set /\ y.rev = x.rev /\ y.adopted = x.adopted
<1> DEFINE y == WithLatest(x, rev, last)
<1> USE DEF WithLatest
<1>1. x \in SessionSet
  BY DEF Sane
<1>2. y \in SessionSet
  BY <1>1 DEF SessionSet
<1>3. /\ y.set = x.set /\ y.saved = x.saved /\ y.rev = x.rev /\ y.latest = rev
      /\ y.next = x.next /\ y.pending = x.pending /\ y.adopted = x.adopted
  BY <1>1 DEF SessionSet
<1> HIDE DEF y, WithLatest
<1>4. y.rev <= y.latest
  BY <1>1, <1>3 DEF SessionSet, Sane
<1>5. Sane(y)
  BY <1>2, <1>3, <1>4 DEF Sane, AgreesIn
<1> QED BY <1>3, <1>5 DEF y

LEMMA RevIs ==
  ASSUME NEW x, Sane(x), NEW rev \in Nat, rev = x.latest
  PROVE  LET y == [x EXCEPT !.rev = rev] IN
         /\ Sane(y) /\ y.next = x.next /\ y.pending = x.pending /\ y.latest = x.latest
         /\ y.set = x.set /\ y.rev = rev /\ y.adopted = x.adopted
<1> DEFINE y == [x EXCEPT !.rev = rev]
<1>1. x \in SessionSet
  BY DEF Sane
<1>2. y \in SessionSet
  BY <1>1 DEF SessionSet
<1>3. /\ y.set = x.set /\ y.saved = x.saved /\ y.rev = rev /\ y.latest = x.latest
      /\ y.next = x.next /\ y.pending = x.pending /\ y.adopted = x.adopted
  BY <1>1 DEF SessionSet
<1> HIDE DEF y
<1>4. Sane(y)
  BY <1>2, <1>3 DEF Sane, AgreesIn
<1> QED BY <1>3, <1>4 DEF y

LEMMA StopIs ==
  ASSUME NEW x, Sane(x), NEW stop \in BOOLEAN
  PROVE  LET y == [x EXCEPT !.stop = stop] IN
         /\ Sane(y) /\ y.next = x.next /\ y.pending = x.pending /\ y.latest = x.latest
<1> DEFINE y == [x EXCEPT !.stop = stop]
<1>1. x \in SessionSet
  BY DEF Sane
<1>2. y \in SessionSet
  BY <1>1 DEF SessionSet
<1>3. Keeps(x, y)
  BY <1>1 DEF SessionSet, Keeps
<1> QED BY <1>2, <1>3, KeepsSane DEF Keeps

(* The events the engine may have sent by revision r, of loads up to n. *)
Known(n, r) ==
    {ev \in EventSet : /\ ev.rev <= r /\ ev.token <= n
                       /\ ev.k = "Loaded" => ev.media \in Media}

Answered(x, ev) == IF IsOutcome(ev) THEN DOMAIN x.pending \ {ev.token} ELSE DOMAIN x.pending

(* An outcome that is waited for retires its registration. *)
LEMMA OutcomeIs ==
  ASSUME NEW x, Sane(x), NEW ev \in EventSet, ev.k = "Loaded" => ev.media \in Media,
         IsOutcome(ev), ev.token \in DOMAIN x.pending
  PROVE  LET y == Observe(x, ev) IN
         /\ Sane(y) /\ y.next = x.next /\ DOMAIN y.pending = DOMAIN x.pending \ {ev.token}
         /\ y.latest \in {x.latest, ev.rev} /\ x.latest <= y.latest
<1> DEFINE gone == Retract(x, ev.token)
           known == WithLatest(gone, ev.rev, 0)
           later == WithLatest(gone, ev.rev, ev.token)
           stopping == [later EXCEPT !.stop = TRUE]
           owning == [later EXCEPT !.rev = ev.rev]
           target == x.pending[ev.token].target
           adopting == AdoptLoaded(owning, ev.token, target, ev)
           y == Observe(x, ev)
<1>1. /\ x \in SessionSet /\ ev.rev \in Nat /\ x.latest \in Nat /\ ev.token \in 1 .. x.next
      /\ ev.token \in Nat
  BY DEF Sane, SessionSet, EventSet
<1>2. /\ Sane(gone) /\ gone.next = x.next /\ DOMAIN gone.pending = DOMAIN x.pending \ {ev.token}
      /\ gone.set = x.set /\ gone.latest = x.latest /\ gone.rev = x.rev
  BY RetractIs
<1>3. IsOutcome(ev) /\ ev.token \in DOMAIN x.pending
  OBVIOUS
<1> HIDE DEF gone, target
<1>4. CASE ev.rev < x.latest
  <2>1. y = gone
    BY <1>1, <1>3, <1>4 DEF Observe, LoadOutcome, WithLatest, gone
  <2> HIDE DEF y
  <2> QED BY <1>1, <1>2, <2>1 DEF y
<1>5. CASE ev.rev >= x.latest
  <2>0. ~(ev.rev < x.latest)
    BY <1>1, <1>5
  <2>1. /\ Sane(known) /\ known.next = gone.next /\ known.pending = gone.pending
        /\ known.latest = ev.rev
    BY <1>1, <1>2, <1>5, LatestIs
  <2>2. /\ Sane(later) /\ later.next = gone.next /\ later.pending = gone.pending
        /\ later.latest = ev.rev /\ later.set = gone.set
    BY <1>1, <1>2, <1>5, LatestIs
  <2>3. CASE ev.k # "Loaded"
    <3>1. y = known
      BY <1>3, <1>5, <2>0, <2>3 DEF Observe, LoadOutcome, WithLatest, gone
    <3> HIDE DEF y, known
    <3> QED BY <1>1, <1>2, <1>5, <2>1, <3>1 DEF y
  <2>4. CASE ev.k = "Loaded" /\ ~Accepts(x, ev)
    <3>1. y = stopping
      BY <1>3, <1>5, <2>0, <2>4 DEF Observe, LoadOutcome, WithLatest, gone
    <3> HIDE DEF later, y
    <3>2. /\ Sane(stopping) /\ stopping.next = later.next /\ stopping.pending = later.pending
          /\ stopping.latest = later.latest
      BY <2>2, StopIs
    <3> HIDE DEF stopping
    <3> QED BY <1>1, <1>2, <1>5, <2>2, <3>1, <3>2 DEF y
  <2>5. CASE ev.k = "Loaded" /\ Accepts(x, ev)
    <3>1. y = adopting
      BY <1>3, <1>5, <2>0, <2>5 DEF Observe, LoadOutcome, WithLatest, gone, target
    <3> HIDE DEF later, y
    <3>2. /\ Sane(owning) /\ owning.next = later.next /\ owning.pending = later.pending
          /\ owning.latest = later.latest /\ owning.set = later.set
      BY <1>1, <2>2, RevIs
    <3> HIDE DEF owning
    <3>3. Adoptable(owning, target, ev.media) /\ ev.media \in Media
      BY <1>2, <2>2, <2>5, <3>2 DEF Accepts, Registered, Adoptable, target
    <3>4. ev.token \in 1 .. owning.next
      BY <1>1, <1>2, <2>2, <3>2
    <3>5. /\ Sane(adopting) /\ adopting.next = owning.next /\ adopting.pending = owning.pending
          /\ adopting.latest = owning.latest
      BY <3>2, <3>3, <3>4, AdoptLoadedIs
    <3> HIDE DEF adopting
    <3> QED BY <1>1, <1>2, <1>5, <2>2, <3>1, <3>2, <3>5 DEF y
  <2> QED BY <2>3, <2>4, <2>5
<1> QED BY <1>1, <1>4, <1>5

LEMMA ObserveIs ==
  ASSUME NEW x, Sane(x), NEW n \in Nat, NEW r \in Nat, NEW ev \in Known(n, r)
  PROVE  LET y == Observe(x, ev) IN
         /\ Sane(y) /\ y.next = x.next /\ DOMAIN y.pending = Answered(x, ev)
         /\ y.latest \in {x.latest, ev.rev}
<1> DEFINE y == Observe(x, ev)
           shown == [x EXCEPT !.playback = "Loading"]
           late == WithLatest(shown, ev.rev, 0)
<1>1. /\ x \in SessionSet /\ ev \in EventSet /\ ev.rev \in Nat /\ x.latest \in Nat
      /\ ev.k = "Loaded" => ev.media \in Media
  BY DEF Sane, SessionSet, EventSet, Known
<1>2. CASE IsOutcome(ev)
  <2>1. CASE ev.token \in DOMAIN x.pending
    <3> HIDE DEF y
    <3>1. Sane(y) /\ y.next = x.next /\ DOMAIN y.pending = DOMAIN x.pending \ {ev.token}
          /\ y.latest \in {x.latest, ev.rev}
      BY <1>1, <1>2, <2>1, OutcomeIs DEF y
    <3> QED BY <1>2, <3>1 DEF Answered, y
  <2>2. CASE ev.token \notin DOMAIN x.pending
    <3>1. y = x
      BY <1>2, <2>2 DEF Observe
    <3> HIDE DEF y
    <3> QED BY <1>2, <2>2, <3>1 DEF Answered, y
  <2> QED BY <2>1, <2>2
<1>3. CASE ~IsOutcome(ev) /\ ev.k = "State" /\ ev.state = "Loading" /\ ev.token \in DOMAIN x.pending
  <2>1. y = IF ev.rev < x.latest THEN shown ELSE late
    <3>1. y = Loading(x, ev)
      BY <1>3 DEF Observe
    <3>2. shown.latest = x.latest
      BY <1>1 DEF SessionSet
    <3> QED BY <3>1, <3>2 DEF Loading, WithLatest
  <2>2. shown \in SessionSet
    BY <1>1 DEF SessionSet, States
  <2>3. Keeps(x, shown)
    BY <1>1 DEF SessionSet, Keeps
  <2> HIDE DEF shown, y
  <2>4. Sane(shown)
    BY <2>2, <2>3, KeepsSane
  <2>5. CASE ev.rev < x.latest
    <3>1. y = shown
      BY <2>1, <2>5
    <3> QED BY <1>3, <2>3, <2>4, <3>1 DEF Answered, Keeps, y
  <2>6. CASE ~(ev.rev < x.latest)
    <3>0. y = late
      BY <2>1, <2>6
    <3>1. ev.rev >= shown.latest
      BY <1>1, <2>3, <2>6 DEF Keeps
    <3>2. /\ Sane(late) /\ late.next = shown.next /\ late.pending = shown.pending
          /\ late.latest = ev.rev
      BY <1>1, <2>4, <3>1, LatestIs
    <3> HIDE DEF late
    <3> QED BY <1>3, <2>3, <3>0, <3>2 DEF Answered, Keeps, y
  <2> QED BY <2>5, <2>6
<1>4. CASE ~IsOutcome(ev)
           /\ ~(ev.k = "State" /\ ev.state = "Loading" /\ ev.token \in DOMAIN x.pending)
  <2>1. y = IF Accepts(x, ev) THEN MediaEvent(x, ev) ELSE x
    BY <1>4 DEF Observe
  <2>2. CASE Accepts(x, ev)
    <3>1. y = MediaEvent(x, ev)
      BY <2>1, <2>2
    <3> HIDE DEF y
    <3>2. Sane(y) /\ y.next = x.next /\ y.pending = x.pending /\ y.latest = ev.rev
      BY <1>1, <3>1, MediaEventIs
    <3> QED BY <1>4, <3>2 DEF Answered, y
  <2>3. CASE ~Accepts(x, ev)
    <3>1. y = x
      BY <2>1, <2>3
    <3> HIDE DEF y
    <3> QED BY <1>4, <3>1 DEF Answered, y
  <2> QED BY <2>2, <2>3
<1> QED BY <1>2, <1>3, <1>4

-----------------------------------------------------------------------------
(* Entries go. *)

(* What giving up a set of entries leaves: the loads registered for them are  *)
(* void, and playback of one of them is released. *)
Vacated(x, ids, y) ==
    /\ y \in SessionSet /\ DOMAIN y.pending = DOMAIN x.pending
    /\ y.set = x.set /\ y.saved = x.saved /\ y.rev = x.rev /\ y.latest = x.latest
    /\ y.next = x.next
    /\ y.adopted = IF OwnsAny(x, ids) THEN NoLoad ELSE x.adopted

LEMMA VacateIs ==
  ASSUME NEW x \in SessionSet, NEW ids, NEW p \in Samplings
  PROVE  Vacated(x, ids, Vacate(x, ids, p))
<1> DEFINE f == [t \in DOMAIN x.pending |->
                   IF x.pending[t].target \in ids THEN [x.pending[t] EXCEPT !.valid = FALSE]
                   ELSE x.pending[t]]
           y == [x EXCEPT !.pending = f]
           c == CaptureCurrent(y, p)
           z == [c EXCEPT !.adopted = NoLoad, !.sample = NoSample]
<1>1. f \in Pendings /\ DOMAIN f = DOMAIN x.pending
  <2>1. DOMAIN x.pending \in SUBSET Nat /\ x.pending \in [DOMAIN x.pending -> Registrations]
    BY PendingOut DEF SessionSet
  <2> DEFINE D == DOMAIN x.pending
  <2>2. f \in [D -> Registrations]
    BY <2>1 DEF Registrations
  <2>3. D \in SUBSET Nat
    BY <2>1
  <2> HIDE DEF D, f
  <2>4. f \in Pendings /\ DOMAIN f = D
    BY <2>2, <2>3, PendingIn
  <2> QED BY <2>4 DEF D
<1>2. Vacate(x, ids, p) = IF OwnsAny(x, ids) THEN z ELSE y
  BY DEF Vacate, Invalidate, ReleaseActive
<1> HIDE DEF f
<1>3. y \in SessionSet
  BY <1>1 DEF SessionSet
<1>4. /\ y.pending = f /\ y.next = x.next /\ y.set = x.set /\ y.saved = x.saved
      /\ y.adopted = x.adopted /\ y.latest = x.latest /\ y.rev = x.rev
  BY DEF SessionSet
<1> HIDE DEF y
<1>5. c \in SessionSet /\ Keeps(y, c)
  BY <1>3, CaptureCurrentIs
<1> HIDE DEF c
<1>6. z \in SessionSet
  BY <1>5, NoLoadIn, NoSampleIn DEF SessionSet
<1>7. /\ z.pending = f /\ z.next = x.next /\ z.set = x.set /\ z.saved = x.saved
      /\ z.adopted = NoLoad /\ z.latest = x.latest /\ z.rev = x.rev
  BY <1>4, <1>5 DEF SessionSet, Keeps
<1> HIDE DEF z
<1>8. CASE OwnsAny(x, ids)
  BY <1>1, <1>2, <1>6, <1>7, <1>8 DEF Vacated
<1>9. CASE ~OwnsAny(x, ids)
  BY <1>1, <1>2, <1>3, <1>4, <1>9 DEF Vacated
<1> QED BY <1>8, <1>9

(* The session with another set. *)
WithPlaylists(x, set, saved) == [x EXCEPT !.set = set, !.saved = saved]

LEMMA WithPlaylistsIs ==
  ASSUME NEW x \in SessionSet, NEW set, SoundSet(set), NEW saved \in MediaN
  PROVE  LET y == WithPlaylists(x, set, saved) IN
         /\ y \in SessionSet /\ y.set = set /\ y.saved = saved
         /\ y.next = x.next /\ y.pending = x.pending /\ y.adopted = x.adopted
         /\ y.latest = x.latest /\ y.rev = x.rev
<1> DEFINE y == WithPlaylists(x, set, saved)
<1> USE DEF WithPlaylists
<1>1. set \in SoundSets
  BY DEF SoundSets, SoundSet
<1>2. y \in SessionSet
  BY <1>1 DEF SessionSet
<1>3. /\ y.set = set /\ y.saved = saved
      /\ y.next = x.next /\ y.pending = x.pending /\ y.adopted = x.adopted
      /\ y.latest = x.latest /\ y.rev = x.rev
  BY DEF SessionSet
<1> QED BY <1>2, <1>3

(* A change of the set that takes the entries ids away. *)
Without(x, ids, y) ==
    /\ Sane(y) /\ y.next = x.next /\ DOMAIN y.pending = DOMAIN x.pending
    /\ y.latest = x.latest

(* The entries go after playback of them was given up, and the cursor either  *)
(* stays with the saved media or goes. *)
LEMMA WithoutIs ==
  ASSUME NEW x, Sane(x), NEW ids, NEW v, Vacated(x, ids, v),
         NEW set, SoundSet(set), SameMediaIn(x.set, set), NEW saved \in MediaN,
         Cursor(set) # None => saved = MediaOf(set, Cursor(set)),
         x.adopted.target # None /\ Cursor(set) # Cursor(x.set) => x.adopted.target \in ids
  PROVE  Without(x, ids, WithPlaylists(v, set, saved))
<1> DEFINE y == WithPlaylists(v, set, saved)
<1>1. v \in SessionSet
  BY DEF Vacated
<1>2. /\ y \in SessionSet /\ y.set = set /\ y.saved = saved
      /\ y.next = v.next /\ y.pending = v.pending /\ y.adopted = v.adopted
      /\ y.latest = v.latest /\ y.rev = v.rev
  BY <1>1, WithPlaylistsIs
<1> HIDE DEF y
<1>3. /\ DOMAIN v.pending = DOMAIN x.pending /\ v.rev = x.rev /\ v.latest = x.latest
      /\ v.next = x.next
      /\ v.adopted = IF OwnsAny(x, ids) THEN NoLoad ELSE x.adopted
  BY DEF Vacated
<1>4. /\ x.rev <= x.latest /\ DOMAIN x.pending \subseteq 1 .. x.next
      /\ x.adopted.token <= x.next /\ x.next \in Nat
      /\ x.adopted.target # None => x.adopted.token # 0 /\ Cursor(x.set) = x.adopted.target
  BY DEF Sane, AgreesIn, SessionSet
<1>5. Cursor(set) # None => Has(set, Cursor(set))
  BY CursorIs
<1>6. /\ v.adopted.token <= x.next
      /\ v.adopted.target # None => v.adopted.token # 0 /\ v.adopted = x.adopted
  BY <1>3, <1>4, NoLoadIn
<1>7. y.adopted.target # None => Cursor(set) = y.adopted.target
  <2> SUFFICES ASSUME y.adopted.target # None PROVE Cursor(set) = y.adopted.target
    OBVIOUS
  <2>1. y.adopted = x.adopted /\ x.adopted.token # 0 /\ Cursor(x.set) = x.adopted.target
    BY <1>2, <1>4, <1>6
  <2>2. ~OwnsAny(x, ids)
    BY <1>2, <1>3, <2>1, NoLoadIn
  <2>3. x.adopted.target \notin ids
    BY <2>1, <2>2 DEF OwnsAny
  <2> QED BY <2>1, <2>3
<1>8. AgreesIn(y)
  BY <1>2, <1>5, <1>7 DEF AgreesIn
<1>9. Sane(y)
  BY <1>2, <1>3, <1>4, <1>6, <1>8 DEF Sane
<1> QED BY <1>2, <1>3, <1>9 DEF Without, y

(* What plays is the entry at the cursor, of the list that plays. *)
LEMMA CursorWithin ==
  ASSUME NEW x, Sane(x)
  PROVE  /\ SoundSet(x.set) /\ x.saved \in MediaN
         /\ Cursor(x.set) # None =>
              /\ Has(x.set, Cursor(x.set)) /\ x.saved = MediaOf(x.set, Cursor(x.set))
              /\ Cursor(x.set) \in Ids(x.set.lists[Index(x.set, x.set.playing)])
         /\ x.adopted.target # None => Cursor(x.set) = x.adopted.target
<1>1. SoundSet(x.set) /\ x.saved \in MediaN
  BY DEF Sane, SessionSet, SoundSets
<1>2. /\ Cursor(x.set) # None => Has(x.set, Cursor(x.set)) /\ x.saved = MediaOf(x.set, Cursor(x.set))
      /\ x.adopted.target # None => Cursor(x.set) = x.adopted.target
  BY DEF Sane, AgreesIn
<1>3. ASSUME Cursor(x.set) # None
      PROVE  Cursor(x.set) \in Ids(x.set.lists[Index(x.set, x.set.playing)])
  <2> DEFINE k == Index(x.set, x.set.playing)
  <2>1. k \in DOMAIN x.set.lists /\ Cursor(x.set) = x.set.lists[k].cursor
    BY <1>1, CursorIs
  <2> HIDE DEF k
  <2>2. x.set.lists[k].cursor \in Ids(x.set.lists[k]) \union {None}
    BY <1>1, <2>1 DEF SoundSet
  <2> QED BY <1>3, <2>1, <2>2 DEF k
<1> QED BY <1>1, <1>2, <1>3

LEMMA RemoveEntryIs ==
  ASSUME NEW x, Sane(x), NEW id, Has(x.set, id), NEW p \in Samplings
  PROVE  Without(x, {id}, RemoveEntry(x, id, p))
<1>1. PICK v : v = Vacate(x, {id}, p)
  OBVIOUS
<1>2. Vacated(x, {id}, v) /\ v \in SessionSet /\ v.set = x.set /\ v.saved = x.saved
  BY <1>1, VacateIs DEF Sane, Vacated
<1>3. PICK set : set = RemoveFrom(x.set, id)
  OBVIOUS
<1>4. /\ SoundSet(set) /\ SameMediaIn(x.set, set)
      /\ Cursor(set) = IF Cursor(x.set) = id THEN None ELSE Cursor(x.set)
  BY <1>3, CursorWithin, RemoveFromIs
<1>5. RemoveEntry(x, id, p) = [v EXCEPT !.set = set]
  BY <1>1, <1>2, <1>3 DEF RemoveEntry
<1>6. [v EXCEPT !.set = set] = WithPlaylists(v, set, x.saved)
  BY <1>2 DEF SessionSet, WithPlaylists
<1>7. Cursor(set) # None => x.saved = MediaOf(set, Cursor(set))
  <2>1. ASSUME Cursor(set) # None PROVE Has(set, Cursor(set)) /\ Cursor(set) = Cursor(x.set)
    BY <1>4, <2>1, CursorIs
  <2> QED BY <1>4, <2>1, CursorWithin DEF SameMediaIn
<1>8. x.adopted.target # None /\ Cursor(set) # Cursor(x.set) => x.adopted.target \in {id}
  BY <1>4, CursorWithin
<1>9. x.saved \in MediaN
  BY CursorWithin
<1>10. Without(x, {id}, WithPlaylists(v, set, x.saved))
  BY <1>2, <1>4, <1>7, <1>8, <1>9, WithoutIs
<1> QED BY <1>5, <1>6, <1>10

LEMMA ClearPlaylistIs ==
  ASSUME NEW x, Sane(x), NEW list \in Members(x.set), NEW p \in Samplings
  PROVE  Without(x, Ids(x.set.lists[Index(x.set, list)]), ClearPlaylist(x, list, p))
<1>0. PICK ids : ids = Ids(x.set.lists[Index(x.set, list)])
  OBVIOUS
<1>1. PICK v : v = Vacate(x, ids, p)
  OBVIOUS
<1>2. Vacated(x, ids, v) /\ v \in SessionSet /\ v.set = x.set /\ v.saved = x.saved
  BY <1>1, VacateIs DEF Sane, Vacated
<1>3. PICK set : set = ClearList(x.set, list)
  OBVIOUS
<1>4. /\ SoundSet(set) /\ SameMediaIn(x.set, set)
      /\ Cursor(set) = IF x.set.playing = list THEN None ELSE Cursor(x.set)
  BY <1>3, CursorWithin, ClearListIs
<1>5. ClearPlaylist(x, list, p) = [v EXCEPT !.set = set]
  BY <1>0, <1>1, <1>2, <1>3 DEF ClearPlaylist
<1>6. [v EXCEPT !.set = set] = WithPlaylists(v, set, x.saved)
  BY <1>2 DEF SessionSet, WithPlaylists
<1>7. Cursor(set) # None => x.saved = MediaOf(set, Cursor(set))
  <2>1. ASSUME Cursor(set) # None PROVE Has(set, Cursor(set)) /\ Cursor(set) = Cursor(x.set)
    BY <1>4, <2>1, CursorIs
  <2> QED BY <1>4, <2>1, CursorWithin DEF SameMediaIn
<1>8. x.adopted.target # None /\ Cursor(set) # Cursor(x.set) => x.adopted.target \in ids
  BY <1>0, <1>4, CursorWithin
<1>9. x.saved \in MediaN
  BY CursorWithin
<1>10. Without(x, ids, WithPlaylists(v, set, x.saved))
  BY <1>2, <1>4, <1>7, <1>8, <1>9, WithoutIs
<1> QED BY <1>0, <1>5, <1>6, <1>10

LEMMA DeletePlaylistIs ==
  ASSUME NEW x, Sane(x), NEW list, Deletable(x.set, list), NEW p \in Samplings
  PROVE  Without(x, Ids(x.set.lists[Index(x.set, list)]), DeletePlaylist(x, list, p))
<1>0. PICK ids : ids = Ids(x.set.lists[Index(x.set, list)])
  OBVIOUS
<1>1. PICK v : v = Vacate(x, ids, p)
  OBVIOUS
<1>2. Vacated(x, ids, v) /\ v \in SessionSet /\ v.set = x.set /\ v.saved = x.saved
  BY <1>1, VacateIs DEF Sane, Vacated
<1>3. PICK set : set = DeleteList(x.set, list)
  OBVIOUS
<1>4. /\ SoundSet(set) /\ SameMediaIn(x.set, set)
      /\ x.set.playing # list => Cursor(set) = Cursor(x.set)
  BY <1>3, CursorWithin, DeleteListIs
<1> DEFINE saved == CASE x.set.playing # list -> x.saved
                      [] x.set.playing = list /\ Cursor(set) = None -> NoMedia
                      [] OTHER -> MediaOf(set, Cursor(set))
<1>5. DeletePlaylist(x, list, p) = WithPlaylists(v, set, saved)
  BY <1>0, <1>1, <1>2, <1>3 DEF DeletePlaylist, WithPlaylists
<1>6. Cursor(set) # None => Has(set, Cursor(set))
  BY <1>4, CursorIs
<1>7. CASE x.set.playing # list
  <2>1. saved = x.saved
    BY <1>7
  <2> HIDE DEF saved
  <2>2. saved \in MediaN /\ Cursor(set) = Cursor(x.set)
    BY <1>4, <1>7, <2>1, CursorWithin
  <2>3. Cursor(set) # None => saved = MediaOf(set, Cursor(set))
    BY <1>4, <1>6, <2>1, <2>2, CursorWithin DEF SameMediaIn
  <2>4. Without(x, ids, WithPlaylists(v, set, saved))
    BY <1>2, <1>4, <2>2, <2>3, WithoutIs
  <2> QED BY <1>0, <1>5, <2>4
<1>8. CASE x.set.playing = list
  <2>1. saved = IF Cursor(set) = None THEN NoMedia ELSE MediaOf(set, Cursor(set))
    BY <1>8
  <2> HIDE DEF saved
  <2>2. saved \in MediaN /\ (Cursor(set) # None => saved = MediaOf(set, Cursor(set)))
    BY <1>4, <1>6, <2>1, MediaOfEntry DEF MediaN
  <2>3. x.adopted.target # None => x.adopted.target \in ids
    BY <1>0, <1>8, CursorWithin
  <2>4. Without(x, ids, WithPlaylists(v, set, saved))
    BY <1>2, <1>4, <2>2, <2>3, WithoutIs
  <2> QED BY <1>0, <1>5, <2>4
<1> QED BY <1>7, <1>8

-----------------------------------------------------------------------------
(* The inductive invariant, and the engine's events. *)

Intents == [what : {"none", "guess", "sure", "seek", "restart"}, to : Positions]
Commands ==
    [cmd : {"Load", "PlayLoaded", "Play", "Pause", "Seek", "Restart"}, token : Nat,
     media : MediaN, resume : Intents]
Submitted(n) == {c \in Commands : c.token <= n /\ (c.cmd = "Load" => c.media \in Media)}
Mirrors == [load : Nat, rev : Nat, state : States, live : BOOLEAN]
EngineSet ==
    [rev : Nat, state : States, media : MediaN, load : Nat, loading : Nat, resume : Intents,
     at : Positions, pend : Intents, live : BOOLEAN, fixed : BOOLEAN, closed : BOOLEAN,
     heard : SUBSET Nat, earned : SUBSET MediaN, revived : BOOLEAN]

EngineOk ==
    /\ e \in EngineSet
    /\ e.load <= s.next /\ e.loading <= s.next
    /\ e.loading # 0 => e.media \in Media
    /\ s.latest <= e.rev
QueueOk == cmds \in Seq(Submitted(s.next)) /\ Len(cmds) <= QueueCap
EventsOk == events \in Seq(Known(s.next, e.rev))
FrontEndOk ==
    /\ Sane(s) /\ Cardinality(DOMAIN s.pending) <= MaxPending
    /\ app \in {"ui", "drain", "sample", "join", "closing", "joined", "done"}
    /\ detached \in {"no", "yes", "failed"} /\ stopBit \in BOOLEAN
    /\ mirror \in Mirrors /\ mirror.load <= s.next
    /\ plan \in Plans

(* Inductive. *)
RuntimeInv == FrontEndOk /\ EngineOk /\ QueueOk /\ EventsOk /\ PendingIsOwed

(* Positions stay positions. *)
LEMMA NoIntentIn == NoIntent \in Intents
BY NoPosIn DEF NoIntent, Intents

LEMMA StartIn == ASSUME NEW m \in MediaN, NEW n \in Nat PROVE StartOf(m, n) \in Positions
BY DEF StartOf, Positions, MediaN

LEMMA LandingsIn == ASSUME NEW m \in MediaN, NEW n \in Nat PROVE Landings(m, n) \subseteq Positions
BY DEF Landings, Positions, MediaN

LEMMA RelandingsIn == ASSUME NEW p \in Positions PROVE Relandings(p) \subseteq Positions
<1>1. p.of \in MediaN /\ p.n \in Nat
  BY DEF Positions, MediaN
<1> QED BY <1>1, LandingsIn DEF Relandings

LEMMA HeardIn == ASSUME NEW p \in Positions PROVE Heard(p) \in Positions /\ Proven(p) \in Positions
<1>1. [p EXCEPT !.kind = "sure"] \in Positions
  BY DEF Positions
<1>2. [p EXCEPT !.kind = "sure", !.n = 0] \in Positions
  BY DEF Positions
<1> QED BY <1>1, <1>2 DEF Heard, Proven

(* Events the engine sends at its revision. *)
LEMMA EventIn ==
  ASSUME NEW x \in EngineSet, NEW n \in Nat, NEW p \in Positions,
         NEW k \in {"Failed", "Landing", "TargetStored", "EndOfTrack", "Capabilities", "DeviceRecovered"}
  PROVE  /\ Event(k, x) \in Known(n, x.rev)
         /\ Positioned(k, x, p) \in Known(n, x.rev)
         /\ [Event("Capabilities", x) EXCEPT !.live = x.live] \in Known(n, x.rev)
<1>1. x.rev \in Nat /\ x.loading \in Nat /\ x.live \in BOOLEAN
  BY DEF EngineSet
<1>2. \A kind \in {"State", "Failed", "Landing", "TargetStored", "EndOfTrack", "Capabilities",
                   "DeviceRecovered"} :
        /\ Event(kind, x) \in EventSet /\ Event(kind, x).rev = x.rev
        /\ Event(kind, x).token = 0 /\ Event(kind, x).k = kind
  BY <1>1, NoPosIn DEF Event, EventSet, MediaN, States
<1>3. Event(k, x) \in Known(n, x.rev)
  BY <1>1, <1>2 DEF Known
<1>4. Positioned(k, x, p) \in Known(n, x.rev)
  <2>1. PICK v : v = Event(k, x)
    OBVIOUS
  <2>2. v \in EventSet /\ v.rev = x.rev /\ v.token = 0 /\ v.k # "Loaded"
    BY <1>2, <2>1
  <2> DEFINE w == [v EXCEPT !.pos = p]
  <2>3. w \in EventSet /\ w.rev = x.rev /\ w.token = 0 /\ w.k # "Loaded"
    BY <2>2 DEF EventSet
  <2>4. Positioned(k, x, p) = w
    BY <2>1 DEF Positioned
  <2> HIDE DEF w
  <2> QED BY <1>1, <2>3, <2>4 DEF Known
<1>5. [Event("Capabilities", x) EXCEPT !.live = x.live] \in Known(n, x.rev)
  <2>1. PICK v : v = Event("Capabilities", x)
    OBVIOUS
  <2>2. v \in EventSet /\ v.rev = x.rev /\ v.token = 0 /\ v.k # "Loaded"
    BY <1>2, <2>1
  <2> DEFINE w == [v EXCEPT !.live = x.live]
  <2>3. w \in EventSet /\ w.rev = x.rev /\ w.token = 0 /\ w.k # "Loaded"
    BY <1>1, <2>2 DEF EventSet
  <2>4. [Event("Capabilities", x) EXCEPT !.live = x.live] = w
    BY <2>1
  <2> HIDE DEF w
  <2> QED BY <1>1, <2>3, <2>4 DEF Known
<1> QED BY <1>3, <1>4, <1>5

LEMMA StateEventIn ==
  ASSUME NEW x \in EngineSet, NEW n \in Nat, x.loading <= n, NEW state \in States
  PROVE  StateEvent(x, state) \in Known(n, x.rev)
<1>0. x.rev \in Nat /\ x.loading \in Nat
  BY DEF EngineSet
<1>1. PICK v : v = Event("State", x)
  OBVIOUS
<1>2. v \in EventSet /\ v.rev = x.rev /\ v.token = 0 /\ v.k # "Loaded"
  BY <1>0, <1>1, NoPosIn DEF Event, EventSet, MediaN, States
<1>3. PICK token : token = IF state = "Loading" THEN x.loading ELSE 0
  OBVIOUS
<1>4. token \in Nat /\ token <= n
  BY <1>0, <1>3
<1> DEFINE w == [v EXCEPT !.state = state, !.token = token]
<1>5. w \in EventSet /\ w.rev = x.rev /\ w.token = token /\ w.k # "Loaded"
  BY <1>2, <1>4 DEF EventSet
<1>6. StateEvent(x, state) = w
  BY <1>1, <1>3 DEF StateEvent
<1> HIDE DEF w
<1> QED BY <1>0, <1>4, <1>5, <1>6 DEF Known

LEMMA OutcomeIn ==
  ASSUME NEW x \in EngineSet, NEW n \in Nat, NEW token \in Nat, token <= n,
         NEW k \in {"Failed", "LoadCancelled"}
  PROVE  /\ Outcome(k, x, token) \in Known(n, x.rev) /\ Outcome(k, x, token).token = token
         /\ token # 0 => IsOutcome(Outcome(k, x, token))
<1>1. x.rev \in Nat
  BY DEF EngineSet
<1>2. PICK v : v = Event(k, x)
  OBVIOUS
<1>3. v \in EventSet /\ v.rev = x.rev /\ v.k = k
  BY <1>1, <1>2, NoPosIn DEF Event, EventSet, MediaN, States
<1> DEFINE w == [v EXCEPT !.token = token]
<1>4. w \in EventSet /\ w.rev = x.rev /\ w.token = token /\ w.k = k
  BY <1>3 DEF EventSet
<1>5. Outcome(k, x, token) = w
  BY <1>2 DEF Outcome
<1> HIDE DEF w
<1> QED BY <1>1, <1>4, <1>5 DEF Known, IsOutcome

LEMMA AnnouncedIn ==
  ASSUME NEW x \in EngineSet, NEW n \in Nat, x.loading <= n, NEW state \in States
  PROVE  Announced(x, state) \in Seq(Known(n, x.rev))
<1>1. StateEvent(x, state) \in Known(n, x.rev)
  BY StateEventIn
<1>2. <<StateEvent(x, state)>> \in Seq(Known(n, x.rev)) /\ <<>> \in Seq(Known(n, x.rev))
  BY <1>1
<1> QED BY <1>2 DEF Announced

-----------------------------------------------------------------------------
(* A step of the engine, and one that leaves the load alone. *)

LEMMA KnownGrows ==
  ASSUME NEW n \in Nat, NEW m \in Nat, n <= m, NEW r \in Nat, NEW q \in Nat, r <= q
  PROVE  Known(n, r) \subseteq Known(m, q)
BY DEF Known, EventSet

LEMMA SeqGrows ==
  ASSUME NEW S, NEW T, S \subseteq T, NEW q \in Seq(S) PROVE q \in Seq(T)
<1>1. q \in [1 .. Len(q) -> T] /\ Len(q) \in Nat
  BY SeqDef
<1> QED BY <1>1

LEMMA JoinIn ==
  ASSUME NEW S, NEW p \in Seq(S), NEW q \in Seq(S)
  PROVE  /\ p \o q \in Seq(S) /\ DOMAIN p \subseteq DOMAIN (p \o q)
         /\ \A i \in DOMAIN p : (p \o q)[i] = p[i]
         /\ \A i \in DOMAIN q : Len(p) + i \in DOMAIN (p \o q) /\ (p \o q)[Len(p) + i] = q[i]
OBVIOUS

LEMMA TailIn ==
  ASSUME NEW S, NEW q \in Seq(S), q # <<>>
  PROVE  /\ Tail(q) \in Seq(S) /\ Head(q) \in S /\ Len(Tail(q)) <= Len(q)
         /\ \A i \in DOMAIN q : i = 1 \/ (i - 1 \in DOMAIN Tail(q) /\ Tail(q)[i - 1] = q[i])
         /\ Head(q) = q[1]
OBVIOUS

(* An answer for load t, in the events or still to come. *)
Answers(evs, t) == \E i \in DOMAIN evs : IsOutcome(evs[i]) /\ evs[i].token = t

LEMMA AnswersJoin ==
  ASSUME NEW S, NEW p \in Seq(S), NEW q \in Seq(S), NEW t
  PROVE  Answers(p, t) \/ Answers(q, t) => Answers(p \o q, t)
<1> DEFINE j == p \o q
<1>1. /\ \A i \in DOMAIN p : i \in DOMAIN j /\ j[i] = p[i]
      /\ \A i \in DOMAIN q : Len(p) + i \in DOMAIN j /\ j[Len(p) + i] = q[i]
  BY JoinIn
<1> HIDE DEF j
<1>2. ASSUME Answers(p, t) PROVE Answers(j, t)
  BY <1>1, <1>2 DEF Answers
<1>3. ASSUME Answers(q, t) PROVE Answers(j, t)
  <2>1. PICK i \in DOMAIN q : IsOutcome(q[i]) /\ q[i].token = t
    BY <1>3 DEF Answers
  <2> QED BY <1>1, <2>1 DEF Answers
<1> QED BY <1>2, <1>3 DEF j

LEMMA EngineMoves ==
  ASSUME RuntimeInv, NEW x \in EngineSet, NEW evs \in Seq(Known(s.next, x.rev)), Settle(x, evs),
         e.rev <= x.rev, x.load <= s.next, x.loading <= s.next,
         x.loading # 0 => x.media \in Media,
         e.loading # 0 => x.loading = e.loading \/ Answers(evs, e.loading),
         \/ cmds' = cmds
         \/ /\ cmds # <<>> /\ cmds' = Tail(cmds)
            /\ Head(cmds).cmd = "Load" /\ Head(cmds).token # 0 =>
                  x.loading = Head(cmds).token \/ Answers(evs, Head(cmds).token),
         stopBit' \in BOOLEAN, plan' = plan
  PROVE  RuntimeInv'
<1>1. /\ s' = s /\ mirror' = mirror /\ detached' = detached /\ app' = app /\ e' = x
      /\ events' = events \o evs
  BY DEF Settle
<1>2. /\ s.next \in Nat /\ e.rev \in Nat /\ x.rev \in Nat /\ s.latest \in Nat
      /\ DOMAIN s.pending \subseteq 1 .. s.next
  BY DEF RuntimeInv, FrontEndOk, EngineOk, Sane, SessionSet, EngineSet
<1>3. FrontEndOk'
  BY <1>1 DEF RuntimeInv, FrontEndOk, Sane, AgreesIn
<1>4. EngineOk'
  BY <1>1, <1>2 DEF RuntimeInv, EngineOk
<1>5. QueueOk'
  <2>1. cmds \in Seq(Submitted(s.next)) /\ Len(cmds) <= QueueCap /\ QueueCap' = QueueCap
    BY DEF RuntimeInv, QueueOk, QueueCap
  <2>2. cmds' \in Seq(Submitted(s.next)) /\ Len(cmds') <= Len(cmds)
    <3>1. CASE cmds' = cmds
      BY <2>1, <3>1
    <3>2. CASE cmds # <<>> /\ cmds' = Tail(cmds)
      <4>1. Tail(cmds) \in Seq(Submitted(s.next)) /\ Len(Tail(cmds)) <= Len(cmds)
        BY <2>1, <3>2, TailIn
      <4> QED BY <3>2, <4>1
    <3> QED BY <3>1, <3>2
  <2>3. QueueCap \in Nat
    BY RuntimeAssumption DEF RuntimeInv, FrontEndOk, QueueCap
  <2>4. Len(cmds') \in Nat /\ Len(cmds) \in Nat
    BY <2>1, <2>2
  <2> QED BY <1>1, <2>1, <2>2, <2>3, <2>4 DEF QueueOk
<1>6. events \in Seq(Known(s.next, x.rev))
  BY <1>2, KnownGrows, SeqGrows DEF RuntimeInv, EventsOk
<1>7. EventsOk'
  BY <1>1, <1>6, JoinIn DEF EventsOk
<1>8. PendingIsOwed'
  <2> SUFFICES ASSUME NEW t \in DOMAIN s.pending
               PROVE  \/ \E i \in DOMAIN cmds' : cmds'[i].cmd = "Load" /\ cmds'[i].token = t
                      \/ x.loading = t
                      \/ Answers(events \o evs, t)
    BY <1>1 DEF PendingIsOwed, Answers
  <2>1. t # 0
    BY <1>2
  <2>2. Answers(events, t) \/ Answers(evs, t) => Answers(events \o evs, t)
    BY <1>6, AnswersJoin
  <2>3. CASE \E i \in DOMAIN cmds : cmds[i].cmd = "Load" /\ cmds[i].token = t
    <3>1. PICK i \in DOMAIN cmds : cmds[i].cmd = "Load" /\ cmds[i].token = t
      BY <2>3
    <3>2. cmds \in Seq(Submitted(s.next))
      BY DEF RuntimeInv, QueueOk
    <3>3. CASE cmds' = cmds
      BY <3>1, <3>3
    <3>4. CASE cmds # <<>> /\ cmds' = Tail(cmds)
      <4>1. /\ Head(cmds) = cmds[1]
            /\ i = 1 \/ (i - 1 \in DOMAIN Tail(cmds) /\ Tail(cmds)[i - 1] = cmds[i])
        BY <3>1, <3>2, <3>4, TailIn
      <4>2. CASE i = 1
        <5>1. Head(cmds).cmd = "Load" /\ Head(cmds).token = t
          BY <3>1, <4>1, <4>2
        <5>2. x.loading = t \/ Answers(evs, t) \/ cmds' = cmds
          BY <2>1, <5>1
        <5> QED BY <2>2, <3>1, <5>2
      <4>3. CASE i # 1
        BY <3>1, <3>4, <4>1, <4>3
      <4> QED BY <4>2, <4>3
    <3> QED BY <3>3, <3>4
  <2>4. CASE e.loading = t
    BY <2>1, <2>2, <2>4
  <2>5. CASE Answers(events, t)
    BY <2>2, <2>5
  <2> QED BY <2>3, <2>4, <2>5 DEF RuntimeInv, PendingIsOwed, Answers
<1> QED BY <1>3, <1>4, <1>5, <1>7, <1>8 DEF RuntimeInv

(* What a handler that is no load's leaves of the load. *)
Like(x) ==
    /\ x \in EngineSet /\ e.rev <= x.rev
    /\ x.load = e.load /\ x.loading = e.loading /\ x.media = e.media
Quiet(x, evs) == Like(x) /\ evs \in Seq(Known(s.next, x.rev))
Quietly == \E x, evs : Quiet(x, evs) /\ Settle(x, evs)

LEMMA QuietStep ==
  ASSUME RuntimeInv, Quietly,
         \/ cmds' = cmds
         \/ cmds # <<>> /\ cmds' = Tail(cmds) /\ Head(cmds).cmd # "Load",
         stopBit' \in BOOLEAN, plan' = plan
  PROVE  RuntimeInv'
<1>1. PICK x, evs : Quiet(x, evs) /\ Settle(x, evs)
  BY DEF Quietly
<1>2. /\ x \in EngineSet /\ evs \in Seq(Known(s.next, x.rev)) /\ e.rev <= x.rev
      /\ x.load = e.load /\ x.loading = e.loading /\ x.media = e.media
  BY <1>1 DEF Quiet, Like
<1>3. /\ e.load <= s.next /\ e.loading <= s.next /\ (e.loading # 0 => e.media \in Media)
  BY DEF RuntimeInv, EngineOk
<1> QED BY <1>1, <1>2, <1>3, EngineMoves

-----------------------------------------------------------------------------
(* What a handler leaves of the load: play. *)

LEMMA InvParts ==
  ASSUME RuntimeInv
  PROVE  /\ e \in EngineSet /\ e.load <= s.next /\ e.loading <= s.next
         /\ e.rev \in Nat /\ s.next \in Nat /\ e.at \in Positions /\ e.state \in States
         /\ e.load \in Nat /\ e.loading \in Nat /\ e.media \in MediaN
         /\ e.pend \in Intents /\ e.live \in BOOLEAN /\ e.fixed \in BOOLEAN
         /\ e.closed \in BOOLEAN /\ e.revived \in BOOLEAN /\ e.heard \in SUBSET Nat
         /\ e.earned \in SUBSET MediaN
<1>1. e \in EngineSet /\ s.next \in Nat /\ e.load <= s.next /\ e.loading <= s.next
  BY DEF RuntimeInv, EngineOk, FrontEndOk, Sane, SessionSet
<1> QED BY <1>1 DEF EngineSet

LEMMA LikeItself == ASSUME RuntimeInv PROVE Like(e)
BY InvParts DEF Like

LEMMA QuietlyBy ==
  ASSUME NEW x, NEW evs, Like(x), evs \in Seq(Known(s.next, x.rev)), Settle(x, evs)
  PROVE  Quietly
<1>1. Quiet(x, evs) /\ Settle(x, evs)
  BY DEF Quiet
<1> QED BY <1>1 DEF Quietly

LEMMA NothingIs == ASSUME RuntimeInv, Nothing PROVE Quietly
<1>1. Like(e) /\ <<>> \in Seq(Known(s.next, e.rev)) /\ Settle(e, <<>>)
  BY LikeItself DEF Nothing
<1> QED BY <1>1, QuietlyBy

(* A state, a position, a flag of the engine on its way. *)
LEMMA LikeState ==
  ASSUME RuntimeInv, NEW x, Like(x), NEW state \in States
  PROVE  LET y == [x EXCEPT !.state = state] IN Like(y) /\ y.rev = x.rev
<1> DEFINE y == [x EXCEPT !.state = state]
<1>1. x \in EngineSet
  BY DEF Like
<1>2. y \in EngineSet
  BY <1>1 DEF EngineSet
<1>3. y.rev = x.rev /\ y.load = x.load /\ y.loading = x.loading /\ y.media = x.media
  BY <1>1 DEF EngineSet
<1> QED BY <1>2, <1>3 DEF Like

LEMMA LikeAt ==
  ASSUME RuntimeInv, NEW x, Like(x), NEW pos \in Positions, NEW pend \in Intents
  PROVE  LET y == [x EXCEPT !.at = pos, !.pend = pend] IN
         Like(y) /\ y.rev = x.rev /\ y.state = x.state
<1> DEFINE y == [x EXCEPT !.at = pos, !.pend = pend]
<1>1. x \in EngineSet
  BY DEF Like
<1>2. y \in EngineSet
  BY <1>1 DEF EngineSet
<1>3. y.rev = x.rev /\ y.load = x.load /\ y.loading = x.loading /\ y.media = x.media
      /\ y.state = x.state
  BY <1>1 DEF EngineSet
<1> QED BY <1>2, <1>3 DEF Like

LEMMA LikeEarned ==
  ASSUME RuntimeInv, NEW x, Like(x), NEW earned \in SUBSET MediaN
  PROVE  LET y == [x EXCEPT !.earned = earned] IN Like(y) /\ y.rev = x.rev
<1> DEFINE y == [x EXCEPT !.earned = earned]
<1>1. x \in EngineSet
  BY DEF Like
<1>2. y \in EngineSet
  BY <1>1 DEF EngineSet
<1>3. y.rev = x.rev /\ y.load = x.load /\ y.loading = x.loading /\ y.media = x.media
  BY <1>1 DEF EngineSet
<1> QED BY <1>2, <1>3 DEF Like

(* Their events. *)
LEMMA LikeEvents ==
  ASSUME RuntimeInv, NEW x, Like(x)
  PROVE  /\ <<>> \in Seq(Known(s.next, x.rev))
         /\ <<Event("Failed", x)>> \in Seq(Known(s.next, x.rev))
         /\ <<Event("DeviceRecovered", x)>> \in Seq(Known(s.next, x.rev))
         /\ <<[Event("Capabilities", x) EXCEPT !.live = x.live]>> \in Seq(Known(s.next, x.rev))
         /\ \A state \in States : /\ <<StateEvent(x, state)>> \in Seq(Known(s.next, x.rev))
                                  /\ Announced(x, state) \in Seq(Known(s.next, x.rev))
         /\ \A pos \in Positions : /\ <<Positioned("Landing", x, pos)>> \in Seq(Known(s.next, x.rev))
                                   /\ <<Positioned("TargetStored", x, pos)>> \in Seq(Known(s.next, x.rev))
                                   /\ <<Positioned("EndOfTrack", x, pos)>> \in Seq(Known(s.next, x.rev))
<1>1. x \in EngineSet /\ x.loading <= s.next /\ s.next \in Nat
  BY InvParts DEF Like
<1>2. PICK S : S = Known(s.next, x.rev)
  OBVIOUS
<1>3. \A v \in S : <<v>> \in Seq(S)
  OBVIOUS
<1>4. Event("Failed", x) \in S /\ Event("DeviceRecovered", x) \in S
      /\ [Event("Capabilities", x) EXCEPT !.live = x.live] \in S
  BY <1>1, <1>2, NoPosIn, EventIn
<1>5. \A pos \in Positions :
         /\ Positioned("Landing", x, pos) \in S /\ Positioned("TargetStored", x, pos) \in S
         /\ Positioned("EndOfTrack", x, pos) \in S
  BY <1>1, <1>2, EventIn
<1>6. \A state \in States : StateEvent(x, state) \in S /\ Announced(x, state) \in Seq(S)
  BY <1>1, <1>2, StateEventIn, AnnouncedIn
<1> QED BY <1>2, <1>3, <1>4, <1>5, <1>6

LEMMA PlaysIs ==
  ASSUME RuntimeInv, NEW x, Like(x), NEW before \in Seq(Known(s.next, x.rev)),
         NEW after \in Seq(Known(s.next, x.rev)), Plays(x, before, after)
  PROVE  Quietly
<1> DEFINE at == Heard(x.at)
           heard == x.heard \union {e.load}
           revived == x.revived \/ e.state \in {"Stopped", "Loading", "Failed"}
           y == [x EXCEPT !.state = "Playing", !.at = at, !.closed = FALSE]
           z == [y EXCEPT !.heard = heard, !.revived = revived]
           evs == before \o Announced(x, "Playing") \o after
<1>1. x \in EngineSet /\ e.load \in Nat
  BY InvParts DEF Like
<1>2. at \in Positions /\ heard \in SUBSET Nat /\ revived \in BOOLEAN
  BY <1>1, HeardIn DEF EngineSet
<1>3. Settle(z, evs)
  BY DEF Plays
<1> HIDE DEF at, heard, revived
<1>4. y \in EngineSet
  BY <1>1, <1>2 DEF EngineSet, States
<1>5. y.rev = x.rev /\ y.load = x.load /\ y.loading = x.loading /\ y.media = x.media
  BY <1>1 DEF EngineSet
<1> HIDE DEF y
<1>6. z \in EngineSet
  BY <1>2, <1>4 DEF EngineSet
<1>7. z.rev = x.rev /\ z.load = x.load /\ z.loading = x.loading /\ z.media = x.media
  BY <1>4, <1>5 DEF EngineSet
<1> HIDE DEF z
<1>8. Like(z)
  BY <1>6, <1>7 DEF Like
<1>9. Announced(x, "Playing") \in Seq(Known(s.next, x.rev))
  BY LikeEvents DEF States
<1>10. evs \in Seq(Known(s.next, z.rev))
  BY <1>7, <1>9
<1> QED BY <1>3, <1>8, <1>10, QuietlyBy

LEMMA FailsIs ==
  ASSUME RuntimeInv, NEW x, Like(x), NEW before \in Seq(Known(s.next, x.rev)),
         Settle([x EXCEPT !.state = "Failed"],
                before \o <<Event("Failed", x), StateEvent(x, "Failed")>>)
  PROVE  Quietly
<1>1. Like([x EXCEPT !.state = "Failed"]) /\ [x EXCEPT !.state = "Failed"].rev = x.rev
  BY LikeState DEF States
<1>2. <<Event("Failed", x)>> \in Seq(Known(s.next, x.rev))
      /\ <<StateEvent(x, "Failed")>> \in Seq(Known(s.next, x.rev))
  BY LikeEvents DEF States
<1>3. <<Event("Failed", x), StateEvent(x, "Failed")>> \in Seq(Known(s.next, x.rev))
  <2>1. Event("Failed", x) \in Known(s.next, x.rev) /\ StateEvent(x, "Failed") \in Known(s.next, x.rev)
    BY <1>2
  <2> QED BY <2>1
<1>4. before \o <<Event("Failed", x), StateEvent(x, "Failed")>> \in Seq(Known(s.next, x.rev))
  BY <1>3
<1> QED BY <1>1, <1>4, QuietlyBy

LEMMA RestoresIs ==
  ASSUME RuntimeInv, NEW x, Like(x), NEW before \in Seq(Known(s.next, x.rev)), Restores(x, before)
  PROVE  Quietly
<1>1. x \in EngineSet /\ x.at \in Positions /\ x.pend.to \in Positions
  BY DEF Like, EngineSet, Intents
<1>2. CASE ~Openable(x) /\ Nothing
  BY <1>2, NothingIs
<1>3. CASE \E pos \in (IF x.live THEN {x.at}
                       ELSE Relandings(IF x.pend = NoIntent THEN x.at ELSE x.pend.to)) :
             Plays([x EXCEPT !.at = pos, !.pend = NoIntent,
                             !.earned = @ \union Restarted(x)], before,
                   IF x.pend = NoIntent \/ x.live THEN <<>>
                   ELSE <<Positioned("Landing", x, pos)>>)
  <2>1. PICK pos \in (IF x.live THEN {x.at}
                      ELSE Relandings(IF x.pend = NoIntent THEN x.at ELSE x.pend.to)) :
             Plays([x EXCEPT !.at = pos, !.pend = NoIntent,
                             !.earned = @ \union Restarted(x)], before,
                   IF x.pend = NoIntent \/ x.live THEN <<>>
                   ELSE <<Positioned("Landing", x, pos)>>)
    BY <1>3
  <2>2. pos \in Positions
    BY <1>1, RelandingsIn
  <2> DEFINE earned == x.earned \union Restarted(x)
             z == [x EXCEPT !.at = pos, !.pend = NoIntent]
             y == [z EXCEPT !.earned = earned]
             after == IF x.pend = NoIntent \/ x.live THEN <<>>
                      ELSE <<Positioned("Landing", x, pos)>>
  <2>5. Plays(y, before, after)
    BY <2>1
  <2>6. earned \in SUBSET MediaN
    BY <1>1 DEF Restarted, EngineSet
  <2> HIDE DEF earned
  <2>7. Like(z) /\ z.rev = x.rev
    BY <2>2, LikeAt, NoIntentIn
  <2> HIDE DEF z
  <2>3. Like(y) /\ y.rev = x.rev
    BY <2>6, <2>7, LikeEarned
  <2>4. after \in Seq(Known(s.next, x.rev))
    BY <2>2, LikeEvents
  <2> HIDE DEF y, after
  <2> QED BY <2>3, <2>4, <2>5, PlaysIs
<1>4. CASE Settle([x EXCEPT !.state = "Stopped"], before \o Announced(x, "Stopped"))
  <2>1. Like([x EXCEPT !.state = "Stopped"]) /\ [x EXCEPT !.state = "Stopped"].rev = x.rev
    BY LikeState DEF States
  <2>2. Announced(x, "Stopped") \in Seq(Known(s.next, x.rev))
    BY LikeEvents DEF States
  <2>3. before \o Announced(x, "Stopped") \in Seq(Known(s.next, x.rev))
    BY <2>2
  <2> QED BY <1>4, <2>1, <2>3, QuietlyBy
<1>5. CASE Settle([x EXCEPT !.state = "Failed"],
                  before \o <<Event("Failed", x), StateEvent(x, "Failed")>>)
  BY <1>5, FailsIs
<1> QED BY <1>2, <1>3, <1>4, <1>5 DEF Restores

LEMMA PlayIs == ASSUME RuntimeInv, Play(TRUE) \/ Play(FALSE) PROVE Quietly
<1>1. Like(e) /\ e.state \in States
  BY LikeItself, InvParts
<1>2. <<>> \in Seq(Known(s.next, e.rev))
  BY <1>1, LikeEvents
<1>3. CASE Plays(e, <<>>, <<>>)
  BY <1>1, <1>2, <1>3, PlaysIs
<1>4. CASE Restores(e, <<>>)
  BY <1>1, <1>2, <1>4, RestoresIs
<1>5. CASE LET x == [e EXCEPT !.state = "Loading"] IN Restores(x, <<StateEvent(x, "Loading")>>)
  <2> DEFINE x == [e EXCEPT !.state = "Loading"]
  <2>1. Like(x)
    BY <1>1, LikeState DEF States
  <2>2. Restores(x, <<StateEvent(x, "Loading")>>)
    BY <1>5
  <2> HIDE DEF x
  <2>3. <<StateEvent(x, "Loading")>> \in Seq(Known(s.next, x.rev))
    BY <2>1, LikeEvents DEF States
  <2> QED BY <2>1, <2>2, <2>3, RestoresIs
<1>6. CASE Nothing
  BY <1>6, NothingIs
<1>7. \/ Plays(e, <<>>, <<>>) \/ Restores(e, <<>>) \/ Nothing
      \/ LET x == [e EXCEPT !.state = "Loading"] IN Restores(x, <<StateEvent(x, "Loading")>>)
  BY DEF Play
<1> QED BY <1>3, <1>4, <1>5, <1>6, <1>7

-----------------------------------------------------------------------------
(* Pause, seek, restart, and playback by itself. *)

LEMMA PauseIs == ASSUME RuntimeInv, Pause PROVE Quietly
<1> DEFINE x == PauseCloses(e)
<1>1. Like(e) /\ e \in EngineSet /\ e.rev \in Nat /\ s.next \in Nat
  BY LikeItself, InvParts
<1>2. Like(x) /\ x.rev = e.rev + 1
  <2> DEFINE rev == e.rev + 1
             y == [e EXCEPT !.rev = rev, !.state = "Paused"]
  <2>0. rev \in Nat /\ "Paused" \in States
    BY <1>1 DEF States
  <2>31. x = [y EXCEPT !.closed = TRUE]
    BY <1>1 DEF PauseCloses, EngineSet
  <2> HIDE DEF rev, x
  <2>32. y \in EngineSet
    BY <1>1, <2>0 DEF EngineSet
  <2> HIDE DEF y
  <2>1. x \in EngineSet
    BY <2>31, <2>32 DEF EngineSet
  <2> USE DEF x, y, rev
  <2>2. x.rev = e.rev + 1 /\ x.load = e.load /\ x.loading = e.loading /\ x.media = e.media
    BY <1>1 DEF PauseCloses, EngineSet
  <2> HIDE DEF x
  <2> QED BY <1>1, <2>1, <2>2 DEF Like
<1> HIDE DEF x
<1>3. <<StateEvent(e, "Paused")>> \in Seq(Known(s.next, e.rev))
      /\ <<StateEvent(x, "Paused")>> \in Seq(Known(s.next, x.rev))
  BY <1>1, <1>2, LikeEvents DEF States
<1>4. <<StateEvent(e, "Paused")>> \in Seq(Known(s.next, x.rev))
  <2>1. Known(s.next, e.rev) \subseteq Known(s.next, x.rev)
    BY <1>1, <1>2, KnownGrows
  <2> QED BY <1>3, <2>1, SeqGrows
<1>5. CASE Settle([e EXCEPT !.state = "Paused"], <<StateEvent(e, "Paused")>>)
  <2>1. Like([e EXCEPT !.state = "Paused"]) /\ [e EXCEPT !.state = "Paused"].rev = e.rev
    BY <1>1, LikeState DEF States
  <2> QED BY <1>3, <1>5, <2>1, QuietlyBy
<1>6. CASE Settle(x, <<StateEvent(e, "Paused")>>)
  BY <1>2, <1>4, <1>6, QuietlyBy
<1>7. CASE Settle(x, <<StateEvent(x, "Paused")>>)
  BY <1>2, <1>3, <1>7, QuietlyBy
<1>8. CASE Nothing
  BY <1>8, NothingIs
<1> QED BY <1>5, <1>6, <1>7, <1>8 DEF Pause, x

LEMMA StoredIs ==
  ASSUME RuntimeInv, NEW what \in {"seek", "restart"}, NEW n \in Nat, Stored(what, n)
  PROVE  Quietly
<1> DEFINE to == [of |-> e.media, n |-> n, kind |-> IF e.at.kind = "guess" THEN "guess" ELSE "sure"]
           intent == [what |-> what, to |-> to]
           heard == e.heard \union {e.load}
           x == [e EXCEPT !.pend = intent, !.heard = heard]
<1>1. Like(e) /\ e \in EngineSet /\ e.media \in MediaN /\ heard \in SUBSET Nat
  BY LikeItself, InvParts
<1>2. to \in Positions
  BY <1>1 DEF Positions, MediaN
<1>3. Settle(x, <<Positioned("TargetStored", e, to)>>)
  BY DEF Stored
<1> HIDE DEF to, heard
<1>4. intent \in Intents
  BY <1>2 DEF Intents
<1> HIDE DEF intent
<1>5. x \in EngineSet
  BY <1>1, <1>4 DEF EngineSet
<1>6. x.rev = e.rev /\ x.load = e.load /\ x.loading = e.loading /\ x.media = e.media
  BY <1>1 DEF EngineSet
<1> HIDE DEF x
<1>7. Like(x)
  BY <1>1, <1>5, <1>6 DEF Like
<1>8. <<Positioned("TargetStored", e, to)>> \in Seq(Known(s.next, x.rev))
  BY <1>1, <1>2, <1>6, LikeEvents
<1> QED BY <1>3, <1>7, <1>8, QuietlyBy

LEMMA SeekIs == ASSUME RuntimeInv, Seek PROVE Quietly
<1>1. Like(e) /\ e \in EngineSet /\ e.media \in MediaN /\ e.state \in States
  BY LikeItself, InvParts
<1>2. CASE Nothing
  BY <1>2, NothingIs
<1>3. CASE \E n \in 0 .. MaxPos : Stored("seek", n)
  <2>1. PICK n \in 0 .. MaxPos : Stored("seek", n)
    BY <1>3
  <2>2. n \in Nat
    BY RuntimeAssumption
  <2> QED BY <2>1, <2>2, StoredIs
<1>4. ASSUME NEW n \in 0 .. MaxPos, NEW pos \in Landings(e.media, n),
             LET state == IF e.state = "Ended" THEN "Paused" ELSE e.state
             IN Settle([e EXCEPT !.at = pos, !.pend = NoIntent,
                                 !.heard = @ \union {e.load}, !.state = state],
                       Announced(e, state) \o <<Positioned("Landing", e, pos)>>)
      PROVE  Quietly
  <2> DEFINE state == IF e.state = "Ended" THEN "Paused" ELSE e.state
             heard == e.heard \union {e.load}
             y == [e EXCEPT !.at = pos, !.pend = NoIntent]
             z == [y EXCEPT !.heard = heard, !.state = state]
             evs == Announced(e, state) \o <<Positioned("Landing", e, pos)>>
  <2>1. n \in Nat
    BY RuntimeAssumption
  <2>2. pos \in Positions
    BY <1>1, <2>1, LandingsIn
  <2>3. state \in States /\ heard \in SUBSET Nat
    BY <1>1, InvParts DEF States
  <2>4. Settle(z, evs)
    BY <1>4
  <2> HIDE DEF state, heard
  <2>5. Like(y) /\ y.rev = e.rev
    BY <1>1, <2>2, LikeAt, NoIntentIn
  <2> HIDE DEF y
  <2>6. y \in EngineSet
    BY <2>5 DEF Like
  <2>7. z \in EngineSet
    BY <2>3, <2>6 DEF EngineSet
  <2>8. z.rev = y.rev /\ z.load = y.load /\ z.loading = y.loading /\ z.media = y.media
    BY <2>6 DEF EngineSet
  <2> HIDE DEF z
  <2>9. Like(z)
    BY <2>5, <2>7, <2>8 DEF Like
  <2>10. Announced(e, state) \in Seq(Known(s.next, e.rev))
         /\ <<Positioned("Landing", e, pos)>> \in Seq(Known(s.next, e.rev))
    BY <1>1, <2>2, <2>3, LikeEvents
  <2>11. evs \in Seq(Known(s.next, z.rev))
    BY <2>5, <2>8, <2>10
  <2> QED BY <2>4, <2>9, <2>11, QuietlyBy
<1>5. \/ Nothing
      \/ \E n \in 0 .. MaxPos : Stored("seek", n)
      \/ \E n \in 0 .. MaxPos : \E pos \in Landings(e.media, n) :
             LET state == IF e.state = "Ended" THEN "Paused" ELSE e.state
             IN Settle([e EXCEPT !.at = pos, !.pend = NoIntent,
                                 !.heard = @ \union {e.load}, !.state = state],
                       Announced(e, state) \o <<Positioned("Landing", e, pos)>>)
  BY DEF Seek
<1> QED BY <1>2, <1>3, <1>4, <1>5

LEMMA RestartIs == ASSUME RuntimeInv, Restart PROVE Quietly
<1>1. Like(e) /\ e \in EngineSet /\ e.media \in MediaN /\ e.state \in States
  BY LikeItself, InvParts
<1>2. CASE Nothing
  BY <1>2, NothingIs
<1>3. CASE Stored("restart", 0)
  BY <1>3, StoredIs
<1>4. ASSUME NEW pos \in Landings(e.media, 0),
             Plays([e EXCEPT !.at = pos, !.pend = NoIntent,
                             !.earned = @ \union {e.media}],
                   <<Positioned("Landing", e, pos)>>, <<>>)
      PROVE  Quietly
  <2> DEFINE earned == e.earned \union {e.media}
             y == [e EXCEPT !.at = pos, !.pend = NoIntent]
             z == [y EXCEPT !.earned = earned]
  <2>1. pos \in Positions
    BY <1>1, LandingsIn
  <2>2. earned \in SUBSET MediaN
    BY <1>1, InvParts
  <2>3. Plays(z, <<Positioned("Landing", e, pos)>>, <<>>)
    BY <1>4
  <2> HIDE DEF earned
  <2>4. Like(y) /\ y.rev = e.rev
    BY <1>1, <2>1, LikeAt, NoIntentIn
  <2> HIDE DEF y
  <2>5. y \in EngineSet
    BY <2>4 DEF Like
  <2>6. z \in EngineSet
    BY <2>2, <2>5 DEF EngineSet
  <2>7. z.rev = y.rev /\ z.load = y.load /\ z.loading = y.loading /\ z.media = y.media
    BY <2>5 DEF EngineSet
  <2> HIDE DEF z
  <2>8. Like(z)
    BY <2>4, <2>6, <2>7 DEF Like
  <2>9. <<Positioned("Landing", e, pos)>> \in Seq(Known(s.next, z.rev))
        /\ <<>> \in Seq(Known(s.next, z.rev))
    BY <1>1, <2>1, <2>4, <2>7, LikeEvents
  <2> QED BY <2>3, <2>8, <2>9, PlaysIs
<1> QED BY <1>2, <1>3, <1>4 DEF Restart

(* Playback by itself, and a fault of the device or the network. *)
LEMMA AloneIs ==
  ASSUME RuntimeInv, Advance \/ EndOfTrack \/ Breaks \/ Rebuild \/ Lose \/ Regain
  PROVE  Quietly
<1>1. Like(e) /\ e \in EngineSet /\ e.media \in MediaN /\ e.state \in States /\ e.rev \in Nat
      /\ s.next \in Nat /\ e.at \in Positions
  BY LikeItself, InvParts
<1>2. ASSUME NEW pos \in Positions
      PROVE  LET x == [e EXCEPT !.at = pos] IN Like(x) /\ x.rev = e.rev
  <2> DEFINE x == [e EXCEPT !.at = pos]
  <2>1. x \in EngineSet
    BY <1>1 DEF EngineSet
  <2>2. x.rev = e.rev /\ x.load = e.load /\ x.loading = e.loading /\ x.media = e.media
    BY <1>1 DEF EngineSet
  <2> HIDE DEF x
  <2>3. Like(x) /\ x.rev = e.rev
    BY <1>1, <2>1, <2>2 DEF Like
  <2> QED BY <2>3 DEF x
<1>3. CASE Advance
  <2>1. PICK pos : pos = [e.at EXCEPT !.n = @ + 1]
    OBVIOUS
  <2>2. pos \in Positions
    BY <1>1, <2>1 DEF Positions
  <2>3. Settle([e EXCEPT !.at = pos], <<>>)
    BY <1>3, <2>1 DEF Advance
  <2>4. Like([e EXCEPT !.at = pos]) /\ <<>> \in Seq(Known(s.next, [e EXCEPT !.at = pos].rev))
    BY <1>2, <2>2
  <2> QED BY <2>3, <2>4, QuietlyBy
<1>4. CASE EndOfTrack
  <2> DEFINE earned == e.earned \union {e.media}
             v == [e EXCEPT !.at = Proven(e.at)]
             x == [v EXCEPT !.earned = earned]
             y == [x EXCEPT !.state = "Ended"]
  <2>1. Settle(y, <<Positioned("EndOfTrack", x, x.at), StateEvent(x, "Ended")>>)
    BY <1>4 DEF EndOfTrack
  <2>2. Proven(e.at) \in Positions
    BY <1>1, HeardIn
  <2>8. earned \in SUBSET MediaN
    BY <1>1 DEF EngineSet
  <2> HIDE DEF earned
  <2>9. Like(v) /\ v.rev = e.rev
    BY <1>2, <2>2
  <2> HIDE DEF v
  <2>3. Like(x) /\ x.rev = e.rev
    BY <2>8, <2>9, LikeEarned
  <2>4. x.at \in Positions
    BY <2>3 DEF Like, EngineSet
  <2> HIDE DEF x
  <2>5. Like(y) /\ y.rev = x.rev
    BY <2>3, LikeState DEF States
  <2> HIDE DEF y
  <2>6. /\ <<Positioned("EndOfTrack", x, x.at)>> \in Seq(Known(s.next, x.rev))
        /\ <<StateEvent(x, "Ended")>> \in Seq(Known(s.next, x.rev))
    BY <2>3, <2>4, LikeEvents DEF States
  <2>7. <<Positioned("EndOfTrack", x, x.at), StateEvent(x, "Ended")>> \in Seq(Known(s.next, y.rev))
    <3>1. Positioned("EndOfTrack", x, x.at) \in Known(s.next, y.rev)
          /\ StateEvent(x, "Ended") \in Known(s.next, y.rev)
      BY <2>5, <2>6
    <3> QED BY <3>1
  <2> QED BY <2>1, <2>5, <2>7, QuietlyBy
<1>5. CASE Breaks
  <2>1. Settle([e EXCEPT !.state = "Failed"], <<Event("Failed", e), StateEvent(e, "Failed")>>)
    BY <1>5 DEF Breaks, Fails
  <2>2. <<>> \in Seq(Known(s.next, e.rev))
    OBVIOUS
  <2>3. <<>> \o <<Event("Failed", e), StateEvent(e, "Failed")>>
          = <<Event("Failed", e), StateEvent(e, "Failed")>>
    OBVIOUS
  <2> QED BY <1>1, <2>1, <2>2, <2>3, FailsIs
<1>6. CASE Rebuild
  <2>1. PICK pos \in Relandings(e.at) :
             LET x == [e EXCEPT !.rev = @ + 1, !.at = pos]
             IN Settle(x, <<Event("DeviceRecovered", x)>>)
    BY <1>6 DEF Rebuild
  <2> DEFINE x == [e EXCEPT !.rev = @ + 1, !.at = pos]
  <2>2. pos \in Positions
    BY <1>1, RelandingsIn
  <2> DEFINE rev == e.rev + 1
  <2>0. rev \in Nat
    BY <1>1
  <2> HIDE DEF rev
  <2>32. [e EXCEPT !.rev = rev, !.at = pos] \in EngineSet
    BY <1>1, <2>0, <2>2 DEF EngineSet
  <2>3. x \in EngineSet
    BY <2>32 DEF rev
  <2>4. x.rev = e.rev + 1 /\ x.load = e.load /\ x.loading = e.loading /\ x.media = e.media
    BY <1>1 DEF EngineSet
  <2>5. Settle(x, <<Event("DeviceRecovered", x)>>)
    BY <2>1
  <2> HIDE DEF x
  <2>6. Like(x)
    BY <1>1, <2>3, <2>4 DEF Like
  <2>7. <<Event("DeviceRecovered", x)>> \in Seq(Known(s.next, x.rev))
    BY <2>6, LikeEvents
  <2> QED BY <2>5, <2>6, <2>7, QuietlyBy
<1>7. CASE Lose
  <2>1. Settle([e EXCEPT !.state = "Reconnecting"], <<StateEvent(e, "Reconnecting")>>)
    BY <1>7 DEF Lose
  <2>2. Like([e EXCEPT !.state = "Reconnecting"]) /\ [e EXCEPT !.state = "Reconnecting"].rev = e.rev
    BY <1>1, LikeState DEF States
  <2>3. <<StateEvent(e, "Reconnecting")>> \in Seq(Known(s.next, e.rev))
    BY <1>1, LikeEvents DEF States
  <2> QED BY <2>1, <2>2, <2>3, QuietlyBy
<1>8. CASE Regain
  <2>1. Restores(e, <<[Event("Capabilities", e) EXCEPT !.live = e.live]>>)
    BY <1>8 DEF Regain
  <2>2. <<[Event("Capabilities", e) EXCEPT !.live = e.live]>> \in Seq(Known(s.next, e.rev))
    BY <1>1, LikeEvents
  <2> QED BY <1>1, <2>1, <2>2, RestoresIs
<1> QED BY <1>3, <1>4, <1>5, <1>6, <1>7, <1>8

-----------------------------------------------------------------------------
(* Loads, interrupts and the shutdown. *)

(* A load begins. *)
LEMMA LoadIs ==
  ASSUME RuntimeInv, NEW c \in Submitted(s.next), c.cmd = "Load", Load(c),
         cmds # <<>>, cmds' = Tail(cmds), c = Head(cmds), e.loading = 0,
         stopBit' = stopBit, plan' = plan
  PROVE  RuntimeInv'
<1> DEFINE rev == e.rev + 1
           at == StartOf(c.media, c.token)
           y == [e EXCEPT !.rev = rev, !.load = 0, !.loading = c.token, !.media = c.media]
           z == [y EXCEPT !.resume = c.resume, !.pend = NoIntent, !.closed = FALSE]
           x == [z EXCEPT !.revived = FALSE, !.at = at]
           w == [x EXCEPT !.state = "Loading"]
           evs == Announced(x, "Loading")
<1>1. /\ c.media \in Media /\ c.media \in MediaN /\ c.token \in Nat /\ c.token <= s.next
      /\ c.resume \in Intents
  BY DEF Submitted, Commands, MediaN
<1>2. e \in EngineSet /\ e.rev \in Nat /\ s.next \in Nat
  BY InvParts
<1>3. rev \in Nat /\ e.rev <= rev /\ at \in Positions /\ "Loading" \in States
  BY <1>1, <1>2, StartIn DEF States
<1>4. Settle(w, evs)
  <2>1. x = [e EXCEPT !.rev = @ + 1, !.load = 0, !.loading = c.token, !.media = c.media,
                      !.resume = c.resume, !.pend = NoIntent, !.closed = FALSE,
                      !.revived = FALSE, !.at = StartOf(c.media, c.token)]
    BY <1>2 DEF EngineSet
  <2> HIDE DEF x
  <2> QED BY <2>1 DEF Load
<1> HIDE DEF rev, at
<1>5. y \in EngineSet
  BY <1>1, <1>2, <1>3 DEF EngineSet
<1>6. y.rev = rev /\ y.load = 0 /\ y.loading = c.token /\ y.media = c.media
  BY <1>2 DEF EngineSet
<1> HIDE DEF y
<1>7. z \in EngineSet
  BY <1>1, <1>5, NoIntentIn DEF EngineSet
<1>8. z.rev = rev /\ z.load = 0 /\ z.loading = c.token /\ z.media = c.media
  BY <1>5, <1>6 DEF EngineSet
<1> HIDE DEF z
<1>9. x \in EngineSet
  BY <1>3, <1>7 DEF EngineSet
<1>10. x.rev = rev /\ x.load = 0 /\ x.loading = c.token /\ x.media = c.media
  BY <1>7, <1>8 DEF EngineSet
<1> HIDE DEF x
<1>11. w \in EngineSet
  BY <1>3, <1>9 DEF EngineSet
<1>12. w.rev = rev /\ w.load = 0 /\ w.loading = c.token /\ w.media = c.media
  BY <1>9, <1>10 DEF EngineSet
<1>13. evs \in Seq(Known(s.next, x.rev))
  BY <1>1, <1>2, <1>3, <1>9, <1>10, AnnouncedIn
<1> HIDE DEF w, evs
<1>14. evs \in Seq(Known(s.next, w.rev))
  BY <1>10, <1>12, <1>13
<1>15. stopBit' \in BOOLEAN
  BY DEF RuntimeInv, FrontEndOk
<1>16. Head(cmds).cmd = "Load" /\ Head(cmds).token # 0 =>
          w.loading = Head(cmds).token \/ Answers(evs, Head(cmds).token)
  BY <1>12
<1>17. /\ e.rev <= w.rev /\ w.load <= s.next /\ w.loading <= s.next
       /\ (w.loading # 0 => w.media \in Media)
       /\ (e.loading # 0 => w.loading = e.loading \/ Answers(evs, e.loading))
  BY <1>1, <1>2, <1>3, <1>12
<1> QED BY <1>4, <1>11, <1>14, <1>15, <1>16, <1>17, EngineMoves

LEMMA DispatchIs == ASSUME RuntimeInv, Dispatch, plan' = plan PROVE RuntimeInv'
<1>1. /\ cmds \in Seq(Submitted(s.next)) /\ cmds # <<>> /\ cmds' = Tail(cmds)
      /\ stopBit' = stopBit /\ stopBit' \in BOOLEAN /\ e.loading = 0
  BY DEF Dispatch, RuntimeInv, QueueOk, FrontEndOk
<1>2. PICK c \in Submitted(s.next) : c = Head(cmds)
  BY <1>1, TailIn
<1>3. c.cmd \in {"Load", "PlayLoaded", "Play", "Pause", "Seek", "Restart"}
  BY DEF Submitted, Commands
<1>4. CASE c.cmd = "Load"
  <2>1. Load(c)
    BY <1>2, <1>4 DEF Dispatch
  <2> QED BY <1>1, <1>2, <1>4, <2>1, LoadIs
<1>5. CASE c.cmd # "Load"
  <2>1. Play(TRUE) \/ Play(FALSE) \/ Pause \/ Seek \/ Restart \/ Nothing
    BY <1>2, <1>3, <1>5 DEF Dispatch
  <2>2. Quietly
    BY <2>1, PlayIs, PauseIs, SeekIs, RestartIs, NothingIs
  <2> QED BY <1>1, <1>2, <1>5, <2>2, QuietStep
<1> QED BY <1>4, <1>5

(* A load in flight ends: given up, failed, or loaded. *)
LEMMA LoadCancelledIs == ASSUME RuntimeInv, LoadCancelled, plan' = plan PROVE RuntimeInv'
<1> DEFINE x == [e EXCEPT !.loading = 0]
           o == Outcome("LoadCancelled", e, e.loading)
<1>1. /\ e \in EngineSet /\ e.rev \in Nat /\ e.loading \in Nat /\ e.loading <= s.next
      /\ e.load \in Nat /\ e.load <= s.next /\ s.next \in Nat
  BY InvParts
<1>2. Settle(x, <<o>>) /\ e.loading # 0 /\ cmds' = cmds /\ stopBit' = stopBit
  BY DEF LoadCancelled
<1>3. o \in Known(s.next, e.rev) /\ o.token = e.loading /\ IsOutcome(o)
  BY <1>1, <1>2, OutcomeIn
<1> HIDE DEF o
<1>4. x \in EngineSet
  BY <1>1 DEF EngineSet
<1>5. x.rev = e.rev /\ x.load = e.load /\ x.loading = 0
  BY <1>1 DEF EngineSet
<1> HIDE DEF x
<1>6. <<o>> \in Seq(Known(s.next, x.rev)) /\ Answers(<<o>>, e.loading)
  BY <1>3, <1>5 DEF Answers
<1>7. stopBit' \in BOOLEAN
  BY <1>2 DEF RuntimeInv, FrontEndOk
<1>8. /\ e.rev <= x.rev /\ x.load <= s.next /\ x.loading <= s.next
      /\ (x.loading # 0 => x.media \in Media)
  BY <1>1, <1>5
<1> QED BY <1>2, <1>4, <1>6, <1>7, <1>8, EngineMoves

LEMMA LoadFailsIs == ASSUME RuntimeInv, LoadFails, plan' = plan PROVE RuntimeInv'
<1> DEFINE x == [e EXCEPT !.loading = 0, !.state = "Failed"]
           o == Outcome("Failed", e, e.loading)
           f == StateEvent(e, "Failed")
<1>1. /\ e \in EngineSet /\ e.rev \in Nat /\ e.loading \in Nat /\ e.loading <= s.next
      /\ e.load \in Nat /\ e.load <= s.next /\ s.next \in Nat
  BY InvParts
<1>2. Settle(x, <<o, f>>) /\ e.loading # 0 /\ cmds' = cmds /\ stopBit' = stopBit
  BY DEF LoadFails
<1>3. o \in Known(s.next, e.rev) /\ o.token = e.loading /\ IsOutcome(o)
  BY <1>1, <1>2, OutcomeIn
<1>4. f \in Known(s.next, e.rev)
  BY <1>1, StateEventIn DEF States
<1> HIDE DEF o, f
<1>5. x \in EngineSet
  BY <1>1 DEF EngineSet, States
<1>6. x.rev = e.rev /\ x.load = e.load /\ x.loading = 0
  BY <1>1 DEF EngineSet
<1> HIDE DEF x
<1>7. <<o, f>> \in Seq(Known(s.next, x.rev))
  BY <1>3, <1>4, <1>6
<1>8. Answers(<<o, f>>, e.loading)
  <2>1. 1 \in DOMAIN <<o, f>> /\ <<o, f>>[1] = o
    OBVIOUS
  <2> QED BY <1>3, <2>1 DEF Answers
<1>9. stopBit' \in BOOLEAN
  BY <1>2 DEF RuntimeInv, FrontEndOk
<1>10. /\ e.rev <= x.rev /\ x.load <= s.next /\ x.loading <= s.next
       /\ (x.loading # 0 => x.media \in Media)
  BY <1>1, <1>6
<1> QED BY <1>2, <1>5, <1>7, <1>8, <1>9, <1>10, EngineMoves

LEMMA StartsIn == ASSUME RuntimeInv, NEW live \in BOOLEAN, NEW fixed \in BOOLEAN
                  PROVE Starts(live, fixed) \subseteq Positions
<1>1. e.media \in MediaN /\ e.loading \in Nat /\ e.resume.to \in Positions
  BY InvParts DEF EngineSet, Intents
<1>2. e.resume.to.n \in Nat
  BY <1>1 DEF Positions
<1>3. /\ [of |-> e.media, kind |-> "live", n |-> 0] \in Positions
      /\ [of |-> e.media, kind |-> "fallback", n |-> 0] \in Positions
  BY <1>1 DEF Positions, MediaN
<1>4. StartOf(e.media, e.loading) \in Positions /\ Landings(e.media, e.resume.to.n) \subseteq Positions
  BY <1>1, <1>2, StartIn, LandingsIn
<1> QED BY <1>3, <1>4 DEF Starts

LEMMA LoadEndsIs == ASSUME RuntimeInv, LoadEnds, plan' = plan PROVE RuntimeInv'
<1>1. /\ e \in EngineSet /\ e.rev \in Nat /\ e.loading \in Nat /\ e.loading <= s.next
      /\ e.load \in Nat /\ e.load <= s.next /\ s.next \in Nat /\ e.media \in MediaN
  BY InvParts
<1>2. e.loading # 0 /\ e.media \in Media
  BY DEF LoadEnds, RuntimeInv, EngineOk
<1>3. cmds' = cmds /\ stopBit' \in BOOLEAN
  BY DEF LoadEnds, RuntimeInv, FrontEndOk
<1> DEFINE live == e.media \in Stations
<1>4. live \in BOOLEAN
  OBVIOUS
<1>5. PICK fixed \in BOOLEAN :
        \E pos \in Starts(live, fixed) :
           LET x == [e EXCEPT !.load = e.loading, !.loading = 0, !.live = live,
                              !.fixed = fixed, !.at = pos]
               loaded == [Event("Loaded", x) EXCEPT
                             !.token = x.load, !.media = x.media, !.pos = pos,
                             !.live = live, !.fallback = pos.kind = "fallback"]
           IN \/ Settle([x EXCEPT !.state = "Paused"], <<loaded, StateEvent(x, "Paused")>>)
              \/ Settle([x EXCEPT !.state = "Failed"],
                        <<loaded, Event("Failed", x), StateEvent(x, "Failed")>>)
  BY ZenonT(60) DEF LoadEnds
<1> HIDE DEF live
<1>6. PICK pos \in Starts(live, fixed) :
           LET x == [e EXCEPT !.load = e.loading, !.loading = 0, !.live = live,
                              !.fixed = fixed, !.at = pos]
               loaded == [Event("Loaded", x) EXCEPT
                             !.token = x.load, !.media = x.media, !.pos = pos,
                             !.live = live, !.fallback = pos.kind = "fallback"]
           IN \/ Settle([x EXCEPT !.state = "Paused"], <<loaded, StateEvent(x, "Paused")>>)
              \/ Settle([x EXCEPT !.state = "Failed"],
                        <<loaded, Event("Failed", x), StateEvent(x, "Failed")>>)
  BY <1>5
<1>7. pos \in Positions
  BY <1>4, StartsIn
<1>8. PICK fallback \in BOOLEAN : fallback = (pos.kind = "fallback")
  OBVIOUS
<1> DEFINE y == [e EXCEPT !.load = e.loading, !.loading = 0]
           x == [y EXCEPT !.live = live, !.fixed = fixed, !.at = pos]
           v == [Event("Loaded", x) EXCEPT !.token = x.load, !.media = x.media]
           loaded == [v EXCEPT !.pos = pos, !.live = live, !.fallback = fallback]
<1>9. /\ [e EXCEPT !.load = e.loading, !.loading = 0, !.live = live, !.fixed = fixed,
                   !.at = pos] = x
      /\ [Event("Loaded", x) EXCEPT !.token = x.load, !.media = x.media, !.pos = pos,
                                    !.live = live, !.fallback = pos.kind = "fallback"] = loaded
  <2>1. [e EXCEPT !.load = e.loading, !.loading = 0, !.live = live, !.fixed = fixed,
                  !.at = pos] = x
    BY <1>1 DEF EngineSet
  <2> HIDE DEF x
  <2>2. [Event("Loaded", x) EXCEPT !.token = x.load, !.media = x.media, !.pos = pos,
                                   !.live = live, !.fallback = pos.kind = "fallback"] = loaded
    BY <1>8 DEF Event
  <2> QED BY <2>1, <2>2 DEF x
<1>10. \/ Settle([x EXCEPT !.state = "Paused"], <<loaded, StateEvent(x, "Paused")>>)
       \/ Settle([x EXCEPT !.state = "Failed"],
                 <<loaded, Event("Failed", x), StateEvent(x, "Failed")>>)
  <2> HIDE DEF x, loaded
  <2> QED BY <1>6, <1>9
<1>11. y \in EngineSet
  BY <1>1 DEF EngineSet
<1>12. y.rev = e.rev /\ y.load = e.loading /\ y.loading = 0 /\ y.media = e.media
  BY <1>1 DEF EngineSet
<1> HIDE DEF y
<1>13. x \in EngineSet
  BY <1>4, <1>7, <1>11 DEF EngineSet
<1>14. x.rev = e.rev /\ x.load = e.loading /\ x.loading = 0 /\ x.media = e.media
  BY <1>11, <1>12 DEF EngineSet
<1> HIDE DEF x
<1>15. Event("Loaded", x) \in EventSet /\ Event("Loaded", x).k = "Loaded"
       /\ Event("Loaded", x).rev = e.rev
  BY <1>1, <1>14, NoPosIn DEF Event, EventSet, MediaN, States
<1>16. v \in EventSet /\ v.k = "Loaded" /\ v.rev = e.rev /\ v.token = e.loading /\ v.media = e.media
  <2>1. PICK u : u = Event("Loaded", x)
    OBVIOUS
  <2>2. u \in EventSet /\ u.k = "Loaded" /\ u.rev = e.rev
    BY <1>15, <2>1
  <2> DEFINE w == [u EXCEPT !.token = x.load, !.media = x.media]
  <2>3. w \in EventSet /\ w.k = "Loaded" /\ w.rev = e.rev /\ w.token = x.load /\ w.media = x.media
    BY <1>1, <1>14, <2>2 DEF EventSet
  <2>4. v = w
    BY <2>1
  <2> HIDE DEF v, w
  <2> QED BY <1>14, <2>3, <2>4
<1> HIDE DEF v
<1>17. loaded \in EventSet
  BY <1>4, <1>7, <1>16 DEF EventSet
<1>18. loaded.k = "Loaded" /\ loaded.rev = e.rev /\ loaded.token = e.loading /\ loaded.media = e.media
  BY <1>16 DEF EventSet
<1> HIDE DEF loaded
<1>19. loaded \in Known(s.next, e.rev) /\ IsOutcome(loaded)
  BY <1>1, <1>2, <1>17, <1>18 DEF Known, IsOutcome
<1>20. /\ StateEvent(x, "Paused") \in Known(s.next, e.rev)
       /\ StateEvent(x, "Failed") \in Known(s.next, e.rev)
       /\ Event("Failed", x) \in Known(s.next, e.rev)
  <2>1. x.loading <= s.next /\ s.next \in Nat /\ {"Paused", "Failed"} \subseteq States
    BY <1>1, <1>14 DEF States
  <2>2. /\ StateEvent(x, "Paused") \in Known(s.next, x.rev)
        /\ StateEvent(x, "Failed") \in Known(s.next, x.rev)
    BY <1>13, <2>1, StateEventIn
  <2>3. Event("Failed", x) \in Known(s.next, x.rev)
    BY <1>13, <2>1, NoPosIn, EventIn
  <2> QED BY <1>14, <2>2, <2>3
<1>21. ASSUME NEW state \in {"Paused", "Failed"}, NEW evs \in Seq(Known(s.next, e.rev)),
              Settle([x EXCEPT !.state = state], evs), 1 \in DOMAIN evs, evs[1] = loaded
       PROVE  RuntimeInv'
  <2> DEFINE w == [x EXCEPT !.state = state]
  <2>1. w \in EngineSet
    BY <1>13 DEF EngineSet, States
  <2>2. w.rev = e.rev /\ w.load = e.loading /\ w.loading = 0
    BY <1>13, <1>14 DEF EngineSet
  <2>3. Settle(w, evs)
    BY <1>21
  <2> HIDE DEF w
  <2>4. Answers(evs, e.loading)
    BY <1>18, <1>19, <1>21 DEF Answers
  <2>5. evs \in Seq(Known(s.next, w.rev))
    BY <2>2
  <2> QED BY <1>1, <1>3, <2>1, <2>2, <2>3, <2>4, <2>5, EngineMoves
<1>22. CASE Settle([x EXCEPT !.state = "Paused"], <<loaded, StateEvent(x, "Paused")>>)
  <2>1. <<loaded, StateEvent(x, "Paused")>> \in Seq(Known(s.next, e.rev))
    BY <1>19, <1>20
  <2>2. 1 \in DOMAIN <<loaded, StateEvent(x, "Paused")>>
    OBVIOUS
  <2> QED BY <1>21, <1>22, <2>1, <2>2
<1>23. CASE Settle([x EXCEPT !.state = "Failed"],
                   <<loaded, Event("Failed", x), StateEvent(x, "Failed")>>)
  <2>1. <<loaded, Event("Failed", x), StateEvent(x, "Failed")>> \in Seq(Known(s.next, e.rev))
    BY <1>19, <1>20
  <2>2. 1 \in DOMAIN <<loaded, Event("Failed", x), StateEvent(x, "Failed")>>
    OBVIOUS
  <2> QED BY <1>21, <1>23, <2>1, <2>2
<1> QED BY <1>10, <1>22, <1>23

LEMMA TakeStopIs == ASSUME RuntimeInv, TakeStop, plan' = plan PROVE RuntimeInv'
<1>1. Like(e) /\ e \in EngineSet /\ e.rev \in Nat /\ s.next \in Nat
  BY LikeItself, InvParts
<1>2. cmds' = cmds /\ stopBit' \in BOOLEAN
  BY DEF TakeStop
<1> DEFINE rev == e.rev + 1
           x == [e EXCEPT !.rev = rev]
           y == [x EXCEPT !.state = "Stopped", !.closed = FALSE]
<1>3. Settle(e, <<>>) \/ Settle(y, <<StateEvent(x, "Stopped")>>)
  BY DEF TakeStop
<1>4. rev \in Nat /\ e.rev <= rev
  BY <1>1
<1> HIDE DEF rev
<1>5. x \in EngineSet
  BY <1>1, <1>4 DEF EngineSet
<1>6. x.rev = rev /\ x.load = e.load /\ x.loading = e.loading /\ x.media = e.media
  BY <1>1 DEF EngineSet
<1> HIDE DEF x
<1>7. y \in EngineSet
  BY <1>5 DEF EngineSet, States
<1>8. y.rev = rev /\ y.load = e.load /\ y.loading = e.loading /\ y.media = e.media
  BY <1>5, <1>6 DEF EngineSet
<1> HIDE DEF y
<1>9. Like(x) /\ Like(y)
  BY <1>4, <1>5, <1>6, <1>7, <1>8 DEF Like
<1>10. <<StateEvent(x, "Stopped")>> \in Seq(Known(s.next, y.rev))
       /\ <<>> \in Seq(Known(s.next, e.rev))
  <2>1. "Stopped" \in States
    BY DEF States
  <2>2. <<StateEvent(x, "Stopped")>> \in Seq(Known(s.next, x.rev))
    BY <1>9, <2>1, LikeEvents
  <2> QED BY <1>6, <1>8, <2>2
<1>11. Quietly
  BY <1>1, <1>3, <1>9, <1>10, QuietlyBy
<1> QED BY <1>2, <1>11, QuietStep

LEMMA DiscardIs == ASSUME RuntimeInv, Discard, plan' = plan PROVE RuntimeInv'
<1>1. /\ e \in EngineSet /\ e.rev \in Nat /\ e.load <= s.next /\ e.loading <= s.next
      /\ s.next \in Nat
  BY InvParts
<1>2. /\ cmds \in Seq(Submitted(s.next)) /\ cmds # <<>> /\ cmds' = Tail(cmds)
      /\ stopBit' \in BOOLEAN /\ (e.loading # 0 => e.media \in Media)
  BY DEF Discard, RuntimeInv, QueueOk, FrontEndOk, EngineOk
<1>3. PICK c \in Submitted(s.next) : c = Head(cmds)
  BY <1>2, TailIn
<1>4. c.token \in Nat /\ c.token <= s.next
  BY DEF Submitted, Commands
<1> DEFINE o == Outcome("LoadCancelled", e, c.token)
<1>5. o \in Known(s.next, e.rev) /\ o.token = c.token /\ (c.token # 0 => IsOutcome(o))
  BY <1>1, <1>4, OutcomeIn
<1>6. CASE c.cmd = "Load"
  <2>1. Settle(e, <<o>>)
    BY <1>3, <1>6 DEF Discard
  <2> HIDE DEF o
  <2>2. <<o>> \in Seq(Known(s.next, e.rev)) /\ (c.token # 0 => Answers(<<o>>, c.token))
    BY <1>5 DEF Answers
  <2>3. Head(cmds).cmd = "Load" /\ Head(cmds).token # 0 => Answers(<<o>>, Head(cmds).token)
    BY <1>3, <2>2
  <2>4. e.rev <= e.rev
    BY <1>1
  <2> QED BY <1>1, <1>2, <2>1, <2>2, <2>3, <2>4, EngineMoves
<1>7. CASE c.cmd # "Load"
  <2>1. Settle(e, <<>>)
    BY <1>3, <1>7 DEF Discard
  <2>2. <<>> \in Seq(Known(s.next, e.rev))
    OBVIOUS
  <2>3. Quietly
    BY <2>1, <2>2, LikeItself, QuietlyBy
  <2> QED BY <1>2, <1>3, <1>7, <2>3, QuietStep
<1> QED BY <1>6, <1>7

LEMMA EngineClosesIs == ASSUME RuntimeInv, EngineCloses, plan' = plan PROVE RuntimeInv'
<1>1. FrontEndOk'
  BY DEF EngineCloses, RuntimeInv, FrontEndOk, Sane, AgreesIn
<1>2. EngineOk' /\ QueueOk' /\ EventsOk' /\ PendingIsOwed'
  BY DEF EngineCloses, RuntimeInv, EngineOk, QueueOk, QueueCap, EventsOk, PendingIsOwed
<1> QED BY <1>1, <1>2 DEF RuntimeInv

LEMMA EngineShutdownIs == ASSUME RuntimeInv, EngineShutdown, plan' = plan PROVE RuntimeInv'
<1> DEFINE x == [e EXCEPT !.state = "Idle"]
<1>0. e \in EngineSet
  BY InvParts
<1>1. x \in EngineSet
  BY <1>0 DEF EngineSet, States
<1>2. x.rev = e.rev /\ x.load = e.load /\ x.loading = e.loading /\ x.media = e.media
  BY <1>0 DEF EngineSet
<1>3. e' = x
  BY DEF EngineShutdown
<1> HIDE DEF x
<1>4. FrontEndOk'
  BY DEF EngineShutdown, RuntimeInv, FrontEndOk, Sane, AgreesIn
<1>5. EngineOk'
  BY <1>1, <1>2, <1>3 DEF EngineShutdown, RuntimeInv, EngineOk
<1>6. QueueOk' /\ EventsOk' /\ PendingIsOwed'
  BY <1>2, <1>3 DEF EngineShutdown, RuntimeInv, QueueOk, QueueCap, EventsOk, PendingIsOwed
<1> QED BY <1>4, <1>5, <1>6 DEF RuntimeInv

LEMMA EngineIs == ASSUME RuntimeInv, Engine, plan' = plan PROVE RuntimeInv'
<1>1. CASE Advance \/ EndOfTrack \/ Breaks \/ Rebuild \/ Lose \/ Regain
  <2>1. Quietly
    BY <1>1, AloneIs
  <2>2. cmds' = cmds /\ stopBit' = stopBit
    BY <1>1 DEF Advance, EndOfTrack, Breaks, Rebuild, Lose, Regain, Alone
  <2>3. stopBit' \in BOOLEAN
    BY <2>2 DEF RuntimeInv, FrontEndOk
  <2> QED BY <2>1, <2>2, <2>3, QuietStep
<1> QED BY <1>1, DispatchIs, LoadCancelledIs, LoadFailsIs, LoadEndsIs, TakeStopIs, DiscardIs,
           EngineClosesIs, EngineShutdownIs DEF Engine

-----------------------------------------------------------------------------
(* What the front end submits. *)

LEMMA FrontEndParts ==
  ASSUME RuntimeInv
  PROVE  /\ Sane(s) /\ s \in SessionSet /\ s.next \in Nat /\ s.latest \in Nat /\ s.latest <= e.rev
         /\ DOMAIN s.pending \subseteq 1 .. s.next
         /\ Cardinality(DOMAIN s.pending) <= MaxPending
         /\ detached \in {"no", "yes", "failed"} /\ stopBit \in BOOLEAN
         /\ mirror \in Mirrors /\ mirror.load <= s.next
         /\ plan \in Plans /\ QueueCap \in Nat
         /\ cmds \in Seq(Submitted(s.next)) /\ Len(cmds) <= QueueCap
         /\ events \in Seq(Known(s.next, e.rev))
         /\ Progress \in Samplings
<1>1. Sane(s) /\ s \in SessionSet /\ s.next \in Nat /\ s.latest \in Nat
  BY DEF RuntimeInv, FrontEndOk, Sane, SessionSet
<1>2. QueueCap \in Nat
  BY RuntimeAssumption DEF RuntimeInv, FrontEndOk, QueueCap
<1>3. Progress \in Samplings
  BY InvParts DEF Progress, Samplings
<1> QED BY <1>1, <1>2, <1>3 DEF RuntimeInv, FrontEndOk, EngineOk, QueueOk, EventsOk, Sane

LEMMA Smaller ==
  ASSUME NEW n \in Nat, NEW S, S \subseteq 1 .. n, NEW T, T \subseteq S,
         Cardinality(S) <= MaxPending
  PROVE  Cardinality(T) <= MaxPending /\ IsFiniteSet(S) /\ Cardinality(S) \in Nat
<1>1. IsFiniteSet(1 .. n)
  BY FS_Interval
<1>2. IsFiniteSet(S)
  BY <1>1, FS_Subset
<1>3. IsFiniteSet(T) /\ Cardinality(T) <= Cardinality(S)
  BY <1>2, FS_Subset
<1>4. Cardinality(S) \in Nat /\ Cardinality(T) \in Nat
  BY <1>2, <1>3, FS_CardinalityType
<1> QED BY <1>2, <1>3, <1>4, RuntimeAssumption

(* What a step of the front end has to show. *)
LEMMA FrontEndMoves ==
  ASSUME RuntimeInv, e' = e, plan' = plan, Sane(s'), s.next <= s'.next, s'.latest <= e.rev,
         Cardinality(DOMAIN s'.pending) <= MaxPending,
         app' \in {"ui", "drain", "sample", "join", "closing", "joined", "done"},
         detached' \in {"no", "yes", "failed"}, stopBit' \in BOOLEAN,
         mirror' \in Mirrors, mirror'.load <= s'.next,
         cmds' \in Seq(Submitted(s'.next)), Len(cmds') <= QueueCap,
         events' \in Seq(Known(s.next, e.rev)), PendingIsOwed'
  PROVE  RuntimeInv'
<1>1. s.next \in Nat /\ s'.next \in Nat /\ plan \in Plans
  BY FrontEndParts DEF Sane, SessionSet
<1>2. /\ e \in EngineSet /\ e.rev \in Nat /\ e.load \in Nat /\ e.loading \in Nat
      /\ e.load <= s.next /\ e.loading <= s.next
  BY InvParts
<1>3. FrontEndOk'
  BY <1>1 DEF FrontEndOk, Sane, AgreesIn
<1>4. EngineOk'
  <2>1. e.load <= s'.next /\ e.loading <= s'.next
    BY <1>1, <1>2
  <2>2. e.loading # 0 => e.media \in Media
    BY DEF RuntimeInv, EngineOk
  <2> QED BY <1>2, <2>1, <2>2 DEF EngineOk
<1>5. QueueOk'
  BY DEF QueueOk, QueueCap
<1>6. EventsOk'
  <2>1. events' \in Seq(Known(s'.next, e.rev))
    BY <1>1, <1>2, KnownGrows, SeqGrows
  <2> QED BY <2>1 DEF EventsOk
<1> QED BY <1>3, <1>4, <1>5, <1>6 DEF RuntimeInv

LEMMA SubmittedGrows ==
  ASSUME NEW n \in Nat, NEW m \in Nat, n <= m PROVE Submitted(n) \subseteq Submitted(m)
BY DEF Submitted, Commands

(* What a submission leaves: the commands queued before it, and a Load queued *)
(* for every registration it added.                                          *)
Handed(x, y) ==
    /\ Sane(y.s) /\ x.s.next <= y.s.next /\ y.s.latest = x.s.latest
    /\ Cardinality(DOMAIN y.s.pending) <= MaxPending
    /\ y.cmds \in Seq(Submitted(y.s.next)) /\ Len(y.cmds) <= QueueCap
    /\ \A i \in DOMAIN x.cmds : i \in DOMAIN y.cmds /\ y.cmds[i] = x.cmds[i]
    /\ \A t \in DOMAIN y.s.pending :
          \/ t \in DOMAIN x.s.pending
          \/ \E i \in DOMAIN y.cmds : y.cmds[i].cmd = "Load" /\ y.cmds[i].token = t

Handing(x) ==
    /\ Sane(x.s) /\ QueueCap \in Nat
    /\ Cardinality(DOMAIN x.s.pending) <= MaxPending
    /\ x.cmds \in Seq(Submitted(x.s.next)) /\ Len(x.cmds) <= QueueCap

LEMMA HandedItself == ASSUME NEW x, Handing(x) PROVE Handed(x, x)
<1>1. x.s.next \in Nat
  BY DEF Handing, Sane, SessionSet
<1> QED BY <1>1 DEF Handing, Handed

LEMMA ResumeIntentIn ==
  ASSUME NEW x \in SessionSet, NEW m \in Media PROVE ResumeIntent(x, m) \in Intents
<1>1. x.ck[m] \in StoredEntries
  BY DEF SessionSet, Checkpoints
<1>2. x.ck[m].est \in Positions /\ x.ck[m].pos \in Positions
  BY <1>1 DEF StoredEntries
<1>3. /\ [what |-> "guess", to |-> x.ck[m].est] \in Intents
      /\ [what |-> "sure", to |-> x.ck[m].pos] \in Intents
  BY <1>2 DEF Intents
<1> QED BY <1>3, NoIntentIn DEF ResumeIntent

LEMMA AppendIn ==
  ASSUME NEW S, NEW q \in Seq(S), NEW v \in S
  PROVE  LET j == Append(q, v) IN
         /\ j \in Seq(S) /\ Len(j) = Len(q) + 1 /\ Len(q) \in Nat
         /\ \A i \in DOMAIN q : i \in DOMAIN j /\ j[i] = q[i]
         /\ Len(q) + 1 \in DOMAIN j /\ j[Len(q) + 1] = v
OBVIOUS

LEMMA AdmittedIs ==
  ASSUME NEW x, Handing(x), NEW target \in Nat, NEW media \in Media, ~Busy(x.s), Room(x.cmds)
  PROVE  Handed(x, Admitted(x, Register(x.s, target, media), media))
<1> DEFINE r == Register(x.s, target, media)
           load == Command("Load", r.next, media, ResumeIntent(r, media))
           start == Command("PlayLoaded", r.next, NoMedia, NoIntent)
           queued == Append(x.cmds, load)
           all == IF Room(queued) THEN Append(queued, start) ELSE queued
<1>1. /\ Sane(x.s) /\ QueueCap \in Nat /\ x.cmds \in Seq(Submitted(x.s.next))
      /\ Len(x.cmds) \in Nat
  BY DEF Handing
<1>2. /\ Sane(r) /\ r.next = x.s.next + 1 /\ x.s.next \in Nat
      /\ DOMAIN r.pending = DOMAIN x.s.pending \union {x.s.next + 1}
      /\ r.latest = x.s.latest
  <2>1. PICK u : u = x.s
    OBVIOUS
  <2>2. Sane(u)
    BY <1>1, <2>1
  <2> DEFINE v == Register(u, target, media)
  <2>3. /\ Sane(v) /\ v.next = u.next + 1 /\ u.next \in Nat
        /\ DOMAIN v.pending = DOMAIN u.pending \union {u.next + 1}
        /\ v.latest = u.latest
    BY <2>2, RegisterIs
  <2>4. v = r
    BY <2>1
  <2> HIDE DEF v, r
  <2> QED BY <2>1, <2>3, <2>4
<1>3. Admitted(x, r, media) = [s |-> r, cmds |-> all]
  BY DEF Admitted
<1> HIDE DEF r
<1>4. r \in SessionSet /\ r.next \in Nat /\ x.s.next <= r.next
  BY <1>2 DEF Sane
<1>5. load \in Submitted(r.next) /\ load.cmd = "Load" /\ load.token = r.next
  BY <1>4, ResumeIntentIn DEF Command, Submitted, Commands, MediaN
<1>6. start \in Submitted(r.next)
  BY <1>4, NoIntentIn DEF Command, Submitted, Commands, MediaN
<1> HIDE DEF load, start
<1>7. x.cmds \in Seq(Submitted(r.next))
  BY <1>1, <1>2, <1>4, SubmittedGrows, SeqGrows
<1>8. /\ queued \in Seq(Submitted(r.next)) /\ Len(queued) = Len(x.cmds) + 1
      /\ \A i \in DOMAIN x.cmds : i \in DOMAIN queued /\ queued[i] = x.cmds[i]
      /\ Len(x.cmds) + 1 \in DOMAIN queued /\ queued[Len(x.cmds) + 1] = load
  BY <1>5, <1>7, AppendIn
<1>9. Len(queued) <= QueueCap
  BY <1>1, <1>8 DEF Room
<1> HIDE DEF queued
<1>10. /\ all \in Seq(Submitted(r.next)) /\ Len(all) <= QueueCap
       /\ \A i \in DOMAIN queued : i \in DOMAIN all /\ all[i] = queued[i]
  <2>1. CASE Room(queued)
    <3>1. PICK both : both = Append(queued, start)
      OBVIOUS
    <3>2. /\ both \in Seq(Submitted(r.next)) /\ Len(both) = Len(queued) + 1
          /\ \A i \in DOMAIN queued : i \in DOMAIN both /\ both[i] = queued[i]
          /\ Len(queued) \in Nat
      BY <1>6, <1>8, <3>1, AppendIn
    <3>3. all = both
      BY <2>1, <3>1
    <3>4. Len(queued) < QueueCap
      BY <2>1 DEF Room
    <3>5. Len(both) <= QueueCap
      BY <1>1, <3>2, <3>4
    <3> QED BY <3>2, <3>3, <3>5
  <2>2. CASE ~Room(queued)
    BY <1>8, <1>9, <2>2
  <2> QED BY <2>1, <2>2
<1> HIDE DEF all
<1>11. Cardinality(DOMAIN r.pending) <= MaxPending
  <2>1. DOMAIN x.s.pending \subseteq 1 .. x.s.next /\ Cardinality(DOMAIN x.s.pending) <= MaxPending
    BY <1>1 DEF Handing, Sane
  <2>2. IsFiniteSet(DOMAIN x.s.pending) /\ Cardinality(DOMAIN x.s.pending) \in Nat
    BY <1>2, <2>1, Smaller
  <2>3. PICK D : D = DOMAIN x.s.pending
    OBVIOUS
  <2>4. PICK t : t = x.s.next + 1
    OBVIOUS
  <2>5. Cardinality(D \cup {t}) = IF t \in D THEN Cardinality(D) ELSE Cardinality(D) + 1
    BY <2>2, <2>3, FS_AddElement
  <2>6. Cardinality(D) < MaxPending /\ Cardinality(D) \in Nat
    BY <2>1, <2>2, <2>3, RuntimeAssumption DEF Busy
  <2> QED BY <1>2, <2>3, <2>4, <2>5, <2>6, RuntimeAssumption
<1>12. \A t \in DOMAIN r.pending :
          \/ t \in DOMAIN x.s.pending
          \/ \E i \in DOMAIN all : all[i].cmd = "Load" /\ all[i].token = t
  <2>1. Len(x.cmds) + 1 \in DOMAIN all /\ all[Len(x.cmds) + 1] = load
    BY <1>8, <1>10
  <2> QED BY <1>2, <1>5, <2>1
<1>13. \A i \in DOMAIN x.cmds : i \in DOMAIN all /\ all[i] = x.cmds[i]
  BY <1>8, <1>10
<1>14. PICK y : y = [s |-> r, cmds |-> all]
  OBVIOUS
<1>15. y.s = r /\ y.cmds = all
  BY <1>14
<1>16. Handed(x, y)
  BY <1>2, <1>4, <1>10, <1>11, <1>12, <1>13, <1>15 DEF Handed
<1> QED BY <1>3, <1>14, <1>16 DEF r

LEMMA SubmitLoadIs ==
  ASSUME NEW x, Handing(x), NEW target \in Nat, NEW media \in Media,
         \E session, queue : x = [s |-> session, cmds |-> queue]
  PROVE  Handed(x, SubmitLoad(x, target, media))
<1> DEFINE r == Register(x.s, target, media)
           t == Retract(r, r.next)
           y == [x EXCEPT !.s = t]
<1>1. /\ Sane(r) /\ r.next = x.s.next + 1 /\ x.s.next \in Nat
      /\ DOMAIN r.pending = DOMAIN x.s.pending \union {x.s.next + 1}
      /\ x.s.next + 1 \notin DOMAIN x.s.pending
      /\ r.latest = x.s.latest
  <2>1. PICK u : u = x.s
    OBVIOUS
  <2>2. Sane(u)
    BY <2>1 DEF Handing
  <2> DEFINE v == Register(u, target, media)
  <2>3. /\ Sane(v) /\ v.next = u.next + 1 /\ u.next \in Nat
        /\ DOMAIN v.pending = DOMAIN u.pending \union {u.next + 1}
        /\ u.next + 1 \notin DOMAIN u.pending
        /\ v.latest = u.latest
    BY <2>2, RegisterIs
  <2>4. v = r
    BY <2>1
  <2> HIDE DEF v, r
  <2> QED BY <2>1, <2>3, <2>4
<1>2. CASE Busy(x.s)
  <2>1. SubmitLoad(x, target, media) = x
    BY <1>2 DEF SubmitLoad
  <2> QED BY <2>1, HandedItself
<1>3. CASE ~Busy(x.s) /\ ~Room(x.cmds)
  <2>1. SubmitLoad(x, target, media) = y
    BY <1>3 DEF SubmitLoad
  <2> HIDE DEF r
  <2>2. /\ Sane(t) /\ t.next = r.next /\ DOMAIN t.pending = DOMAIN r.pending \ {r.next}
        /\ t.latest = r.latest
    BY <1>1, RetractIs
  <2> HIDE DEF t
  <2>3. y.s = t /\ y.cmds = x.cmds
    BY DEF y
  <2> HIDE DEF y
  <2>4. DOMAIN t.pending = DOMAIN x.s.pending /\ x.s.next <= t.next /\ t.next \in Nat
        /\ t.latest = x.s.latest
    BY <1>1, <2>2
  <2>5. x.cmds \in Seq(Submitted(t.next))
    BY <1>1, <2>4, SubmittedGrows, SeqGrows DEF Handing
  <2>6. Handed(x, y)
    BY <2>2, <2>3, <2>4, <2>5 DEF Handed, Handing
  <2> QED BY <2>1, <2>6
<1>4. CASE ~Busy(x.s) /\ Room(x.cmds)
  <2>1. SubmitLoad(x, target, media) = Admitted(x, r, media)
    BY <1>4 DEF SubmitLoad
  <2>2. Handed(x, Admitted(x, r, media))
    BY <1>4, AdmittedIs
  <2> QED BY <2>1, <2>2
<1> QED BY <1>2, <1>3, <1>4

LEMMA LoadEntryIs ==
  ASSUME NEW x, Handing(x), NEW id, \E session, queue : x = [s |-> session, cmds |-> queue]
  PROVE  Handed(x, LoadEntry(x, id))
<1>1. CASE Has(x.s.set, id)
  <2>1. SoundSet(x.s.set)
    BY DEF Handing, Sane, SessionSet, SoundSets
  <2>2. id \in Nat /\ MediaOf(x.s.set, id) \in Media
    BY <1>1, <2>1, MediaOfEntry
  <2> QED BY <1>1, <2>2, SubmitLoadIs DEF LoadEntry
<1>2. CASE ~Has(x.s.set, id)
  BY <1>2, HandedItself DEF LoadEntry
<1> QED BY <1>1, <1>2

-----------------------------------------------------------------------------
(* The front end's commands. *)

(* What is still owed after a step that only submits: cmds keeps its Loads.  *)
LEMMA HandedOwed ==
  ASSUME RuntimeInv, NEW y, Handed([s |-> s, cmds |-> cmds], y), e' = e, events' = events,
         cmds' = y.cmds, DOMAIN s'.pending = DOMAIN y.s.pending
  PROVE  PendingIsOwed'
<1>1. PICK x : x = [s |-> s, cmds |-> cmds]
  OBVIOUS
<1>2. x.s = s /\ x.cmds = cmds /\ Handed(x, y)
  BY <1>1
<1>3. /\ \A i \in DOMAIN cmds : i \in DOMAIN y.cmds /\ y.cmds[i] = cmds[i]
      /\ \A t \in DOMAIN y.s.pending :
            \/ t \in DOMAIN s.pending
            \/ \E i \in DOMAIN y.cmds : y.cmds[i].cmd = "Load" /\ y.cmds[i].token = t
  BY <1>2 DEF Handed
<1> SUFFICES ASSUME NEW t \in DOMAIN s'.pending
             PROVE  \/ \E i \in DOMAIN cmds' : cmds'[i].cmd = "Load" /\ cmds'[i].token = t
                    \/ e'.loading = t
                    \/ \E i \in DOMAIN events' : IsOutcome(events'[i]) /\ events'[i].token = t
  BY DEF PendingIsOwed
<1>4. CASE t \in DOMAIN s.pending
  <2>1. \/ \E i \in DOMAIN cmds : cmds[i].cmd = "Load" /\ cmds[i].token = t
        \/ e.loading = t
        \/ \E i \in DOMAIN events : IsOutcome(events[i]) /\ events[i].token = t
    BY <1>4 DEF RuntimeInv, PendingIsOwed
  <2> QED BY <1>3, <2>1
<1>5. CASE t \notin DOMAIN s.pending
  BY <1>3, <1>5
<1> QED BY <1>4, <1>5

(* Commands that load nothing, or no command at all. *)
LEMMA OwedStill ==
  ASSUME RuntimeInv, e' = e, events' = events, DOMAIN s'.pending \subseteq DOMAIN s.pending,
         \A i \in DOMAIN cmds : i \in DOMAIN cmds' /\ cmds'[i] = cmds[i]
  PROVE  PendingIsOwed'
BY DEF RuntimeInv, PendingIsOwed

(* Both submissions. *)
LEMMA HandedStep ==
  ASSUME RuntimeInv, NEW y, Handed([s |-> s, cmds |-> cmds], y), cmds' = y.cmds,
         s'.next = y.s.next, s'.latest = y.s.latest, DOMAIN s'.pending = DOMAIN y.s.pending, Sane(s'),
         app' \in {"ui", "drain", "sample", "join", "closing", "joined", "done"},
         detached' \in {"no", "yes", "failed"},
         UNCHANGED <<mirror, stopBit, events, e, plan>>
  PROVE  RuntimeInv'
<1>1. PICK x : x = [s |-> s, cmds |-> cmds]
  OBVIOUS
<1>2. x.s = s /\ x.cmds = cmds /\ Handed(x, y)
  BY <1>1
<1>3. /\ s.next <= y.s.next /\ y.s.latest = s.latest /\ Sane(y.s)
      /\ Cardinality(DOMAIN y.s.pending) <= MaxPending
      /\ y.cmds \in Seq(Submitted(y.s.next)) /\ Len(y.cmds) <= QueueCap
  BY <1>2 DEF Handed
<1>4. PendingIsOwed'
  BY HandedOwed
<1>5. /\ s.next \in Nat /\ s.latest <= e.rev /\ stopBit \in BOOLEAN /\ mirror \in Mirrors
      /\ mirror.load <= s.next /\ events \in Seq(Known(s.next, e.rev))
  BY FrontEndParts
<1>6. y.s.next \in Nat
  BY <1>3 DEF Sane, SessionSet
<1>7. mirror.load \in Nat
  BY <1>5 DEF Mirrors
<1>8. mirror.load <= y.s.next
  BY <1>3, <1>5, <1>6, <1>7
<1> QED BY <1>3, <1>4, <1>5, <1>8, FrontEndMoves

LEMMA HandingNow ==
  ASSUME RuntimeInv
  PROVE  /\ Handing([s |-> s, cmds |-> cmds])
         /\ [s |-> s, cmds |-> cmds].s = s /\ [s |-> s, cmds |-> cmds].cmds = cmds
<1>1. PICK x : x = [s |-> s, cmds |-> cmds]
  OBVIOUS
<1>2. x.s = s /\ x.cmds = cmds
  BY <1>1
<1>3. Handing(x)
  BY <1>2, FrontEndParts DEF Handing
<1> QED BY <1>1, <1>2, <1>3

LEMMA PlayEntryIs == ASSUME RuntimeInv, PlayEntry, plan' = plan PROVE RuntimeInv'
<1>1. PICK id : LET x == LoadEntry([s |-> s, cmds |-> cmds], id) IN s' = x.s /\ cmds' = x.cmds
  BY DEF PlayEntry
<1>2. PICK y : y = LoadEntry([s |-> s, cmds |-> cmds], id)
  OBVIOUS
<1>3. Handed([s |-> s, cmds |-> cmds], y)
  BY <1>2, HandingNow, LoadEntryIs
<1>4. s' = y.s /\ cmds' = y.cmds
  BY <1>1, <1>2
<1>5. UNCHANGED <<mirror, detached, app, stopBit, events, e>>
  BY DEF PlayEntry
<1>6. Sane(y.s)
  BY <1>3 DEF Handed
<1>7. app \in {"ui", "drain", "sample", "join", "closing", "joined", "done"}
      /\ detached \in {"no", "yes", "failed"}
  BY DEF RuntimeInv, FrontEndOk
<1> QED BY <1>3, <1>4, <1>5, <1>6, <1>7, HandedStep

LEMMA PlayDetachedIs == ASSUME RuntimeInv, PlayDetached, plan' = plan PROVE RuntimeInv'
<1>1. PICK m \in Media :
         LET x == SubmitLoad([s |-> s, cmds |-> cmds], Detached, m) IN s' = x.s /\ cmds' = x.cmds
  BY DEF PlayDetached
<1>2. PICK y : y = SubmitLoad([s |-> s, cmds |-> cmds], Detached, m)
  OBVIOUS
<1>3. Handed([s |-> s, cmds |-> cmds], y)
  <2>1. Detached \in Nat
    BY DEF Detached, None
  <2> QED BY <1>2, <2>1, HandingNow, SubmitLoadIs
<1>4. s' = y.s /\ cmds' = y.cmds
  BY <1>1, <1>2
<1>5. UNCHANGED <<mirror, app, stopBit, events, e>> /\ detached' = "yes"
  BY DEF PlayDetached
<1>6. Sane(y.s)
  BY <1>3 DEF Handed
<1>7. app \in {"ui", "drain", "sample", "join", "closing", "joined", "done"}
  BY DEF RuntimeInv, FrontEndOk
<1> QED BY <1>3, <1>4, <1>5, <1>6, <1>7, HandedStep

LEMMA SampleIs == ASSUME RuntimeInv, Sample, plan' = plan PROVE RuntimeInv'
<1> DEFINE asked == [s EXCEPT !.advance = None]
<1>1. PICK due \in BOOLEAN :
         LET x == LoadEntry([s |-> asked, cmds |-> cmds], s.advance)
         IN s' = Tick(x.s, Progress, due) /\ cmds' = x.cmds
  BY DEF Sample
<1>2. PICK y : y = LoadEntry([s |-> asked, cmds |-> cmds], s.advance)
  OBVIOUS
<1>3. s' = Tick(y.s, Progress, due) /\ cmds' = y.cmds
  BY <1>1, <1>2
<1>4. s \in SessionSet /\ Sane(s)
  BY FrontEndParts
<1>5. asked \in SessionSet
  BY <1>4 DEF SessionSet, None
<1>6. /\ Keeps(s, asked) /\ asked.latest = s.latest /\ asked.next = s.next
      /\ asked.pending = s.pending
  BY <1>4 DEF SessionSet, Keeps
<1>7. Sane(asked)
  BY <1>4, <1>5, <1>6, KeepsSane
<1> HIDE DEF asked
<1>8. PICK x : x = [s |-> asked, cmds |-> cmds]
  OBVIOUS
<1>9. x.s = asked /\ x.cmds = cmds
  BY <1>8
<1>10. Handing(x)
  BY <1>6, <1>7, <1>9, FrontEndParts DEF Handing
<1>11. Handed(x, y)
  BY <1>2, <1>8, <1>10, LoadEntryIs
<1>12. Handed([s |-> s, cmds |-> cmds], y)
  <2>1. PICK z : z = [s |-> s, cmds |-> cmds]
    OBVIOUS
  <2>2. z.s = s /\ z.cmds = cmds
    BY <2>1
  <2>3. Handed(z, y)
    BY <1>6, <1>9, <1>11, <2>2 DEF Handed
  <2> QED BY <2>1, <2>3
<1>13. Sane(y.s)
  BY <1>11 DEF Handed
<1>14. s' \in SessionSet /\ Keeps(y.s, s')
  <2>1. PICK z : z = y.s
    OBVIOUS
  <2>2. z \in SessionSet
    BY <1>13, <2>1 DEF Sane
  <2>3. Tick(z, Progress, due) \in SessionSet /\ Keeps(z, Tick(z, Progress, due))
    BY <2>2, FrontEndParts, TickIs
  <2> QED BY <1>3, <2>1, <2>3
<1>15. Sane(s')
  BY <1>13, <1>14, KeepsSane
<1>16. s'.next = y.s.next /\ s'.latest = y.s.latest /\ DOMAIN s'.pending = DOMAIN y.s.pending
  BY <1>14 DEF Keeps
<1>17. UNCHANGED <<mirror, detached, stopBit, events, e>>
       /\ app' \in {"ui", "drain", "sample", "join", "closing", "joined", "done"}
  BY DEF Sample
<1>18. detached \in {"no", "yes", "failed"}
  BY FrontEndParts
<1> QED BY <1>3, <1>12, <1>15, <1>16, <1>17, <1>18, HandedStep

LEMMA TransportIs ==
  ASSUME RuntimeInv, NEW kind \in {"Toggle", "Seek", "Restart"}, Transport(kind), plan' = plan PROVE RuntimeInv'
<1>1. /\ cmds' = Append(cmds, Plain(Sent(kind))) /\ Len(cmds) < QueueCap
      /\ UNCHANGED <<s, mirror, detached, app, stopBit, events, e>>
  BY DEF Transport, Room
<1>2. Plain(Sent(kind)) \in Submitted(s.next)
  <2>1. Sent(kind) \in {"Play", "Pause", "Seek", "Restart"}
    BY DEF Sent
  <2>2. PICK cmd \in {"Play", "Pause", "Seek", "Restart"} : cmd = Sent(kind)
    BY <2>1
  <2>3. Plain(cmd) \in Submitted(s.next)
    BY FrontEndParts, NoIntentIn DEF Plain, Command, Submitted, Commands, MediaN
  <2> QED BY <2>2, <2>3
<1>3. PICK c \in Submitted(s.next) : c = Plain(Sent(kind))
  BY <1>2
<1>4. /\ cmds' \in Seq(Submitted(s.next)) /\ Len(cmds') = Len(cmds) + 1 /\ Len(cmds) \in Nat
      /\ \A i \in DOMAIN cmds : i \in DOMAIN cmds' /\ cmds'[i] = cmds[i]
  BY <1>1, <1>3, FrontEndParts, AppendIn
<1>5. PendingIsOwed'
  BY <1>1, <1>4, OwedStill
<1>6. Len(cmds') <= QueueCap
  BY <1>1, <1>4, FrontEndParts
<1>7. app \in {"ui", "drain", "sample", "join", "closing", "joined", "done"}
  BY DEF RuntimeInv, FrontEndOk
<1>8. s.next <= s.next
  BY FrontEndParts
<1>9. /\ e' = e /\ plan' = plan /\ Sane(s') /\ s.next <= s'.next /\ s'.latest <= e.rev
      /\ Cardinality(DOMAIN s'.pending) <= MaxPending
      /\ detached' \in {"no", "yes", "failed"} /\ stopBit' \in BOOLEAN
      /\ mirror' \in Mirrors /\ mirror'.load <= s'.next
      /\ events' \in Seq(Known(s.next, e.rev)) /\ cmds' \in Seq(Submitted(s'.next))
  BY <1>1, <1>4, <1>8, FrontEndParts
<1> QED BY <1>1, <1>5, <1>6, <1>7, <1>9, FrontEndMoves

(* A step that leaves queue and events alone. *)
LEMMA IdleStep ==
  ASSUME RuntimeInv, e' = e, plan' = plan, cmds' = cmds, events' = events,
         Sane(s'), s'.next = s.next, s'.latest = s.latest, DOMAIN s'.pending = DOMAIN s.pending,
         app' \in {"ui", "drain", "sample", "join", "closing", "joined", "done"},
         detached' = detached, stopBit' \in BOOLEAN,
         mirror' \in Mirrors, mirror'.load <= s.next
  PROVE  RuntimeInv'
<1>1. \A i \in DOMAIN cmds : i \in DOMAIN cmds' /\ cmds'[i] = cmds[i]
  OBVIOUS
<1>2. PendingIsOwed'
  BY <1>1, OwedStill
<1>3. s.next <= s.next
  BY FrontEndParts
<1>4. /\ s.next <= s'.next /\ s'.latest <= e.rev
      /\ Cardinality(DOMAIN s'.pending) <= MaxPending
      /\ detached' \in {"no", "yes", "failed"} /\ mirror'.load <= s'.next
      /\ events' \in Seq(Known(s.next, e.rev)) /\ cmds' \in Seq(Submitted(s'.next))
      /\ Len(cmds') <= QueueCap
  BY <1>3, FrontEndParts
<1> QED BY <1>2, <1>4, FrontEndMoves

LEMMA NoMirrorIn == NoMirror \in Mirrors /\ NoMirror.load = 0
BY DEF NoMirror, Mirrors, States

LEMMA RemovalIs ==
  ASSUME RuntimeInv, NEW ids, NEW x, ApplyRemoval(ids, x), Without(s, ids, x),
         UNCHANGED <<detached, app, cmds, events, e, plan>>
  PROVE  RuntimeInv'
<1>1. s' = x /\ stopBit' \in BOOLEAN /\ mirror' \in {mirror, NoMirror}
  BY DEF ApplyRemoval
<1>2. Sane(x) /\ x.next = s.next /\ DOMAIN x.pending = DOMAIN s.pending /\ x.latest = s.latest
  BY DEF Without
<1>3. mirror' \in Mirrors /\ mirror'.load <= s.next
  BY <1>1, NoMirrorIn, FrontEndParts
<1>4. app' \in {"ui", "drain", "sample", "join", "closing", "joined", "done"}
  BY DEF RuntimeInv, FrontEndOk
<1> QED BY <1>1, <1>2, <1>3, <1>4, IdleStep

LEMMA QueueIs == ASSUME RuntimeInv, Queue, plan' = plan PROVE RuntimeInv'
<1>1. UNCHANGED <<detached, app, cmds, events, e, plan>> /\ Removes
  BY DEF Queue
<1>2. Sane(s) /\ Progress \in Samplings
  BY FrontEndParts
<1>3. ASSUME NEW id \in AllIds(s.set), ApplyRemoval({id}, RemoveEntry(s, id, Progress))
      PROVE  RuntimeInv'
  <2>1. Has(s.set, id)
    BY DEF AllIds, Has
  <2> QED BY <1>1, <1>2, <1>3, <2>1, RemoveEntryIs, RemovalIs
<1>4. ASSUME NEW list \in Members(s.set),
             ApplyRemoval(EntriesOf(list), ClearPlaylist(s, list, Progress))
      PROVE  RuntimeInv'
  <2>1. Without(s, EntriesOf(list), ClearPlaylist(s, list, Progress))
    BY <1>2, ClearPlaylistIs DEF EntriesOf
  <2> QED BY <1>1, <1>4, <2>1, RemovalIs
<1>5. ASSUME NEW list \in Members(s.set), Deletable(s.set, list),
             ApplyRemoval(EntriesOf(list), DeletePlaylist(s, list, Progress))
      PROVE  RuntimeInv'
  <2>1. Without(s, EntriesOf(list), DeletePlaylist(s, list, Progress))
    BY <1>2, <1>5, DeletePlaylistIs DEF EntriesOf
  <2> QED BY <1>1, <1>5, <2>1, RemovalIs
<1> QED BY <1>1, <1>3, <1>4, <1>5 DEF Removes

LEMMA StopIsSafe == ASSUME RuntimeInv, Stop \/ Quit \/ DrainDone, plan' = plan PROVE RuntimeInv'
<1>1. UNCHANGED <<s, mirror, detached, cmds, events, e>>
  BY DEF Stop, Quit, DrainDone
<1>2. /\ stopBit' \in BOOLEAN
      /\ app' \in {"ui", "drain", "sample", "join", "closing", "joined", "done"}
  BY DEF Stop, Quit, DrainDone, RuntimeInv, FrontEndOk
<1>3. Sane(s) /\ mirror \in Mirrors /\ mirror.load <= s.next
  BY FrontEndParts
<1> QED BY <1>1, <1>2, <1>3, IdleStep

LEMMA ReconcileIs == ASSUME RuntimeInv, Reconcile, plan' = plan PROVE RuntimeInv'
<1>1. UNCHANGED <<mirror, detached, cmds, stopBit, events, e>> /\ app' = "done"
      /\ s' = CaptureCurrent(s, Progress)
  BY DEF Reconcile
<1>2. s' \in SessionSet /\ Keeps(s, s')
  BY <1>1, FrontEndParts, CaptureCurrentIs
<1>3. Sane(s')
  BY <1>2, FrontEndParts, KeepsSane
<1>4. s'.next = s.next /\ s'.latest = s.latest /\ s'.pending = s.pending
  BY <1>2 DEF Keeps
<1>5. stopBit \in BOOLEAN /\ mirror \in Mirrors /\ mirror.load <= s.next
  BY FrontEndParts
<1> QED BY <1>1, <1>3, <1>4, <1>5, IdleStep

-----------------------------------------------------------------------------
(* The events are drained; the invariant holds. *)

LEMMA MirroredIs ==
  ASSUME RuntimeInv, NEW ev \in Known(s.next, e.rev), NEW y
  PROVE  Mirrored(ev, y) \in Mirrors /\ Mirrored(ev, y).load <= s.next
<1>1. /\ ev.token \in Nat /\ ev.rev \in Nat /\ ev.live \in BOOLEAN /\ ev.state \in States
      /\ ev.token <= s.next
  BY DEF Known, EventSet
<1>2. mirror \in Mirrors /\ mirror.load <= s.next /\ s.next \in Nat
  BY FrontEndParts
<1> DEFINE loaded == [load |-> ev.token, rev |-> ev.rev, state |-> "Loading", live |-> ev.live]
           state == CASE ev.k = "State"      -> ev.state
                      [] ev.k = "EndOfTrack" -> "Ended"
                      [] OTHER               -> mirror.state
           moved == [mirror EXCEPT !.rev = ev.rev, !.state = state]
<1>3. loaded \in Mirrors /\ loaded.load = ev.token
  BY <1>1 DEF Mirrors, States
<1>4. state \in States
  BY <1>1, <1>2 DEF Mirrors, States
<1>5. Mirrored(ev, y) \in {loaded, moved, mirror, NoMirror}
  BY DEF Mirrored
<1> HIDE DEF state, loaded
<1>6. moved \in Mirrors
  BY <1>1, <1>2, <1>4 DEF Mirrors
<1>7. moved.load = mirror.load
  BY <1>2 DEF Mirrors
<1> HIDE DEF moved
<1> QED BY <1>1, <1>2, <1>3, <1>5, <1>6, <1>7, NoMirrorIn

(* The next event is heard: what it answers is no longer waited for. *)
LEMMA HeardStep ==
  ASSUME RuntimeInv, events # <<>>, events' = Tail(events), e' = e, plan' = plan, cmds' = cmds,
         Sane(s'), s'.next = s.next, DOMAIN s'.pending = Answered(s, Head(events)),
         s'.latest \in {s.latest, Head(events).rev},
         app' \in {"ui", "drain", "sample", "join", "closing", "joined", "done"},
         detached' \in {"no", "yes", "failed"}, stopBit' \in BOOLEAN,
         mirror' \in Mirrors, mirror'.load <= s.next
  PROVE  RuntimeInv'
<1>1. events \in Seq(Known(s.next, e.rev)) /\ s.next \in Nat /\ s.latest <= e.rev
      /\ cmds \in Seq(Submitted(s.next)) /\ Len(cmds) <= QueueCap
  BY FrontEndParts
<1>2. /\ Tail(events) \in Seq(Known(s.next, e.rev)) /\ Head(events) \in Known(s.next, e.rev)
      /\ \A i \in DOMAIN events :
            i = 1 \/ (i - 1 \in DOMAIN Tail(events) /\ Tail(events)[i - 1] = events[i])
      /\ Head(events) = events[1]
  BY <1>1, TailIn
<1>3. s'.latest <= e.rev
  BY <1>1, <1>2 DEF Known
<1>4. DOMAIN s'.pending \subseteq DOMAIN s.pending
  BY DEF Answered
<1>5. Cardinality(DOMAIN s'.pending) <= MaxPending
  BY <1>4, FrontEndParts, Smaller
<1>6. PendingIsOwed'
  <2> SUFFICES ASSUME NEW t \in DOMAIN s'.pending
               PROVE  \/ \E i \in DOMAIN cmds' : cmds'[i].cmd = "Load" /\ cmds'[i].token = t
                      \/ e'.loading = t
                      \/ \E i \in DOMAIN events' : IsOutcome(events'[i]) /\ events'[i].token = t
    BY DEF PendingIsOwed
  <2>1. ~(IsOutcome(Head(events)) /\ Head(events).token = t)
    BY DEF Answered
  <2>2. \/ \E i \in DOMAIN cmds : cmds[i].cmd = "Load" /\ cmds[i].token = t
        \/ e.loading = t
        \/ \E i \in DOMAIN events : IsOutcome(events[i]) /\ events[i].token = t
    BY <1>4 DEF RuntimeInv, PendingIsOwed
  <2>3. ASSUME NEW i \in DOMAIN events, IsOutcome(events[i]), events[i].token = t
        PROVE  \E j \in DOMAIN events' : IsOutcome(events'[j]) /\ events'[j].token = t
    <3>1. i # 1
      BY <1>2, <2>1, <2>3
    <3>2. i - 1 \in DOMAIN events' /\ events'[i - 1] = events[i]
      BY <1>2, <3>1
    <3> QED BY <2>3, <3>2
  <2> QED BY <2>2, <2>3
<1>7. s.next <= s.next
  BY <1>1
<1>8. /\ s.next <= s'.next /\ mirror'.load <= s'.next
      /\ events' \in Seq(Known(s.next, e.rev)) /\ cmds' \in Seq(Submitted(s'.next))
      /\ Len(cmds') <= QueueCap
  BY <1>1, <1>2, <1>7
<1> QED BY <1>3, <1>5, <1>6, <1>8, FrontEndMoves

LEMMA DrainOneIs == ASSUME RuntimeInv, DrainOne, plan' = plan PROVE RuntimeInv'
<1>1. PICK y : y = Observe(s, Head(events))
  OBVIOUS
<1>2. /\ s' = [y EXCEPT !.stop = FALSE] /\ stopBit' = (stopBit \/ AnswersStop(y))
      /\ mirror' = Mirrored(Head(events), y)
      /\ events # <<>> /\ events' = Tail(events) /\ app' = "drain"
      /\ cmds' = cmds /\ e' = e
  BY <1>1 DEF DrainOne
<1>3. events \in Seq(Known(s.next, e.rev)) /\ Sane(s) /\ s.next \in Nat /\ e.rev \in Nat
  BY FrontEndParts, InvParts
<1>4. PICK ev \in Known(s.next, e.rev) : ev = Head(events)
  BY <1>2, <1>3, TailIn
<1>5. /\ Sane(y) /\ y.next = s.next /\ DOMAIN y.pending = Answered(s, ev)
      /\ y.latest \in {s.latest, ev.rev}
  BY <1>1, <1>3, <1>4, ObserveIs
<1>6. /\ Sane(s') /\ s'.next = y.next /\ s'.pending = y.pending /\ s'.latest = y.latest
  BY <1>2, <1>5, StopIs
<1>7. mirror' \in Mirrors /\ mirror'.load <= s.next
  BY <1>2, <1>4, MirroredIs
<1>8. stopBit' \in BOOLEAN
  BY <1>2
<1>9. detached' \in {"no", "yes", "failed"}
  BY FrontEndParts DEF DrainOne
<1> QED BY <1>2, <1>4, <1>5, <1>6, <1>7, <1>8, <1>9, HeardStep

LEMMA ReplayIs == ASSUME RuntimeInv, Replay, plan' = plan PROVE RuntimeInv'
<1>1. /\ s' = Observe(s, Head(events)) /\ events # <<>> /\ events' = Tail(events)
      /\ UNCHANGED <<mirror, detached, app, cmds, stopBit, e>> /\ app = "joined"
  BY DEF Replay
<1>2. /\ events \in Seq(Known(s.next, e.rev)) /\ Sane(s) /\ s.next \in Nat /\ e.rev \in Nat
      /\ detached \in {"no", "yes", "failed"} /\ stopBit \in BOOLEAN
      /\ mirror \in Mirrors /\ mirror.load <= s.next
  BY FrontEndParts, InvParts
<1>3. PICK ev \in Known(s.next, e.rev) : ev = Head(events)
  BY <1>1, <1>2, TailIn
<1>4. /\ Sane(s') /\ s'.next = s.next /\ DOMAIN s'.pending = Answered(s, ev)
      /\ s'.latest \in {s.latest, ev.rev}
  BY <1>1, <1>2, <1>3, ObserveIs
<1> QED BY <1>1, <1>2, <1>3, <1>4, HeardStep

LEMMA FrontEndIs == ASSUME RuntimeInv, FrontEnd, plan' = plan PROVE RuntimeInv'
BY PlayEntryIs, PlayDetachedIs, StopIsSafe, QueueIs, TransportIs, DrainOneIs, SampleIs,
   ReplayIs, ReconcileIs DEF FrontEnd

LEMMA NewSessionIs ==
  ASSUME NEW set, SoundSet(set), NEW c \in Checkpoints
  PROVE  LET x == NewSession(set, IF Cursor(set) = None THEN NoMedia
                                  ELSE MediaOf(set, Cursor(set)), c) IN
         /\ Sane(x) /\ DOMAIN x.pending = {} /\ x.next = 0 /\ x.latest = 0
<1>1. PICK saved : saved = IF Cursor(set) = None THEN NoMedia ELSE MediaOf(set, Cursor(set))
  OBVIOUS
<1>2. /\ Cursor(set) # None => Has(set, Cursor(set)) /\ saved = MediaOf(set, Cursor(set))
      /\ saved \in MediaN
  BY <1>1, CursorIs, MediaOfEntry DEF MediaN
<1>3. PICK f : f = <<>>
  OBVIOUS
<1>4. f \in Pendings /\ DOMAIN f = {}
  <2>1. f \in [{} -> Registrations]
    BY <1>3
  <2> QED BY <2>1, PendingIn
<1>5. PICK x : x = NewSession(set, saved, c)
  OBVIOUS
<1>6. set \in SoundSets
  BY DEF SoundSets, SoundSet
<1>7. x \in SessionSet
  BY <1>2, <1>3, <1>4, <1>5, <1>6, NoPosIn, NoSampleIn, NoLoadIn
     DEF NewSession, SessionSet, States, MediaN, None
<1>8. /\ x.set = set /\ x.saved = saved /\ x.pending = f /\ x.next = 0 /\ x.latest = 0
      /\ x.rev = 0 /\ x.adopted = NoLoad
  BY <1>3, <1>5 DEF NewSession
<1>9. Sane(x)
  BY <1>2, <1>4, <1>7, <1>8, NoLoadIn DEF Sane, AgreesIn
<1> QED BY <1>1, <1>4, <1>5, <1>8, <1>9

LEMMA InitIs == Init => RuntimeInv
<1> SUFFICES ASSUME Init PROVE RuntimeInv
  OBVIOUS
<1>1. PICK set \in StoredSets : \E entry \in plan.stored :
          s = NewSession(set, IF Cursor(set) = None THEN NoMedia
                              ELSE MediaOf(set, Cursor(set)),
                         [m \in Media |-> IF m \in Podcasts THEN entry[m] ELSE NoEntry])
  BY DEF Init
<1>2. PICK entry \in plan.stored :
          s = NewSession(set, IF Cursor(set) = None THEN NoMedia
                              ELSE MediaOf(set, Cursor(set)),
                         [m \in Media |-> IF m \in Podcasts THEN entry[m] ELSE NoEntry])
  BY <1>1
<1>3. SoundSet(set) /\ entry \in [Podcasts -> StoredEntries] /\ plan \in Plans
      /\ plan.queueCap \in Nat /\ MaxPending \in Nat
  BY RuntimeAssumption DEF Init
<1>4. PICK c : c = [m \in Media |-> IF m \in Podcasts THEN entry[m] ELSE NoEntry]
  OBVIOUS
<1>5. c \in Checkpoints
  BY <1>3, <1>4, NoEntryIn DEF Checkpoints
<1>6. s = NewSession(set, IF Cursor(set) = None THEN NoMedia ELSE MediaOf(set, Cursor(set)), c)
  BY <1>2, <1>4
<1>7. Sane(s) /\ DOMAIN s.pending = {} /\ s.next = 0 /\ s.latest = 0
  BY <1>3, <1>5, <1>6, NewSessionIs
<1>8. /\ mirror = NoMirror /\ detached = "no" /\ app = "ui"
      /\ cmds = <<>> /\ stopBit = FALSE /\ events = <<>>
  BY DEF Init
<1>9. e = [rev |-> 0, state |-> "Idle", media |-> NoMedia, load |-> 0, loading |-> 0,
           resume |-> NoIntent, at |-> NoPos, pend |-> NoIntent, live |-> FALSE,
           fixed |-> FALSE, closed |-> FALSE, heard |-> {}, earned |-> {},
           revived |-> FALSE]
  BY DEF Init
<1>10. e \in EngineSet
  BY <1>9, NoIntentIn, NoPosIn DEF EngineSet, States, MediaN
<1>11. e.rev = 0 /\ e.load = 0 /\ e.loading = 0
  BY <1>9
<1>12. EngineOk
  BY <1>7, <1>10, <1>11 DEF EngineOk
<1>13. FrontEndOk
  <2>1. Cardinality(DOMAIN s.pending) <= MaxPending
    BY <1>3, <1>7, FS_EmptySet
  <2>2. mirror \in Mirrors /\ mirror.load <= s.next
    <3>1. mirror \in Mirrors /\ mirror.load = 0
      BY <1>8, NoMirrorIn
    <3> QED BY <1>7, <3>1
  <2>3. /\ app \in {"ui", "drain", "sample", "join", "closing", "joined", "done"}
        /\ detached \in {"no", "yes", "failed"}
    BY <1>8
  <2>4. stopBit \in BOOLEAN
    BY <1>8
  <2> QED BY <1>3, <1>7, <2>1, <2>2, <2>3, <2>4 DEF FrontEndOk
<1>14. QueueOk /\ EventsOk
  BY <1>3, <1>8 DEF QueueOk, EventsOk, QueueCap
<1>15. PendingIsOwed
  BY <1>7 DEF PendingIsOwed
<1> QED BY <1>12, <1>13, <1>14, <1>15 DEF RuntimeInv

LEMMA StutterIs == ASSUME RuntimeInv, UNCHANGED vars PROVE RuntimeInv'
<1>1. UNCHANGED <<s, mirror, detached, app, cmds, stopBit, events, e, plan>>
  BY DEF vars
<1> QED BY <1>1 DEF RuntimeInv, FrontEndOk, EngineOk, QueueOk, EventsOk, PendingIsOwed, Sane, AgreesIn,
                    QueueCap

LEMMA NextIs == RuntimeInv /\ [Next]_vars => RuntimeInv'
BY FrontEndIs, EngineIs, StutterIs DEF Next

(* Everything below holds in every state the two sides reach. *)
THEOREM RuntimeInvariant == Spec => []RuntimeInv
BY InitIs, NextIs, PTL DEF Spec

(* runtime.rs, session.rs: a load the session waits for has its command queued, *)
(* is being opened, or has its outcome among the events - through refusals by    *)
(* a full queue, interrupts, removals, failures and the shutdown.                *)
THEOREM EveryPendingIsOwed == Spec => []PendingIsOwed
<1>1. RuntimeInv => PendingIsOwed
  BY DEF RuntimeInv
<1> QED BY <1>1, RuntimeInvariant, PTL

(* session.rs: revisions and tokens stay in order, the queue and the           *)
(* registrations within their limits, and the cursor of the playing playlist,   *)
(* the saved media and the adopted entry name the same entry, through every     *)
(* load, removal, clear and delete.                                             *)
THEOREM SessionAlwaysAgrees == Spec => []SessionAgrees
<1>1. RuntimeInv => SessionAgrees
  <2> SUFFICES ASSUME RuntimeInv PROVE SessionAgrees
    OBVIOUS
  <2>1. PlayingEntryAgrees
    BY FrontEndParts DEF Sane, AgreesIn, PlayingEntryAgrees
  <2>2. TypeOK
    <3>1. /\ app \in {"ui", "drain", "sample", "join", "closing", "joined", "done"}
          /\ detached \in {"no", "yes", "failed"} /\ stopBit \in BOOLEAN
          /\ Len(cmds) <= QueueCap /\ Cardinality(DOMAIN s.pending) <= MaxPending
      BY DEF RuntimeInv, FrontEndOk, QueueOk
    <3>2. mirror.load \in 0 .. s.next /\ s.adopted.token \in 0 .. s.next
      BY FrontEndParts DEF Mirrors, Sane, SessionSet, Loads
    <3>3. e.load \in 0 .. s.next /\ e.loading \in 0 .. s.next
      BY InvParts
    <3>4. s.rev <= s.latest /\ s.latest <= e.rev
      BY FrontEndParts DEF Sane
    <3> QED BY <3>1, <3>2, <3>3, <3>4 DEF TypeOK
  <2> QED BY <2>1, <2>2 DEF SessionAgrees
<1> QED BY <1>1, RuntimeInvariant, PTL

-----------------------------------------------------------------------------
(* The checkpoints.  Events are heard after they are sent, by a session that may
   own another load by then: who reigns over an event is the load the session
   will own when it hears it, if nothing but the events on their way happens. *)

(* What takes playback from the load it belongs to: the outcome of another    *)
(* load, or its beginning. *)
Cut(ev) == IsOutcome(ev) \/ (ev.k = "State" /\ ev.state = "Loading" /\ ev.token # 0)
Calm(evs, i, j) == \A k \in DOMAIN evs : i <= k /\ k < j => ~Cut(evs[k])

(* Load L of media m is what the session x accepts events of, now or by the   *)
(* time it hears event i of evs. *)
Mine(x, L, m) == L # 0 /\ x.adopted.token = L /\ x.last = L /\ x.media = m
Opens(ev, L, m) == L # 0 /\ ev.k = "Loaded" /\ ev.token = L /\ ev.media = m
Opened(evs, i, L, m) ==
    \E k \in DOMAIN evs : k < i /\ Opens(evs[k], L, m) /\ Calm(evs, k + 1, i)
Reigns(x, evs, i, L, m) == (Mine(x, L, m) /\ Calm(evs, 1, i)) \/ Opened(evs, i, L, m)

(* The session has heard event x of evs, and is now y. *)
Heir(x, ev, y) == \A L, m : Mine(y, L, m) => Opens(ev, L, m) \/ (~Cut(ev) /\ Mine(x, L, m))

LEMMA TailAt ==
  ASSUME NEW S, NEW q \in Seq(S), q # <<>>
  PROVE  /\ Tail(q) \in Seq(S) /\ Len(q) \in Nat /\ Len(Tail(q)) = Len(q) - 1
         /\ DOMAIN q = 1 .. Len(q) /\ DOMAIN Tail(q) = 1 .. Len(q) - 1
         /\ \A i \in DOMAIN Tail(q) : i \in Nat /\ i + 1 \in DOMAIN q /\ Tail(q)[i] = q[i + 1]
         /\ 1 \in DOMAIN q /\ Head(q) = q[1]
OBVIOUS

LEMMA JoinAt ==
  ASSUME NEW S, NEW p \in Seq(S), NEW q \in Seq(S)
  PROVE  /\ p \o q \in Seq(S) /\ Len(p) \in Nat /\ Len(q) \in Nat
         /\ DOMAIN p = 1 .. Len(p) /\ DOMAIN q = 1 .. Len(q)
         /\ Len(p \o q) = Len(p) + Len(q) /\ DOMAIN (p \o q) = 1 .. Len(p) + Len(q)
         /\ \A i \in DOMAIN p : (p \o q)[i] = p[i]
         /\ \A i \in DOMAIN q : (p \o q)[Len(p) + i] = q[i]
         /\ \A i \in DOMAIN (p \o q) :
              i \in DOMAIN p \/ (i > Len(p) /\ i - Len(p) \in DOMAIN q /\ (p \o q)[i] = q[i - Len(p)])
OBVIOUS

(* Who reigns when the rest is heard reigned over the whole. *)
LEMMA ReignsTail ==
  ASSUME NEW S, NEW evs \in Seq(S), evs # <<>>, NEW x, NEW y, Heir(x, Head(evs), y),
         NEW i \in Nat, i >= 1, NEW L, NEW m, Reigns(y, Tail(evs), i, L, m)
  PROVE  Reigns(x, evs, i + 1, L, m)
<1> DEFINE rest == Tail(evs)
<1>1. /\ DOMAIN evs = 1 .. Len(evs) /\ DOMAIN rest = 1 .. Len(evs) - 1 /\ Len(evs) \in Nat
      /\ \A k \in DOMAIN rest : k \in Nat /\ k + 1 \in DOMAIN evs /\ rest[k] = evs[k + 1]
      /\ 1 \in DOMAIN evs /\ Head(evs) = evs[1]
  <2>1. /\ Len(evs) \in Nat /\ DOMAIN evs = 1 .. Len(evs) /\ DOMAIN Tail(evs) = 1 .. Len(evs) - 1
        /\ \A k \in DOMAIN Tail(evs) : k \in Nat /\ k + 1 \in DOMAIN evs /\ Tail(evs)[k] = evs[k + 1]
        /\ 1 \in DOMAIN evs /\ Head(evs) = evs[1]
    BY TailAt
  <2> QED BY <2>1
<1> HIDE DEF rest
<1>2. ASSUME NEW k \in Nat, k >= 1, Calm(rest, k, i)
      PROVE  Calm(evs, k + 1, i + 1)
  <2> SUFFICES ASSUME NEW j \in DOMAIN evs, k + 1 <= j, j < i + 1 PROVE ~Cut(evs[j])
    BY DEF Calm
  <2>1. j \in Nat /\ j - 1 \in DOMAIN rest /\ k <= j - 1 /\ j - 1 < i /\ (j - 1) + 1 = j
    BY <1>1, <1>2
  <2>2. rest[j - 1] = evs[(j - 1) + 1]
    BY <1>1, <2>1
  <2> QED BY <1>2, <2>1, <2>2 DEF Calm
<1>3. CASE Mine(y, L, m) /\ Calm(rest, 1, i)
  <2>1. Calm(evs, 2, i + 1)
    BY <1>2, <1>3
  <2>2. CASE Opens(evs[1], L, m)
    <3>1. 1 < i + 1 /\ Calm(evs, 1 + 1, i + 1)
      BY <2>1
    <3> QED BY <1>1, <2>2, <3>1 DEF Reigns, Opened
  <2>3. CASE ~Cut(evs[1]) /\ Mine(x, L, m)
    <3>1. Calm(evs, 1, i + 1)
      <4> SUFFICES ASSUME NEW j \in DOMAIN evs, 1 <= j, j < i + 1 PROVE ~Cut(evs[j])
        BY DEF Calm
      <4>1. j = 1 \/ 2 <= j
        BY <1>1
      <4> QED BY <2>1, <2>3, <4>1 DEF Calm
    <3> QED BY <2>3, <3>1 DEF Reigns
  <2> QED BY <1>1, <1>3, <2>2, <2>3 DEF Heir
<1>4. CASE Opened(rest, i, L, m)
  <2>1. PICK k \in DOMAIN rest : k < i /\ Opens(rest[k], L, m) /\ Calm(rest, k + 1, i)
    BY <1>4 DEF Opened
  <2>2. k \in Nat /\ k + 1 \in DOMAIN evs /\ rest[k] = evs[k + 1] /\ k + 1 < i + 1
    BY <1>1, <2>1
  <2>3. Calm(evs, (k + 1) + 1, i + 1)
    BY <1>2, <2>1, <2>2
  <2> QED BY <2>1, <2>2, <2>3 DEF Reigns, Opened
<1> QED BY <1>3, <1>4 DEF Reigns, rest

(* More events change nothing for those already there; over the new ones      *)
(* reigns who reigned at the end, or who is opened among them. *)
LEMMA ReignsJoin ==
  ASSUME NEW S, NEW p \in Seq(S), NEW q \in Seq(S), NEW x, NEW i \in Nat, NEW L, NEW m,
         Reigns(x, p \o q, i, L, m)
  PROVE  /\ i \in 1 .. Len(p) + 1 => Reigns(x, p, i, L, m)
         /\ i >= Len(p) + 1 =>
              \/ Reigns(x, p, Len(p) + 1, L, m) /\ Calm(q, 1, i - Len(p))
              \/ Opened(q, i - Len(p), L, m)
<1> DEFINE j == p \o q
<1>1. /\ Len(p) \in Nat /\ Len(q) \in Nat
      /\ DOMAIN p = 1 .. Len(p) /\ DOMAIN q = 1 .. Len(q) /\ DOMAIN j = 1 .. Len(p) + Len(q)
      /\ \A k \in DOMAIN p : j[k] = p[k]
      /\ \A k \in DOMAIN q : j[Len(p) + k] = q[k]
  BY JoinAt
<1>2. Reigns(x, j, i, L, m)
  OBVIOUS
<1> HIDE DEF j
<1>3. ASSUME NEW k \in Nat, Calm(j, k, i) PROVE Calm(p, k, i)
  BY <1>1, <1>3 DEF Calm
<1>4. ASSUME NEW k \in Nat, Calm(j, k, i) PROVE Calm(p, k, Len(p) + 1) \/ i < Len(p) + 1
  BY <1>1, <1>4 DEF Calm
<1>5. ASSUME NEW k \in Nat, NEW l \in Nat, Calm(j, k, i), k <= Len(p) + l PROVE Calm(q, l, i - Len(p))
  <2> SUFFICES ASSUME NEW h \in DOMAIN q, l <= h, h < i - Len(p) PROVE ~Cut(q[h])
    BY DEF Calm
  <2>1. Len(p) + h \in DOMAIN j /\ k <= Len(p) + h /\ Len(p) + h < i /\ j[Len(p) + h] = q[h]
    BY <1>1, <1>5
  <2> QED BY <1>5, <2>1 DEF Calm
<1>6. ASSUME i \in 1 .. Len(p) + 1 PROVE Reigns(x, p, i, L, m)
  <2>1. CASE Mine(x, L, m) /\ Calm(j, 1, i)
    BY <1>3, <2>1 DEF Reigns
  <2>2. CASE Opened(j, i, L, m)
    <3>1. PICK k \in DOMAIN j : k < i /\ Opens(j[k], L, m) /\ Calm(j, k + 1, i)
      BY <2>2 DEF Opened
    <3>2. k \in DOMAIN p /\ j[k] = p[k] /\ k + 1 \in Nat
      BY <1>1, <1>6, <3>1
    <3>3. Calm(p, k + 1, i)
      BY <1>3, <3>1, <3>2
    <3> QED BY <3>1, <3>2, <3>3 DEF Reigns, Opened
  <2> QED BY <1>2, <2>1, <2>2 DEF Reigns
<1>7. ASSUME i >= Len(p) + 1
      PROVE  \/ Reigns(x, p, Len(p) + 1, L, m) /\ Calm(q, 1, i - Len(p))
             \/ Opened(q, i - Len(p), L, m)
  <2>0. ~(i < Len(p) + 1)
    BY <1>1, <1>7
  <2>1. CASE Mine(x, L, m) /\ Calm(j, 1, i)
    <3>1. Calm(p, 1, Len(p) + 1)
      BY <1>4, <2>0, <2>1
    <3>2. Calm(q, 1, i - Len(p))
      BY <1>1, <1>5, <2>1
    <3> QED BY <2>1, <3>1, <3>2 DEF Reigns
  <2>2. CASE Opened(j, i, L, m)
    <3>1. PICK k \in DOMAIN j : k < i /\ Opens(j[k], L, m) /\ Calm(j, k + 1, i)
      BY <2>2 DEF Opened
    <3>2. CASE k <= Len(p)
      <4>1. k \in DOMAIN p /\ j[k] = p[k] /\ k + 1 \in Nat /\ k + 1 <= Len(p) + 1 /\ k < Len(p) + 1
        BY <1>1, <3>1, <3>2
      <4>2. Calm(p, k + 1, Len(p) + 1)
        BY <1>4, <2>0, <3>1, <4>1
      <4>3. Calm(q, 1, i - Len(p))
        BY <1>5, <3>1, <4>1
      <4>4. Opened(p, Len(p) + 1, L, m)
        BY <3>1, <4>1, <4>2 DEF Opened
      <4> QED BY <4>3, <4>4 DEF Reigns
    <3>3. CASE ~(k <= Len(p))
      <4>1. PICK h \in DOMAIN q : k = Len(p) + h
        <5>1. k - Len(p) \in DOMAIN q /\ k = Len(p) + (k - Len(p))
          BY <1>1, <3>3
        <5> QED BY <5>1
      <4>2. j[k] = q[h] /\ h < i - Len(p) /\ k + 1 \in Nat /\ h + 1 \in Nat /\ k + 1 <= Len(p) + (h + 1)
        BY <1>1, <3>1, <4>1
      <4>3. Calm(q, h + 1, i - Len(p))
        BY <1>5, <3>1, <4>2
      <4> QED BY <3>1, <4>2, <4>3 DEF Opened
    <3> QED BY <3>2, <3>3
  <2> QED BY <1>2, <2>1, <2>2 DEF Reigns
<1> QED BY <1>6, <1>7

(* The session that owns no more reigns over no more. *)
LEMMA ReignsShrink ==
  ASSUME NEW x, NEW y, \A L, m : Mine(y, L, m) => Mine(x, L, m),
         NEW evs, NEW i, NEW L, NEW m, Reigns(y, evs, i, L, m)
  PROVE  Reigns(x, evs, i, L, m)
BY DEF Reigns

-----------------------------------------------------------------------------
(* What the session and the engine hold of a position, and where it is from. *)

(* A position a checkpoint of media m may hold, by what the engine g heard. *)
Worth == {"sure", "guess"}
HeardAt(pos, m, g) ==
    /\ pos.of = m
    /\ \/ pos.kind \in Worth
       \/ pos.kind = "start" /\ pos.n \in g.heard
       \/ pos.kind = "fallback" /\ m \in g.earned
KeptBy(pos, m, g) == pos = NoPos \/ HeardAt(pos, m, g)
CheckpointsFit(x, g) ==
    \A m \in Media : KeptBy(x.ck[m].pos, m, g) /\ KeptBy(x.ck[m].est, m, g)

(* A position sampled of the adopted load: recorded once that load            *)
(* established something, and not while it is protected or indefinite. *)
Sampled(x, g, pos) ==
    /\ x.adopted.token # 0
    /\ pos.of = x.media /\ pos.kind # "none"
    /\ pos.kind = "start" => pos.n = x.adopted.token
    /\ pos.kind = "fallback" => x.protected \/ x.media \in g.earned
    /\ pos.kind = "live" => ~x.checkpointable
SampleFits(x, g) ==
    x.sample = NoSample \/ (x.sample.media = x.media /\ Sampled(x, g, x.sample.pos))
TargetFits(x) == x.target = NoPos \/ (x.target.of = x.media /\ x.target.kind \in Worth)
HeardFits(x, g) == x.established /\ x.adopted.token # 0 => x.adopted.token \in g.heard

(* While the engine has the adopted load open, the session knows what it is. *)
LoadFits(x, g) ==
    x.adopted.token = g.load /\ g.load # 0 =>
        /\ x.media = g.media
        /\ x.checkpointable => ~g.live
        /\ g.at.kind = "fallback" => x.protected \/ x.media \in g.earned
        /\ x.protected => g.fixed

SessionFits(x, g) ==
    CheckpointsFit(x, g) /\ SampleFits(x, g) /\ TargetFits(x) /\ HeardFits(x, g) /\ LoadFits(x, g)

(* What those say is about these fields alone. *)
Alike(x, y) ==
    /\ y.adopted = x.adopted /\ y.media = x.media /\ y.target = x.target /\ y.sample = x.sample
    /\ y.established = x.established /\ y.protected = x.protected
    /\ y.checkpointable = x.checkpointable

LEMMA AlikeFits ==
  ASSUME NEW x, NEW y, NEW g, Alike(x, y), SessionFits(x, g), CheckpointsFit(y, g)
  PROVE  SessionFits(y, g)
BY DEF Alike, SessionFits, SampleFits, Sampled, TargetFits, HeardFits, LoadFits

(* A checkpoint is written. *)
LEMMA WriteFits ==
  ASSUME NEW x \in SessionSet, NEW g, CheckpointsFit(x, g), NEW m \in MediaN,
         NEW pos \in Positions, KeptBy(pos, m, g), NEW d \in BOOLEAN
  PROVE  LET y == Write(x, m, pos, d) IN
         y \in SessionSet /\ Alike(x, y) /\ y.last = x.last /\ CheckpointsFit(y, g)
<1> DEFINE y == Write(x, m, pos, d)
<1>1. PICK c \in Checkpoints : y = [x EXCEPT !.ck = c]
  BY WriteIs DEF Recorded
<1>2. y \in SessionSet
  BY WriteIs, RecordedKeeps
<1>3. y.ck = c /\ Alike(x, y) /\ y.last = x.last
  BY <1>1 DEF SessionSet, Alike
<1>4. x.ck \in [Media -> StoredEntries]
  BY DEF SessionSet, Checkpoints
<1> DEFINE entry == [pos |-> pos, est |-> NoPos, done |-> d]
           guessed == [x.ck[m] EXCEPT !.est = pos, !.done = d]
<1>5. c = [x.ck EXCEPT ![m] = entry] \/ c = [x.ck EXCEPT ![m] = guessed]
  <2>1. y.ck = [x.ck EXCEPT ![m] = entry] \/ y.ck = [x.ck EXCEPT ![m] = guessed]
    BY DEF Write, Record, RecordEstimated, SessionSet
  <2> QED BY <1>3, <2>1
<1> HIDE DEF y
<1>6. KeptBy(NoPos, m, g)
  BY DEF KeptBy
<1>7. entry.pos = pos /\ entry.est = NoPos
  OBVIOUS
<1>8. m \in Media => guessed.pos = x.ck[m].pos /\ guessed.est = pos
  BY <1>4 DEF StoredEntries
<1> HIDE DEF entry, guessed
<1>9. ASSUME NEW n \in Media PROVE KeptBy(c[n].pos, n, g) /\ KeptBy(c[n].est, n, g)
  <2>1. KeptBy(x.ck[n].pos, n, g) /\ KeptBy(x.ck[n].est, n, g)
    BY DEF CheckpointsFit
  <2>2. CASE n # m
    BY <1>4, <1>5, <2>1, <2>2
  <2>3. CASE n = m
    <3>1. c[n] = entry \/ c[n] = guessed
      BY <1>4, <1>5, <2>3
    <3>2. KeptBy(entry.pos, n, g) /\ KeptBy(entry.est, n, g)
      BY <1>6, <1>7, <2>3
    <3>3. KeptBy(guessed.pos, n, g) /\ KeptBy(guessed.est, n, g)
      BY <1>8, <2>1, <2>3
    <3> QED BY <3>1, <3>2, <3>3
  <2> QED BY <2>2, <2>3
<1>10. CheckpointsFit(y, g)
  BY <1>3, <1>9 DEF CheckpointsFit
<1> QED BY <1>2, <1>3, <1>10 DEF y

(* The current media is recorded. *)
LEMMA RecordFits ==
  ASSUME NEW x \in SessionSet, NEW g, SessionFits(x, g), NEW pos \in Positions,
         x.checkpointable /\ ~x.protected => KeptBy(pos, x.media, g)
  PROVE  LET y == RecordCurrent(x, pos) IN
         y \in SessionSet /\ Alike(x, y) /\ y.last = x.last /\ SessionFits(y, g)
<1> DEFINE y == RecordCurrent(x, pos)
<1>1. x.media \in MediaN /\ x.completed \in BOOLEAN /\ CheckpointsFit(x, g)
  BY DEF SessionSet, SessionFits
<1>2. CASE ~x.checkpointable \/ x.protected \/ x.media = NoMedia
  <2>1. y = x
    BY <1>2 DEF RecordCurrent
  <2> HIDE DEF y
  <2> QED BY <2>1 DEF Alike, y
<1>3. CASE ~(~x.checkpointable \/ x.protected \/ x.media = NoMedia)
  <2>1. y = Write(x, x.media, pos, x.completed)
    BY <1>3 DEF RecordCurrent
  <2> HIDE DEF y
  <2>2. y \in SessionSet /\ Alike(x, y) /\ y.last = x.last /\ CheckpointsFit(y, g)
    BY <1>1, <1>3, <2>1, WriteFits
  <2> QED BY <2>2, AlikeFits DEF y
<1> QED BY <1>2, <1>3

(* What is sampled of an established load was heard. *)
LEMMA SampledHeard ==
  ASSUME NEW x \in SessionSet, NEW g, HeardFits(x, g), NEW pos \in Positions, Sampled(x, g, pos),
         x.established, x.checkpointable, ~x.protected
  PROVE  HeardAt(pos, x.media, g)
<1>1. pos.kind \in {"none", "sure", "guess", "start", "fallback", "live"}
  BY DEF Positions
<1> QED BY <1>1 DEF Sampled, HeardAt, HeardFits, Worth

LEMMA PositionForHeard ==
  ASSUME NEW x \in SessionSet, NEW g, SessionFits(x, g), NEW pos \in Positions, Sampled(x, g, pos),
         x.established, x.checkpointable, ~x.protected
  PROVE  PositionFor(x, pos) \in Positions /\ KeptBy(PositionFor(x, pos), x.media, g)
<1>1. x.target \in Positions
  BY DEF SessionSet
<1>2. HeardAt(pos, x.media, g)
  BY SampledHeard DEF SessionFits
<1> QED BY <1>1, <1>2 DEF PositionFor, KeptBy, HeardAt, SessionFits, TargetFits

LEMMA ProgressFits ==
  ASSUME NEW x \in SessionSet, NEW g, SessionFits(x, g), NEW pos \in Positions, Sampled(x, g, pos)
  PROVE  LET y == CheckpointFromProgress(x, pos) IN
         y \in SessionSet /\ Alike(x, y) /\ y.last = x.last /\ SessionFits(y, g)
<1> DEFINE y == CheckpointFromProgress(x, pos)
<1>1. CASE MayCheckpoint(x)
  <2>1. y = RecordCurrent(x, PositionFor(x, pos))
    BY <1>1 DEF CheckpointFromProgress
  <2>2. PositionFor(x, pos) \in Positions /\ KeptBy(PositionFor(x, pos), x.media, g)
    BY <1>1, PositionForHeard DEF MayCheckpoint
  <2> HIDE DEF y
  <2>3. y \in SessionSet /\ Alike(x, y) /\ y.last = x.last /\ SessionFits(y, g)
    BY <2>1, <2>2, RecordFits
  <2> QED BY <2>3 DEF y
<1>2. CASE ~MayCheckpoint(x)
  <2>1. y = x
    BY <1>2 DEF CheckpointFromProgress
  <2> HIDE DEF y
  <2> QED BY <2>1 DEF Alike, y
<1> QED BY <1>1, <1>2

(* What the engine's position is worth, and what it may still hold back. *)
EngineFits(g) ==
    /\ g.at.of = g.media
    /\ g.at.kind = "start" => g.at.n = g.load \/ g.load = 0
    /\ g.at.kind = "live" => g.live
    /\ g.at.kind = "none" => g.state = "Idle" /\ g.load = 0
    /\ g.at.kind = "fallback" => g.fixed /\ ~g.live
    /\ \/ g.pend = NoIntent
       \/ /\ g.pend.to.of = g.media /\ g.pend.to.kind \in Worth
          /\ g.fixed => g.pend.what = "restart"
    /\ g.state = "Playing" => g.at.kind # "start" /\ g.load \in g.heard
    /\ g.state = "Loading" => g.load = 0
    /\ g.loading # 0 => g.at.kind # "none" /\ g.pend = NoIntent

Shown(g) == [rev |-> g.rev, load |-> g.load, media |-> g.media, pos |-> g.at]

LEMMA ShownSampled ==
  ASSUME NEW x \in SessionSet, NEW g \in EngineSet, EngineFits(g), LoadFits(x, g),
         AcceptsSample(x, Shown(g))
  PROVE  Sampled(x, g, g.at) /\ g.at \in Positions
<1>1. /\ x.adopted.token # 0 /\ g.load = x.adopted.token /\ g.media = x.media
  BY DEF AcceptsSample, Shown
<1>2. g.at \in Positions
  BY DEF EngineSet
<1> QED BY <1>1, <1>2 DEF Sampled, EngineFits, LoadFits

LEMMA CaptureFits ==
  ASSUME NEW x \in SessionSet, NEW g \in EngineSet, EngineFits(g), SessionFits(x, g)
  PROVE  LET y == CaptureCurrent(x, Shown(g)) IN
         y \in SessionSet /\ Alike(x, y) /\ y.last = x.last /\ SessionFits(y, g)
<1>1. ASSUME NEW guess \in BOOLEAN, NEW pos \in Positions, Sampled(x, g, pos)
      PROVE  LET y == CheckpointFromProgress([x EXCEPT !.guess = guess], pos) IN
             y \in SessionSet /\ Alike(x, y) /\ y.last = x.last /\ SessionFits(y, g)
  <2> DEFINE z == [x EXCEPT !.guess = guess]
  <2>1. z \in SessionSet /\ Alike(x, z) /\ z.last = x.last /\ z.ck = x.ck
    BY DEF SessionSet, Alike
  <2> HIDE DEF z
  <2>2. SessionFits(z, g)
    BY <2>1, AlikeFits DEF SessionFits, CheckpointsFit
  <2>3. Sampled(z, g, pos)
    BY <1>1, <2>1 DEF Sampled, Alike
  <2>4. PICK y : y = CheckpointFromProgress(z, pos)
    OBVIOUS
  <2>5. y \in SessionSet /\ Alike(z, y) /\ y.last = z.last /\ SessionFits(y, g)
    BY <2>1, <2>2, <2>3, <2>4, ProgressFits
  <2>6. Alike(x, y) /\ y.last = x.last
    BY <2>1, <2>5 DEF Alike
  <2> QED BY <2>4, <2>5, <2>6 DEF z
<1>2. Shown(g).pos = g.at
  BY DEF Shown
<1>3. CASE x.media # NoMedia /\ AcceptsSample(x, Shown(g))
  <2>1. Sampled(x, g, g.at) /\ g.at \in Positions
    BY <1>3, ShownSampled DEF SessionFits
  <2>2. Estimated(g.at) \in BOOLEAN
    BY DEF Estimated
  <2> QED BY <1>1, <1>2, <1>3, <2>1, <2>2 DEF CaptureCurrent
<1>4. CASE ~(x.media # NoMedia /\ AcceptsSample(x, Shown(g)))
           /\ x.media # NoMedia /\ x.sample.rev = x.rev /\ x.sample.media = x.media
  <2>1. x.sample # NoSample
    BY <1>4 DEF NoSample
  <2>2. Sampled(x, g, x.sample.pos)
    BY <2>1 DEF SessionFits, SampleFits
  <2>3. x.sample.pos \in Positions /\ x.sample.guess \in BOOLEAN
    BY DEF SessionSet, Samples
  <2> QED BY <1>1, <1>4, <2>2, <2>3 DEF CaptureCurrent
<1>5. CASE ~(x.media # NoMedia /\ AcceptsSample(x, Shown(g)))
           /\ ~(x.media # NoMedia /\ x.sample.rev = x.rev /\ x.sample.media = x.media)
  <2>1. CaptureCurrent(x, Shown(g)) = x
    BY <1>5 DEF CaptureCurrent
  <2> QED BY <2>1 DEF Alike
<1> QED BY <1>3, <1>4, <1>5

(* Apart from its sample, tick leaves alone what the fits are about. *)
LEMMA TickFits ==
  ASSUME NEW x \in SessionSet, NEW g \in EngineSet, EngineFits(g), SessionFits(x, g), NEW due
  PROVE  LET y == Tick(x, Shown(g), due) IN
         /\ SessionFits(y, g) /\ y.adopted = x.adopted /\ y.last = x.last /\ y.media = x.media
         /\ y.protected = x.protected
<1> DEFINE sample == [rev |-> g.rev, media |-> x.media, pos |-> g.at, guess |-> Estimated(g.at)]
           y == [x EXCEPT !.sample = sample, !.guess = Estimated(g.at)]
           z == [y EXCEPT !.force = 0]
<1>0. /\ Shown(g).pos = g.at /\ Shown(g).rev = g.rev
  BY DEF Shown
<1>1. CASE ~AcceptsSample(x, Shown(g)) \/ x.media = NoMedia
  BY <1>1 DEF Tick
<1>2. CASE AcceptsSample(x, Shown(g)) /\ x.media # NoMedia
  <2>1. Sampled(x, g, g.at) /\ g.at \in Positions
    BY <1>2, ShownSampled DEF SessionFits
  <2>2. /\ Estimated(g.at) \in BOOLEAN /\ g.rev \in Nat
        /\ sample \in Samples /\ sample.media = x.media /\ sample.pos = g.at
    BY <2>1 DEF Estimated, Samples, SessionSet, EngineSet
  <2> HIDE DEF sample
  <2>3. y \in SessionSet
    BY ZenonT(60), <2>2 DEF SessionSet
  <2>4. /\ y.adopted = x.adopted /\ y.last = x.last /\ y.media = x.media /\ y.ck = x.ck
        /\ y.protected = x.protected /\ y.target = x.target /\ y.sample = sample
        /\ y.established = x.established /\ y.checkpointable = x.checkpointable
    BY DEF SessionSet
  <2> HIDE DEF y
  <2>5. Sampled(y, g, g.at)
    BY <2>1, <2>4 DEF Sampled
  <2>6. SessionFits(y, g)
    BY <2>2, <2>4, <2>5
       DEF SessionFits, CheckpointsFit, SampleFits, TargetFits, HeardFits, LoadFits
  <2>7. z \in SessionSet /\ Alike(y, z) /\ z.last = y.last /\ z.ck = y.ck
    BY <2>3 DEF SessionSet, Alike
  <2> HIDE DEF z
  <2>8. SessionFits(z, g) /\ Sampled(z, g, g.at)
    BY <2>5, <2>6, <2>7, AlikeFits DEF SessionFits, CheckpointsFit, Sampled, Alike
  <2>9. PICK a : a = CheckpointFromProgress(z, g.at)
    OBVIOUS
  <2>10. PICK b : b = CheckpointFromProgress(y, g.at)
    OBVIOUS
  <2>11. Alike(z, a) /\ a.last = z.last /\ SessionFits(a, g)
    BY <2>1, <2>7, <2>8, <2>9, ProgressFits
  <2>12. Alike(y, b) /\ b.last = y.last /\ SessionFits(b, g)
    BY <2>1, <2>3, <2>5, <2>6, <2>10, ProgressFits
  <2>13. PICK t : t = Tick(x, Shown(g), due)
    OBVIOUS
  <2>14. t \in {a, b, y}
    BY <1>0, <1>2, <2>9, <2>10, <2>13 DEF Tick, y, z, sample
  <2>15. Alike(y, a)
    BY <2>7, <2>11 DEF Alike
  <2>16. /\ SessionFits(t, g) /\ t.adopted = y.adopted /\ t.last = y.last /\ t.media = y.media
         /\ t.protected = y.protected
    BY <2>6, <2>7, <2>11, <2>12, <2>14, <2>15 DEF Alike
  <2> QED BY <2>4, <2>13, <2>16
<1> QED BY <1>1, <1>2

(* The media on its way out is recorded by its own sample. *)
LEMMA OutgoingFits ==
  ASSUME NEW x \in SessionSet, NEW g, SessionFits(x, g)
  PROVE  RecordOutgoing(x) \in SessionSet /\ CheckpointsFit(RecordOutgoing(x), g)
<1> DEFINE y == [x EXCEPT !.sample = NoSample]
           pos == PositionFor(x, x.sample.pos)
<1>1. y \in SessionSet /\ y.ck = x.ck
  BY NoSampleIn DEF SessionSet
<1>2. CheckpointsFit(x, g) /\ CheckpointsFit(y, g)
  BY <1>1 DEF SessionFits, CheckpointsFit
<1>3. x.sample.media \in MediaN /\ x.sample.pos \in Positions
  BY DEF SessionSet, Samples
<1>4. CASE ~x.checkpointable \/ x.sample = NoSample
  <2>1. RecordOutgoing(x) = x
    BY <1>4 DEF RecordOutgoing
  <2> HIDE DEF y, pos
  <2> QED BY <1>2, <2>1
<1>5. CASE ~(~x.checkpointable \/ x.sample = NoSample) /\ (x.protected \/ x.completed \/ ~x.established)
  <2>1. RecordOutgoing(x) = y
    BY <1>1, <1>5 DEF RecordOutgoing, SessionSet
  <2> QED BY <1>1, <1>2, <2>1
<1>6. CASE ~(~x.checkpointable \/ x.sample = NoSample) /\ ~(x.protected \/ x.completed \/ ~x.established)
  <2>1. RecordOutgoing(x) = Write(y, x.sample.media, pos, FALSE)
    BY <1>6 DEF RecordOutgoing
  <2>2. Sampled(x, g, x.sample.pos) /\ x.sample.media = x.media
    BY <1>6 DEF SessionFits, SampleFits
  <2>3. pos \in Positions /\ KeptBy(pos, x.sample.media, g)
    BY <1>3, <1>6, <2>2, PositionForHeard
  <2>4. PICK m \in MediaN : m = x.sample.media
    BY <1>3
  <2>5. PICK w : w = Write(y, m, pos, FALSE)
    OBVIOUS
  <2> HIDE DEF y, pos
  <2>6. w \in SessionSet /\ CheckpointsFit(w, g)
    BY <1>1, <1>2, <2>3, <2>4, <2>5, WriteFits
  <2>7. RecordOutgoing(x) = w
    BY <2>1, <2>4, <2>5
  <2> QED BY <2>6, <2>7
<1> QED BY <1>4, <1>5, <1>6

-----------------------------------------------------------------------------
(* A load is adopted, and the events of its media are heard. *)

(* What a Loaded event says of its load, and of what the engine has open. *)
LoadedFits(ev, g) ==
    ev.k = "Loaded" =>
        /\ ev.pos.of = ev.media /\ ev.pos.kind # "none"
        /\ ev.pos.kind = "live" => ev.live
        /\ ev.pos.kind = "fallback" => ev.fallback
        /\ ev.pos.kind = "start" => ev.pos.n = ev.token
        /\ ev.token = g.load =>
              /\ ev.media = g.media /\ ev.live = g.live
              /\ g.at.kind = "fallback" => ev.fallback
              /\ ev.fallback => g.fixed

LEMMA AdoptFits ==
  ASSUME NEW x, Sane(x), NEW g, SessionFits(x, g), NEW ev \in EventSet, ev.media \in Media,
         LoadedFits(ev, g), ev.k = "Loaded",
         NEW token \in 1 .. x.next, token = ev.token,
         NEW target, Adoptable(x, target, ev.media)
  PROVE  LET y == AdoptLoaded(x, token, target, ev) IN
         /\ SessionFits(y, g)
         /\ y.adopted.token = token /\ y.last = x.last /\ y.media = ev.media
         /\ y.protected = ev.fallback
<1> DEFINE m == ev.media
           gone == IF x.media # m THEN RecordOutgoing(x) ELSE x
           reset == [gone EXCEPT !.force = 0, !.target = NoPos, !.established = FALSE,
                                 !.guess = FALSE, !.protected = ev.fallback]
           moved == AdoptMedia(reset, m, target)
           sample == [rev |-> x.rev, media |-> m, pos |-> ev.pos, guess |-> FALSE]
           set == IF target = Detached THEN moved.set ELSE Adopt(moved.set, target)
           adopted == [token |-> token, target |-> target]
           y == AdoptLoaded(x, token, target, ev)
<1>1. x \in SessionSet
  BY DEF Sane
<1>2. gone \in SessionSet /\ CheckpointsFit(gone, g) /\ gone.last = x.last
  <2>1. CheckpointsFit(x, g)
    BY DEF SessionFits
  <2>2. RecordOutgoing(x) \in SessionSet /\ CheckpointsFit(RecordOutgoing(x), g)
    BY <1>1, OutgoingFits
  <2>3. RecordOutgoing(x).last = x.last
    <3> DEFINE z == [x EXCEPT !.sample = NoSample]
    <3>1. z \in SessionSet /\ z.last = x.last
      BY <1>1, NoSampleIn DEF SessionSet
    <3>2. PICK w : w = Write(z, x.sample.media, PositionFor(x, x.sample.pos), FALSE)
      OBVIOUS
    <3>3. w.last = z.last
      <4> HIDE DEF z
      <4> QED BY <3>1, <3>2 DEF Write, Record, RecordEstimated, SessionSet
    <3>4. RecordOutgoing(x) \in {x, z, w}
      BY <3>2 DEF RecordOutgoing
    <3> HIDE DEF z
    <3> QED BY <3>1, <3>3, <3>4
  <2> QED BY <1>1, <2>1, <2>2, <2>3
<1> HIDE DEF gone
<1>3. /\ reset.ck = gone.ck /\ reset.last = gone.last /\ reset.target = NoPos
      /\ reset.established = FALSE /\ reset.protected = ev.fallback /\ reset \in SessionSet
  <2>1. ev.fallback \in BOOLEAN
    BY DEF EventSet
  <2>2. reset \in SessionSet
    BY ZenonT(60), <1>2, <2>1, NoPosIn DEF SessionSet
  <2> QED BY <1>2, <2>2 DEF SessionSet
<1>4. y = [moved EXCEPT !.sample = sample, !.checkpointable = ~ev.live,
                        !.set = set, !.adopted = adopted]
  BY DEF AdoptLoaded, gone
<1> HIDE DEF reset
<1>5. /\ moved.ck = reset.ck /\ moved.last = reset.last /\ moved.target = reset.target
      /\ moved.established = reset.established /\ moved.protected = reset.protected
      /\ moved.media = m
  <2>1. moved = [reset EXCEPT !.media = m, !.completed = reset.ck[m].done,
                    !.saved = IF target # Detached \/ Cursor(reset.set) = None THEN m ELSE @]
    BY DEF AdoptMedia
  <2> HIDE DEF moved, m
  <2> QED BY <1>3, <2>1 DEF SessionSet
<1>6. moved \in SessionSet
  BY <1>3, AdoptMediaIs
<1> HIDE DEF moved, set
<1>7. /\ y.sample = sample /\ y.checkpointable = ~ev.live /\ y.adopted = adopted
      /\ y.ck = gone.ck /\ y.last = x.last /\ y.target = NoPos /\ y.established = FALSE
      /\ y.protected = ev.fallback /\ y.media = m
  BY <1>2, <1>3, <1>4, <1>5, <1>6 DEF SessionSet
<1>8. token # 0 /\ adopted.token = token /\ sample.media = m /\ sample.pos = ev.pos
  BY <1>1 DEF SessionSet
<1> HIDE DEF y, sample, adopted
<1>9. Sampled(y, g, ev.pos)
  BY <1>7, <1>8 DEF Sampled, LoadedFits
<1>10. SampleFits(y, g) /\ TargetFits(y) /\ HeardFits(y, g)
  BY <1>7, <1>8, <1>9 DEF SampleFits, TargetFits, HeardFits
<1>11. CheckpointsFit(y, g)
  BY <1>2, <1>7 DEF CheckpointsFit
<1>12. LoadFits(y, g)
  BY <1>7, <1>8 DEF LoadFits, LoadedFits
<1> QED BY <1>7, <1>8, <1>10, <1>11, <1>12 DEF SessionFits, y

(* An event that places the load that reigns, or speaks of it as heard. *)
Locates(ev) == ev.k \in {"Landing", "TargetStored", "EndOfTrack"}
Speaks(ev) == Locates(ev) \/ (ev.k = "State" /\ ev.state = "Playing")
Fits(ev, L, m, g) ==
    /\ Speaks(ev) => L \in g.heard
    /\ Locates(ev) => ev.pos.of = m
    /\ ev.k = "EndOfTrack" => m \in g.earned
Placed(ev) == Locates(ev) => ev.pos.kind \in Worth

(* An event the session takes for its own. *)
Heeds(x, g, ev) ==
    /\ Fits(ev, x.adopted.token, x.media, g) /\ Placed(ev)
    /\ ev.k = "Landing" => x.media \in g.earned \/ ~x.protected

(* What such an event leaves: the same load, and no more protection. *)
Stays(x, y) ==
    y.adopted = x.adopted /\ y.last = x.last /\ y.media = x.media /\ (y.protected => x.protected)

LEMMA StaysOn ==
  ASSUME NEW x, NEW y, NEW z, Stays(x, y), Stays(y, z) PROVE Stays(x, z)
BY DEF Stays

LEMMA AlikeStays ==
  ASSUME NEW x, NEW y, Alike(x, y), y.last = x.last PROVE Stays(x, y)
BY DEF Alike, Stays

LEMMA OnStateFits ==
  ASSUME NEW x \in SessionSet, NEW g, SessionFits(x, g), NEW state \in States,
         state = "Playing" => x.adopted.token \in g.heard
  PROVE  LET y == OnState(x, state) IN SessionFits(y, g) /\ Stays(x, y)
<1> DEFINE y == [x EXCEPT !.playback = state]
           z == [y EXCEPT !.target = NoPos, !.established = TRUE,
                          !.completed = FALSE, !.seen = <<0, 0>>]
           w == [y EXCEPT !.force = x.rev]
<1>1. y \in SessionSet /\ Alike(x, y) /\ y.last = x.last /\ y.ck = x.ck
  BY DEF SessionSet, Alike
<1>2. OnState(x, state) \in {z, w, y} /\ (state # "Playing" => OnState(x, state) \in {w, y})
  BY DEF OnState
<1> HIDE DEF y
<1>3. SessionFits(y, g)
  BY <1>1, AlikeFits DEF SessionFits, CheckpointsFit
<1>4. Alike(y, w) /\ w.last = y.last /\ w.ck = y.ck
  BY <1>1 DEF SessionSet, Alike
<1>5. /\ z.adopted = y.adopted /\ z.last = y.last /\ z.media = y.media /\ z.ck = y.ck
      /\ z.protected = y.protected /\ z.target = NoPos /\ z.sample = y.sample
      /\ z.established = TRUE /\ z.checkpointable = y.checkpointable
  BY <1>1 DEF SessionSet
<1> HIDE DEF w, z
<1>6. SessionFits(w, g)
  BY <1>3, <1>4, AlikeFits DEF SessionFits, CheckpointsFit
<1>7. state = "Playing" => SessionFits(z, g)
  BY <1>1, <1>3, <1>5
     DEF Alike, SessionFits, CheckpointsFit, SampleFits, Sampled, TargetFits, HeardFits, LoadFits
<1>8. Stays(x, y) /\ Stays(x, w) /\ Stays(x, z)
  BY <1>1, <1>4, <1>5 DEF Alike, Stays
<1> QED BY <1>2, <1>3, <1>6, <1>7, <1>8

LEMMA OnLandingFits ==
  ASSUME NEW x \in SessionSet, NEW g, SessionFits(x, g), NEW ev \in EventSet,
         x.adopted.token \in g.heard, x.media \in g.earned \/ ~x.protected
  PROVE  LET y == OnLanding(x, ev) IN SessionFits(y, g) /\ Stays(x, y)
<1> DEFINE guess == Estimated(ev.pos)
           protected == x.protected /\ guess
           y == [x EXCEPT !.target = NoPos, !.established = TRUE, !.completed = FALSE,
                          !.seen = <<0, 0>>]
           z == [y EXCEPT !.guess = guess, !.protected = protected, !.force = ev.rev]
<1>1. /\ y.adopted = x.adopted /\ y.last = x.last /\ y.media = x.media /\ y.ck = x.ck
      /\ y.protected = x.protected /\ y.target = NoPos /\ y.sample = x.sample
      /\ y.established = TRUE /\ y.checkpointable = x.checkpointable
      /\ y \in SessionSet
  BY NoPosIn DEF SessionSet
<1>2. OnLanding(x, ev) = z
  BY DEF OnLanding
<1>3. protected \in BOOLEAN /\ (protected => x.protected)
  BY DEF Estimated, SessionSet
<1> HIDE DEF guess, protected, y
<1>4. /\ z.adopted = y.adopted /\ z.last = y.last /\ z.media = y.media /\ z.ck = y.ck
      /\ z.protected = protected /\ z.target = y.target /\ z.sample = y.sample
      /\ z.established = y.established /\ z.checkpointable = y.checkpointable
  BY <1>1 DEF SessionSet
<1> HIDE DEF z
<1>5. SessionFits(z, g)
  BY <1>1, <1>3, <1>4
     DEF SessionFits, CheckpointsFit, SampleFits, Sampled, TargetFits, HeardFits, LoadFits
<1>6. Stays(x, z)
  BY <1>1, <1>3, <1>4 DEF Stays
<1> QED BY <1>2, <1>5, <1>6

LEMMA OnTargetStoredFits ==
  ASSUME NEW x \in SessionSet, NEW g, SessionFits(x, g), NEW ev \in EventSet,
         x.adopted.token \in g.heard, ev.pos.of = x.media, ev.pos.kind \in Worth
  PROVE  LET y == OnTargetStored(x, ev) IN SessionFits(y, g) /\ Stays(x, y)
<1> DEFINE y == [x EXCEPT !.target = ev.pos, !.established = TRUE, !.completed = FALSE,
                          !.seen = <<0, 0>>]
<1>1. ev.pos \in Positions
  BY DEF EventSet
<1>2. /\ y.adopted = x.adopted /\ y.last = x.last /\ y.media = x.media /\ y.ck = x.ck
      /\ y.protected = x.protected /\ y.target = ev.pos /\ y.sample = x.sample
      /\ y.established = TRUE /\ y.checkpointable = x.checkpointable
      /\ y \in SessionSet
  BY <1>1 DEF SessionSet
<1>3. OnTargetStored(x, ev) = RecordCurrent(y, ev.pos)
  BY DEF OnTargetStored
<1> HIDE DEF y
<1>4. SessionFits(y, g)
  BY <1>2
     DEF SessionFits, CheckpointsFit, SampleFits, Sampled, TargetFits, HeardFits, LoadFits
<1>5. KeptBy(ev.pos, y.media, g)
  BY <1>2 DEF KeptBy, HeardAt
<1>6. PICK pos \in Positions : pos = ev.pos
  BY <1>1
<1>7. PICK w : w = RecordCurrent(y, pos)
  OBVIOUS
<1>8. Alike(y, w) /\ w.last = y.last /\ SessionFits(w, g)
  BY <1>2, <1>4, <1>5, <1>6, <1>7, RecordFits
<1>9. Stays(x, w)
  BY <1>2, <1>8 DEF Alike, Stays
<1> QED BY <1>3, <1>6, <1>7, <1>8, <1>9

LEMMA OnEndOfTrackFits ==
  ASSUME NEW x \in SessionSet, NEW g, SessionFits(x, g), NEW ev \in EventSet,
         x.adopted.token \in g.heard, ev.pos.of = x.media, ev.pos.kind \in Worth,
         x.media \in g.earned
  PROVE  LET y == OnEndOfTrack(x, ev) IN SessionFits(y, g) /\ Stays(x, y)
<1> DEFINE key == <<x.adopted.token, x.rev>>
           guess == Estimated(ev.pos)
           protected == x.protected /\ guess
           y == [x EXCEPT !.seen = key, !.target = NoPos, !.established = TRUE,
                          !.completed = TRUE]
           z == [y EXCEPT !.guess = guess, !.protected = protected]
           following == IF Has(x.set, x.adopted.target)
                        THEN Following(x.set, x.adopted.target) ELSE None
<1>1. /\ key \in Nat \X Nat /\ ev.pos \in Positions /\ guess \in BOOLEAN
      /\ protected \in BOOLEAN /\ (protected => x.protected)
  BY DEF SessionSet, Loads, EventSet, Estimated
<1> HIDE DEF key
<1>2. /\ y.adopted = x.adopted /\ y.last = x.last /\ y.media = x.media /\ y.ck = x.ck
      /\ y.protected = x.protected /\ y.target = NoPos /\ y.sample = x.sample
      /\ y.established = TRUE /\ y.checkpointable = x.checkpointable
      /\ y \in SessionSet
  BY <1>1, NoPosIn DEF SessionSet
<1> HIDE DEF guess, protected, y
<1>3. z \in SessionSet
  BY ZenonT(60), <1>1, <1>2 DEF SessionSet
<1>4. /\ z.adopted = y.adopted /\ z.last = y.last /\ z.media = y.media /\ z.ck = y.ck
      /\ z.protected = protected /\ z.target = y.target /\ z.sample = y.sample
      /\ z.established = y.established /\ z.checkpointable = y.checkpointable
  BY <1>2 DEF SessionSet
<1>5. PICK w : w = RecordCurrent(z, ev.pos)
  OBVIOUS
<1> DEFINE advance == IF x.adopted.target = Detached THEN w.advance ELSE following
           v == [w EXCEPT !.advance = advance]
<1>6. OnEndOfTrack(x, ev) \in {x, v}
  BY <1>5 DEF OnEndOfTrack, key, guess, protected, y, z
<1> HIDE DEF z, advance
<1>7. SessionFits(z, g)
  BY <1>1, <1>2, <1>4
     DEF SessionFits, CheckpointsFit, SampleFits, Sampled, TargetFits, HeardFits, LoadFits
<1>8. KeptBy(ev.pos, z.media, g)
  BY <1>2, <1>4 DEF KeptBy, HeardAt
<1>9. PICK pos \in Positions : pos = ev.pos
  BY <1>1
<1>10. w \in SessionSet /\ Alike(z, w) /\ w.last = z.last /\ SessionFits(w, g)
  BY <1>3, <1>5, <1>7, <1>8, <1>9, RecordFits
<1>11. Alike(w, v) /\ v.last = w.last /\ v.ck = w.ck
  BY <1>10 DEF SessionSet, Alike
<1> HIDE DEF v
<1>12. SessionFits(v, g)
  BY <1>10, <1>11, AlikeFits DEF SessionFits, CheckpointsFit
<1>13. Stays(x, v) /\ Stays(x, x)
  BY <1>1, <1>2, <1>4, <1>10, <1>11 DEF Alike, Stays
<1> QED BY <1>6, <1>12, <1>13

LEMMA MediaEventFits ==
  ASSUME NEW x, Sane(x), NEW g, SessionFits(x, g), NEW ev \in EventSet,
         x.adopted.token # 0, Heeds(x, g, ev)
  PROVE  LET y == MediaEvent(x, ev) IN SessionFits(y, g) /\ Stays(x, y)
<1> DEFINE force == IF x.force = 0 THEN 0 ELSE ev.rev
           z == [x EXCEPT !.latest = ev.rev, !.rev = ev.rev, !.force = force]
           checkpointable == z.checkpointable /\ ~ev.live
           w == [z EXCEPT !.checkpointable = checkpointable]
           y == MediaEvent(x, ev)
<1>1. x \in SessionSet /\ ev.rev \in Nat /\ force \in Nat /\ ev.state \in States
  BY DEF Sane, SessionSet, EventSet
<1>2. /\ ev.k = "State" => y = OnState(z, ev.state)
      /\ ev.k = "Landing" => y = OnLanding(z, ev)
      /\ ev.k = "TargetStored" => y = OnTargetStored(z, ev)
      /\ ev.k = "EndOfTrack" => y = OnEndOfTrack(z, ev)
      /\ ev.k = "Capabilities" => y = w
      /\ ~(ev.k = "State" \/ Locates(ev) \/ ev.k = "Capabilities") => y = z
  BY DEF MediaEvent, Locates
<1> HIDE DEF force
<1>3. z \in SessionSet /\ Alike(x, z) /\ z.last = x.last /\ z.ck = x.ck
  BY <1>1 DEF SessionSet, Alike
<1> HIDE DEF z, y
<1>4. SessionFits(z, g) /\ Stays(x, z)
  BY <1>3, AlikeFits, AlikeStays DEF SessionFits, CheckpointsFit
<1>5. z.adopted = x.adopted /\ z.media = x.media /\ z.protected = x.protected
  BY <1>3 DEF Alike
<1>6. checkpointable => z.checkpointable
  OBVIOUS
<1> HIDE DEF checkpointable
<1>7. /\ w.adopted = z.adopted /\ w.last = z.last /\ w.media = z.media /\ w.ck = z.ck
      /\ w.protected = z.protected /\ w.target = z.target /\ w.sample = z.sample
      /\ w.established = z.established /\ w.checkpointable = checkpointable
  BY <1>3 DEF SessionSet
<1> HIDE DEF w
<1>8. SessionFits(w, g) /\ Stays(z, w)
  BY <1>4, <1>6, <1>7
     DEF Stays, SessionFits, CheckpointsFit, SampleFits, Sampled, TargetFits, HeardFits, LoadFits
<1>9. CASE ev.k = "State"
  <2>1. ev.state = "Playing" => z.adopted.token \in g.heard
    BY <1>5, <1>9 DEF Heeds, Fits, Speaks
  <2>2. PICK state \in States : state = ev.state
    BY <1>1
  <2>3. SessionFits(OnState(z, state), g) /\ Stays(z, OnState(z, state))
    BY <1>3, <1>4, <2>1, <2>2, OnStateFits
  <2> QED BY <1>2, <1>4, <1>9, <2>2, <2>3, StaysOn DEF y
<1>10. CASE ev.k = "Landing"
  <2>1. z.adopted.token \in g.heard /\ (z.media \in g.earned \/ ~z.protected)
    BY <1>5, <1>10 DEF Heeds, Fits, Speaks, Locates
  <2>2. SessionFits(OnLanding(z, ev), g) /\ Stays(z, OnLanding(z, ev))
    BY <1>3, <1>4, <2>1, OnLandingFits
  <2> QED BY <1>2, <1>4, <1>10, <2>2, StaysOn DEF y
<1>11. CASE ev.k = "TargetStored"
  <2>1. z.adopted.token \in g.heard /\ ev.pos.of = z.media /\ ev.pos.kind \in Worth
    BY <1>5, <1>11 DEF Heeds, Fits, Speaks, Locates, Placed
  <2>2. SessionFits(OnTargetStored(z, ev), g) /\ Stays(z, OnTargetStored(z, ev))
    BY <1>3, <1>4, <2>1, OnTargetStoredFits
  <2> QED BY <1>2, <1>4, <1>11, <2>2, StaysOn DEF y
<1>12. CASE ev.k = "EndOfTrack"
  <2>1. /\ z.adopted.token \in g.heard /\ ev.pos.of = z.media /\ ev.pos.kind \in Worth
        /\ z.media \in g.earned
    BY <1>5, <1>12 DEF Heeds, Fits, Speaks, Locates, Placed
  <2>2. SessionFits(OnEndOfTrack(z, ev), g) /\ Stays(z, OnEndOfTrack(z, ev))
    BY <1>3, <1>4, <2>1, OnEndOfTrackFits
  <2> QED BY <1>2, <1>4, <1>12, <2>2, StaysOn DEF y
<1>13. CASE ev.k = "Capabilities"
  BY <1>2, <1>4, <1>8, <1>13, StaysOn DEF y
<1>14. CASE ~(ev.k = "State" \/ Locates(ev) \/ ev.k = "Capabilities")
  BY <1>2, <1>4, <1>14 DEF y
<1> QED BY <1>9, <1>10, <1>11, <1>12, <1>13, <1>14 DEF Locates

(* Whose load the session owns once it has heard ev. *)
Passes(x, ev, y) ==
    \/ y.adopted = x.adopted /\ (y.protected => x.protected)
    \/ ev.k = "Loaded" /\ y.adopted.token = ev.token /\ y.protected = ev.fallback

LEMMA RetractAlike ==
  ASSUME NEW x \in SessionSet, NEW token
  PROVE  LET y == Retract(x, token) IN
         Alike(x, y) /\ y.last = x.last /\ y.ck = x.ck /\ y.latest = x.latest /\ y.rev = x.rev
BY DEF Retract, Alike, SessionSet

LEMMA LatestAlike ==
  ASSUME NEW x \in SessionSet, NEW rev, NEW last
  PROVE  LET y == WithLatest(x, rev, last) IN Alike(x, y) /\ y.last = last /\ y.ck = x.ck
BY DEF WithLatest, Alike, SessionSet

LEMMA AlikeKeeps ==
  ASSUME NEW x, NEW y, NEW g, Alike(x, y), y.ck = x.ck, SessionFits(x, g)
  PROVE  SessionFits(y, g)
BY AlikeFits DEF SessionFits, CheckpointsFit

LEMMA OutcomeFits ==
  ASSUME NEW x, Sane(x), NEW g, SessionFits(x, g), NEW ev \in EventSet,
         ev.k = "Loaded" => ev.media \in Media, IsOutcome(ev), ev.token \in DOMAIN x.pending,
         x.latest <= ev.rev, x.adopted.token \notin DOMAIN x.pending, LoadedFits(ev, g)
  PROVE  LET y == Observe(x, ev) IN SessionFits(y, g) /\ Heir(x, ev, y) /\ Passes(x, ev, y)
<1> DEFINE gone == Retract(x, ev.token)
           known == WithLatest(gone, ev.rev, 0)
           later == WithLatest(gone, ev.rev, ev.token)
           stopping == [later EXCEPT !.stop = TRUE]
           owning == [later EXCEPT !.rev = ev.rev]
           target == x.pending[ev.token].target
           adopting == AdoptLoaded(owning, ev.token, target, ev)
           y == Observe(x, ev)
<1>1. /\ x \in SessionSet /\ ev.rev \in Nat /\ x.latest \in Nat /\ ev.token \in 1 .. x.next
      /\ ev.token \in Nat /\ ~(ev.rev < x.latest)
  BY DEF Sane, SessionSet, EventSet
<1>2. /\ Sane(gone) /\ gone.next = x.next /\ gone.set = x.set
  BY RetractIs
<1>3. Alike(x, gone) /\ gone.last = x.last /\ gone.ck = x.ck /\ gone.latest = x.latest
      /\ gone.rev = x.rev
  BY <1>1, RetractAlike
<1>4. /\ ev.k # "Loaded" => y = known
      /\ ev.k = "Loaded" /\ ~Accepts(x, ev) => y = stopping
      /\ ev.k = "Loaded" /\ Accepts(x, ev) => y = adopting
  <2>1. y = LoadOutcome(x, ev, Accepts(x, ev)) /\ ev.rev >= x.latest
    BY <1>1 DEF Observe
  <2> HIDE DEF y
  <2> QED BY <1>1, <2>1 DEF LoadOutcome, WithLatest, gone
<1>5. gone \in SessionSet /\ SessionFits(gone, g)
  BY <1>2, <1>3, AlikeKeeps DEF Sane
<1> HIDE DEF gone, target, y
<1>6. CASE ev.k # "Loaded"
  <2>1. Alike(gone, known) /\ known.last = 0 /\ known.ck = gone.ck
    BY <1>5, LatestAlike
  <2> HIDE DEF known
  <2>2. SessionFits(known, g)
    BY <1>5, <2>1, AlikeKeeps
  <2>3. Heir(x, ev, known)
    BY <2>1 DEF Heir, Mine
  <2>4. Passes(x, ev, known)
    BY <1>3, <2>1 DEF Passes, Alike
  <2> QED BY <1>4, <1>6, <2>2, <2>3, <2>4 DEF y
<1>7. CASE ev.k = "Loaded"
  <2>1. Alike(gone, later) /\ later.last = ev.token /\ later.ck = gone.ck
    BY <1>5, LatestAlike
  <2>2. /\ Sane(later) /\ later.next = gone.next /\ later.latest = ev.rev /\ later.set = gone.set
        /\ later \in SessionSet
    BY <1>1, <1>2, <1>3, LatestIs DEF Sane
  <2> HIDE DEF later
  <2>3. SessionFits(later, g)
    BY <1>5, <2>1, AlikeKeeps
  <2>4. CASE ~Accepts(x, ev)
    <3>1. Alike(later, stopping) /\ stopping.last = later.last /\ stopping.ck = later.ck
      BY <2>2 DEF Alike, SessionSet
    <3> HIDE DEF stopping
    <3>2. SessionFits(stopping, g)
      BY <2>3, <3>1, AlikeKeeps
    <3>3. stopping.adopted = x.adopted /\ stopping.protected = x.protected
      BY <1>3, <2>1, <3>1 DEF Alike
    <3>4. Heir(x, ev, stopping)
      BY <2>1, <3>1, <3>3 DEF Heir, Mine
    <3>5. Passes(x, ev, stopping)
      BY <3>3 DEF Passes
    <3> QED BY <1>4, <1>7, <2>4, <3>2, <3>4, <3>5 DEF y
  <2>5. CASE Accepts(x, ev)
    <3>1. /\ Sane(owning) /\ owning.next = later.next /\ owning.set = later.set
      BY <1>1, <2>2, RevIs
    <3>2. Alike(later, owning) /\ owning.last = later.last /\ owning.ck = later.ck
      BY <2>2 DEF Alike, SessionSet
    <3> HIDE DEF owning
    <3>3. SessionFits(owning, g)
      BY <2>3, <3>2, AlikeKeeps
    <3>4. Adoptable(owning, target, ev.media) /\ ev.media \in Media
      BY <1>2, <1>7, <2>2, <2>5, <3>1 DEF Accepts, Registered, Adoptable, target
    <3>5. PICK token \in 1 .. owning.next : token = ev.token
      BY <1>1, <1>2, <2>2, <3>1
    <3>6. PICK w : w = AdoptLoaded(owning, token, target, ev)
      OBVIOUS
    <3>7. /\ SessionFits(w, g) /\ w.adopted.token = token /\ w.media = ev.media
          /\ w.protected = ev.fallback
      BY <1>7, <3>1, <3>3, <3>4, <3>5, <3>6, AdoptFits
    <3>8. Heir(x, ev, w)
      BY <1>7, <3>5, <3>7 DEF Heir, Mine, Opens
    <3>9. Passes(x, ev, w)
      BY <1>7, <3>5, <3>7 DEF Passes
    <3> QED BY <1>4, <1>7, <2>5, <3>5, <3>6, <3>7, <3>8, <3>9 DEF y
  <2> QED BY <2>4, <2>5
<1> QED BY <1>6, <1>7 DEF y

LEMMA ObserveFits ==
  ASSUME NEW x, Sane(x), NEW g, SessionFits(x, g), NEW ev \in EventSet,
         ev.k = "Loaded" => ev.media \in Media, x.latest <= ev.rev,
         Cut(ev) => ev.token \in DOMAIN x.pending, x.adopted.token \notin DOMAIN x.pending,
         LoadedFits(ev, g), Mine(x, x.adopted.token, x.media) => Heeds(x, g, ev)
  PROVE  LET y == Observe(x, ev) IN SessionFits(y, g) /\ Heir(x, ev, y) /\ Passes(x, ev, y)
<1> DEFINE y == Observe(x, ev)
           shown == [x EXCEPT !.playback = "Loading"]
           late == WithLatest(shown, ev.rev, 0)
<1>1. /\ x \in SessionSet /\ ev.rev \in Nat /\ x.latest \in Nat /\ ~(ev.rev < x.latest)
      /\ DOMAIN x.pending \subseteq 1 .. x.next
  BY DEF Sane, SessionSet, EventSet
<1>2. CASE IsOutcome(ev)
  <2>1. ev.token \in DOMAIN x.pending
    BY <1>2 DEF Cut
  <2> QED BY <1>2, <2>1, OutcomeFits
<1>3. CASE ~IsOutcome(ev) /\ Cut(ev)
  <2>1. y = Loading(x, ev)
    BY <1>3 DEF Observe, Cut
  <2>2. shown \in SessionSet /\ Alike(x, shown) /\ shown.ck = x.ck /\ shown.latest = x.latest
    BY <1>1 DEF SessionSet, States, Alike
  <2>3. y = late
    BY <1>1, <2>1, <2>2 DEF Loading, WithLatest
  <2> HIDE DEF shown
  <2>4. Alike(shown, late) /\ late.last = 0 /\ late.ck = shown.ck
    BY <2>2, LatestAlike
  <2> HIDE DEF late, y
  <2>5. SessionFits(late, g)
    BY <2>2, <2>4, AlikeKeeps
  <2>6. Heir(x, ev, late) /\ Passes(x, ev, late)
    BY <2>2, <2>4 DEF Heir, Mine, Passes, Alike
  <2> QED BY <2>3, <2>5, <2>6 DEF y
<1>4. CASE ~Cut(ev)
  <2>1. y = IF Accepts(x, ev) THEN MediaEvent(x, ev) ELSE x
    <3>1. ~IsOutcome(ev) /\ ~(ev.k = "State" /\ ev.state = "Loading" /\ ev.token \in DOMAIN x.pending)
      BY <1>1, <1>4 DEF Cut
    <3> QED BY <3>1 DEF Observe
  <2>2. CASE Accepts(x, ev)
    <3>1. x.adopted.token # 0 /\ x.last = x.adopted.token
      BY <1>4, <2>2 DEF Accepts, Owns, Cut, IsOutcome
    <3>2. Heeds(x, g, ev)
      BY <3>1 DEF Mine
    <3>3. SessionFits(y, g) /\ Stays(x, y)
      BY <2>1, <2>2, <3>1, <3>2, MediaEventFits
    <3> HIDE DEF y
    <3>4. Heir(x, ev, y) /\ Passes(x, ev, y)
      BY <1>4, <3>3 DEF Heir, Mine, Passes, Stays
    <3> QED BY <3>3, <3>4 DEF y
  <2>3. CASE ~Accepts(x, ev)
    <3>1. y = x
      BY <2>1, <2>3
    <3> HIDE DEF y
    <3>2. Heir(x, ev, x) /\ Passes(x, ev, x)
      BY <1>4 DEF Heir, Passes
    <3> QED BY <3>1, <3>2 DEF y
  <2> QED BY <2>2, <2>3
<1> QED BY <1>2, <1>3, <1>4

-----------------------------------------------------------------------------
(* What is on its way, and the invariant. *)

(* What is on its way: each outcome is of a load waited for, and its last     *)
(* word; the load being opened, and those queued, have had none. *)
CutsFit(x, evs) ==
    /\ \A i \in DOMAIN evs : Cut(evs[i]) => evs[i].token \in DOMAIN x.pending
    /\ \A i, j \in DOMAIN evs :
          i < j /\ IsOutcome(evs[i]) /\ Cut(evs[j]) => evs[j].token # evs[i].token
    /\ x.adopted.token \notin DOMAIN x.pending
OpeningFits(x, evs, g) ==
    g.loading # 0 =>
        /\ g.loading \in DOMAIN x.pending
        /\ \A i \in DOMAIN evs : IsOutcome(evs[i]) => evs[i].token # g.loading
QueuedFits(x, q, evs, g) ==
    \A i \in DOMAIN q : q[i].cmd = "Load" =>
        /\ q[i].token \in DOMAIN x.pending /\ q[i].token # g.loading
        /\ \A j \in DOMAIN evs : Cut(evs[j]) => evs[j].token # q[i].token
        /\ \A j \in DOMAIN q : q[j].cmd = "Load" /\ q[j].token = q[i].token => i = j
Ordered(x, evs) ==
    /\ \A i \in DOMAIN evs : x.latest <= evs[i].rev
    /\ \A i, j \in DOMAIN evs : i <= j => evs[i].rev <= evs[j].rev

(* Load L starts where it was asked to. *)
AsAsked(x, evs, L) ==
    /\ x.adopted.token = L => ~x.protected
    /\ \A i \in DOMAIN evs : evs[i].k = "Loaded" /\ evs[i].token = L => ~evs[i].fallback

(* Each event fits the load that reigns over it, and the load that reigns     *)
(* over the last is the one the engine has open. *)
EventsFit(x, evs, g) ==
    /\ \A i \in DOMAIN evs : LoadedFits(evs[i], g) /\ Placed(evs[i])
    /\ \A i \in DOMAIN evs : \A L, m : Reigns(x, evs, i, L, m) =>
          /\ Fits(evs[i], L, m, g)
          /\ evs[i].k = "Landing" => m \in g.earned \/ AsAsked(x, evs, L)
EndFits(x, evs, g) ==
    \A L, m : Reigns(x, evs, Len(evs) + 1, L, m) => g.load = L /\ g.media = m

(* Inductive, with RuntimeInv. *)
Heed(x, q, evs, g) ==
    /\ CutsFit(x, evs) /\ OpeningFits(x, evs, g) /\ QueuedFits(x, q, evs, g) /\ Ordered(x, evs)
    /\ EventsFit(x, evs, g) /\ EndFits(x, evs, g)
    /\ SessionFits(x, g) /\ EngineFits(g)

LEMMA ReignsSome ==
  ASSUME NEW x, NEW evs, NEW i, NEW L, NEW m, Reigns(x, evs, i, L, m)
  PROVE  L # 0 /\ (x.adopted.token = L \/ \E k \in DOMAIN evs : IsOutcome(evs[k]) /\ evs[k].token = L)
BY DEF Reigns, Mine, Opened, Opens, IsOutcome

(* The first event is heard. *)
LEMMA HearsTail ==
  ASSUME NEW x, Sane(x), NEW q, NEW n \in Nat, NEW r \in Nat, NEW evs \in Seq(Known(n, r)),
         evs # <<>>, NEW g, Heed(x, q, evs, g),
         NEW y, y = Observe(x, Head(evs)), NEW z, Alike(y, z), z.last = y.last, z.ck = y.ck,
         z.pending = y.pending, z.latest = y.latest
  PROVE  Heed(z, q, Tail(evs), g)
<1> DEFINE ev == Head(evs)
           rest == Tail(evs)
<1>1. /\ DOMAIN evs = 1 .. Len(evs) /\ DOMAIN rest = 1 .. Len(evs) - 1 /\ Len(evs) \in Nat
      /\ \A k \in DOMAIN rest : k \in Nat /\ k + 1 \in DOMAIN evs /\ rest[k] = evs[k + 1]
      /\ 1 \in DOMAIN evs /\ ev = evs[1] /\ Len(rest) = Len(evs) - 1
      /\ \A k \in DOMAIN evs : evs[k] \in Known(n, r)
  <2>1. /\ Len(evs) \in Nat /\ DOMAIN evs = 1 .. Len(evs) /\ DOMAIN Tail(evs) = 1 .. Len(evs) - 1
        /\ \A k \in DOMAIN Tail(evs) : k \in Nat /\ k + 1 \in DOMAIN evs /\ Tail(evs)[k] = evs[k + 1]
        /\ 1 \in DOMAIN evs /\ Head(evs) = evs[1] /\ Len(Tail(evs)) = Len(evs) - 1
    BY TailAt
  <2> QED BY <2>1
<1>2. /\ ev \in Known(n, r) /\ ev \in EventSet /\ (ev.k = "Loaded" => ev.media \in Media)
      /\ ev.rev \in Nat
  BY <1>1 DEF Known, EventSet
<1>3. /\ CutsFit(x, evs) /\ OpeningFits(x, evs, g) /\ QueuedFits(x, q, evs, g) /\ Ordered(x, evs)
      /\ EventsFit(x, evs, g) /\ EndFits(x, evs, g)
      /\ SessionFits(x, g) /\ EngineFits(g)
  BY DEF Heed
<1>4. /\ x.latest <= ev.rev /\ (Cut(ev) => ev.token \in DOMAIN x.pending)
      /\ x.adopted.token \notin DOMAIN x.pending /\ LoadedFits(ev, g) /\ Placed(ev)
  BY <1>1, <1>3 DEF Ordered, CutsFit, EventsFit
<1>5. ASSUME Mine(x, x.adopted.token, x.media) PROVE Heeds(x, g, ev)
  <2>1. Reigns(x, evs, 1, x.adopted.token, x.media)
    BY <1>1, <1>5 DEF Reigns, Calm
  <2>2. /\ Fits(ev, x.adopted.token, x.media, g)
        /\ ev.k = "Landing" => x.media \in g.earned \/ AsAsked(x, evs, x.adopted.token)
    BY <1>1, <1>3, <2>1 DEF EventsFit
  <2> QED BY <1>4, <2>2 DEF Heeds, AsAsked
<1>6. SessionFits(y, g) /\ Heir(x, ev, y) /\ Passes(x, ev, y)
  <2> HIDE DEF ev
  <2>1. PICK w : w = Observe(x, ev)
    OBVIOUS
  <2>2. SessionFits(w, g) /\ Heir(x, ev, w) /\ Passes(x, ev, w)
    BY <1>2, <1>3, <1>4, <1>5, <2>1, ObserveFits
  <2> QED BY <2>1, <2>2 DEF ev
<1>7. DOMAIN y.pending = Answered(x, ev) /\ y.latest \in {x.latest, ev.rev}
  BY <1>2, ObserveIs
<1> HIDE DEF ev, rest
<1>8. SessionFits(z, g) /\ Heir(x, ev, z) /\ Passes(x, ev, z)
  BY <1>6, AlikeKeeps DEF Alike, Heir, Mine, Passes
<1>9. z.latest \in {x.latest, ev.rev}
      /\ DOMAIN z.pending = (IF IsOutcome(ev) THEN DOMAIN x.pending \ {ev.token} ELSE DOMAIN x.pending)
  BY <1>7 DEF Answered
<1>10. CutsFit(z, rest)
  <2>1. ASSUME NEW i \in DOMAIN rest, Cut(rest[i]) PROVE rest[i].token \in DOMAIN z.pending
    <3>1. i + 1 \in DOMAIN evs /\ rest[i] = evs[i + 1] /\ 1 < i + 1
      BY <1>1
    <3>2. rest[i].token \in DOMAIN x.pending /\ (IsOutcome(ev) => rest[i].token # ev.token)
      BY <1>1, <1>3, <2>1, <3>1 DEF CutsFit
    <3> QED BY <1>9, <3>2
  <2>2. ASSUME NEW i \in DOMAIN rest, NEW j \in DOMAIN rest, i < j, IsOutcome(rest[i]), Cut(rest[j])
        PROVE  rest[j].token # rest[i].token
    <3>1. i + 1 \in DOMAIN evs /\ rest[i] = evs[i + 1] /\ j + 1 \in DOMAIN evs /\ rest[j] = evs[j + 1]
          /\ i + 1 < j + 1
      BY <1>1, <2>2
    <3> QED BY <1>3, <2>2, <3>1 DEF CutsFit
  <2>3. z.adopted.token \notin DOMAIN z.pending
    <3>1. ev.k = "Loaded" => IsOutcome(ev)
      BY DEF IsOutcome
    <3> QED BY <1>4, <1>8, <1>9, <3>1 DEF Passes
  <2> QED BY <2>1, <2>2, <2>3 DEF CutsFit
<1>11. OpeningFits(z, rest, g)
  BY <1>1, <1>3, <1>9 DEF OpeningFits
<1>12. QueuedFits(z, q, rest, g)
  <2> SUFFICES ASSUME NEW i \in DOMAIN q, q[i].cmd = "Load"
               PROVE  /\ q[i].token \in DOMAIN z.pending /\ q[i].token # g.loading
                      /\ \A j \in DOMAIN rest : Cut(rest[j]) => rest[j].token # q[i].token
                      /\ \A j \in DOMAIN q : q[j].cmd = "Load" /\ q[j].token = q[i].token => i = j
    BY DEF QueuedFits
  <2>1. /\ q[i].token \in DOMAIN x.pending /\ q[i].token # g.loading
        /\ \A j \in DOMAIN evs : Cut(evs[j]) => evs[j].token # q[i].token
        /\ \A j \in DOMAIN q : q[j].cmd = "Load" /\ q[j].token = q[i].token => i = j
    BY <1>3 DEF QueuedFits
  <2>2. IsOutcome(ev) => ev.token # q[i].token
    BY <1>1, <2>1 DEF Cut
  <2> QED BY <1>1, <1>9, <2>1, <2>2
<1>13. Ordered(z, rest)
  <2>1. ASSUME NEW i \in DOMAIN rest PROVE z.latest <= rest[i].rev
    <3>1. i + 1 \in DOMAIN evs /\ rest[i] = evs[i + 1] /\ 1 <= i + 1
      BY <1>1
    <3>2. x.latest <= rest[i].rev /\ ev.rev <= rest[i].rev
      BY <1>1, <1>3, <3>1 DEF Ordered
    <3> QED BY <1>9, <3>2
  <2>2. ASSUME NEW i \in DOMAIN rest, NEW j \in DOMAIN rest, i <= j PROVE rest[i].rev <= rest[j].rev
    <3>1. i + 1 \in DOMAIN evs /\ rest[i] = evs[i + 1] /\ j + 1 \in DOMAIN evs /\ rest[j] = evs[j + 1]
          /\ i + 1 <= j + 1
      BY <1>1, <2>2
    <3> QED BY <1>3, <3>1 DEF Ordered
  <2> QED BY <2>1, <2>2 DEF Ordered
<1>14. ASSUME NEW i \in Nat, i >= 1, NEW L, NEW m, Reigns(z, rest, i, L, m)
       PROVE  Reigns(x, evs, i + 1, L, m)
  BY <1>8, <1>14, ReignsTail DEF ev, rest
<1>15. ASSUME NEW L, AsAsked(x, evs, L) PROVE AsAsked(z, rest, L)
  <2>1. z.adopted.token = L => ~z.protected
    BY <1>1, <1>8, <1>15 DEF Passes, AsAsked
  <2> QED BY <1>1, <1>15, <2>1 DEF AsAsked
<1>16. EventsFit(z, rest, g)
  <2>1. \A i \in DOMAIN rest : LoadedFits(rest[i], g) /\ Placed(rest[i])
    BY <1>1, <1>3 DEF EventsFit
  <2>2. ASSUME NEW i \in DOMAIN rest, NEW L, NEW m, Reigns(z, rest, i, L, m)
        PROVE  /\ Fits(rest[i], L, m, g)
               /\ rest[i].k = "Landing" => m \in g.earned \/ AsAsked(z, rest, L)
    <3>1. i \in Nat /\ i >= 1 /\ i + 1 \in DOMAIN evs /\ rest[i] = evs[i + 1]
      BY <1>1
    <3>2. Reigns(x, evs, i + 1, L, m)
      BY <1>14, <2>2, <3>1
    <3>3. /\ Fits(rest[i], L, m, g)
          /\ rest[i].k = "Landing" => m \in g.earned \/ AsAsked(x, evs, L)
      BY <1>3, <3>1, <3>2 DEF EventsFit
    <3> QED BY <1>15, <3>3
  <2> QED BY <2>1, <2>2 DEF EventsFit
<1>17. EndFits(z, rest, g)
  <2> SUFFICES ASSUME NEW L, NEW m, Reigns(z, rest, Len(rest) + 1, L, m)
               PROVE  g.load = L /\ g.media = m
    BY DEF EndFits
  <2>1. Len(rest) + 1 = Len(evs) /\ Len(evs) >= 1
    BY <1>1
  <2>2. Reigns(x, evs, Len(evs) + 1, L, m)
    BY <1>1, <1>14, <2>1
  <2> QED BY <1>3, <2>2 DEF EndFits
<1> QED BY <1>3, <1>8, <1>10, <1>11, <1>12, <1>13, <1>16, <1>17 DEF Heed, rest

-----------------------------------------------------------------------------
(* The engine sends more. *)

(* The engine's next events, new, after those on their way, p: h is the       *)
(* engine after, g before. *)
LEMMA JoinOrdered ==
  ASSUME NEW x, NEW n \in Nat, NEW r \in Nat, NEW p \in Seq(Known(n, r)), NEW S, NEW new \in Seq(S),
         NEW rev \in Nat, r <= rev, x.latest \in Nat, x.latest <= r,
         \A i \in DOMAIN new : new[i].rev = rev, Ordered(x, p)
  PROVE  Ordered(x, p \o new)
<1> DEFINE j == p \o new
<1>1. /\ \A i \in DOMAIN j : i \in DOMAIN p \/ (i > Len(p) /\ i - Len(p) \in DOMAIN new /\ j[i] = new[i - Len(p)])
      /\ \A i \in DOMAIN p : j[i] = p[i] /\ p[i] \in Known(n, r) /\ i <= Len(p) /\ i \in Nat
      /\ Len(p) \in Nat /\ DOMAIN j = 1 .. Len(p) + Len(new) /\ Len(new) \in Nat
  <2>1. p \in Seq(Known(n, r) \union S) /\ new \in Seq(Known(n, r) \union S)
    BY SeqGrows
  <2> HIDE DEF j
  <2>2. /\ \A i \in DOMAIN j : i \in DOMAIN p \/ (i > Len(p) /\ i - Len(p) \in DOMAIN new /\ j[i] = new[i - Len(p)])
        /\ \A i \in DOMAIN p : j[i] = p[i]
        /\ Len(p) \in Nat /\ DOMAIN j = 1 .. Len(p) + Len(new) /\ Len(new) \in Nat
        /\ DOMAIN p = 1 .. Len(p)
    BY <2>1, JoinAt DEF j
  <2> QED BY <2>2
<1> HIDE DEF j
<1>2. \A i \in DOMAIN p : p[i].rev \in Nat /\ p[i].rev <= r /\ p[i].rev <= rev /\ j[i] = p[i]
  BY <1>1 DEF Known, EventSet
<1>3. \A i \in DOMAIN j : x.latest <= j[i].rev
  <2> SUFFICES ASSUME NEW i \in DOMAIN j PROVE x.latest <= j[i].rev
    OBVIOUS
  <2>1. CASE i \in DOMAIN p
    BY <1>2, <2>1 DEF Ordered
  <2>2. CASE i - Len(p) \in DOMAIN new /\ j[i] = new[i - Len(p)]
    BY <2>2
  <2> QED BY <1>1, <2>1, <2>2
<1>4. ASSUME NEW i \in DOMAIN j, NEW k \in DOMAIN j, i <= k PROVE j[i].rev <= j[k].rev
  <2>1. CASE k \in DOMAIN p
    <3>1. i \in DOMAIN p
      BY <1>1, <1>4, <2>1
    <3> QED BY <1>2, <1>4, <2>1, <3>1 DEF Ordered
  <2>2. CASE k - Len(p) \in DOMAIN new /\ j[k] = new[k - Len(p)]
    <3>1. j[k].rev = rev
      BY <2>2
    <3>2. CASE i \in DOMAIN p
      BY <1>2, <3>1, <3>2
    <3>3. CASE i - Len(p) \in DOMAIN new /\ j[i] = new[i - Len(p)]
      BY <3>1, <3>3
    <3> QED BY <1>1, <3>2, <3>3
  <2> QED BY <1>1, <2>1, <2>2
<1> QED BY <1>3, <1>4 DEF Ordered, j

(* Who may reign over the new ones, or at their end. *)
Rules(x, p, new, i, L, m) ==
    (Reigns(x, p, Len(p) + 1, L, m) /\ Calm(new, 1, i)) \/ Opened(new, i, L, m)

LEMMA JoinEvents ==
  ASSUME NEW x, NEW S, NEW p \in Seq(S), NEW new \in Seq(S), NEW g, NEW h, EventsFit(x, p, g),
         g.heard \subseteq h.heard, g.earned \subseteq h.earned,
         \A i \in DOMAIN p : LoadedFits(p[i], h),
         \A i \in DOMAIN new : LoadedFits(new[i], h) /\ Placed(new[i]),
         \A i \in DOMAIN p : \A L, m : Reigns(x, p, i, L, m) =>
            \A k \in DOMAIN new : new[k].k = "Loaded" => new[k].token # L,
         \A i \in DOMAIN new : \A L, m : Rules(x, p, new, i, L, m) =>
            /\ Fits(new[i], L, m, h)
            /\ new[i].k = "Landing" => m \in h.earned \/ AsAsked(x, p \o new, L)
  PROVE  EventsFit(x, p \o new, h)
<1> DEFINE j == p \o new
<1>1. /\ \A i \in DOMAIN j : i \in DOMAIN p \/ (i > Len(p) /\ i - Len(p) \in DOMAIN new /\ j[i] = new[i - Len(p)])
      /\ \A i \in DOMAIN p : j[i] = p[i]
      /\ Len(p) \in Nat /\ DOMAIN p = 1 .. Len(p) /\ DOMAIN new = 1 .. Len(new)
      /\ DOMAIN j = 1 .. Len(p) + Len(new) /\ Len(new) \in Nat
  BY JoinAt
<1>2. ASSUME NEW i \in Nat, NEW L, NEW m, Reigns(x, j, i, L, m)
      PROVE  /\ i \in 1 .. Len(p) + 1 => Reigns(x, p, i, L, m)
             /\ i >= Len(p) + 1 => Rules(x, p, new, i - Len(p), L, m)
  BY <1>2, ReignsJoin DEF Rules
<1>3. j = p \o new
  OBVIOUS
<1> HIDE DEF j
<1>4. \A i \in DOMAIN j : LoadedFits(j[i], h) /\ Placed(j[i])
  <2> SUFFICES ASSUME NEW i \in DOMAIN j PROVE LoadedFits(j[i], h) /\ Placed(j[i])
    OBVIOUS
  <2>1. CASE i \in DOMAIN p
    BY <1>1, <2>1 DEF EventsFit
  <2>2. CASE i - Len(p) \in DOMAIN new /\ j[i] = new[i - Len(p)]
    BY <2>2
  <2> QED BY <1>1, <2>1, <2>2
<1>5. ASSUME NEW i \in DOMAIN j, NEW L, NEW m, Reigns(x, j, i, L, m)
      PROVE  /\ Fits(j[i], L, m, h)
             /\ j[i].k = "Landing" => m \in h.earned \/ AsAsked(x, j, L)
  <2>0. i \in Nat
    BY <1>1
  <2>1. CASE i \in DOMAIN p
    <3>1. Reigns(x, p, i, L, m) /\ j[i] = p[i]
      BY <1>1, <1>2, <1>5, <2>1
    <3>2. /\ Fits(p[i], L, m, g)
          /\ p[i].k = "Landing" => m \in g.earned \/ AsAsked(x, p, L)
      BY <2>1, <3>1 DEF EventsFit
    <3>3. Fits(p[i], L, m, h)
      BY <3>2 DEF Fits
    <3>4. ASSUME AsAsked(x, p, L) PROVE AsAsked(x, j, L)
      <4> SUFFICES ASSUME NEW k \in DOMAIN j, j[k].k = "Loaded", j[k].token = L
                   PROVE  ~j[k].fallback
        BY <3>4 DEF AsAsked
      <4>1. CASE k \in DOMAIN p
        BY <1>1, <3>4, <4>1 DEF AsAsked
      <4>2. CASE k - Len(p) \in DOMAIN new /\ j[k] = new[k - Len(p)]
        BY <2>1, <3>1, <4>2
      <4> QED BY <1>1, <4>1, <4>2
    <3> QED BY <3>1, <3>2, <3>3, <3>4
  <2>2. CASE i > Len(p) /\ i - Len(p) \in DOMAIN new /\ j[i] = new[i - Len(p)]
    <3>1. i >= Len(p) + 1
      BY <1>1, <2>0, <2>2
    <3>2. PICK k \in DOMAIN new : k = i - Len(p)
      BY <2>2
    <3>3. Rules(x, p, new, k, L, m)
      BY <1>2, <1>5, <2>0, <3>1, <3>2
    <3>4. j[i] = new[k]
      BY <2>2, <3>2
    <3> QED BY <1>3, <3>3, <3>4
  <2> QED BY <1>1, <2>1, <2>2
<1> QED BY <1>3, <1>4, <1>5 DEF EventsFit

LEMMA JoinEnd ==
  ASSUME NEW x, NEW S, NEW p \in Seq(S), NEW new \in Seq(S), NEW h,
         \A L, m : Rules(x, p, new, Len(new) + 1, L, m) => h.load = L /\ h.media = m
  PROVE  EndFits(x, p \o new, h)
<1> SUFFICES ASSUME NEW L, NEW m, Reigns(x, p \o new, Len(p \o new) + 1, L, m)
             PROVE  h.load = L /\ h.media = m
  BY DEF EndFits
<1>1. Len(p) \in Nat /\ Len(new) \in Nat /\ Len(p \o new) = Len(p) + Len(new)
  BY JoinAt
<1>2. PICK i \in Nat : i = Len(p \o new) + 1
  BY <1>1
<1>3. i >= Len(p) + 1 /\ i - Len(p) = Len(new) + 1
  BY <1>1, <1>2
<1>4. Reigns(x, p \o new, i, L, m)
  BY <1>2
<1>5. Rules(x, p, new, i - Len(p), L, m)
  BY <1>3, <1>4, ReignsJoin DEF Rules
<1> QED BY <1>3, <1>5

(* New events that answer no load. *)
Still(new) == \A i \in DOMAIN new : ~Cut(new[i])

LEMMA StillTokens ==
  ASSUME NEW x, NEW S, NEW p \in Seq(S), NEW new \in Seq(S), NEW q, NEW g, NEW h, Still(new),
         h.loading = g.loading, CutsFit(x, p), OpeningFits(x, p, g), QueuedFits(x, q, p, g)
  PROVE  CutsFit(x, p \o new) /\ OpeningFits(x, p \o new, h) /\ QueuedFits(x, q, p \o new, h)
<1> DEFINE j == p \o new
<1>1. /\ \A i \in DOMAIN j : i \in DOMAIN p \/ (i > Len(p) /\ i - Len(p) \in DOMAIN new /\ j[i] = new[i - Len(p)])
      /\ \A i \in DOMAIN p : j[i] = p[i]
  BY JoinAt
<1> HIDE DEF j
<1>2. \A i \in DOMAIN j : Cut(j[i]) => i \in DOMAIN p /\ j[i] = p[i]
  BY <1>1 DEF Still
<1>3. \A i \in DOMAIN j : IsOutcome(j[i]) => Cut(j[i])
  BY DEF Cut
<1>4. CutsFit(x, j)
  BY <1>2, <1>3 DEF CutsFit
<1>5. OpeningFits(x, j, h)
  BY <1>2, <1>3 DEF OpeningFits
<1>6. QueuedFits(x, q, j, h)
  BY <1>2 DEF QueuedFits
<1> QED BY <1>4, <1>5, <1>6 DEF j

(* New events of which the first alone is about a load: t, waited for and not *)
(* answered so far. *)
About(t, new) ==
    \A i \in DOMAIN new : Cut(new[i]) => i = 1 /\ new[i].token = t

LEMMA AboutTokens ==
  ASSUME NEW x, NEW S, NEW p \in Seq(S), NEW new \in Seq(S), NEW q, NEW g, NEW h, NEW t,
         About(t, new), t \in DOMAIN x.pending, 0 \notin DOMAIN x.pending,
         \A i \in DOMAIN p : IsOutcome(p[i]) => p[i].token # t,
         \A i \in DOMAIN q : q[i].cmd = "Load" => q[i].token # t,
         \/ h.loading = 0
         \/ h.loading = t /\ \A i \in DOMAIN new : ~IsOutcome(new[i])
         \/ h.loading = g.loading /\ g.loading # t,
         CutsFit(x, p), OpeningFits(x, p, g), QueuedFits(x, q, p, g)
  PROVE  CutsFit(x, p \o new) /\ OpeningFits(x, p \o new, h) /\ QueuedFits(x, q, p \o new, h)
<1> DEFINE j == p \o new
<1>1. /\ \A i \in DOMAIN j : i \in DOMAIN p \/ (i > Len(p) /\ i - Len(p) \in DOMAIN new /\ j[i] = new[i - Len(p)])
      /\ \A i \in DOMAIN p : j[i] = p[i]
      /\ DOMAIN p = 1 .. Len(p) /\ Len(p) \in Nat
      /\ DOMAIN j = 1 .. Len(p) + Len(new) /\ Len(new) \in Nat
  BY JoinAt
<1> HIDE DEF j
<1>2. \A i \in DOMAIN j : Cut(j[i]) =>
        (i \in DOMAIN p /\ j[i] = p[i]) \/ (i = Len(p) + 1 /\ j[i].token = t)
  <2> SUFFICES ASSUME NEW i \in DOMAIN j, Cut(j[i]), ~(i \in DOMAIN p)
               PROVE  i = Len(p) + 1 /\ j[i].token = t
    BY <1>1
  <2>1. i - Len(p) \in DOMAIN new /\ j[i] = new[i - Len(p)] /\ i \in Nat
    BY <1>1
  <2>2. i - Len(p) = 1 /\ j[i].token = t
    BY <2>1 DEF About
  <2> QED BY <1>1, <2>1, <2>2
<1>3. \A i \in DOMAIN j : IsOutcome(j[i]) => Cut(j[i])
  BY DEF Cut
<1>4. CutsFit(x, j)
  <2>1. \A i \in DOMAIN j : Cut(j[i]) => j[i].token \in DOMAIN x.pending
    BY <1>2 DEF CutsFit
  <2>2. ASSUME NEW i \in DOMAIN j, NEW k \in DOMAIN j, i < k, IsOutcome(j[i]), Cut(j[k])
        PROVE  j[k].token # j[i].token
    <3>1. CASE k \in DOMAIN p /\ j[k] = p[k]
      <4>1. i \in DOMAIN p /\ j[i] = p[i]
        BY <1>1, <2>2, <3>1
      <4> QED BY <2>2, <3>1, <4>1 DEF CutsFit
    <3>2. CASE k = Len(p) + 1 /\ j[k].token = t
      <4>1. i \in DOMAIN p /\ j[i] = p[i]
        BY <1>1, <1>2, <1>3, <2>2, <3>2
      <4> QED BY <2>2, <3>2, <4>1
    <3> QED BY <1>2, <2>2, <3>1, <3>2
  <2> QED BY <2>1, <2>2 DEF CutsFit
<1>5. OpeningFits(x, j, h)
  <2> SUFFICES ASSUME h.loading # 0
               PROVE  /\ h.loading \in DOMAIN x.pending
                      /\ \A i \in DOMAIN j : IsOutcome(j[i]) => j[i].token # h.loading
    BY DEF OpeningFits
  <2>1. CASE h.loading = t /\ \A i \in DOMAIN new : ~IsOutcome(new[i])
    BY <1>1, <2>1
  <2>2. CASE h.loading = g.loading /\ g.loading # t
    BY <1>2, <1>3, <2>2 DEF OpeningFits
  <2> QED BY <2>1, <2>2
<1>6. QueuedFits(x, q, j, h)
  <2> SUFFICES ASSUME NEW i \in DOMAIN q, q[i].cmd = "Load"
               PROVE  /\ q[i].token \in DOMAIN x.pending /\ q[i].token # h.loading
                      /\ \A k \in DOMAIN j : Cut(j[k]) => j[k].token # q[i].token
                      /\ \A k \in DOMAIN q : q[k].cmd = "Load" /\ q[k].token = q[i].token => i = k
    BY DEF QueuedFits
  <2>1. /\ q[i].token \in DOMAIN x.pending /\ q[i].token # g.loading
        /\ \A k \in DOMAIN p : Cut(p[k]) => p[k].token # q[i].token
        /\ \A k \in DOMAIN q : q[k].cmd = "Load" /\ q[k].token = q[i].token => i = k
    BY DEF QueuedFits
  <2>2. q[i].token # t /\ q[i].token # 0
    BY <2>1
  <2> QED BY <1>2, <2>1, <2>2
<1> QED BY <1>4, <1>5, <1>6 DEF j

(* The queue's first command is taken. *)
LEMMA QueuedTail ==
  ASSUME NEW x, NEW S, NEW q \in Seq(S), q # <<>>, NEW evs, NEW g, QueuedFits(x, q, evs, g)
  PROVE  /\ QueuedFits(x, Tail(q), evs, g)
         /\ Head(q).cmd = "Load" =>
              /\ Head(q).token \in DOMAIN x.pending /\ Head(q).token # g.loading
              /\ \A j \in DOMAIN evs : Cut(evs[j]) => evs[j].token # Head(q).token
              /\ \A i \in DOMAIN Tail(q) : Tail(q)[i].cmd = "Load" => Tail(q)[i].token # Head(q).token
<1> DEFINE r == Tail(q)
<1>1. /\ \A i \in DOMAIN r : i \in Nat /\ i + 1 \in DOMAIN q /\ r[i] = q[i + 1] /\ i + 1 # 1
      /\ 1 \in DOMAIN q /\ Head(q) = q[1]
  <2>1. /\ \A i \in DOMAIN Tail(q) : i \in Nat /\ i + 1 \in DOMAIN q /\ Tail(q)[i] = q[i + 1]
        /\ 1 \in DOMAIN q /\ Head(q) = q[1] /\ DOMAIN Tail(q) = 1 .. Len(q) - 1 /\ Len(q) \in Nat
    BY TailAt
  <2> QED BY <2>1
<1> HIDE DEF r
<1>2. QueuedFits(x, r, evs, g)
  <2> SUFFICES ASSUME NEW i \in DOMAIN r, r[i].cmd = "Load"
               PROVE  /\ r[i].token \in DOMAIN x.pending /\ r[i].token # g.loading
                      /\ \A j \in DOMAIN evs : Cut(evs[j]) => evs[j].token # r[i].token
                      /\ \A j \in DOMAIN r : r[j].cmd = "Load" /\ r[j].token = r[i].token => i = j
    BY DEF QueuedFits
  <2>1. i + 1 \in DOMAIN q /\ r[i] = q[i + 1] /\ i \in Nat
    BY <1>1
  <2>2. /\ r[i].token \in DOMAIN x.pending /\ r[i].token # g.loading
        /\ \A j \in DOMAIN evs : Cut(evs[j]) => evs[j].token # r[i].token
        /\ \A j \in DOMAIN q : q[j].cmd = "Load" /\ q[j].token = r[i].token => i + 1 = j
    BY <2>1 DEF QueuedFits
  <2>3. ASSUME NEW j \in DOMAIN r, r[j].cmd = "Load", r[j].token = r[i].token PROVE i = j
    <3>1. j + 1 \in DOMAIN q /\ r[j] = q[j + 1] /\ j \in Nat
      BY <1>1
    <3>2. i + 1 = j + 1
      BY <2>2, <2>3, <3>1
    <3> QED BY <2>1, <3>1, <3>2
  <2> QED BY <2>2, <2>3
<1>3. ASSUME Head(q).cmd = "Load"
      PROVE  /\ Head(q).token \in DOMAIN x.pending /\ Head(q).token # g.loading
             /\ \A j \in DOMAIN evs : Cut(evs[j]) => evs[j].token # Head(q).token
             /\ \A i \in DOMAIN r : r[i].cmd = "Load" => r[i].token # Head(q).token
  BY <1>1, <1>3 DEF QueuedFits
<1> QED BY <1>2, <1>3 DEF r

(* What a handler that is no load's makes of the engine, and what it says of  *)
(* it: events that are about no load, and fit the one the engine has open. *)
Follows(g, h) ==
    /\ h.load = g.load /\ h.loading = g.loading /\ h.media = g.media
    /\ h.live = g.live /\ h.fixed = g.fixed
    /\ g.heard \subseteq h.heard /\ g.earned \subseteq h.earned
    /\ h.at.kind = "fallback" => g.at.kind = "fallback"
News(h, rev) ==
    {ev \in EventSet : /\ ev.rev = rev /\ ~Cut(ev) /\ Placed(ev)
                       /\ Fits(ev, h.load, h.media, h)
                       /\ ev.k = "Landing" => h.media \in h.earned \/ ~h.fixed}

(* The session needs no more of the engine than what it has heard and holds. *)
LEMMA SessionGrows ==
  ASSUME NEW x, NEW g, NEW h, SessionFits(x, g), LoadFits(x, h),
         g.heard \subseteq h.heard, g.earned \subseteq h.earned
  PROVE  SessionFits(x, h)
<1>1. CheckpointsFit(x, h)
  BY DEF SessionFits, CheckpointsFit, KeptBy, HeardAt
<1>2. SampleFits(x, h)
  BY DEF SessionFits, SampleFits, Sampled
<1> QED BY <1>1, <1>2 DEF SessionFits, HeardFits

LEMMA ShrunkFits ==
  ASSUME NEW x, NEW S, NEW q \in Seq(S), NEW r, r = q \/ (q # <<>> /\ r = Tail(q)), NEW evs, NEW g,
         QueuedFits(x, q, evs, g)
  PROVE  QueuedFits(x, r, evs, g)
<1>1. CASE r = q
  BY <1>1
<1>2. CASE q # <<>> /\ r = Tail(q)
  BY <1>2, QueuedTail
<1> QED BY <1>1, <1>2

LEMMA QuietHeeds ==
  ASSUME NEW x, Sane(x), NEW n \in Nat, NEW r \in Nat, NEW p \in Seq(Known(n, r)), x.latest <= r,
         NEW S, NEW q \in Seq(S), NEW g, Heed(x, q, p, g),
         NEW h, Follows(g, h), EngineFits(h),
         NEW rev \in Nat, r <= rev, NEW new \in Seq(News(h, rev)),
         NEW t, t = q \/ (q # <<>> /\ t = Tail(q))
  PROVE  Heed(x, t, p \o new, h)
<1>1. /\ CutsFit(x, p) /\ OpeningFits(x, p, g) /\ QueuedFits(x, q, p, g) /\ Ordered(x, p)
      /\ EventsFit(x, p, g) /\ EndFits(x, p, g) /\ SessionFits(x, g)
  BY DEF Heed
<1>2. p \in Seq(EventSet) /\ new \in Seq(EventSet)
  <2>1. Known(n, r) \subseteq EventSet /\ News(h, rev) \subseteq EventSet
    BY DEF Known, News
  <2> QED BY <2>1, SeqGrows
<1>3. \A i \in DOMAIN new : new[i] \in News(h, rev)
  OBVIOUS
<1>4. \A i \in DOMAIN new : new[i].rev = rev /\ ~Cut(new[i]) /\ Placed(new[i])
                            /\ new[i].k # "Loaded"
  BY <1>3 DEF News, Cut, IsOutcome
<1>5. Still(new)
  BY <1>4 DEF Still
<1>6. Ordered(x, p \o new)
  <2>1. x.latest \in Nat /\ \A i \in DOMAIN new : new[i].rev = rev
    BY <1>4 DEF Sane, SessionSet
  <2> QED BY <1>1, <1>2, <2>1, JoinOrdered
<1>7. h.loading = g.loading /\ QueuedFits(x, t, p, g)
  BY <1>1, ShrunkFits DEF Follows
<1>8. CutsFit(x, p \o new) /\ OpeningFits(x, p \o new, h) /\ QueuedFits(x, t, p \o new, h)
  BY <1>1, <1>2, <1>5, <1>7, StillTokens
<1>9. ASSUME NEW i, NEW L, NEW m, Rules(x, p, new, i, L, m)
      PROVE  L # 0 /\ Reigns(x, p, Len(p) + 1, L, m) /\ h.load = L /\ h.media = m
             /\ g.load = L /\ g.media = m
  <2>1. ~Opened(new, i, L, m)
    BY <1>4 DEF Opened, Opens
  <2>2. Reigns(x, p, Len(p) + 1, L, m)
    BY <1>9, <2>1 DEF Rules
  <2>3. g.load = L /\ g.media = m
    BY <1>1, <2>2 DEF EndFits
  <2> QED BY <2>2, <2>3, ReignsSome DEF Follows
<1>10. EndFits(x, p \o new, h)
  <2>1. \A L, m : Rules(x, p, new, Len(new) + 1, L, m) => h.load = L /\ h.media = m
    BY <1>9
  <2> QED BY <1>2, <2>1, JoinEnd
<1>11. ASSUME NEW L, L = g.load, L # 0, ~g.fixed PROVE AsAsked(x, p \o new, L)
  <2>1. x.adopted.token = L => ~x.protected
    BY <1>1, <1>11 DEF SessionFits, LoadFits
  <2>2. PICK j : j = p \o new
    OBVIOUS
  <2>3. \A k \in DOMAIN j : (k \in DOMAIN p /\ j[k] = p[k])
                            \/ (k - Len(p) \in DOMAIN new /\ j[k] = new[k - Len(p)])
    BY <1>2, <2>2, JoinAt
  <2>4. \A k \in DOMAIN p : p[k].k = "Loaded" /\ p[k].token = L => ~p[k].fallback
    BY <1>1, <1>11 DEF EventsFit, LoadedFits
  <2>5. \A k \in DOMAIN j : j[k].k = "Loaded" /\ j[k].token = L => ~j[k].fallback
    BY <1>4, <2>3, <2>4
  <2> QED BY <2>1, <2>2, <2>5 DEF AsAsked
<1>12. ASSUME NEW i \in DOMAIN new, NEW L, NEW m, Rules(x, p, new, i, L, m)
       PROVE  /\ Fits(new[i], L, m, h)
              /\ new[i].k = "Landing" => m \in h.earned \/ AsAsked(x, p \o new, L)
  <2>1. L # 0 /\ h.load = L /\ h.media = m /\ g.load = L
    BY <1>9, <1>12
  <2>2. Fits(new[i], L, m, h)
    BY <1>3, <2>1 DEF News
  <2>3. new[i].k = "Landing" => m \in h.earned \/ ~g.fixed
    BY <1>3, <2>1 DEF News, Follows
  <2> QED BY <1>11, <2>1, <2>2, <2>3
<1>13. EventsFit(x, p \o new, h)
  <2>1. g.heard \subseteq h.heard /\ g.earned \subseteq h.earned
    BY DEF Follows
  <2>2. \A i \in DOMAIN p : LoadedFits(p[i], h)
    BY <1>1 DEF EventsFit, LoadedFits, Follows
  <2>3. \A i \in DOMAIN new : LoadedFits(new[i], h) /\ Placed(new[i])
    BY <1>4 DEF LoadedFits
  <2>4. \A i \in DOMAIN p : \A L, m : Reigns(x, p, i, L, m) =>
           \A k \in DOMAIN new : new[k].k = "Loaded" => new[k].token # L
    BY <1>4
  <2> QED BY <1>1, <1>2, <1>12, <2>1, <2>2, <2>3, <2>4, JoinEvents
<1>14. SessionFits(x, h)
  <2>1. LoadFits(x, h)
    BY <1>1 DEF SessionFits, LoadFits, Follows
  <2> QED BY <1>1, <2>1, SessionGrows DEF Follows
<1> QED BY <1>6, <1>8, <1>10, <1>13, <1>14 DEF Heed

(* The events of such handlers: x is the engine when it sends them. *)
LEMMA NewsHas ==
  ASSUME NEW x \in EngineSet, NEW h, NEW rev, x.rev = rev
  PROVE  /\ <<>> \in Seq(News(h, rev))
         /\ Event("Failed", x) \in News(h, rev) /\ Event("DeviceRecovered", x) \in News(h, rev)
         /\ [Event("Capabilities", x) EXCEPT !.live = x.live] \in News(h, rev)
         /\ \A state \in States :
               /\ state = "Playing" => h.load \in h.heard
               /\ state = "Loading" => x.loading = 0
               => /\ StateEvent(x, state) \in News(h, rev)
                  /\ Announced(x, state) \in Seq(News(h, rev))
         /\ \A pos \in Positions : pos.of = h.media /\ pos.kind \in Worth /\ h.load \in h.heard =>
               /\ Positioned("TargetStored", x, pos) \in News(h, rev)
               /\ h.media \in h.earned => Positioned("EndOfTrack", x, pos) \in News(h, rev)
               /\ h.media \in h.earned \/ ~h.fixed => Positioned("Landing", x, pos) \in News(h, rev)
<1>1. x.rev \in Nat /\ x.loading \in Nat /\ x.live \in BOOLEAN
  BY DEF EngineSet
<1>2. \A kind \in {"State", "Failed", "Landing", "TargetStored", "EndOfTrack", "Capabilities",
                   "DeviceRecovered"} :
        /\ Event(kind, x) \in EventSet /\ Event(kind, x).rev = rev
        /\ Event(kind, x).token = 0 /\ Event(kind, x).k = kind /\ Event(kind, x).state = "Idle"
  BY <1>1, NoPosIn DEF Event, EventSet, MediaN, States
<1> DEFINE N == News(h, rev)
<1>3. Event("Failed", x) \in N /\ Event("DeviceRecovered", x) \in N
  <2>1. \A kind \in {"Failed", "DeviceRecovered"} :
           /\ Event(kind, x) \in EventSet /\ Event(kind, x).rev = rev
           /\ Event(kind, x).token = 0 /\ Event(kind, x).k = kind
    BY <1>2
  <2> QED BY <2>1 DEF News, Cut, IsOutcome, Placed, Locates, Fits, Speaks
<1>4. [Event("Capabilities", x) EXCEPT !.live = x.live] \in N
  <2>1. PICK v : v = Event("Capabilities", x)
    OBVIOUS
  <2>2. v \in EventSet /\ v.rev = rev /\ v.token = 0 /\ v.k = "Capabilities"
    BY <1>2, <2>1
  <2> DEFINE w == [v EXCEPT !.live = x.live]
  <2>3. w \in EventSet /\ w.rev = rev /\ w.token = 0 /\ w.k = "Capabilities"
    BY <1>1, <2>2 DEF EventSet
  <2>4. [Event("Capabilities", x) EXCEPT !.live = x.live] = w
    BY <2>1
  <2> HIDE DEF w
  <2>5. w \in N
    BY <2>3 DEF News, Cut, IsOutcome, Placed, Locates, Fits, Speaks
  <2> QED BY <2>4, <2>5
<1>5. ASSUME NEW state \in States, state = "Playing" => h.load \in h.heard,
             state = "Loading" => x.loading = 0
      PROVE  StateEvent(x, state) \in N
  <2>1. PICK v : v = Event("State", x)
    OBVIOUS
  <2>2. v \in EventSet /\ v.rev = rev /\ v.k = "State"
    BY <1>2, <2>1
  <2>3. PICK token \in Nat : token = (IF state = "Loading" THEN x.loading ELSE 0) /\ token = 0
    BY <1>5
  <2> DEFINE w == [v EXCEPT !.state = state, !.token = token]
  <2>4. w \in EventSet /\ w.rev = rev /\ w.token = 0 /\ w.k = "State" /\ w.state = state
    BY <2>2, <2>3 DEF EventSet
  <2>5. StateEvent(x, state) = w
    BY <2>1, <2>3 DEF StateEvent
  <2> HIDE DEF w
  <2>6. w \in N
    BY <1>5, <2>4 DEF News, Cut, IsOutcome, Placed, Locates, Fits, Speaks
  <2> QED BY <2>5, <2>6
<1>6. ASSUME NEW state \in States, StateEvent(x, state) \in N
      PROVE  Announced(x, state) \in Seq(N)
  <2> HIDE DEF N
  <2>1. <<StateEvent(x, state)>> \in Seq(N) /\ <<>> \in Seq(N)
    BY <1>6
  <2> QED BY <2>1 DEF Announced
<1>7. ASSUME NEW pos \in Positions, pos.of = h.media, pos.kind \in Worth, h.load \in h.heard,
             NEW k \in {"Landing", "TargetStored", "EndOfTrack"},
             k = "EndOfTrack" => h.media \in h.earned,
             k = "Landing" => h.media \in h.earned \/ ~h.fixed
      PROVE  Positioned(k, x, pos) \in N
  <2>1. PICK v : v = Event(k, x)
    OBVIOUS
  <2>2. v \in EventSet /\ v.rev = rev /\ v.token = 0 /\ v.k = k
    BY <1>2, <2>1
  <2> DEFINE w == [v EXCEPT !.pos = pos]
  <2>3. w \in EventSet /\ w.rev = rev /\ w.token = 0 /\ w.k = k /\ w.pos = pos
    BY <2>2 DEF EventSet
  <2>4. Positioned(k, x, pos) = w
    BY <2>1 DEF Positioned
  <2> HIDE DEF w
  <2>5. w \in N
    BY <1>7, <2>3 DEF News, Cut, IsOutcome, Placed, Locates, Fits, Speaks
  <2> QED BY <2>4, <2>5
<1>8. <<>> \in Seq(N)
  OBVIOUS
<1> HIDE DEF N
<1>9. \A pos \in Positions : pos.of = h.media /\ pos.kind \in Worth /\ h.load \in h.heard =>
         /\ Positioned("TargetStored", x, pos) \in N
         /\ h.media \in h.earned => Positioned("EndOfTrack", x, pos) \in N
         /\ h.media \in h.earned \/ ~h.fixed => Positioned("Landing", x, pos) \in N
  BY <1>7
<1> QED BY <1>3, <1>4, <1>5, <1>6, <1>8, <1>9 DEF N

-----------------------------------------------------------------------------
(* The engine's handlers. *)

(* What a handler that is no load's does, for all that the session may make   *)
(* of it. *)
Aptly ==
    \E x, evs : \E rev \in Nat :
        /\ Follows(e, x) /\ EngineFits(x) /\ e.rev <= rev /\ evs \in Seq(News(x, rev))
        /\ Settle(x, evs)

(* A position of the load the engine has open, and what it has stored. *)
Stands(pos, g) ==
    /\ pos.of = g.media /\ pos.kind # "none"
    /\ pos.kind = "start" => pos.n = g.load \/ g.load = 0
    /\ pos.kind = "live" => g.live
    /\ pos.kind = "fallback" => g.fixed /\ ~g.live
Owes(g) ==
    /\ \/ g.pend = NoIntent
       \/ /\ g.pend.to.of = g.media /\ g.pend.to.kind \in Worth
          /\ g.fixed => g.pend.what = "restart"
    /\ g.loading # 0 => g.pend = NoIntent

LEMMA StandsAt ==
  ASSUME NEW g, EngineFits(g), g.state # "Idle" PROVE Stands(g.at, g) /\ Owes(g)
BY DEF EngineFits, Stands, Owes

LEMMA OwesAt ==
  ASSUME NEW g, EngineFits(g) PROVE Owes(g)
BY DEF EngineFits, Owes

LEMMA FitsBy ==
  ASSUME NEW g, Stands(g.at, g), Owes(g),
         g.state = "Playing" => g.at.kind # "start" /\ g.load \in g.heard,
         g.state = "Loading" => g.load = 0
  PROVE  EngineFits(g)
BY DEF EngineFits, Stands, Owes

LEMMA AptBy ==
  ASSUME NEW x, NEW evs, NEW rev \in Nat, Follows(e, x), EngineFits(x), e.rev <= rev,
         evs \in Seq(News(x, rev)), Settle(x, evs)
  PROVE  Aptly
BY DEF Aptly

LEMMA RelandAt ==
  ASSUME NEW p \in Positions, NEW pos \in Relandings(p)
  PROVE  /\ pos \in Positions /\ pos.of = p.of
         /\ p.kind \in Worth => pos.kind \in Worth
         /\ p.kind \notin Worth => pos = p
<1>1. pos \in Positions
  BY RelandingsIn
<1> QED BY <1>1 DEF Relandings, Landings, Worth

LEMMA StandsAgain ==
  ASSUME NEW g, NEW p \in Positions, Stands(p, g)
  PROVE  /\ \A pos \in Relandings(p) :
               Stands(pos, g) /\ (pos.kind = "fallback" => p.kind = "fallback")
         /\ Stands(Heard(p), g) /\ Heard(p).kind # "start"
         /\ Heard(p).kind = "fallback" => p.kind = "fallback"
         /\ Stands(Proven(p), g) /\ Proven(p).kind # "fallback"
         /\ p.kind = "start" \/ Proven(p).kind # "start"
<1>1. \A pos \in Relandings(p) : Stands(pos, g) /\ (pos.kind = "fallback" => p.kind = "fallback")
  <2> SUFFICES ASSUME NEW pos \in Relandings(p)
               PROVE  Stands(pos, g) /\ (pos.kind = "fallback" => p.kind = "fallback")
    OBVIOUS
  <2>1. /\ pos.of = p.of /\ (p.kind \in Worth => pos.kind \in Worth)
        /\ (p.kind \notin Worth => pos = p)
    BY RelandAt
  <2> QED BY <2>1 DEF Stands, Worth
<1>2. Stands(Heard(p), g) /\ Heard(p).kind # "start"
      /\ (Heard(p).kind = "fallback" => p.kind = "fallback")
  <2>1. [p EXCEPT !.kind = "sure", !.n = 0].kind = "sure" /\ [p EXCEPT !.kind = "sure", !.n = 0].of = p.of
    BY DEF Positions
  <2> QED BY <2>1 DEF Stands, Heard
<1>3. /\ Stands(Proven(p), g) /\ Proven(p).kind # "fallback"
      /\ p.kind = "start" \/ Proven(p).kind # "start"
  <2>1. [p EXCEPT !.kind = "sure"].kind = "sure" /\ [p EXCEPT !.kind = "sure"].of = p.of
    BY DEF Positions
  <2> QED BY <2>1 DEF Stands, Proven
<1> QED BY <1>1, <1>2, <1>3

(* A landing, wherever it is. *)
LEMMA LandsAt ==
  ASSUME NEW g, NEW n, NEW pos \in Landings(g.media, n)
  PROVE  Stands(pos, g) /\ pos.kind \in Worth /\ pos.kind # "fallback" /\ pos.of = g.media
BY DEF Landings, Worth, Stands

(* The engine after is like x but for its state, its position and what it     *)
(* heard, as these leave it. *)
Same(x, y) ==
    /\ y.rev = x.rev /\ y.load = x.load /\ y.loading = x.loading /\ y.media = x.media
    /\ y.live = x.live /\ y.fixed = x.fixed /\ y.earned = x.earned /\ y.pend = x.pend

LEMMA SameKeeps ==
  ASSUME NEW x, NEW y, Same(x, y), x.heard \subseteq y.heard, Follows(e, x)
  PROVE  /\ Owes(x) => Owes(y)
         /\ \A pos : Stands(pos, x) => Stands(pos, y)
         /\ (y.at.kind = "fallback" => x.at.kind = "fallback") => Follows(e, y)
BY DEF Same, Owes, Stands, Follows

LEMMA SameNews ==
  ASSUME NEW x, NEW y, Same(x, y), x.heard = y.heard, NEW rev
  PROVE  News(x, rev) = News(y, rev)
BY DEF Same, News, Fits

(* The state alone. *)
LEMMA StateApt ==
  ASSUME NEW x \in EngineSet, Follows(e, x), Stands(x.at, x), Owes(x), e.rev <= x.rev,
         NEW state \in States \ {"Idle", "Playing", "Loading"}, NEW evs,
         evs \in Seq(News(x, x.rev)), Settle([x EXCEPT !.state = state], evs)
  PROVE  Aptly
<1> DEFINE y == [x EXCEPT !.state = state]
<1>1. Same(x, y) /\ y.heard = x.heard /\ y.at = x.at /\ y.state = state /\ x.rev \in Nat
  BY DEF EngineSet, Same
<1> HIDE DEF y
<1>2. Owes(y) /\ Stands(y.at, y) /\ Follows(e, y)
  BY <1>1, SameKeeps
<1>3. EngineFits(y)
  BY <1>1, <1>2, FitsBy
<1>4. evs \in Seq(News(y, x.rev))
  BY <1>1, SameNews
<1> QED BY <1>1, <1>2, <1>3, <1>4, AptBy DEF y

LEMMA FailsApt ==
  ASSUME NEW x \in EngineSet, Follows(e, x), Stands(x.at, x), Owes(x), e.rev <= x.rev,
         NEW before \in Seq(News(x, x.rev)),
         Settle([x EXCEPT !.state = "Failed"],
                before \o <<Event("Failed", x), StateEvent(x, "Failed")>>)
  PROVE  Aptly
<1>1. PICK N : N = News(x, x.rev)
  OBVIOUS
<1>2. Event("Failed", x) \in N /\ StateEvent(x, "Failed") \in N
  BY <1>1, NewsHas DEF States
<1>3. <<Event("Failed", x), StateEvent(x, "Failed")>> \in Seq(N)
  BY <1>2
<1>4. before \o <<Event("Failed", x), StateEvent(x, "Failed")>> \in Seq(N)
  BY <1>1, <1>3
<1> QED BY <1>1, <1>4, StateApt DEF States

LEMMA PlaysApt ==
  ASSUME RuntimeInv, NEW x \in EngineSet, Follows(e, x), Stands(x.at, x), Owes(x), x.rev = e.rev,
         NEW h, Same(x, h), h.heard = x.heard \union {e.load},
         NEW before \in Seq(News(h, x.rev)), NEW after \in Seq(News(h, x.rev)),
         Plays(x, before, after)
  PROVE  Aptly
<1> DEFINE at == Heard(x.at)
           heard == x.heard \union {e.load}
           revived == x.revived \/ e.state \in {"Stopped", "Loading", "Failed"}
           y == [x EXCEPT !.state = "Playing", !.at = at, !.closed = FALSE]
           z == [y EXCEPT !.heard = heard, !.revived = revived]
           evs == before \o Announced(x, "Playing") \o after
<1>1. x.at \in Positions /\ x.rev \in Nat /\ e.rev \in Nat
  BY DEF EngineSet
<1>2. Settle(z, evs)
  BY DEF Plays
<1>3. Stands(at, x) /\ at.kind # "start" /\ (at.kind = "fallback" => x.at.kind = "fallback")
  BY <1>1, StandsAgain
<1> HIDE DEF at, heard, revived
<1>4. Same(x, y) /\ y.at = at /\ y.state = "Playing" /\ y.heard = x.heard
      /\ y = [x EXCEPT !.state = "Playing", !.at = at, !.closed = FALSE]
      /\ DOMAIN y = DOMAIN x
  BY DEF EngineSet, Same
<1> HIDE DEF y
<1>5. Same(x, z) /\ z.at = at /\ z.state = "Playing" /\ z.heard = heard
  BY <1>4 DEF EngineSet, Same
<1> HIDE DEF z
<1>6. Owes(z) /\ Stands(z.at, z) /\ Follows(e, z)
  BY <1>3, <1>5, SameKeeps DEF heard
<1>7. z.load = e.load
  BY <1>6 DEF Follows
<1>8. z.load \in z.heard
  BY <1>5, <1>7 DEF heard
<1>9. EngineFits(z)
  BY <1>3, <1>5, <1>6, <1>8, FitsBy
<1>10. Same(h, z) /\ h.heard = z.heard
  BY <1>5 DEF Same, heard
<1>11. PICK N : N = News(z, x.rev)
  OBVIOUS
<1>12. News(h, x.rev) = N
  BY <1>10, <1>11, SameNews
<1>13. Announced(x, "Playing") \in Seq(N)
  BY <1>8, <1>11, NewsHas DEF States
<1>14. evs \in Seq(News(z, x.rev)) /\ e.rev <= x.rev
  BY <1>1, <1>11, <1>12, <1>13
<1> HIDE DEF evs
<1> QED BY <1>1, <1>2, <1>6, <1>9, <1>14, AptBy

LEMMA AptParts ==
  ASSUME RuntimeInv, EngineFits(e)
  PROVE  /\ e \in EngineSet /\ Follows(e, e) /\ Owes(e) /\ e.rev \in Nat /\ e.rev <= e.rev
         /\ e.state # "Idle" => Stands(e.at, e)
         /\ e.at \in Positions /\ e.state \in States /\ e.load \in Nat /\ e.media \in MediaN
BY InvParts, StandsAt, OwesAt DEF Follows

LEMMA NothingApt == ASSUME RuntimeInv, EngineFits(e), Nothing PROVE Aptly
<1>1. <<>> \in Seq(News(e, e.rev))
  BY AptParts, NewsHas
<1> QED BY <1>1, AptParts, AptBy DEF Nothing

LEMMA NewsGrows ==
  ASSUME NEW g, NEW h, g.load = h.load, g.media = h.media, g.fixed = h.fixed,
         g.heard \subseteq h.heard, g.earned \subseteq h.earned, NEW rev,
         NEW evs \in Seq(News(g, rev))
  PROVE  evs \in Seq(News(h, rev))
<1>1. News(g, rev) \subseteq News(h, rev)
  BY DEF News, Fits
<1> QED BY <1>1, SeqGrows

(* Where it stood, or what was stored, is taken up. *)
LEMMA RestoresApt ==
  ASSUME RuntimeInv, EngineFits(e), e.state # "Idle",
         NEW x \in EngineSet, Same(e, x), x.heard = e.heard, x.at = e.at,
         NEW before \in Seq(News(x, e.rev)), Restores(x, before)
  PROVE  Aptly
<1>1. /\ x.at \in Positions /\ x.pend.to \in Positions /\ x.rev = e.rev /\ e.rev \in Nat
      /\ x.media \in MediaN /\ x.earned \in SUBSET MediaN /\ x.heard \in SUBSET Nat
      /\ x.live \in BOOLEAN
  BY AptParts DEF EngineSet, Intents, Same
<1>2. Follows(e, x) /\ Stands(x.at, x) /\ Owes(x)
  BY AptParts, SameKeeps DEF Same
<1>3. CASE ~Openable(x) /\ Nothing
  BY <1>3, NothingApt
<1>4. CASE \E pos \in (IF x.live THEN {x.at}
                       ELSE Relandings(IF x.pend = NoIntent THEN x.at ELSE x.pend.to)) :
             Plays([x EXCEPT !.at = pos, !.pend = NoIntent,
                             !.earned = @ \union Restarted(x)], before,
                   IF x.pend = NoIntent \/ x.live THEN <<>>
                   ELSE <<Positioned("Landing", x, pos)>>)
  <2>1. PICK pos \in (IF x.live THEN {x.at}
                      ELSE Relandings(IF x.pend = NoIntent THEN x.at ELSE x.pend.to)) :
             Plays([x EXCEPT !.at = pos, !.pend = NoIntent,
                             !.earned = @ \union Restarted(x)], before,
                   IF x.pend = NoIntent \/ x.live THEN <<>>
                   ELSE <<Positioned("Landing", x, pos)>>)
    BY <1>4
  <2> DEFINE earned == x.earned \union Restarted(x)
             heard == x.heard \union {e.load}
             z == [x EXCEPT !.at = pos, !.pend = NoIntent]
             y == [z EXCEPT !.earned = earned]
             h == [y EXCEPT !.heard = heard]
             after == IF x.pend = NoIntent \/ x.live THEN <<>>
                      ELSE <<Positioned("Landing", x, pos)>>
  <2>2. Plays(y, before, after)
    BY <2>1
  <2>3. /\ pos \in Positions /\ Stands(pos, x) /\ (pos.kind = "fallback" => x.at.kind = "fallback")
        /\ ~(x.pend = NoIntent \/ x.live) =>
              pos.kind \in Worth /\ (x.media \in earned \/ ~x.fixed)
    <3>1. CASE x.live
      BY <1>1, <1>2, <2>1, <3>1
    <3>2. CASE ~x.live /\ x.pend = NoIntent
      <4>1. pos \in Relandings(x.at)
        BY <2>1, <3>2
      <4> QED BY <1>1, <1>2, <3>2, <4>1, StandsAgain, RelandAt
    <3>3. CASE ~x.live /\ x.pend # NoIntent
      <4>1. pos \in Relandings(x.pend.to)
        BY <2>1, <3>3
      <4>2. x.pend.to.of = x.media /\ x.pend.to.kind \in Worth
            /\ (x.fixed => x.pend.what = "restart")
        BY <1>2, <3>3 DEF Owes
      <4>3. pos \in Positions /\ pos.of = x.media /\ pos.kind \in Worth
        BY <1>1, <4>1, <4>2, RelandAt
      <4>4. x.fixed => x.media \in earned
        BY <3>3, <4>2 DEF Restarted
      <4>5. x.fixed \in BOOLEAN
        BY DEF EngineSet
      <4>6. Stands(pos, x) /\ pos.kind # "fallback"
        BY <4>3 DEF Stands, Worth
      <4> QED BY <4>3, <4>4, <4>5, <4>6
    <3> QED BY <1>1, <3>1, <3>2, <3>3
  <2>4. earned \in SUBSET MediaN /\ heard \in SUBSET Nat /\ x.earned \subseteq earned
        /\ x.heard \subseteq heard /\ e.load \in heard
    BY <1>1, AptParts DEF Restarted
  <2> HIDE DEF earned, heard
  <2>5. z \in EngineSet
    BY <2>3, NoIntentIn DEF EngineSet
  <2>6. /\ z.rev = x.rev /\ z.load = x.load /\ z.loading = x.loading /\ z.media = x.media
        /\ z.live = x.live /\ z.fixed = x.fixed /\ z.at = pos /\ z.pend = NoIntent
        /\ z.heard = x.heard
    BY DEF EngineSet
  <2> HIDE DEF z
  <2>7. y \in EngineSet
    BY <2>4, <2>5 DEF EngineSet
  <2>8. /\ y.rev = x.rev /\ y.load = x.load /\ y.loading = x.loading /\ y.media = x.media
        /\ y.live = x.live /\ y.fixed = x.fixed /\ y.at = pos /\ y.pend = NoIntent
        /\ y.heard = x.heard /\ y.earned = earned
    BY <2>5, <2>6 DEF EngineSet
  <2> HIDE DEF y
  <2>9. Same(y, h) /\ h.heard = y.heard \union {e.load}
    BY <2>7, <2>8 DEF EngineSet, Same, heard
  <2> HIDE DEF h
  <2>10. Stands(y.at, y) /\ Owes(y) /\ Follows(e, y)
    <3>1. Stands(y.at, y) /\ Owes(y)
      BY <2>3, <2>8 DEF Stands, Owes
    <3>2. Follows(e, y)
      BY <1>2, <2>3, <2>4, <2>8 DEF Follows, Same
    <3> QED BY <3>1, <3>2
  <2>11. /\ h.load = x.load /\ h.media = x.media /\ h.fixed = x.fixed /\ h.earned = earned
         /\ h.heard = heard
    BY <2>8, <2>9 DEF Same, heard
  <2>12. before \in Seq(News(h, y.rev))
    BY <1>1, <2>4, <2>8, <2>11, NewsGrows
  <2>13. after \in Seq(News(h, y.rev))
    <3>1. CASE x.pend = NoIntent \/ x.live
      <4>1. <<>> \in Seq(News(h, y.rev))
        OBVIOUS
      <4> QED BY <3>1, <4>1
    <3>2. CASE ~(x.pend = NoIntent \/ x.live)
      <4>1. pos.kind \in Worth /\ (h.media \in h.earned \/ ~h.fixed) /\ pos.of = h.media
        BY <2>3, <2>11, <3>2 DEF Stands
      <4>2. h.load \in h.heard
        BY <1>2, <2>4, <2>11 DEF Follows
      <4>3. Positioned("Landing", x, pos) \in News(h, y.rev)
        BY <2>3, <2>8, <4>1, <4>2, NewsHas
      <4> QED BY <3>2, <4>3
    <3> QED BY <3>1, <3>2
  <2> HIDE DEF after
  <2> QED BY <1>1, <2>2, <2>7, <2>8, <2>9, <2>10, <2>12, <2>13, PlaysApt
<1>5. CASE Settle([x EXCEPT !.state = "Stopped"], before \o Announced(x, "Stopped"))
  <2>1. Announced(x, "Stopped") \in Seq(News(x, e.rev))
    BY <1>1, NewsHas DEF States
  <2>2. before \o Announced(x, "Stopped") \in Seq(News(x, x.rev))
    BY <1>1, <2>1
  <2>3. "Stopped" \in States \ {"Idle", "Playing", "Loading"} /\ e.rev <= x.rev
    BY <1>1 DEF States
  <2> QED BY <1>2, <1>5, <2>2, <2>3, StateApt
<1>6. CASE Settle([x EXCEPT !.state = "Failed"],
                  before \o <<Event("Failed", x), StateEvent(x, "Failed")>>)
  BY <1>1, <1>2, <1>6, FailsApt
<1> QED BY <1>3, <1>4, <1>5, <1>6 DEF Restores

LEMMA PlayApt ==
  ASSUME RuntimeInv, EngineFits(e), e.loading = 0, Play(TRUE) \/ Play(FALSE) PROVE Aptly
<1>1. <<>> \in Seq(News(e, e.rev)) /\ Same(e, e)
  BY AptParts, NewsHas DEF Same
<1>2. CASE Plays(e, <<>>, <<>>) /\ e.state # "Idle"
  <2> DEFINE heard == e.heard \union {e.load}
             h == [e EXCEPT !.heard = heard]
  <2>1. Same(e, h) /\ h.heard = e.heard \union {e.load}
    BY AptParts DEF EngineSet, Same
  <2> HIDE DEF h
  <2>2. <<>> \in Seq(News(h, e.rev))
    OBVIOUS
  <2> QED BY <1>2, <2>1, <2>2, AptParts, PlaysApt
<1>3. CASE Restores(e, <<>>) /\ e.state # "Idle"
  BY <1>1, <1>3, AptParts, RestoresApt
<1>4. CASE /\ e.state = "Failed"
           /\ LET x == [e EXCEPT !.state = "Loading"] IN Restores(x, <<StateEvent(x, "Loading")>>)
  <2> DEFINE x == [e EXCEPT !.state = "Loading"]
  <2>1. x \in EngineSet /\ Same(e, x) /\ x.heard = e.heard /\ x.at = e.at /\ x.loading = 0
    BY AptParts DEF EngineSet, Same, States
  <2>2. Restores(x, <<StateEvent(x, "Loading")>>)
    BY <1>4
  <2> HIDE DEF x
  <2>3. x.rev = e.rev
    BY <2>1 DEF Same
  <2>4. StateEvent(x, "Loading") \in News(x, e.rev)
    BY <2>1, <2>3, NewsHas DEF States
  <2>5. <<StateEvent(x, "Loading")>> \in Seq(News(x, e.rev)) /\ e.state # "Idle"
    BY <1>4, <2>4
  <2> QED BY <2>1, <2>2, <2>5, RestoresApt
<1>5. CASE Nothing
  BY <1>5, NothingApt
<1>6. \/ (Plays(e, <<>>, <<>>) \/ Restores(e, <<>>)) /\ e.state # "Idle"
      \/ Nothing
      \/ /\ e.state = "Failed"
         /\ LET x == [e EXCEPT !.state = "Loading"] IN Restores(x, <<StateEvent(x, "Loading")>>)
  BY DEF Play
<1> QED BY <1>2, <1>3, <1>4, <1>5, <1>6

LEMMA PauseApt == ASSUME RuntimeInv, EngineFits(e), Pause PROVE Aptly
<1> DEFINE x == PauseCloses(e)
           rev == e.rev + 1
           y == [e EXCEPT !.rev = rev, !.state = "Paused"]
<1>1. e \in EngineSet /\ e.rev \in Nat /\ Follows(e, e) /\ Owes(e)
  BY AptParts
<1>2. /\ x.rev = e.rev + 1 /\ x.load = e.load /\ x.loading = e.loading /\ x.media = e.media
      /\ x.live = e.live /\ x.fixed = e.fixed /\ x.at = e.at /\ x.pend = e.pend
      /\ x.heard = e.heard /\ x.earned = e.earned /\ x.state = "Paused"
  BY <1>1 DEF PauseCloses, EngineSet
<1>3. x \in EngineSet
  <2>1. rev \in Nat /\ "Paused" \in States
    BY <1>1 DEF States
  <2>2. x = [y EXCEPT !.closed = TRUE]
    BY <1>1 DEF PauseCloses, EngineSet
  <2> HIDE DEF rev, x
  <2>3. y \in EngineSet
    BY <1>1, <2>1 DEF EngineSet
  <2> HIDE DEF y
  <2> QED BY <2>2, <2>3 DEF EngineSet
<1> HIDE DEF x, rev, y
<1>4. Follows(e, x)
  BY <1>1, <1>2 DEF Follows
<1>5. e.state # "Idle" => EngineFits(x)
  <2>1. e.state # "Idle" => Stands(x.at, x) /\ Owes(x)
    BY <1>2, AptParts DEF Stands, Owes
  <2> QED BY <1>2, <2>1, FitsBy
<1>6. StateEvent(e, "Paused") \in News(x, e.rev) /\ StateEvent(e, "Paused") \in News(e, e.rev)
      /\ StateEvent(x, "Paused") \in News(x, x.rev)
  BY <1>1, <1>3, NewsHas DEF States
<1>7. e.rev <= x.rev /\ x.rev \in Nat /\ e.rev <= e.rev
  BY <1>1, <1>2
<1>8. CASE Settle([e EXCEPT !.state = "Paused"], <<StateEvent(e, "Paused")>>) /\ e.state # "Idle"
  <2>1. "Paused" \in States \ {"Idle", "Playing", "Loading"}
    BY DEF States
  <2>2. <<StateEvent(e, "Paused")>> \in Seq(News(e, e.rev))
    BY <1>6
  <2> QED BY <1>1, <1>7, <1>8, <2>1, <2>2, AptParts, StateApt
<1>9. CASE Settle(x, <<StateEvent(e, "Paused")>>) /\ e.state # "Idle"
  <2>1. <<StateEvent(e, "Paused")>> \in Seq(News(x, e.rev))
    BY <1>6
  <2> QED BY <1>1, <1>4, <1>5, <1>7, <1>9, <2>1, AptBy
<1>10. CASE Settle(x, <<StateEvent(x, "Paused")>>) /\ e.state # "Idle"
  <2>1. <<StateEvent(x, "Paused")>> \in Seq(News(x, x.rev))
    BY <1>6
  <2> QED BY <1>4, <1>5, <1>7, <1>10, <2>1, AptBy
<1>11. CASE Nothing
  BY <1>11, NothingApt
<1> QED BY <1>8, <1>9, <1>10, <1>11 DEF Pause, x

LEMMA StoredApt ==
  ASSUME RuntimeInv, EngineFits(e), e.loading = 0, Offline,
         NEW what \in {"seek", "restart"}, e.fixed => what = "restart", NEW n \in Nat,
         Stored(what, n)
  PROVE  Aptly
<1> DEFINE to == [of |-> e.media, n |-> n, kind |-> IF e.at.kind = "guess" THEN "guess" ELSE "sure"]
           intent == [what |-> what, to |-> to]
           heard == e.heard \union {e.load}
           x == [e EXCEPT !.pend = intent, !.heard = heard]
<1>1. /\ e \in EngineSet /\ e.media \in MediaN /\ Follows(e, e) /\ Stands(e.at, e)
      /\ e.rev \in Nat /\ e.state \notin {"Playing", "Loading", "Idle"}
  BY AptParts DEF Offline
<1>2. to \in Positions /\ to.of = e.media /\ to.kind \in Worth
  BY <1>1 DEF Positions, MediaN, Worth
<1>3. Settle(x, <<Positioned("TargetStored", e, to)>>)
  BY DEF Stored
<1> HIDE DEF to
<1>4. /\ x.rev = e.rev /\ x.load = e.load /\ x.loading = 0 /\ x.media = e.media
      /\ x.live = e.live /\ x.fixed = e.fixed /\ x.at = e.at /\ x.state = e.state
      /\ x.pend.to = to /\ x.pend.what = what
      /\ x.heard = heard /\ x.earned = e.earned
  BY <1>1 DEF EngineSet
<1> HIDE DEF x
<1>5. Follows(e, x)
  BY <1>1, <1>4 DEF Follows, heard
<1>6. EngineFits(x)
  <2>1. Stands(x.at, x) /\ Owes(x)
    BY <1>1, <1>2, <1>4 DEF Stands, Owes
  <2> QED BY <1>1, <1>4, <2>1, FitsBy
<1>7. Positioned("TargetStored", e, to) \in News(x, e.rev)
  <2>1. x.load \in x.heard
    BY <1>4 DEF heard
  <2> QED BY <1>1, <1>2, <1>4, <2>1, NewsHas
<1>8. <<Positioned("TargetStored", e, to)>> \in Seq(News(x, e.rev)) /\ e.rev <= e.rev
  BY <1>1, <1>7
<1> QED BY <1>1, <1>3, <1>5, <1>6, <1>8, AptBy

LEMMA SeekApt == ASSUME RuntimeInv, EngineFits(e), e.loading = 0, Seek PROVE Aptly
<1>1. /\ e \in EngineSet /\ e.media \in MediaN /\ e.state \in States /\ Follows(e, e)
      /\ e.rev \in Nat /\ e.load \in Nat /\ e.heard \in SUBSET Nat
  BY AptParts, InvParts
<1>2. CASE Nothing
  BY <1>2, NothingApt
<1>3. CASE Offline /\ ~e.fixed /\ \E n \in 0 .. MaxPos : Stored("seek", n)
  <2>1. PICK n \in 0 .. MaxPos : Stored("seek", n)
    BY <1>3
  <2>2. n \in Nat
    BY RuntimeAssumption
  <2> QED BY <1>3, <2>1, <2>2, StoredApt
<1>4. ASSUME NEW n \in 0 .. MaxPos, NEW pos \in Landings(e.media, n), ~e.fixed,
             LET state == IF e.state = "Ended" THEN "Paused" ELSE e.state
             IN Settle([e EXCEPT !.at = pos, !.pend = NoIntent,
                                 !.heard = @ \union {e.load}, !.state = state],
                       Announced(e, state) \o <<Positioned("Landing", e, pos)>>)
      PROVE  Aptly
  <2> DEFINE state == IF e.state = "Ended" THEN "Paused" ELSE e.state
             heard == e.heard \union {e.load}
             y == [e EXCEPT !.at = pos, !.pend = NoIntent]
             z == [y EXCEPT !.heard = heard, !.state = state]
             evs == Announced(e, state) \o <<Positioned("Landing", e, pos)>>
  <2>1. n \in Nat
    BY RuntimeAssumption
  <2>2. pos \in Positions /\ Stands(pos, e) /\ pos.kind \in Worth /\ pos.of = e.media
    BY <1>1, <2>1, LandingsIn, LandsAt
  <2>3. state \in States /\ (state = "Loading" => e.state = "Loading")
    BY <1>1 DEF States
  <2>4. Settle(z, evs)
    BY <1>4
  <2> HIDE DEF state, evs
  <2>5. /\ y.rev = e.rev /\ y.load = e.load /\ y.loading = 0 /\ y.media = e.media
        /\ y.live = e.live /\ y.fixed = e.fixed /\ y.at = pos /\ y.pend = NoIntent
        /\ y.heard = e.heard /\ y.earned = e.earned
        /\ y = [e EXCEPT !.at = pos, !.pend = NoIntent] /\ DOMAIN y = DOMAIN e
    BY <1>1 DEF EngineSet
  <2> HIDE DEF y
  <2>6. /\ z.rev = e.rev /\ z.load = e.load /\ z.loading = 0 /\ z.media = e.media
        /\ z.live = e.live /\ z.fixed = e.fixed /\ z.at = pos /\ z.pend = NoIntent
        /\ z.heard = heard /\ z.earned = e.earned /\ z.state = state
    BY <1>1, <2>5 DEF EngineSet
  <2> HIDE DEF z
  <2>7. Follows(e, z)
    BY <2>2, <2>6 DEF Follows, Worth, heard
  <2>8. z.load \in z.heard
    BY <2>6 DEF heard
  <2>9. EngineFits(z)
    <3>1. Stands(z.at, z) /\ Owes(z) /\ z.at.kind # "start"
      BY <2>2, <2>6 DEF Stands, Owes, Worth
    <3>2. z.state = "Loading" => z.load = 0
      BY <2>3, <2>6 DEF EngineFits
    <3> QED BY <2>8, <3>1, <3>2, FitsBy
  <2>10. Announced(e, state) \in Seq(News(z, e.rev))
    BY <1>1, <2>3, <2>8, NewsHas
  <2>11. Positioned("Landing", e, pos) \in News(z, e.rev)
    <3>1. ~z.fixed /\ pos.of = z.media
      BY <1>4, <2>2, <2>6
    <3> QED BY <1>1, <2>2, <2>8, <3>1, NewsHas
  <2>12. evs \in Seq(News(z, e.rev)) /\ e.rev <= e.rev
    BY <1>1, <2>10, <2>11 DEF evs
  <2> QED BY <1>1, <2>4, <2>7, <2>9, <2>12, AptBy
<1>5. \/ Nothing
      \/ Offline /\ ~e.fixed /\ \E n \in 0 .. MaxPos : Stored("seek", n)
      \/ ~e.fixed /\ \E n \in 0 .. MaxPos : \E pos \in Landings(e.media, n) :
             LET state == IF e.state = "Ended" THEN "Paused" ELSE e.state
             IN Settle([e EXCEPT !.at = pos, !.pend = NoIntent,
                                 !.heard = @ \union {e.load}, !.state = state],
                       Announced(e, state) \o <<Positioned("Landing", e, pos)>>)
  BY DEF Seek
<1> QED BY <1>2, <1>3, <1>4, <1>5

LEMMA RestartApt == ASSUME RuntimeInv, EngineFits(e), e.loading = 0, Restart PROVE Aptly
<1>1. /\ e \in EngineSet /\ e.media \in MediaN /\ Follows(e, e) /\ e.rev \in Nat
      /\ e.load \in Nat /\ e.heard \in SUBSET Nat /\ e.earned \in SUBSET MediaN
  BY AptParts, InvParts
<1>2. CASE Nothing
  BY <1>2, NothingApt
<1>3. CASE Offline /\ Stored("restart", 0)
  BY <1>3, StoredApt
<1>4. ASSUME NEW pos \in Landings(e.media, 0),
             Plays([e EXCEPT !.at = pos, !.pend = NoIntent,
                             !.earned = @ \union {e.media}],
                   <<Positioned("Landing", e, pos)>>, <<>>)
      PROVE  Aptly
  <2> DEFINE earned == e.earned \union {e.media}
             heard == e.heard \union {e.load}
             y == [e EXCEPT !.at = pos, !.pend = NoIntent]
             z == [y EXCEPT !.earned = earned]
             h == [z EXCEPT !.heard = heard]
  <2>1. pos \in Positions /\ Stands(pos, e) /\ pos.kind \in Worth /\ pos.of = e.media
    BY <1>1, LandingsIn, LandsAt
  <2>2. earned \in SUBSET MediaN /\ heard \in SUBSET Nat
    BY <1>1
  <2>3. Plays(z, <<Positioned("Landing", e, pos)>>, <<>>)
    BY <1>4
  <2> HIDE DEF earned, heard
  <2>4. y \in EngineSet
    BY <1>1, <2>1, NoIntentIn DEF EngineSet
  <2>5. /\ y.rev = e.rev /\ y.load = e.load /\ y.loading = 0 /\ y.media = e.media
        /\ y.live = e.live /\ y.fixed = e.fixed /\ y.at = pos /\ y.pend = NoIntent
        /\ y.heard = e.heard
    BY <1>1 DEF EngineSet
  <2> HIDE DEF y
  <2>6. z \in EngineSet
    BY <2>2, <2>4 DEF EngineSet
  <2>7. /\ z.rev = e.rev /\ z.load = e.load /\ z.loading = 0 /\ z.media = e.media
        /\ z.live = e.live /\ z.fixed = e.fixed /\ z.at = pos /\ z.pend = NoIntent
        /\ z.heard = e.heard /\ z.earned = earned
    BY <2>4, <2>5 DEF EngineSet
  <2> HIDE DEF z
  <2>8. Same(z, h) /\ h.heard = z.heard \union {e.load}
    BY <2>6, <2>7 DEF EngineSet, Same, heard
  <2> HIDE DEF h
  <2>9. Stands(z.at, z) /\ Owes(z) /\ Follows(e, z)
    BY <2>1, <2>7 DEF Stands, Owes, Follows, Worth, earned
  <2>10. Positioned("Landing", e, pos) \in News(h, z.rev)
    <3>1. h.media \in h.earned /\ h.load \in h.heard /\ pos.of = h.media
      BY <2>1, <2>7, <2>8 DEF Same, earned
    <3> QED BY <1>1, <2>1, <2>7, <3>1, NewsHas
  <2>11. <<Positioned("Landing", e, pos)>> \in Seq(News(h, z.rev)) /\ <<>> \in Seq(News(h, z.rev))
    BY <2>10
  <2> QED BY <2>3, <2>6, <2>7, <2>8, <2>9, <2>11, PlaysApt
<1>5. \/ Nothing
      \/ Offline /\ Stored("restart", 0)
      \/ \E pos \in Landings(e.media, 0) :
             Plays([e EXCEPT !.at = pos, !.pend = NoIntent,
                             !.earned = @ \union {e.media}],
                   <<Positioned("Landing", e, pos)>>, <<>>)
  BY DEF Restart
<1> QED BY <1>2, <1>3, <1>4, <1>5

LEMMA AdvanceApt == ASSUME RuntimeInv, EngineFits(e), Advance PROVE Aptly
<1> DEFINE pos == [e.at EXCEPT !.n = @ + 1]
           x == [e EXCEPT !.at = pos]
<1>1. /\ e \in EngineSet /\ e.at \in Positions /\ Follows(e, e) /\ Owes(e) /\ Stands(e.at, e)
      /\ e.rev \in Nat /\ e.state = "Playing" /\ Settle(x, <<>>)
  BY AptParts DEF Advance
<1>2. pos.of = e.at.of /\ pos.kind = e.at.kind
  BY <1>1 DEF Positions
<1> HIDE DEF pos
<1>3. Same(e, x) /\ x.at = pos /\ x.heard = e.heard /\ x.state = e.state
  BY <1>1 DEF EngineSet, Same
<1> HIDE DEF x
<1>4. e.at.kind # "start" /\ e.load \in e.heard
  BY <1>1 DEF EngineFits
<1>5. Owes(x) /\ Follows(e, x) /\ Stands(x.at, x)
  <2>1. Stands(pos, e)
    BY <1>1, <1>2, <1>4 DEF Stands
  <2> QED BY <1>1, <1>2, <1>3, <2>1, SameKeeps
<1>6. EngineFits(x)
  BY <1>1, <1>2, <1>3, <1>4, <1>5, FitsBy DEF Same
<1>7. <<>> \in Seq(News(x, e.rev)) /\ e.rev <= e.rev
  BY <1>1
<1> QED BY <1>1, <1>5, <1>6, <1>7, AptBy

LEMMA EndOfTrackApt == ASSUME RuntimeInv, EngineFits(e), EndOfTrack PROVE Aptly
<1> DEFINE earned == e.earned \union {e.media}
           at == Proven(e.at)
           v == [e EXCEPT !.at = at]
           x == [v EXCEPT !.earned = earned]
           y == [x EXCEPT !.state = "Ended"]
<1>1. /\ e \in EngineSet /\ e.at \in Positions /\ Follows(e, e) /\ Owes(e) /\ Stands(e.at, e)
      /\ e.rev \in Nat /\ e.state = "Playing" /\ ~e.live /\ e.media \in MediaN
      /\ Settle(y, <<Positioned("EndOfTrack", x, x.at), StateEvent(x, "Ended")>>)
  BY AptParts DEF EndOfTrack
<1>2. e.at.kind # "start" /\ e.load \in e.heard
  BY <1>1 DEF EngineFits
<1>3. at \in Positions /\ at.of = e.media /\ at.kind \in Worth
  <2>1. at \in Positions /\ Stands(at, e) /\ at.kind # "fallback" /\ at.kind # "start"
    BY <1>1, <1>2, HeardIn, StandsAgain
  <2> HIDE DEF at
  <2> QED BY <1>1, <2>1 DEF Stands, Worth, Positions
<1>4. earned \in SUBSET MediaN /\ e.earned \subseteq earned /\ e.media \in earned
  BY <1>1 DEF EngineSet
<1> HIDE DEF at, earned
<1>5. v \in EngineSet
  BY <1>1, <1>3 DEF EngineSet
<1>6. /\ v.rev = e.rev /\ v.load = e.load /\ v.loading = e.loading /\ v.media = e.media
      /\ v.live = e.live /\ v.fixed = e.fixed /\ v.at = at /\ v.pend = e.pend
      /\ v.heard = e.heard
  BY <1>1 DEF EngineSet
<1> HIDE DEF v
<1>7. x \in EngineSet
  BY <1>4, <1>5 DEF EngineSet
<1>8. /\ x.rev = e.rev /\ x.load = e.load /\ x.loading = e.loading /\ x.media = e.media
      /\ x.live = e.live /\ x.fixed = e.fixed /\ x.at = at /\ x.pend = e.pend
      /\ x.heard = e.heard /\ x.earned = earned
  BY <1>5, <1>6 DEF EngineSet
<1> HIDE DEF x
<1>9. Same(x, y) /\ y.heard = x.heard /\ y.at = at /\ y.state = "Ended"
  BY <1>7, <1>8 DEF EngineSet, Same
<1> HIDE DEF y
<1>10. Follows(e, y)
  BY <1>3, <1>4, <1>8, <1>9 DEF Same, Follows, Worth
<1>11. EngineFits(y)
  <2>1. Stands(y.at, y) /\ Owes(y)
    BY <1>1, <1>3, <1>8, <1>9 DEF Same, Stands, Owes, Worth
  <2> QED BY <1>9, <2>1, FitsBy
<1>12. Positioned("EndOfTrack", x, x.at) \in News(y, e.rev)
  <2>1. y.load \in y.heard /\ y.media \in y.earned /\ at.of = y.media
    BY <1>2, <1>3, <1>4, <1>8, <1>9 DEF Same
  <2> QED BY <1>3, <1>7, <1>8, <2>1, NewsHas
<1>13. StateEvent(x, "Ended") \in News(y, e.rev)
  BY <1>7, <1>8, NewsHas DEF States
<1>14. <<Positioned("EndOfTrack", x, x.at), StateEvent(x, "Ended")>> \in Seq(News(y, e.rev))
       /\ e.rev <= e.rev
  BY <1>1, <1>12, <1>13
<1> QED BY <1>1, <1>10, <1>11, <1>14, AptBy

LEMMA RebuildApt == ASSUME RuntimeInv, EngineFits(e), Rebuild PROVE Aptly
<1>1. /\ e \in EngineSet /\ e.at \in Positions /\ Follows(e, e) /\ Owes(e) /\ Stands(e.at, e)
      /\ e.rev \in Nat /\ e.state \in {"Playing", "Paused"}
  BY AptParts DEF Rebuild
<1>2. PICK pos \in Relandings(e.at) :
           LET x == [e EXCEPT !.rev = @ + 1, !.at = pos]
           IN Settle(x, <<Event("DeviceRecovered", x)>>)
  BY DEF Rebuild
<1> DEFINE rev == e.rev + 1
           x == [e EXCEPT !.rev = rev, !.at = pos]
<1>3. Settle(x, <<Event("DeviceRecovered", x)>>)
  <2>1. x = [e EXCEPT !.rev = @ + 1, !.at = pos]
    BY <1>1 DEF EngineSet
  <2> HIDE DEF x
  <2> QED BY <1>2, <2>1
<1>4. /\ pos \in Positions /\ Stands(pos, e) /\ (pos.kind = "fallback" => e.at.kind = "fallback")
      /\ (pos.kind = "start" => e.at.kind = "start")
  <2>1. /\ (e.at.kind \in Worth => pos.kind \in Worth) /\ (e.at.kind \notin Worth => pos = e.at)
        /\ pos \in Positions
    BY <1>1, RelandAt
  <2> QED BY <1>1, <2>1, StandsAgain DEF Worth
<1>5. rev \in Nat /\ e.rev <= rev
  BY <1>1
<1> HIDE DEF rev
<1>6. x \in EngineSet
  BY <1>1, <1>4, <1>5 DEF EngineSet
<1>7. /\ x.rev = rev /\ x.load = e.load /\ x.loading = e.loading /\ x.media = e.media
      /\ x.live = e.live /\ x.fixed = e.fixed /\ x.at = pos /\ x.pend = e.pend
      /\ x.heard = e.heard /\ x.earned = e.earned /\ x.state = e.state
  BY <1>1 DEF EngineSet
<1> HIDE DEF x
<1>8. Follows(e, x)
  BY <1>4, <1>7 DEF Follows
<1>9. EngineFits(x)
  <2>1. Stands(x.at, x) /\ Owes(x)
    BY <1>1, <1>4, <1>7 DEF Stands, Owes
  <2>2. x.state = "Playing" => x.at.kind # "start" /\ x.load \in x.heard
    BY <1>4, <1>7 DEF EngineFits
  <2> QED BY <1>1, <1>7, <2>1, <2>2, FitsBy
<1>10. Event("DeviceRecovered", x) \in News(x, rev)
  BY <1>6, <1>7, NewsHas
<1>11. <<Event("DeviceRecovered", x)>> \in Seq(News(x, rev))
  BY <1>10
<1> QED BY <1>3, <1>5, <1>8, <1>9, <1>11, AptBy

LEMMA AloneApt ==
  ASSUME RuntimeInv, EngineFits(e), Advance \/ EndOfTrack \/ Breaks \/ Rebuild \/ Lose \/ Regain
  PROVE  Aptly
<1>1. /\ e \in EngineSet /\ Follows(e, e) /\ Owes(e) /\ e.rev \in Nat /\ e.rev <= e.rev
      /\ (e.state # "Idle" => Stands(e.at, e))
  BY AptParts
<1>2. CASE Breaks
  <2>1. Settle([e EXCEPT !.state = "Failed"], <<Event("Failed", e), StateEvent(e, "Failed")>>)
        /\ e.state # "Idle"
    BY <1>2 DEF Breaks, Fails
  <2>2. <<>> \in Seq(News(e, e.rev))
    OBVIOUS
  <2>3. <<>> \o <<Event("Failed", e), StateEvent(e, "Failed")>>
          = <<Event("Failed", e), StateEvent(e, "Failed")>>
    OBVIOUS
  <2> QED BY <1>1, <2>1, <2>2, <2>3, FailsApt
<1>3. CASE Lose
  <2>1. Settle([e EXCEPT !.state = "Reconnecting"], <<StateEvent(e, "Reconnecting")>>)
        /\ e.state # "Idle"
    BY <1>3 DEF Lose
  <2>2. StateEvent(e, "Reconnecting") \in News(e, e.rev)
    BY <1>1, NewsHas DEF States
  <2>3. <<StateEvent(e, "Reconnecting")>> \in Seq(News(e, e.rev))
        /\ "Reconnecting" \in States \ {"Idle", "Playing", "Loading"}
    BY <2>2 DEF States
  <2> QED BY <1>1, <2>1, <2>3, StateApt
<1>4. CASE Regain
  <2>1. Restores(e, <<[Event("Capabilities", e) EXCEPT !.live = e.live]>>) /\ e.state # "Idle"
    BY <1>4 DEF Regain
  <2>2. [Event("Capabilities", e) EXCEPT !.live = e.live] \in News(e, e.rev)
    BY <1>1, NewsHas
  <2>3. <<[Event("Capabilities", e) EXCEPT !.live = e.live]>> \in Seq(News(e, e.rev))
        /\ Same(e, e)
    BY <2>2 DEF Same
  <2> QED BY <1>1, <2>1, <2>3, RestoresApt
<1> QED BY <1>2, <1>3, <1>4, AdvanceApt, EndOfTrackApt, RebuildApt

LEMMA TakeStopApt == ASSUME RuntimeInv, EngineFits(e), TakeStop PROVE Aptly
<1> DEFINE rev == e.rev + 1
           x == [e EXCEPT !.rev = rev]
           y == [x EXCEPT !.state = "Stopped", !.closed = FALSE]
<1>1. /\ e \in EngineSet /\ Follows(e, e) /\ Owes(e) /\ e.rev \in Nat /\ e.rev <= e.rev
      /\ (e.state # "Idle" => Stands(e.at, e))
  BY AptParts
<1>2. CASE Settle(e, <<>>)
  <2>1. <<>> \in Seq(News(e, e.rev))
    OBVIOUS
  <2> QED BY <1>1, <1>2, <2>1, AptBy
<1>3. CASE e.state # "Idle" /\ Settle(y, <<StateEvent(x, "Stopped")>>)
  <2>1. rev \in Nat /\ e.rev <= rev
    BY <1>1
  <2> HIDE DEF rev
  <2>2. x \in EngineSet /\ Stands(e.at, e)
    BY <1>1, <1>3, <2>1 DEF EngineSet
  <2>3. /\ x.rev = rev /\ x.load = e.load /\ x.loading = e.loading /\ x.media = e.media
        /\ x.live = e.live /\ x.fixed = e.fixed /\ x.at = e.at /\ x.pend = e.pend
        /\ x.heard = e.heard /\ x.earned = e.earned
    BY <1>1 DEF EngineSet
  <2> HIDE DEF x
  <2>4. /\ y.rev = rev /\ y.load = e.load /\ y.loading = e.loading /\ y.media = e.media
        /\ y.live = e.live /\ y.fixed = e.fixed /\ y.at = e.at /\ y.pend = e.pend
        /\ y.heard = e.heard /\ y.earned = e.earned /\ y.state = "Stopped"
    BY <2>2, <2>3 DEF EngineSet
  <2>5. Settle(y, <<StateEvent(x, "Stopped")>>)
    BY <1>3
  <2> HIDE DEF y
  <2>6. Follows(e, y)
    BY <2>4 DEF Follows
  <2>7. EngineFits(y)
    <3>1. Stands(y.at, y) /\ Owes(y)
      BY <1>1, <2>2, <2>4 DEF Stands, Owes
    <3> QED BY <2>4, <3>1, FitsBy
  <2>8. StateEvent(x, "Stopped") \in News(y, rev)
    BY <2>2, <2>3, NewsHas DEF States
  <2>9. <<StateEvent(x, "Stopped")>> \in Seq(News(y, rev))
    BY <2>8
  <2> QED BY <2>1, <2>5, <2>6, <2>7, <2>9, AptBy
<1> QED BY <1>2, <1>3 DEF TakeStop

(* Inductive, with RuntimeInv. *)
HeedInv == Heed(s, cmds, events, e)

LEMMA AptStep ==
  ASSUME RuntimeInv, HeedInv, Aptly,
         cmds' = cmds \/ (cmds # <<>> /\ cmds' = Tail(cmds))
  PROVE  HeedInv'
<1>1. PICK x, evs : \E rev \in Nat :
           /\ Follows(e, x) /\ EngineFits(x) /\ e.rev <= rev /\ evs \in Seq(News(x, rev))
           /\ Settle(x, evs)
  BY DEF Aptly
<1>2. PICK rev \in Nat :
           /\ Follows(e, x) /\ EngineFits(x) /\ e.rev <= rev /\ evs \in Seq(News(x, rev))
           /\ Settle(x, evs)
  BY <1>1
<1>3. s' = s /\ e' = x /\ events' = events \o evs
  BY <1>2 DEF Settle
<1>4. /\ Sane(s) /\ s.next \in Nat /\ e.rev \in Nat /\ s.latest <= e.rev
      /\ events \in Seq(Known(s.next, e.rev)) /\ cmds \in Seq(Submitted(s.next))
  BY InvParts DEF RuntimeInv, FrontEndOk, EngineOk, EventsOk, QueueOk
<1>5. Heed(s, cmds, events, e)
  BY DEF HeedInv
<1>6. Heed(s, cmds', events \o evs, x)
  BY <1>2, <1>4, <1>5, QuietHeeds
<1> QED BY <1>3, <1>6 DEF HeedInv

-----------------------------------------------------------------------------
(* The engine's loads. *)

LEMMA HeedParts ==
  ASSUME RuntimeInv, HeedInv
  PROVE  /\ Sane(s) /\ s.next \in Nat /\ e.rev \in Nat /\ s.latest <= e.rev
         /\ events \in Seq(Known(s.next, e.rev)) /\ cmds \in Seq(Submitted(s.next))
         /\ Heed(s, cmds, events, e) /\ EngineFits(e) /\ CutsFit(s, events)
         /\ OpeningFits(s, events, e) /\ QueuedFits(s, cmds, events, e)
         /\ EventsFit(s, events, e) /\ EndFits(s, events, e) /\ SessionFits(s, e)
         /\ 0 \notin DOMAIN s.pending /\ e.rev <= e.rev
BY InvParts
   DEF RuntimeInv, FrontEndOk, EngineOk, EventsOk, QueueOk, HeedInv, Heed, Sane, SessionSet

(* A step of a load, to engine h: its events, new, place nothing, and the     *)
(* first alone is about a load, t; w is the queue after.                      *)
LoadStep(h, rev, new, t, w) ==
    /\ EngineFits(h) /\ LoadFits(s, h) /\ h.heard = e.heard /\ h.earned = e.earned
    /\ rev \in Nat /\ e.rev <= rev /\ new \in Seq(EventSet)
    /\ \A i \in DOMAIN new : new[i].rev = rev /\ ~Speaks(new[i]) /\ LoadedFits(new[i], h)
    /\ t \in DOMAIN s.pending /\ About(t, new)
    /\ \A i \in DOMAIN new : new[i].k = "Loaded" => new[i].token = t
    /\ \A i \in DOMAIN events : IsOutcome(events[i]) => events[i].token # t
    /\ \A i \in DOMAIN events : LoadedFits(events[i], h)
    /\ QueuedFits(s, w, events, e) /\ \A i \in DOMAIN w : w[i].cmd = "Load" => w[i].token # t
    /\ \/ h.loading = 0
       \/ h.loading = t /\ \A i \in DOMAIN new : ~IsOutcome(new[i])
       \/ h.loading = e.loading /\ e.loading # t
    /\ \A L, m : Rules(s, events, new, Len(new) + 1, L, m) => h.load = L /\ h.media = m

LEMMA LoadHeeds ==
  ASSUME RuntimeInv, HeedInv, NEW h, NEW rev, NEW new, NEW t, NEW w, LoadStep(h, rev, new, t, w)
  PROVE  Heed(s, w, events \o new, h)
<1>1. /\ CutsFit(s, events) /\ OpeningFits(s, events, e) /\ Ordered(s, events)
      /\ EventsFit(s, events, e) /\ SessionFits(s, e) /\ events \in Seq(Known(s.next, e.rev))
      /\ s.next \in Nat /\ e.rev \in Nat /\ s.latest <= e.rev
  BY HeedParts DEF Heed
<1>2. events \in Seq(EventSet) /\ s.latest \in Nat /\ 0 \notin DOMAIN s.pending
  <2>1. Known(s.next, e.rev) \subseteq EventSet
    BY DEF Known
  <2> QED BY <1>1, <2>1, SeqGrows, HeedParts DEF Sane, SessionSet
<1>3. /\ EngineFits(h) /\ LoadFits(s, h) /\ h.heard = e.heard /\ h.earned = e.earned
      /\ rev \in Nat /\ e.rev <= rev /\ new \in Seq(EventSet)
      /\ t \in DOMAIN s.pending /\ About(t, new) /\ QueuedFits(s, w, events, e)
  BY DEF LoadStep
<1>4. /\ \A i \in DOMAIN new : new[i].rev = rev /\ ~Speaks(new[i]) /\ LoadedFits(new[i], h)
      /\ \A i \in DOMAIN new : new[i].k = "Loaded" => new[i].token = t
      /\ \A i \in DOMAIN events : IsOutcome(events[i]) => events[i].token # t
      /\ \A i \in DOMAIN events : LoadedFits(events[i], h)
      /\ \A i \in DOMAIN w : w[i].cmd = "Load" => w[i].token # t
  BY DEF LoadStep
<1>5. \/ h.loading = 0
      \/ h.loading = t /\ \A i \in DOMAIN new : ~IsOutcome(new[i])
      \/ h.loading = e.loading /\ e.loading # t
  BY DEF LoadStep
<1>6. CutsFit(s, events \o new) /\ OpeningFits(s, events \o new, h)
      /\ QueuedFits(s, w, events \o new, h)
  BY <1>1, <1>2, <1>3, <1>4, <1>5, AboutTokens
<1>7. Ordered(s, events \o new)
  BY <1>1, <1>2, <1>3, <1>4, JoinOrdered
<1>8. EndFits(s, events \o new, h)
  <2>1. \A L, m : Rules(s, events, new, Len(new) + 1, L, m) => h.load = L /\ h.media = m
    BY DEF LoadStep
  <2> QED BY <1>2, <1>3, <2>1, JoinEnd
<1>9. EventsFit(s, events \o new, h)
  <2>1. \A i \in DOMAIN new : LoadedFits(new[i], h) /\ Placed(new[i])
    BY <1>4 DEF Placed, Speaks
  <2>2. ASSUME NEW i \in DOMAIN events, NEW L, NEW m, Reigns(s, events, i, L, m),
               NEW k \in DOMAIN new, new[k].k = "Loaded"
        PROVE  new[k].token # L
    <3>1. s.adopted.token = L \/ \E j \in DOMAIN events : IsOutcome(events[j]) /\ events[j].token = L
      BY <2>2, ReignsSome
    <3>2. s.adopted.token # t
      BY <1>1, <1>3 DEF CutsFit
    <3> QED BY <1>4, <2>2, <3>1, <3>2
  <2>3. ASSUME NEW i \in DOMAIN new, NEW L, NEW m
        PROVE  /\ Fits(new[i], L, m, h)
               /\ new[i].k = "Landing" => m \in h.earned \/ AsAsked(s, events \o new, L)
    BY <1>4 DEF Fits, Speaks, Locates
  <2> QED BY <1>1, <1>2, <1>3, <1>4, <2>1, <2>2, <2>3, JoinEvents
<1>10. SessionFits(s, h)
  BY <1>1, <1>3, SessionGrows
<1> QED BY <1>3, <1>6, <1>7, <1>8, <1>9, <1>10 DEF Heed

(* Nobody reigns after an outcome that opens no load. *)
LEMMA CutRules ==
  ASSUME NEW x, NEW p, NEW new, Cut(new[1]), 1 \in DOMAIN new, Len(new) \in Nat, Len(new) >= 1,
         \A i \in DOMAIN new : new[i].k # "Loaded"
  PROVE  \A L, m : ~Rules(x, p, new, Len(new) + 1, L, m)
BY DEF Rules, Calm, Opened, Opens

LEMMA OutcomeHeard ==
  ASSUME NEW x \in EngineSet, NEW token \in Nat, token # 0, NEW k \in {"Failed", "LoadCancelled"}
  PROVE  LET o == Outcome(k, x, token) IN
         o \in EventSet /\ o.token = token /\ o.k = k /\ o.rev = x.rev /\ IsOutcome(o)
<1>1. Outcome(k, x, token) \in Known(token, x.rev) /\ IsOutcome(Outcome(k, x, token))
      /\ Outcome(k, x, token).token = token
  BY OutcomeIn
<1>2. Outcome(k, x, token).k = k /\ Outcome(k, x, token).rev = x.rev
  BY DEF Outcome, Event
<1> QED BY <1>1, <1>2 DEF Known

LEMMA StateHeard ==
  ASSUME NEW x \in EngineSet, NEW state \in States
  PROVE  LET v == StateEvent(x, state) IN
         /\ v \in EventSet /\ v.k = "State" /\ v.state = state /\ v.rev = x.rev
         /\ v.token = IF state = "Loading" THEN x.loading ELSE 0
<1>1. x.loading \in Nat
  BY DEF EngineSet
<1>2. StateEvent(x, state) \in Known(x.loading, x.rev)
  BY <1>1, StateEventIn
<1> QED BY <1>2 DEF StateEvent, Event, Known

(* The load in flight is given up, or fails. *)
LEMMA LoadCancelledHeeds == ASSUME RuntimeInv, HeedInv, LoadCancelled PROVE HeedInv'
<1> DEFINE x == [e EXCEPT !.loading = 0]
           o == Outcome("LoadCancelled", e, e.loading)
           new == <<o>>
<1>1. e \in EngineSet /\ e.loading \in Nat
  BY InvParts
<1>2. Settle(x, new) /\ e.loading # 0 /\ cmds' = cmds
  BY DEF LoadCancelled
<1>3. o \in EventSet /\ o.token = e.loading /\ o.k = "LoadCancelled" /\ o.rev = e.rev /\ IsOutcome(o)
  BY <1>1, <1>2, OutcomeHeard
<1> HIDE DEF o
<1>4. /\ x.load = e.load /\ x.loading = 0 /\ x.media = e.media /\ x.live = e.live
      /\ x.fixed = e.fixed /\ x.at = e.at /\ x.pend = e.pend /\ x.state = e.state
      /\ x.heard = e.heard /\ x.earned = e.earned
  BY <1>1 DEF EngineSet
<1> HIDE DEF x
<1>5. EngineFits(x)
  BY <1>4, HeedParts DEF EngineFits
<1>6. LoadFits(s, x) /\ \A i \in DOMAIN events : LoadedFits(events[i], x)
  BY <1>4, HeedParts DEF SessionFits, LoadFits, EventsFit, LoadedFits
<1>7. /\ new \in Seq(EventSet) /\ DOMAIN new = {1} /\ new[1] = o /\ Len(new) = 1
  BY <1>3
<1> HIDE DEF new
<1>8. /\ \A i \in DOMAIN new : new[i].rev = e.rev /\ ~Speaks(new[i]) /\ LoadedFits(new[i], x)
      /\ About(e.loading, new) /\ \A i \in DOMAIN new : new[i].k # "Loaded"
  BY <1>3, <1>7 DEF Speaks, Locates, LoadedFits, About
<1>9. e.loading \in DOMAIN s.pending
      /\ \A i \in DOMAIN events : IsOutcome(events[i]) => events[i].token # e.loading
  BY <1>2, HeedParts DEF OpeningFits
<1>10. \A i \in DOMAIN cmds : cmds[i].cmd = "Load" => cmds[i].token # e.loading
  BY HeedParts DEF QueuedFits
<1>11. \A L, m : ~Rules(s, events, new, Len(new) + 1, L, m)
  <2>1. Cut(new[1]) /\ 1 \in DOMAIN new /\ Len(new) \in Nat /\ Len(new) >= 1
    BY <1>3, <1>7 DEF Cut
  <2> QED BY <1>8, <2>1, CutRules
<1>12. e.heard = x.heard /\ e.earned = x.earned /\ x.loading = 0
  BY <1>4
<1>13. /\ \A i \in DOMAIN new : new[i].k = "Loaded" => new[i].token = e.loading
       /\ \A L, m : Rules(s, events, new, Len(new) + 1, L, m) => x.load = L /\ x.media = m
  BY <1>8, <1>11
<1>14. LoadStep(x, e.rev, new, e.loading, cmds)
  BY <1>5, <1>6, <1>7, <1>8, <1>9, <1>10, <1>12, <1>13, HeedParts DEF LoadStep
<1>15. Heed(s, cmds, events \o new, x)
  BY <1>14, LoadHeeds
<1> QED BY <1>2, <1>15 DEF HeedInv, Settle

LEMMA LoadFailsHeeds == ASSUME RuntimeInv, HeedInv, LoadFails PROVE HeedInv'
<1> DEFINE x == [e EXCEPT !.loading = 0, !.state = "Failed"]
           o == Outcome("Failed", e, e.loading)
           f == StateEvent(e, "Failed")
           new == <<o, f>>
<1>1. e \in EngineSet /\ e.loading \in Nat
  BY InvParts
<1>2. Settle(x, new) /\ e.loading # 0 /\ cmds' = cmds
  BY DEF LoadFails
<1>3. o \in EventSet /\ o.token = e.loading /\ o.k = "Failed" /\ o.rev = e.rev /\ IsOutcome(o)
  BY <1>1, <1>2, OutcomeHeard
<1>4. f \in EventSet /\ f.k = "State" /\ f.state = "Failed" /\ f.rev = e.rev
  BY <1>1, StateHeard DEF States
<1> HIDE DEF o, f
<1>5. /\ x.load = e.load /\ x.loading = 0 /\ x.media = e.media /\ x.live = e.live
      /\ x.fixed = e.fixed /\ x.at = e.at /\ x.pend = e.pend /\ x.state = "Failed"
      /\ x.heard = e.heard /\ x.earned = e.earned
  BY <1>1 DEF EngineSet
<1> HIDE DEF x
<1>6. EngineFits(x)
  BY <1>2, <1>5, HeedParts DEF EngineFits
<1>7. LoadFits(s, x) /\ \A i \in DOMAIN events : LoadedFits(events[i], x)
  BY <1>5, HeedParts DEF SessionFits, LoadFits, EventsFit, LoadedFits
<1>8. /\ new \in Seq(EventSet) /\ DOMAIN new = {1, 2} /\ new[1] = o /\ new[2] = f /\ Len(new) = 2
  BY <1>3, <1>4
<1> HIDE DEF new
<1>9. /\ \A i \in DOMAIN new : new[i].rev = e.rev /\ ~Speaks(new[i]) /\ LoadedFits(new[i], x)
      /\ About(e.loading, new) /\ \A i \in DOMAIN new : new[i].k # "Loaded"
  BY <1>3, <1>4, <1>8 DEF Speaks, Locates, LoadedFits, About, Cut, IsOutcome
<1>10. e.loading \in DOMAIN s.pending
      /\ \A i \in DOMAIN events : IsOutcome(events[i]) => events[i].token # e.loading
  BY <1>2, HeedParts DEF OpeningFits
<1>11. \A i \in DOMAIN cmds : cmds[i].cmd = "Load" => cmds[i].token # e.loading
  BY HeedParts DEF QueuedFits
<1>12. \A L, m : ~Rules(s, events, new, Len(new) + 1, L, m)
  <2>1. Cut(new[1]) /\ 1 \in DOMAIN new /\ Len(new) \in Nat /\ Len(new) >= 1
    BY <1>3, <1>8 DEF Cut
  <2> QED BY <1>9, <2>1, CutRules
<1>13. e.heard = x.heard /\ e.earned = x.earned /\ x.loading = 0
  BY <1>5
<1>14. /\ \A i \in DOMAIN new : new[i].k = "Loaded" => new[i].token = e.loading
       /\ \A L, m : Rules(s, events, new, Len(new) + 1, L, m) => x.load = L /\ x.media = m
  BY <1>9, <1>12
<1>15. LoadStep(x, e.rev, new, e.loading, cmds)
  BY <1>6, <1>7, <1>8, <1>9, <1>10, <1>11, <1>13, <1>14, HeedParts DEF LoadStep
<1>16. Heed(s, cmds, events \o new, x)
  BY <1>15, LoadHeeds
<1> QED BY <1>2, <1>16 DEF HeedInv, Settle

(* A load begins. *)
LEMMA LoadBegins ==
  ASSUME RuntimeInv, HeedInv, NEW c \in Submitted(s.next), c.cmd = "Load", Load(c),
         cmds # <<>>, cmds' = Tail(cmds), c = Head(cmds), e.loading = 0
  PROVE  HeedInv'
<1> DEFINE rev == e.rev + 1
           at == StartOf(c.media, c.token)
           y == [e EXCEPT !.rev = rev, !.load = 0, !.loading = c.token, !.media = c.media]
           z == [y EXCEPT !.resume = c.resume, !.pend = NoIntent, !.closed = FALSE]
           x == [z EXCEPT !.revived = FALSE, !.at = at]
           w == [x EXCEPT !.state = "Loading"]
           new == Announced(x, "Loading")
<1>1. /\ c.media \in Media /\ c.media \in MediaN /\ c.token \in Nat /\ c.resume \in Intents
  BY DEF Submitted, Commands, MediaN
<1>2. e \in EngineSet /\ e.rev \in Nat /\ e.state \in States
  BY InvParts
<1>3. rev \in Nat /\ e.rev <= rev /\ at \in Positions /\ "Loading" \in States
      /\ at.of = c.media /\ at.kind = "start" /\ at.n = c.token
  BY <1>1, <1>2, StartIn DEF States, StartOf
<1>4. Settle(w, new)
  <2>1. x = [e EXCEPT !.rev = @ + 1, !.load = 0, !.loading = c.token, !.media = c.media,
                      !.resume = c.resume, !.pend = NoIntent, !.closed = FALSE,
                      !.revived = FALSE, !.at = StartOf(c.media, c.token)]
    BY <1>2 DEF EngineSet
  <2> HIDE DEF x
  <2> QED BY <2>1 DEF Load
<1> HIDE DEF rev, at
<1>5. y \in EngineSet
  BY <1>1, <1>2, <1>3 DEF EngineSet
<1>6. y.rev = rev /\ y.load = 0 /\ y.loading = c.token /\ y.media = c.media
      /\ y.state = e.state /\ y.heard = e.heard /\ y.earned = e.earned
  BY <1>2 DEF EngineSet
<1> HIDE DEF y
<1>7. z \in EngineSet
  BY <1>1, <1>5, NoIntentIn DEF EngineSet
<1>8. z.rev = rev /\ z.load = 0 /\ z.loading = c.token /\ z.media = c.media
      /\ z.state = e.state /\ z.heard = e.heard /\ z.earned = e.earned /\ z.pend = NoIntent
  BY <1>5, <1>6 DEF EngineSet
<1> HIDE DEF z
<1>9. x \in EngineSet
  BY <1>3, <1>7 DEF EngineSet
<1>10. x.rev = rev /\ x.load = 0 /\ x.loading = c.token /\ x.media = c.media
       /\ x.state = e.state /\ x.heard = e.heard /\ x.earned = e.earned /\ x.pend = NoIntent
       /\ x.at = at
  BY <1>7, <1>8 DEF EngineSet
<1> HIDE DEF x
<1>11. w.rev = rev /\ w.load = 0 /\ w.loading = c.token /\ w.media = c.media
       /\ w.state = "Loading" /\ w.heard = e.heard /\ w.earned = e.earned /\ w.pend = NoIntent
       /\ w.at = at
  BY <1>9, <1>10 DEF EngineSet
<1> HIDE DEF w
<1>12. EngineFits(w)
  BY <1>3, <1>11 DEF EngineFits
<1>13. /\ QueuedFits(s, Tail(cmds), events, e) /\ c.token \in DOMAIN s.pending
       /\ \A j \in DOMAIN events : Cut(events[j]) => events[j].token # c.token
       /\ \A i \in DOMAIN Tail(cmds) : Tail(cmds)[i].cmd = "Load" => Tail(cmds)[i].token # c.token
  BY HeedParts, QueuedTail
<1>14. c.token # 0
  BY <1>13, HeedParts
<1>15. \A i \in DOMAIN events : IsOutcome(events[i]) => events[i].token # c.token
  BY <1>13 DEF Cut
<1> DEFINE f == StateEvent(x, "Loading")
<1>16. f \in EventSet /\ f.k = "State" /\ f.state = "Loading" /\ f.rev = rev /\ f.token = c.token
  BY <1>3, <1>9, <1>10, StateHeard
<1>17. \/ new = <<>> /\ e.state = "Loading"
       \/ new = <<f>>
  BY <1>10 DEF Announced
<1> HIDE DEF f, new
<1>18. /\ new \in Seq(EventSet) /\ \A i \in DOMAIN new : i = 1 /\ new[i] = f
       /\ \/ new = <<>> /\ Len(new) = 0 /\ e.state = "Loading"
          \/ 1 \in DOMAIN new /\ Len(new) = 1
  <2>1. CASE new = <<>> /\ e.state = "Loading"
    <3>1. DOMAIN new = {} /\ Len(new) = 0 /\ new \in Seq(EventSet)
      BY <2>1
    <3> QED BY <2>1, <3>1
  <2>2. CASE new = <<f>>
    <3>1. DOMAIN new = {1} /\ Len(new) = 1 /\ new[1] = f /\ new \in Seq(EventSet)
      BY <1>16, <2>2
    <3> QED BY <3>1
  <2> QED BY <1>17, <2>1, <2>2
<1>19. \A i \in DOMAIN new :
          new[i].rev = rev /\ ~Speaks(new[i]) /\ LoadedFits(new[i], w) /\ ~IsOutcome(new[i])
          /\ i = 1 /\ new[i].token = c.token /\ new[i].k # "Loaded"
  BY <1>16, <1>18 DEF Speaks, Locates, LoadedFits, IsOutcome
<1>20. About(c.token, new)
  BY <1>19 DEF About
<1>21. LoadFits(s, w) /\ \A i \in DOMAIN events : LoadedFits(events[i], w)
  <2>1. ASSUME NEW i \in DOMAIN events PROVE LoadedFits(events[i], w)
    <3>1. LoadedFits(events[i], e)
      BY HeedParts DEF EventsFit
    <3>2. events[i].k = "Loaded" => events[i].token # 0
      <4>1. events[i].k = "Loaded" => Cut(events[i])
        BY DEF Cut, IsOutcome
      <4> QED BY <4>1, HeedParts DEF CutsFit
    <3> QED BY <1>11, <3>1, <3>2 DEF LoadedFits
  <2> QED BY <1>11, <2>1 DEF LoadFits
<1>22. ASSUME NEW L, NEW m, Rules(s, events, new, Len(new) + 1, L, m) PROVE FALSE
  <2>1. CASE 1 \in DOMAIN new /\ Len(new) = 1
    <3>1. new[1] = f /\ Cut(f)
      BY <1>14, <1>16, <1>18, <2>1 DEF Cut
    <3>2. Cut(new[1]) /\ Len(new) \in Nat /\ Len(new) >= 1
      BY <2>1, <3>1
    <3>3. \A i \in DOMAIN new : new[i].k # "Loaded"
      BY <1>19
    <3> QED BY <1>22, <2>1, <3>2, <3>3, CutRules
  <2>2. CASE new = <<>> /\ e.state = "Loading"
    <3>1. Reigns(s, events, Len(events) + 1, L, m)
      BY <1>22, <2>2 DEF Rules, Opened
    <3>2. e.load = L /\ L # 0
      BY <3>1, HeedParts, ReignsSome DEF EndFits
    <3> QED BY <2>2, <3>2, HeedParts DEF EngineFits
  <2> QED BY <1>18, <2>1, <2>2
<1>23. PICK q : q = Tail(cmds)
  OBVIOUS
<1>24. QueuedFits(s, q, events, e) /\ c.token \in DOMAIN s.pending
       /\ \A i \in DOMAIN q : q[i].cmd = "Load" => q[i].token # c.token
  BY <1>13, <1>23
<1>25. /\ \A i \in DOMAIN new : new[i].rev = rev /\ ~Speaks(new[i]) /\ LoadedFits(new[i], w)
       /\ \A i \in DOMAIN new : new[i].k = "Loaded" => new[i].token = c.token
       /\ w.loading = c.token /\ \A i \in DOMAIN new : ~IsOutcome(new[i])
       /\ \A L, m : Rules(s, events, new, Len(new) + 1, L, m) => w.load = L /\ w.media = m
       /\ e.heard = w.heard /\ e.earned = w.earned /\ new \in Seq(EventSet)
  BY <1>11, <1>18, <1>19, <1>22
<1>26. LoadStep(w, rev, new, c.token, q)
  BY <1>3, <1>12, <1>15, <1>20, <1>21, <1>24, <1>25, HeedParts DEF LoadStep
<1>27. Heed(s, q, events \o new, w)
  BY <1>26, LoadHeeds
<1> QED BY <1>4, <1>23, <1>27 DEF HeedInv, Settle

LEMMA DispatchHeeds == ASSUME RuntimeInv, HeedInv, Dispatch PROVE HeedInv'
<1>1. /\ cmds \in Seq(Submitted(s.next)) /\ cmds # <<>> /\ cmds' = Tail(cmds) /\ e.loading = 0
      /\ EngineFits(e)
  BY HeedParts DEF Dispatch
<1>2. PICK c \in Submitted(s.next) : c = Head(cmds)
  BY <1>1, TailIn
<1>3. c.cmd \in {"Load", "PlayLoaded", "Play", "Pause", "Seek", "Restart"}
  BY DEF Submitted, Commands
<1>4. CASE c.cmd = "Load"
  <2>1. Load(c)
    BY <1>2, <1>4 DEF Dispatch
  <2> QED BY <1>1, <1>2, <1>4, <2>1, LoadBegins
<1>5. CASE c.cmd # "Load"
  <2>1. Play(TRUE) \/ Play(FALSE) \/ Pause \/ Seek \/ Restart \/ Nothing
    BY <1>2, <1>3, <1>5 DEF Dispatch
  <2>2. Aptly
    BY <1>1, <2>1, PlayApt, PauseApt, SeekApt, RestartApt, NothingApt
  <2> QED BY <1>1, <2>2, AptStep
<1> QED BY <1>4, <1>5

(* A load still queued at the shutdown is answered. *)
LEMMA DiscardHeeds == ASSUME RuntimeInv, HeedInv, Discard PROVE HeedInv'
<1>1. e \in EngineSet /\ EngineFits(e)
  BY InvParts, HeedParts
<1>2. /\ cmds \in Seq(Submitted(s.next)) /\ cmds # <<>> /\ cmds' = Tail(cmds)
  BY HeedParts DEF Discard
<1>3. PICK c \in Submitted(s.next) : c = Head(cmds)
  BY <1>2, TailIn
<1>4. c.token \in Nat
  BY DEF Submitted, Commands
<1> DEFINE o == Outcome("LoadCancelled", e, c.token)
           new == <<o>>
<1>5. CASE c.cmd = "Load"
  <2>1. Settle(e, new)
    BY <1>3, <1>5 DEF Discard
  <2>2. /\ QueuedFits(s, Tail(cmds), events, e) /\ c.token \in DOMAIN s.pending
        /\ c.token # e.loading
        /\ \A j \in DOMAIN events : Cut(events[j]) => events[j].token # c.token
        /\ \A i \in DOMAIN Tail(cmds) : Tail(cmds)[i].cmd = "Load" => Tail(cmds)[i].token # c.token
    BY <1>2, <1>3, <1>5, HeedParts, QueuedTail
  <2>3. c.token # 0
    BY <2>2, HeedParts
  <2>4. o \in EventSet /\ o.token = c.token /\ o.k = "LoadCancelled" /\ o.rev = e.rev /\ IsOutcome(o)
    BY <1>1, <1>4, <2>3, OutcomeHeard
  <2> HIDE DEF o
  <2>5. /\ new \in Seq(EventSet) /\ DOMAIN new = {1} /\ new[1] = o /\ Len(new) = 1
    BY <2>4
  <2> HIDE DEF new
  <2>6. /\ \A i \in DOMAIN new : new[i].rev = e.rev /\ ~Speaks(new[i]) /\ LoadedFits(new[i], e)
        /\ About(c.token, new) /\ \A i \in DOMAIN new : new[i].k # "Loaded"
    BY <2>4, <2>5 DEF Speaks, Locates, LoadedFits, About
  <2>7. \A i \in DOMAIN events : IsOutcome(events[i]) => events[i].token # c.token
    BY <2>2 DEF Cut
  <2>8. \A L, m : ~Rules(s, events, new, Len(new) + 1, L, m)
    <3>1. Cut(new[1]) /\ 1 \in DOMAIN new /\ Len(new) \in Nat /\ Len(new) >= 1
      BY <2>4, <2>5 DEF Cut
    <3> QED BY <2>6, <3>1, CutRules
  <2>9. LoadFits(s, e) /\ \A i \in DOMAIN events : LoadedFits(events[i], e)
    BY HeedParts DEF SessionFits, EventsFit
  <2>10. PICK q : q = Tail(cmds)
    OBVIOUS
  <2>11. QueuedFits(s, q, events, e) /\ c.token \in DOMAIN s.pending
         /\ \A i \in DOMAIN q : q[i].cmd = "Load" => q[i].token # c.token
    BY <2>2, <2>10
  <2>12. /\ \A i \in DOMAIN new : new[i].k = "Loaded" => new[i].token = c.token
         /\ \A L, m : Rules(s, events, new, Len(new) + 1, L, m) => e.load = L /\ e.media = m
         /\ e.loading = e.loading /\ e.loading # c.token
    BY <2>2, <2>6, <2>8
  <2>13. LoadStep(e, e.rev, new, c.token, q)
    BY <1>1, <2>5, <2>6, <2>7, <2>9, <2>11, <2>12, HeedParts DEF LoadStep
  <2>14. Heed(s, q, events \o new, e)
    BY <2>13, LoadHeeds
  <2> QED BY <1>2, <2>1, <2>10, <2>14 DEF HeedInv, Settle
<1>6. CASE c.cmd # "Load"
  <2>1. Settle(e, <<>>)
    BY <1>3, <1>6 DEF Discard
  <2>2. <<>> \in Seq(News(e, e.rev))
    OBVIOUS
  <2>3. Aptly
    BY <1>1, <2>1, <2>2, AptParts, AptBy
  <2> QED BY <1>2, <2>3, AptStep
<1> QED BY <1>5, <1>6

(* Everything is torn down. *)
LEMMA EngineShutdownHeeds == ASSUME RuntimeInv, HeedInv, EngineShutdown PROVE HeedInv'
<1> DEFINE x == [e EXCEPT !.state = "Idle"]
<1>1. e \in EngineSet /\ Heed(s, cmds, events, e)
  BY InvParts, HeedParts
<1>2. /\ x.load = e.load /\ x.loading = e.loading /\ x.media = e.media /\ x.live = e.live
      /\ x.fixed = e.fixed /\ x.at = e.at /\ x.pend = e.pend /\ x.state = "Idle"
      /\ x.heard = e.heard /\ x.earned = e.earned
  BY <1>1 DEF EngineSet
<1>3. e' = x /\ s' = s /\ cmds' = cmds /\ events' = events
  BY DEF EngineShutdown
<1> HIDE DEF x
<1>4. EngineFits(x) /\ SessionFits(s, x)
  BY <1>1, <1>2 DEF Heed, EngineFits, SessionFits, CheckpointsFit, KeptBy, HeardAt, SampleFits,
                    Sampled, HeardFits, LoadFits
<1>5. OpeningFits(s, events, x) /\ QueuedFits(s, cmds, events, x)
  BY <1>1, <1>2 DEF Heed, OpeningFits, QueuedFits
<1>6. EventsFit(s, events, x) /\ EndFits(s, events, x)
  BY <1>1, <1>2 DEF Heed, EventsFit, EndFits, LoadedFits, Fits
<1> QED BY <1>1, <1>3, <1>4, <1>5, <1>6 DEF HeedInv, Heed

LEMMA StartsFit ==
  ASSUME NEW live \in BOOLEAN, NEW fixed \in BOOLEAN, NEW pos \in Starts(live, fixed)
  PROVE  /\ pos.of = e.media /\ pos.kind # "none"
         /\ pos.kind = "start" => pos.n = e.loading
         /\ pos.kind = "live" => live
         /\ pos.kind = "fallback" => fixed /\ ~live
BY DEF Starts, StartOf, Landings

(* The load in flight is loaded, and the device opens or not. *)
LEMMA LoadEndsHeeds == ASSUME RuntimeInv, HeedInv, LoadEnds PROVE HeedInv'
<1>1. /\ e \in EngineSet /\ e.rev \in Nat /\ e.loading \in Nat /\ e.media \in MediaN
  BY InvParts
<1>2. e.loading # 0 /\ cmds' = cmds
  BY DEF LoadEnds
<1> DEFINE live == e.media \in Stations
<1>4. live \in BOOLEAN
  OBVIOUS
<1>5. PICK fixed \in BOOLEAN :
        \E pos \in Starts(live, fixed) :
           LET x == [e EXCEPT !.load = e.loading, !.loading = 0, !.live = live,
                              !.fixed = fixed, !.at = pos]
               loaded == [Event("Loaded", x) EXCEPT
                             !.token = x.load, !.media = x.media, !.pos = pos,
                             !.live = live, !.fallback = pos.kind = "fallback"]
           IN \/ Settle([x EXCEPT !.state = "Paused"], <<loaded, StateEvent(x, "Paused")>>)
              \/ Settle([x EXCEPT !.state = "Failed"],
                        <<loaded, Event("Failed", x), StateEvent(x, "Failed")>>)
  BY ZenonT(60) DEF LoadEnds
<1> HIDE DEF live
<1>6. PICK pos \in Starts(live, fixed) :
           LET x == [e EXCEPT !.load = e.loading, !.loading = 0, !.live = live,
                              !.fixed = fixed, !.at = pos]
               loaded == [Event("Loaded", x) EXCEPT
                             !.token = x.load, !.media = x.media, !.pos = pos,
                             !.live = live, !.fallback = pos.kind = "fallback"]
           IN \/ Settle([x EXCEPT !.state = "Paused"], <<loaded, StateEvent(x, "Paused")>>)
              \/ Settle([x EXCEPT !.state = "Failed"],
                        <<loaded, Event("Failed", x), StateEvent(x, "Failed")>>)
  BY <1>5
<1>7. /\ pos \in Positions /\ pos.of = e.media /\ pos.kind # "none"
      /\ pos.kind = "start" => pos.n = e.loading
      /\ pos.kind = "live" => live
      /\ pos.kind = "fallback" => fixed /\ ~live
  BY <1>4, StartsIn, StartsFit
<1>8. PICK fallback \in BOOLEAN : fallback = (pos.kind = "fallback")
  OBVIOUS
<1> DEFINE y == [e EXCEPT !.load = e.loading, !.loading = 0]
           x == [y EXCEPT !.live = live, !.fixed = fixed, !.at = pos]
           v == [Event("Loaded", x) EXCEPT !.token = x.load, !.media = x.media]
           loaded == [v EXCEPT !.pos = pos, !.live = live, !.fallback = fallback]
<1>9. /\ [e EXCEPT !.load = e.loading, !.loading = 0, !.live = live, !.fixed = fixed,
                   !.at = pos] = x
      /\ [Event("Loaded", x) EXCEPT !.token = x.load, !.media = x.media, !.pos = pos,
                                    !.live = live, !.fallback = pos.kind = "fallback"] = loaded
  <2>1. [e EXCEPT !.load = e.loading, !.loading = 0, !.live = live, !.fixed = fixed,
                  !.at = pos] = x
    BY <1>1 DEF EngineSet
  <2> HIDE DEF x
  <2>2. [Event("Loaded", x) EXCEPT !.token = x.load, !.media = x.media, !.pos = pos,
                                   !.live = live, !.fallback = pos.kind = "fallback"] = loaded
    BY <1>8 DEF Event
  <2> QED BY <2>1, <2>2 DEF x
<1>10. \/ Settle([x EXCEPT !.state = "Paused"], <<loaded, StateEvent(x, "Paused")>>)
       \/ Settle([x EXCEPT !.state = "Failed"],
                 <<loaded, Event("Failed", x), StateEvent(x, "Failed")>>)
  <2> HIDE DEF x, loaded
  <2> QED BY <1>6, <1>9
<1>11. y \in EngineSet
  BY <1>1 DEF EngineSet
<1>12. y.rev = e.rev /\ y.load = e.loading /\ y.loading = 0 /\ y.media = e.media
       /\ y.pend = e.pend /\ y.heard = e.heard /\ y.earned = e.earned
  BY <1>1 DEF EngineSet
<1> HIDE DEF y
<1>13. x \in EngineSet
  BY <1>4, <1>7, <1>11 DEF EngineSet
<1>14. x.rev = e.rev /\ x.load = e.loading /\ x.loading = 0 /\ x.media = e.media
       /\ x.pend = e.pend /\ x.heard = e.heard /\ x.earned = e.earned
       /\ x.live = live /\ x.fixed = fixed /\ x.at = pos
  BY <1>11, <1>12 DEF EngineSet
<1> HIDE DEF x
<1>15. Event("Loaded", x) \in EventSet /\ Event("Loaded", x).k = "Loaded"
       /\ Event("Loaded", x).rev = e.rev
  BY <1>1, <1>14, NoPosIn DEF Event, EventSet, MediaN, States
<1>16. v \in EventSet /\ v.k = "Loaded" /\ v.rev = e.rev /\ v.token = e.loading /\ v.media = e.media
  <2>1. PICK u : u = Event("Loaded", x)
    OBVIOUS
  <2>2. u \in EventSet /\ u.k = "Loaded" /\ u.rev = e.rev
    BY <1>15, <2>1
  <2> DEFINE w == [u EXCEPT !.token = x.load, !.media = x.media]
  <2>3. w \in EventSet /\ w.k = "Loaded" /\ w.rev = e.rev /\ w.token = x.load /\ w.media = x.media
    BY <1>1, <1>14, <2>2 DEF EventSet
  <2>4. v = w
    BY <2>1
  <2> HIDE DEF v, w
  <2> QED BY <1>14, <2>3, <2>4
<1> HIDE DEF v
<1>17. loaded \in EventSet
  BY <1>4, <1>7, <1>16 DEF EventSet
<1>18. loaded.k = "Loaded" /\ loaded.rev = e.rev /\ loaded.token = e.loading /\ loaded.media = e.media
       /\ loaded.pos = pos /\ loaded.live = live /\ loaded.fallback = fallback
  BY <1>16 DEF EventSet
<1> HIDE DEF loaded
<1>19. IsOutcome(loaded) /\ Cut(loaded) /\ ~Speaks(loaded)
  BY <1>18 DEF IsOutcome, Cut, Speaks, Locates
<1>20. /\ \A state \in {"Paused", "Failed"} :
             LET f == StateEvent(x, state) IN
             f \in EventSet /\ f.k = "State" /\ f.state = state /\ f.rev = e.rev /\ ~Speaks(f) /\ ~Cut(f)
       /\ LET f == Event("Failed", x) IN
          f \in EventSet /\ f.k = "Failed" /\ f.token = 0 /\ f.rev = e.rev /\ ~Speaks(f) /\ ~Cut(f)
  <2>1. ASSUME NEW state \in {"Paused", "Failed"}
        PROVE  LET f == StateEvent(x, state) IN
               f \in EventSet /\ f.k = "State" /\ f.state = state /\ f.rev = e.rev /\ ~Speaks(f) /\ ~Cut(f)
    <3>1. PICK f : f = StateEvent(x, state)
      OBVIOUS
    <3>2. f \in EventSet /\ f.k = "State" /\ f.state = state /\ f.rev = e.rev
      BY <1>13, <1>14, <3>1, StateHeard DEF States
    <3> QED BY <3>1, <3>2 DEF Speaks, Locates, Cut, IsOutcome
  <2>2. PICK f : f = Event("Failed", x)
    OBVIOUS
  <2>3. f \in EventSet /\ f.k = "Failed" /\ f.token = 0 /\ f.rev = e.rev
    BY <1>1, <1>14, <2>2, NoPosIn DEF Event, EventSet, MediaN, States
  <2>4. ~Speaks(f) /\ ~Cut(f)
    BY <2>3 DEF Speaks, Locates, Cut, IsOutcome
  <2> QED BY <2>1, <2>2, <2>3, <2>4
<1>21. e.loading \in DOMAIN s.pending
       /\ \A i \in DOMAIN events : IsOutcome(events[i]) => events[i].token # e.loading
  BY <1>2, HeedParts DEF OpeningFits
<1>22. \A i \in DOMAIN cmds : cmds[i].cmd = "Load" => cmds[i].token # e.loading
  BY HeedParts DEF QueuedFits
<1>23. e.pend = NoIntent
  BY <1>2, HeedParts DEF EngineFits
<1>24. ASSUME NEW state \in {"Paused", "Failed"}, NEW new \in Seq(EventSet),
              Settle([x EXCEPT !.state = state], new),
              1 \in DOMAIN new, new[1] = loaded, Len(new) \in Nat, Len(new) >= 1,
              \A i \in DOMAIN new : i # 1 => new[i].rev = e.rev /\ ~Speaks(new[i]) /\ ~Cut(new[i])
                                             /\ new[i].k # "Loaded"
       PROVE  HeedInv'
  <2> DEFINE w == [x EXCEPT !.state = state]
  <2>1. w.load = e.loading /\ w.loading = 0 /\ w.media = e.media
        /\ w.pend = e.pend /\ w.heard = e.heard /\ w.earned = e.earned
        /\ w.live = live /\ w.fixed = fixed /\ w.at = pos /\ w.state = state
    BY <1>13, <1>14 DEF EngineSet
  <2>2. Settle(w, new)
    BY <1>24
  <2> HIDE DEF w
  <2>3. EngineFits(w)
    BY <1>7, <1>23, <2>1 DEF EngineFits
  <2>4. LoadFits(s, w) /\ \A i \in DOMAIN events : LoadedFits(events[i], w)
    <3>1. LoadFits(s, w)
      BY <1>21, <2>1, HeedParts DEF LoadFits, CutsFit
    <3>2. ASSUME NEW i \in DOMAIN events PROVE LoadedFits(events[i], w)
      <4>1. LoadedFits(events[i], e)
        BY HeedParts DEF EventsFit
      <4>2. events[i].k = "Loaded" => events[i].token # w.load
        BY <1>21, <2>1 DEF IsOutcome
      <4> QED BY <4>1, <4>2 DEF LoadedFits
    <3> QED BY <3>1, <3>2
  <2>5. LoadedFits(loaded, w)
    BY <1>7, <1>8, <1>18, <2>1 DEF LoadedFits
  <2>6. \A i \in DOMAIN new : new[i].rev = e.rev /\ ~Speaks(new[i]) /\ LoadedFits(new[i], w)
    <3> SUFFICES ASSUME NEW i \in DOMAIN new
                 PROVE  new[i].rev = e.rev /\ ~Speaks(new[i]) /\ LoadedFits(new[i], w)
      OBVIOUS
    <3>1. CASE i = 1
      BY <1>18, <1>19, <1>24, <2>5, <3>1
    <3>2. CASE i # 1
      BY <1>24, <3>2 DEF LoadedFits
    <3> QED BY <3>1, <3>2
  <2>7. About(e.loading, new) /\ \A i \in DOMAIN new : new[i].k = "Loaded" => new[i].token = e.loading
    BY <1>18, <1>24 DEF About
  <2>8. ASSUME NEW L, NEW m, Rules(s, events, new, Len(new) + 1, L, m)
        PROVE  w.load = L /\ w.media = m
    <3>1. ~Calm(new, 1, Len(new) + 1)
      <4>1. Cut(new[1]) /\ 1 < Len(new) + 1
        BY <1>19, <1>24
      <4> QED BY <1>24, <4>1 DEF Calm
    <3>2. PICK k \in DOMAIN new : Opens(new[k], L, m)
      BY <2>8, <3>1 DEF Rules, Opened
    <3>3. k = 1
      BY <1>24, <3>2 DEF Opens
    <3> QED BY <1>18, <1>24, <2>1, <3>2, <3>3 DEF Opens
  <2>9. e.heard = w.heard /\ e.earned = w.earned
    BY <2>1
  <2>10. LoadStep(w, e.rev, new, e.loading, cmds)
    BY <1>21, <1>22, <2>1, <2>3, <2>4, <2>6, <2>7, <2>8, <2>9, HeedParts DEF LoadStep
  <2>11. Heed(s, cmds, events \o new, w)
    BY <2>10, LoadHeeds
  <2> QED BY <1>2, <2>2, <2>11 DEF HeedInv, Settle
<1>25. CASE Settle([x EXCEPT !.state = "Paused"], <<loaded, StateEvent(x, "Paused")>>)
  <2>1. PICK f : f = StateEvent(x, "Paused")
    OBVIOUS
  <2>2. f \in EventSet /\ f.k = "State" /\ f.rev = e.rev /\ ~Speaks(f) /\ ~Cut(f)
    BY <1>20, <2>1
  <2>3. PICK new : new = <<loaded, f>>
    OBVIOUS
  <2>4. new \in Seq(EventSet) /\ DOMAIN new = {1, 2} /\ new[1] = loaded /\ new[2] = f /\ Len(new) = 2
    BY <1>17, <2>2, <2>3
  <2>5. Settle([x EXCEPT !.state = "Paused"], new)
    BY <1>25, <2>1, <2>3
  <2> QED BY <1>24, <2>2, <2>4, <2>5
<1>26. CASE Settle([x EXCEPT !.state = "Failed"],
                   <<loaded, Event("Failed", x), StateEvent(x, "Failed")>>)
  <2>1. PICK f : f = StateEvent(x, "Failed")
    OBVIOUS
  <2>2. f \in EventSet /\ f.k = "State" /\ f.rev = e.rev /\ ~Speaks(f) /\ ~Cut(f)
    BY <1>20, <2>1
  <2>3. PICK b : b = Event("Failed", x)
    OBVIOUS
  <2>4. b \in EventSet /\ b.k = "Failed" /\ b.rev = e.rev /\ ~Speaks(b) /\ ~Cut(b)
    BY <1>20, <2>3
  <2>5. PICK new : new = <<loaded, b, f>>
    OBVIOUS
  <2>6. new \in Seq(EventSet) /\ DOMAIN new = {1, 2, 3} /\ new[1] = loaded /\ new[2] = b
        /\ new[3] = f /\ Len(new) = 3
    BY <1>17, <2>2, <2>4, <2>5
  <2>7. Settle([x EXCEPT !.state = "Failed"], new)
    BY <1>26, <2>1, <2>3, <2>5
  <2> QED BY <1>24, <2>2, <2>4, <2>6, <2>7
<1> QED BY <1>10, <1>25, <1>26

LEMMA EngineHeeds == ASSUME RuntimeInv, HeedInv, Engine PROVE HeedInv'
<1>1. CASE EngineCloses
  BY <1>1 DEF EngineCloses, HeedInv
<1>2. CASE TakeStop
  <2>1. cmds' = cmds
    BY <1>2 DEF TakeStop
  <2> QED BY <1>2, <2>1, HeedParts, TakeStopApt, AptStep
<1>3. CASE Advance \/ EndOfTrack \/ Breaks \/ Rebuild \/ Lose \/ Regain
  <2>1. cmds' = cmds
    BY <1>3 DEF Advance, EndOfTrack, Breaks, Rebuild, Lose, Regain, Alone
  <2> QED BY <1>3, <2>1, HeedParts, AloneApt, AptStep
<1> QED BY <1>1, <1>2, <1>3, DispatchHeeds, LoadCancelledHeeds, LoadFailsHeeds, LoadEndsHeeds,
           DiscardHeeds, EngineShutdownHeeds DEF Engine

-----------------------------------------------------------------------------
(* The front end's steps. *)

(* The front end moves, while the events and the engine stay: the session     *)
(* owns no more than before, and waits for no less.                           *)
LEMMA MoveHeeds ==
  ASSUME NEW x, NEW y, NEW q, NEW r, NEW evs, NEW g, Heed(x, q, evs, g),
         \A L, m : Mine(y, L, m) => Mine(x, L, m), y.latest = x.latest,
         DOMAIN x.pending \subseteq DOMAIN y.pending, y.adopted.token \notin DOMAIN y.pending,
         y.adopted.token # 0 =>
            y.adopted.token = x.adopted.token /\ (y.protected => x.protected),
         SessionFits(y, g), QueuedFits(y, r, evs, g)
  PROVE  Heed(y, r, evs, g)
<1>1. /\ CutsFit(x, evs) /\ OpeningFits(x, evs, g) /\ Ordered(x, evs)
      /\ EventsFit(x, evs, g) /\ EndFits(x, evs, g) /\ EngineFits(g)
  BY DEF Heed
<1>2. ASSUME NEW i, NEW L, NEW m, Reigns(y, evs, i, L, m) PROVE Reigns(x, evs, i, L, m) /\ L # 0
  BY <1>2, ReignsShrink, ReignsSome
<1>3. CutsFit(y, evs) /\ OpeningFits(y, evs, g) /\ Ordered(y, evs)
  BY <1>1 DEF CutsFit, OpeningFits, Ordered
<1>4. ASSUME NEW L, L # 0, AsAsked(x, evs, L) PROVE AsAsked(y, evs, L)
  BY <1>4 DEF AsAsked
<1>5. EventsFit(y, evs, g)
  <2>1. \A i \in DOMAIN evs : LoadedFits(evs[i], g) /\ Placed(evs[i])
    BY <1>1 DEF EventsFit
  <2>2. ASSUME NEW i \in DOMAIN evs, NEW L, NEW m, Reigns(y, evs, i, L, m)
        PROVE  /\ Fits(evs[i], L, m, g)
               /\ evs[i].k = "Landing" => m \in g.earned \/ AsAsked(y, evs, L)
    <3>1. Reigns(x, evs, i, L, m) /\ L # 0
      BY <1>2, <2>2
    <3>2. /\ Fits(evs[i], L, m, g)
          /\ evs[i].k = "Landing" => m \in g.earned \/ AsAsked(x, evs, L)
      BY <1>1, <3>1 DEF EventsFit
    <3> QED BY <1>4, <3>1, <3>2
  <2> QED BY <2>1, <2>2 DEF EventsFit
<1>6. EndFits(y, evs, g)
  BY <1>1, <1>2 DEF EndFits
<1> QED BY <1>1, <1>3, <1>5, <1>6 DEF Heed

(* The session as it was, but for its checkpoints and what they were taken    *)
(* from.                                                                      *)
LEMMA AlikeHeeds ==
  ASSUME NEW x, NEW y, NEW q, NEW evs, NEW g, Heed(x, q, evs, g),
         y.adopted = x.adopted, y.last = x.last, y.media = x.media, y.protected = x.protected,
         y.latest = x.latest, DOMAIN y.pending = DOMAIN x.pending, SessionFits(y, g)
  PROVE  Heed(y, q, evs, g)
<1>1. \A L, m : Mine(y, L, m) => Mine(x, L, m)
  BY DEF Mine
<1>2. y.adopted.token \notin DOMAIN y.pending /\ QueuedFits(y, q, evs, g)
  BY DEF Heed, CutsFit, QueuedFits
<1> QED BY <1>1, <1>2, MoveHeeds

(* What a submission does: nothing, or one registration more and the Load     *)
(* that goes with it.                                                         *)
Entrusts(x, y) ==
    /\ Alike(x.s, y.s) /\ y.s.last = x.s.last /\ y.s.ck = x.s.ck /\ y.s.latest = x.s.latest
    /\ DOMAIN x.s.pending \subseteq DOMAIN y.s.pending
    /\ DOMAIN y.s.pending \subseteq DOMAIN x.s.pending \union {x.s.next + 1}
    /\ \A i \in DOMAIN y.cmds : y.cmds[i].cmd = "Load" =>
          \/ i \in DOMAIN x.cmds /\ y.cmds[i] = x.cmds[i]
          \/ /\ i = Len(x.cmds) + 1 /\ y.cmds[i].token = x.s.next + 1
             /\ x.s.next + 1 \in DOMAIN y.s.pending

LEMMA EntrustsItself == ASSUME NEW x PROVE Entrusts(x, x)
BY DEF Entrusts, Alike

LEMMA EntrustHeeds ==
  ASSUME NEW x, Handing(x), NEW y, Entrusts(x, y), NEW r \in Nat,
         NEW evs \in Seq(Known(x.s.next, r)), NEW g, g.loading \in Nat, g.loading <= x.s.next,
         Heed(x.s, x.cmds, evs, g)
  PROVE  Heed(y.s, y.cmds, evs, g)
<1>1. /\ x.s \in SessionSet /\ x.s.next \in Nat /\ x.s.adopted.token <= x.s.next
      /\ x.cmds \in Seq(Submitted(x.s.next))
  BY DEF Handing, Sane, SessionSet
<1>2. x.s.adopted.token \in Nat /\ x.s.adopted.token # x.s.next + 1
  <2>1. x.s.adopted \in Loads
    BY <1>1 DEF SessionSet
  <2> QED BY <1>1, <2>1 DEF Loads
<1>3. PICK u : u = x.s
  OBVIOUS
<1>4. PICK v : v = y.s
  OBVIOUS
<1>5. Heed(u, x.cmds, evs, g)
  BY <1>3
<1>6. /\ Alike(u, v) /\ v.last = u.last /\ v.ck = u.ck /\ v.latest = u.latest
      /\ DOMAIN u.pending \subseteq DOMAIN v.pending
      /\ DOMAIN v.pending \subseteq DOMAIN u.pending \union {u.next + 1}
      /\ \A i \in DOMAIN y.cmds : y.cmds[i].cmd = "Load" =>
            \/ i \in DOMAIN x.cmds /\ y.cmds[i] = x.cmds[i]
            \/ /\ i = Len(x.cmds) + 1 /\ y.cmds[i].token = u.next + 1
               /\ u.next + 1 \in DOMAIN v.pending
  BY <1>3, <1>4 DEF Entrusts
<1>7. SessionFits(v, g)
  BY <1>5, <1>6, AlikeKeeps DEF Heed
<1>8. \A L, m : Mine(v, L, m) => Mine(u, L, m)
  BY <1>6 DEF Mine, Alike
<1>9. v.adopted.token \notin DOMAIN v.pending
  BY <1>2, <1>3, <1>5, <1>6 DEF Heed, CutsFit, Alike
<1>10. /\ \A i \in DOMAIN x.cmds : x.cmds[i].token \in Nat /\ x.cmds[i].token <= u.next
                                  /\ i # Len(x.cmds) + 1
       /\ \A j \in DOMAIN evs : evs[j].token \in Nat /\ evs[j].token <= u.next
       /\ u.next \in Nat
  <2>1. \A i \in DOMAIN x.cmds : x.cmds[i] \in Submitted(x.s.next) /\ i # Len(x.cmds) + 1
    BY <1>1
  <2>2. \A j \in DOMAIN evs : evs[j] \in Known(x.s.next, r)
    OBVIOUS
  <2> QED BY <1>1, <1>3, <2>1, <2>2 DEF Submitted, Commands, Known, EventSet
<1>11. QueuedFits(v, y.cmds, evs, g)
  <2> SUFFICES ASSUME NEW i \in DOMAIN y.cmds, y.cmds[i].cmd = "Load"
               PROVE  /\ y.cmds[i].token \in DOMAIN v.pending /\ y.cmds[i].token # g.loading
                      /\ \A j \in DOMAIN evs : Cut(evs[j]) => evs[j].token # y.cmds[i].token
                      /\ \A j \in DOMAIN y.cmds :
                            y.cmds[j].cmd = "Load" /\ y.cmds[j].token = y.cmds[i].token => i = j
    BY DEF QueuedFits
  <2>1. QueuedFits(u, x.cmds, evs, g)
    BY <1>5 DEF Heed
  <2>2. CASE i \in DOMAIN x.cmds /\ y.cmds[i] = x.cmds[i]
    <3>1. /\ x.cmds[i].token \in DOMAIN u.pending /\ x.cmds[i].token # g.loading
          /\ \A j \in DOMAIN evs : Cut(evs[j]) => evs[j].token # x.cmds[i].token
          /\ \A j \in DOMAIN x.cmds :
                x.cmds[j].cmd = "Load" /\ x.cmds[j].token = x.cmds[i].token => i = j
      BY <2>1, <2>2 DEF QueuedFits
    <3>2. x.cmds[i].token # u.next + 1
      BY <1>10, <2>2
    <3> QED BY <1>6, <2>2, <3>1, <3>2
  <2>3. CASE /\ i = Len(x.cmds) + 1 /\ y.cmds[i].token = u.next + 1
             /\ u.next + 1 \in DOMAIN v.pending
    <3>1. u.next + 1 # g.loading /\ \A j \in DOMAIN evs : evs[j].token # u.next + 1
      BY <1>3, <1>10
    <3>2. \A j \in DOMAIN x.cmds : x.cmds[j].token # u.next + 1
      BY <1>10
    <3> QED BY <1>6, <2>3, <3>1, <3>2
  <2> QED BY <1>6, <2>2, <2>3
<1>12. v.adopted.token # 0 => v.adopted.token = u.adopted.token /\ (v.protected => u.protected)
  BY <1>6 DEF Alike
<1>13. Heed(v, y.cmds, evs, g)
  BY <1>5, <1>6, <1>7, <1>8, <1>9, <1>11, <1>12, MoveHeeds
<1> QED BY <1>4, <1>13

LEMMA RegisterAlike ==
  ASSUME NEW x \in SessionSet, NEW target, NEW media
  PROVE  LET y == Register(x, target, media) IN
         Alike(x, y) /\ y.last = x.last /\ y.ck = x.ck
<1> DEFINE t0 == x.next + 1
           f == [t \in DOMAIN x.pending \union {t0} |->
                   IF t \in DOMAIN x.pending THEN x.pending[t]
                   ELSE [target |-> target, media |-> media, valid |-> TRUE]]
           y == Register(x, target, media)
<1>1. y = [[x EXCEPT !.next = t0] EXCEPT !.pending = f]
  BY DEF Register
<1> HIDE DEF f, t0, y
<1>2. Alike(x, y) /\ y.last = x.last /\ y.ck = x.ck
  BY <1>1 DEF Alike, SessionSet
<1> QED BY <1>2 DEF y

LEMMA AdmittedEntrusts ==
  ASSUME NEW x, Handing(x), NEW target \in Nat, NEW media \in Media
  PROVE  Entrusts(x, Admitted(x, Register(x.s, target, media), media))
<1>1. PICK u : u = x.s
  OBVIOUS
<1>2. Sane(u) /\ u \in SessionSet /\ x.cmds \in Seq(Submitted(u.next))
  BY <1>1 DEF Handing, Sane
<1>3. PICK r : r = Register(u, target, media)
  OBVIOUS
<1>4. /\ Sane(r) /\ r.next = u.next + 1 /\ u.next \in Nat
      /\ DOMAIN r.pending = DOMAIN u.pending \union {u.next + 1} /\ r.latest = u.latest
  BY <1>2, <1>3, RegisterIs
<1>5. Alike(u, r) /\ r.last = u.last /\ r.ck = u.ck
  BY <1>2, <1>3, RegisterAlike
<1> DEFINE load == Command("Load", r.next, media, ResumeIntent(r, media))
           start == Command("PlayLoaded", r.next, NoMedia, NoIntent)
           queued == Append(x.cmds, load)
           all == IF Room(queued) THEN Append(queued, start) ELSE queued
<1>6. Admitted(x, r, media) = [s |-> r, cmds |-> all]
  BY DEF Admitted
<1>7. load \in Submitted(r.next) /\ load.token = r.next
  <2>1. r \in SessionSet /\ r.next \in Nat
    BY <1>4 DEF Sane
  <2> QED BY <2>1, ResumeIntentIn DEF Command, Submitted, Commands, MediaN
<1>8. start \in Submitted(r.next) /\ start.cmd = "PlayLoaded"
  BY <1>4, NoIntentIn DEF Command, Submitted, Commands, MediaN
<1> HIDE DEF load, start
<1>9. x.cmds \in Seq(Submitted(r.next))
  BY <1>2, <1>4, SubmittedGrows, SeqGrows
<1>10. \A i \in DOMAIN all : \/ i \in DOMAIN x.cmds /\ all[i] = x.cmds[i]
                             \/ i = Len(x.cmds) + 1 /\ all[i] = load
                             \/ all[i] = start
  BY <1>7, <1>8, <1>9
<1> HIDE DEF all
<1>11. PICK y : y = [s |-> r, cmds |-> all]
  OBVIOUS
<1>12. y.s = r /\ y.cmds = all
  BY <1>11
<1>13. \A i \in DOMAIN all : all[i].cmd = "Load" =>
          \/ i \in DOMAIN x.cmds /\ all[i] = x.cmds[i]
          \/ i = Len(x.cmds) + 1 /\ all[i].token = u.next + 1 /\ u.next + 1 \in DOMAIN r.pending
  BY <1>4, <1>7, <1>8, <1>10
<1>14. Entrusts(x, y)
  BY <1>1, <1>4, <1>5, <1>12, <1>13 DEF Entrusts
<1> QED BY <1>1, <1>3, <1>6, <1>11, <1>14

LEMMA SubmitEntrusts ==
  ASSUME NEW x, Handing(x), NEW target \in Nat, NEW media \in Media,
         \E session, queue : x = [s |-> session, cmds |-> queue]
  PROVE  Entrusts(x, SubmitLoad(x, target, media))
<1>1. PICK u : u = x.s
  OBVIOUS
<1>2. Sane(u) /\ u \in SessionSet
  BY <1>1 DEF Handing, Sane
<1>3. PICK r : r = Register(u, target, media)
  OBVIOUS
<1>4. CASE Busy(u)
  <2>1. SubmitLoad(x, target, media) = x
    BY <1>1, <1>4 DEF SubmitLoad
  <2> QED BY <2>1, EntrustsItself
<1>5. CASE ~Busy(u) /\ ~Room(x.cmds)
  <2>1. /\ Sane(r) /\ r.next = u.next + 1
        /\ DOMAIN r.pending = DOMAIN u.pending \union {u.next + 1}
        /\ u.next + 1 \notin DOMAIN u.pending /\ r.latest = u.latest
    BY <1>2, <1>3, RegisterIs
  <2>2. Alike(u, r) /\ r.last = u.last /\ r.ck = u.ck
    BY <1>2, <1>3, RegisterAlike
  <2>3. PICK t : t = Retract(r, r.next)
    OBVIOUS
  <2>4. DOMAIN t.pending = DOMAIN r.pending \ {r.next} /\ t.latest = r.latest
    BY <2>1, <2>3, RetractIs
  <2>5. Alike(r, t) /\ t.last = r.last /\ t.ck = r.ck
    BY <2>1, <2>3, RetractAlike DEF Sane
  <2>6. PICK y : y = [x EXCEPT !.s = t]
    OBVIOUS
  <2>7. y.s = t /\ y.cmds = x.cmds
    BY <2>6
  <2>8. SubmitLoad(x, target, media) = y
    BY <1>1, <1>3, <1>5, <2>3, <2>6 DEF SubmitLoad
  <2>9. Alike(u, t) /\ DOMAIN t.pending = DOMAIN u.pending
    BY <2>1, <2>2, <2>4, <2>5 DEF Alike
  <2>10. Entrusts(x, y)
    BY <1>1, <2>1, <2>2, <2>4, <2>5, <2>7, <2>9 DEF Entrusts
  <2> QED BY <2>8, <2>10
<1>6. CASE ~Busy(u) /\ Room(x.cmds)
  <2>1. SubmitLoad(x, target, media) = Admitted(x, Register(x.s, target, media), media)
    BY <1>1, <1>6 DEF SubmitLoad
  <2> QED BY <2>1, AdmittedEntrusts
<1> QED BY <1>4, <1>5, <1>6

LEMMA LoadEntryEntrusts ==
  ASSUME NEW x, Handing(x), NEW id, \E session, queue : x = [s |-> session, cmds |-> queue]
  PROVE  Entrusts(x, LoadEntry(x, id))
<1>1. CASE Has(x.s.set, id)
  <2>1. SoundSet(x.s.set)
    BY DEF Handing, Sane, SessionSet, SoundSets
  <2>2. id \in Nat /\ MediaOf(x.s.set, id) \in Media
    BY <1>1, <2>1, MediaOfEntry
  <2> QED BY <1>1, <2>2, SubmitEntrusts DEF LoadEntry
<1>2. CASE ~Has(x.s.set, id)
  BY <1>2, EntrustsItself DEF LoadEntry
<1> QED BY <1>1, <1>2

(* A submission leaves what is heard as it was. *)
LEMMA SubmissionHeeds ==
  ASSUME RuntimeInv, HeedInv, NEW x, Handing(x), x.cmds = cmds, x.s.next = s.next,
         Heed(x.s, cmds, events, e), NEW y, Entrusts(x, y)
  PROVE  Heed(y.s, y.cmds, events, e)
<1>1. /\ events \in Seq(Known(x.s.next, e.rev)) /\ e.rev \in Nat
      /\ e.loading \in Nat /\ e.loading <= x.s.next
  BY InvParts, HeedParts
<1>2. Heed(x.s, x.cmds, events, e)
  OBVIOUS
<1> QED BY <1>1, <1>2, EntrustHeeds

LEMMA PlayEntryHeeds == ASSUME RuntimeInv, HeedInv, PlayEntry PROVE HeedInv'
<1>1. PICK id : LET x == LoadEntry([s |-> s, cmds |-> cmds], id) IN s' = x.s /\ cmds' = x.cmds
  BY DEF PlayEntry
<1>2. PICK x : x = [s |-> s, cmds |-> cmds]
  OBVIOUS
<1>3. Handing(x) /\ x.s = s /\ x.cmds = cmds
  BY <1>2, HandingNow
<1>4. PICK y : y = LoadEntry(x, id)
  OBVIOUS
<1>5. Entrusts(x, y) /\ s' = y.s /\ cmds' = y.cmds
  BY <1>1, <1>2, <1>3, <1>4, LoadEntryEntrusts
<1>6. Heed(y.s, y.cmds, events, e)
  BY <1>3, <1>5, SubmissionHeeds DEF HeedInv
<1>7. events' = events /\ e' = e
  BY DEF PlayEntry
<1> QED BY <1>5, <1>6, <1>7 DEF HeedInv

LEMMA PlayDetachedHeeds == ASSUME RuntimeInv, HeedInv, PlayDetached PROVE HeedInv'
<1>1. PICK m \in Media :
         LET x == SubmitLoad([s |-> s, cmds |-> cmds], Detached, m) IN s' = x.s /\ cmds' = x.cmds
  BY DEF PlayDetached
<1>2. PICK x : x = [s |-> s, cmds |-> cmds]
  OBVIOUS
<1>3. Handing(x) /\ x.s = s /\ x.cmds = cmds
  BY <1>2, HandingNow
<1>4. PICK y : y = SubmitLoad(x, Detached, m)
  OBVIOUS
<1>5. Detached \in Nat
  BY DEF Detached, None
<1>6. Entrusts(x, y) /\ s' = y.s /\ cmds' = y.cmds
  BY <1>1, <1>2, <1>3, <1>4, <1>5, SubmitEntrusts
<1>7. Heed(y.s, y.cmds, events, e)
  BY <1>3, <1>6, SubmissionHeeds DEF HeedInv
<1>8. events' = events /\ e' = e
  BY DEF PlayDetached
<1> QED BY <1>6, <1>7, <1>8 DEF HeedInv

LEMMA ShownIsProgress == Progress = Shown(e)
BY DEF Progress, Shown

LEMMA SampleHeeds == ASSUME RuntimeInv, HeedInv, Sample PROVE HeedInv'
<1> DEFINE asked == [s EXCEPT !.advance = None]
<1>1. PICK due \in BOOLEAN :
         LET x == LoadEntry([s |-> asked, cmds |-> cmds], s.advance)
         IN s' = Tick(x.s, Progress, due) /\ cmds' = x.cmds
  BY DEF Sample
<1>2. s \in SessionSet /\ Sane(s)
  BY FrontEndParts
<1>3. asked \in SessionSet
  BY <1>2 DEF SessionSet, None
<1>4. /\ Keeps(s, asked) /\ asked.latest = s.latest /\ asked.next = s.next
      /\ asked.pending = s.pending
  BY <1>2 DEF SessionSet, Keeps
<1>5. Alike(s, asked) /\ asked.last = s.last /\ asked.ck = s.ck
  BY <1>2 DEF SessionSet, Alike
<1>6. Sane(asked)
  BY <1>2, <1>3, <1>4, KeepsSane
<1> HIDE DEF asked
<1>7. SessionFits(asked, e)
  BY <1>5, AlikeKeeps DEF HeedInv, Heed
<1>8. Heed(asked, cmds, events, e)
  BY <1>4, <1>5, <1>7, AlikeHeeds DEF HeedInv, Alike
<1>9. PICK x : x = [s |-> asked, cmds |-> cmds]
  OBVIOUS
<1>10. x.s = asked /\ x.cmds = cmds
  BY <1>9
<1>11. Handing(x)
  BY <1>4, <1>6, <1>10, FrontEndParts DEF Handing
<1>12. PICK y : y = LoadEntry(x, s.advance)
  OBVIOUS
<1>13. s' = Tick(y.s, Progress, due) /\ cmds' = y.cmds
  BY <1>1, <1>9, <1>12
<1>14. Entrusts(x, y)
  BY <1>9, <1>11, <1>12, LoadEntryEntrusts
<1>15. Heed(y.s, y.cmds, events, e)
  <2>1. x.s.next = s.next /\ Heed(x.s, cmds, events, e)
    BY <1>4, <1>8, <1>10
  <2> QED BY <1>10, <1>11, <1>14, <2>1, SubmissionHeeds
<1>16. Handed(x, y)
  BY <1>9, <1>11, <1>12, LoadEntryIs
<1>17. PICK z : z = y.s
  OBVIOUS
<1>18. z \in SessionSet
  BY <1>16, <1>17 DEF Handed, Sane
<1>19. PICK w : w = Tick(z, Shown(e), due)
  OBVIOUS
<1>20. s' = w
  BY <1>13, <1>17, <1>19, ShownIsProgress
<1>21. w \in SessionSet /\ Keeps(z, w)
  <2>1. Shown(e) \in Samplings
    BY FrontEndParts, ShownIsProgress
  <2> QED BY <1>18, <1>19, <2>1, TickIs
<1>22. SessionFits(z, e) /\ EngineFits(e) /\ Heed(z, y.cmds, events, e)
  BY <1>15, <1>17 DEF Heed
<1>23. /\ SessionFits(w, e) /\ w.adopted = z.adopted /\ w.last = z.last /\ w.media = z.media
       /\ w.protected = z.protected
  BY <1>18, <1>19, <1>22, InvParts, TickFits
<1>24. Heed(w, y.cmds, events, e)
  BY <1>21, <1>22, <1>23, AlikeHeeds DEF Keeps
<1>25. events' = events /\ e' = e
  BY DEF Sample
<1> QED BY <1>13, <1>20, <1>24, <1>25 DEF HeedInv

(* Playback of entries is given up: what was heard of them stays recorded. *)
LEMMA VacateHeeds ==
  ASSUME NEW x, Sane(x), NEW g \in EngineSet, Shown(g) \in Samplings,
         NEW q, NEW evs, Heed(x, q, evs, g), NEW ids
  PROVE  Heed(Vacate(x, ids, Shown(g)), q, evs, g)
<1> DEFINE f == [t \in DOMAIN x.pending |->
                   IF x.pending[t].target \in ids THEN [x.pending[t] EXCEPT !.valid = FALSE]
                   ELSE x.pending[t]]
           y == [x EXCEPT !.pending = f]
           c == CaptureCurrent(y, Shown(g))
           z == [c EXCEPT !.adopted = NoLoad, !.sample = NoSample]
<1>1. DOMAIN f = DOMAIN x.pending /\ f \in Pendings
  <2>1. DOMAIN x.pending \in SUBSET Nat /\ x.pending \in [DOMAIN x.pending -> Registrations]
    BY PendingOut DEF Sane, SessionSet
  <2> DEFINE D == DOMAIN x.pending
  <2>2. f \in [D -> Registrations]
    BY <2>1 DEF Registrations
  <2>3. D \in SUBSET Nat
    BY <2>1
  <2> HIDE DEF D, f
  <2>4. f \in Pendings /\ DOMAIN f = D
    BY <2>2, <2>3, PendingIn
  <2> QED BY <2>4 DEF D
<1>2. Vacate(x, ids, Shown(g)) = IF OwnsAny(x, ids) THEN z ELSE y
  BY DEF Vacate, Invalidate, ReleaseActive
<1>3. x \in SessionSet /\ 0 \notin DOMAIN x.pending /\ SessionFits(x, g) /\ EngineFits(g)
  BY DEF Sane, SessionSet, Heed
<1> HIDE DEF f
<1>4. /\ y \in SessionSet /\ Alike(x, y) /\ y.last = x.last /\ y.ck = x.ck /\ y.pending = f
      /\ y.latest = x.latest
  BY <1>1, <1>3 DEF SessionSet, Alike
<1> HIDE DEF y
<1>5. SessionFits(y, g)
  BY <1>3, <1>4, AlikeKeeps
<1>6. Heed(y, q, evs, g)
  BY <1>1, <1>4, <1>5, AlikeHeeds DEF Alike
<1>7. c \in SessionSet /\ Alike(y, c) /\ c.last = y.last /\ SessionFits(c, g)
  BY <1>3, <1>4, <1>5, CaptureFits
<1>8. Keeps(y, c)
  BY <1>4, CaptureCurrentIs
<1> HIDE DEF c
<1>9. Heed(c, q, evs, g)
  BY <1>6, <1>7, <1>8, AlikeHeeds DEF Alike, Keeps
<1>10. /\ z.adopted.token = 0 /\ z.sample = NoSample /\ z.ck = c.ck /\ z.target = c.target
       /\ z.media = c.media /\ z.latest = c.latest /\ z.pending = c.pending
  BY <1>7, NoLoadIn DEF SessionSet
<1> HIDE DEF z
<1>11. SessionFits(z, g)
  BY <1>7, <1>10
     DEF SessionFits, CheckpointsFit, SampleFits, TargetFits, HeardFits, LoadFits
<1>12. \A L, m : Mine(z, L, m) => Mine(c, L, m)
  BY <1>10 DEF Mine
<1>13. z.adopted.token \notin DOMAIN z.pending
  BY <1>1, <1>3, <1>4, <1>8, <1>10 DEF Keeps
<1>14. QueuedFits(z, q, evs, g)
  BY <1>9, <1>10 DEF Heed, QueuedFits
<1>15. Heed(z, q, evs, g)
  BY <1>9, <1>10, <1>11, <1>12, <1>13, <1>14, MoveHeeds
<1> QED BY <1>2, <1>6, <1>15

LEMMA PlaylistsHeeds ==
  ASSUME NEW x \in SessionSet, NEW q, NEW evs, NEW g, Heed(x, q, evs, g), NEW set, NEW saved
  PROVE  Heed(WithPlaylists(x, set, saved), q, evs, g)
<1> DEFINE y == WithPlaylists(x, set, saved)
<1>1. /\ Alike(x, y) /\ y.last = x.last /\ y.ck = x.ck /\ y.pending = x.pending
      /\ y.latest = x.latest
  BY DEF WithPlaylists, SessionSet, Alike
<1> HIDE DEF y
<1>2. SessionFits(y, g)
  BY <1>1, AlikeKeeps DEF Heed
<1>3. Heed(y, q, evs, g)
  BY <1>1, <1>2, AlikeHeeds DEF Alike
<1> QED BY <1>3 DEF y

LEMMA RemovalHeeds ==
  ASSUME RuntimeInv, HeedInv, NEW ids, NEW v, v = Vacate(s, ids, Progress),
         NEW set, NEW saved, s' = WithPlaylists(v, set, saved), UNCHANGED <<cmds, events, e>>
  PROVE  HeedInv'
<1>1. Sane(s) /\ s \in SessionSet /\ Progress \in Samplings /\ e \in EngineSet
  BY FrontEndParts, InvParts
<1>2. v = Vacate(s, ids, Shown(e)) /\ Shown(e) \in Samplings
  BY <1>1, ShownIsProgress
<1>3. Heed(v, cmds, events, e)
  BY <1>1, <1>2, VacateHeeds DEF HeedInv
<1>4. v \in SessionSet
  BY <1>1, VacateIs DEF Vacated
<1>5. PICK y : y = WithPlaylists(v, set, saved)
  OBVIOUS
<1>6. Heed(y, cmds, events, e)
  BY <1>3, <1>4, <1>5, PlaylistsHeeds
<1> QED BY <1>5, <1>6 DEF HeedInv

LEMMA QueueHeeds == ASSUME RuntimeInv, HeedInv, Queue PROVE HeedInv'
<1>1. UNCHANGED <<cmds, events, e>> /\ Removes
  BY DEF Queue
<1>2. Sane(s) /\ s \in SessionSet /\ Progress \in Samplings
  BY FrontEndParts
<1>3. ASSUME NEW ids, NEW v, v = Vacate(s, ids, Progress)
      PROVE  v \in SessionSet
  BY <1>2, <1>3, VacateIs DEF Vacated
<1>4. ASSUME NEW id, s' = RemoveEntry(s, id, Progress) PROVE HeedInv'
  <2>1. PICK v : v = Vacate(s, {id}, Progress)
    OBVIOUS
  <2>2. v \in SessionSet
    BY <1>3, <2>1
  <2>3. PICK set : set = RemoveFrom(v.set, id)
    OBVIOUS
  <2>4. s' = [v EXCEPT !.set = set]
    BY <1>4, <2>1, <2>3 DEF RemoveEntry
  <2>5. s' = WithPlaylists(v, set, v.saved)
    BY <2>2, <2>4 DEF SessionSet, WithPlaylists
  <2> QED BY <1>1, <2>1, <2>5, RemovalHeeds
<1>5. ASSUME NEW list, s' = ClearPlaylist(s, list, Progress) PROVE HeedInv'
  <2>1. PICK ids : ids = Ids(s.set.lists[Index(s.set, list)])
    OBVIOUS
  <2>2. PICK v : v = Vacate(s, ids, Progress)
    OBVIOUS
  <2>3. v \in SessionSet
    BY <1>3, <2>2
  <2>4. PICK set : set = ClearList(v.set, list)
    OBVIOUS
  <2>5. s' = [v EXCEPT !.set = set]
    BY <1>5, <2>1, <2>2, <2>4 DEF ClearPlaylist
  <2>6. s' = WithPlaylists(v, set, v.saved)
    BY <2>3, <2>5 DEF SessionSet, WithPlaylists
  <2> QED BY <1>1, <2>2, <2>6, RemovalHeeds
<1>6. ASSUME NEW list, s' = DeletePlaylist(s, list, Progress) PROVE HeedInv'
  <2>1. PICK ids : ids = Ids(s.set.lists[Index(s.set, list)])
    OBVIOUS
  <2>2. PICK v : v = Vacate(s, ids, Progress)
    OBVIOUS
  <2>3. PICK set : set = DeleteList(v.set, list)
    OBVIOUS
  <2>4. PICK saved : saved = CASE v.set.playing # list -> v.saved
                               [] v.set.playing = list /\ Cursor(set) = None -> NoMedia
                               [] OTHER -> MediaOf(set, Cursor(set))
    OBVIOUS
  <2>5. s' = WithPlaylists(v, set, saved)
    BY <1>6, <2>1, <2>2, <2>3, <2>4 DEF DeletePlaylist, WithPlaylists
  <2> QED BY <1>1, <2>2, <2>5, RemovalHeeds
<1> QED BY <1>1, <1>4, <1>5, <1>6 DEF Removes, ApplyRemoval

LEMMA TransportHeeds ==
  ASSUME RuntimeInv, HeedInv, NEW kind \in {"Toggle", "Seek", "Restart"}, Transport(kind)
  PROVE  HeedInv'
<1>1. cmds' = Append(cmds, Plain(Sent(kind))) /\ UNCHANGED <<s, events, e>>
  BY DEF Transport
<1>2. PICK c : c = Plain(Sent(kind))
  OBVIOUS
<1>3. c.cmd # "Load"
  BY <1>2 DEF Plain, Command, Sent
<1>4. cmds \in Seq(Submitted(s.next)) /\ QueuedFits(s, cmds, events, e) /\ Heed(s, cmds, events, e)
  BY HeedParts
<1>5. PICK q : q = Append(cmds, c)
  OBVIOUS
<1>6. \A i \in DOMAIN q : q[i] = c \/ (i \in DOMAIN cmds /\ q[i] = cmds[i])
  BY <1>4, <1>5
<1>7. QueuedFits(s, q, events, e)
  BY <1>3, <1>4, <1>6 DEF QueuedFits
<1>8. Heed(s, q, events, e)
  BY <1>4, <1>7 DEF Heed
<1> QED BY <1>1, <1>2, <1>5, <1>8 DEF HeedInv

LEMMA HearsHeeds == ASSUME RuntimeInv, HeedInv, DrainOne \/ Replay PROVE HeedInv'
<1>1. PICK y : y = Observe(s, Head(events))
  OBVIOUS
<1>2. PICK z : z = [y EXCEPT !.stop = FALSE]
  OBVIOUS
<1>3. /\ events # <<>> /\ events' = Tail(events) /\ UNCHANGED <<cmds, e>>
      /\ s' = y \/ s' = z
  BY <1>1, <1>2 DEF DrainOne, Replay
<1>4. /\ Sane(s) /\ s.next \in Nat /\ e.rev \in Nat /\ events \in Seq(Known(s.next, e.rev))
      /\ Heed(s, cmds, events, e)
  BY HeedParts
<1>5. PICK ev \in Known(s.next, e.rev) : ev = Head(events)
  BY <1>3, <1>4, TailIn
<1>6. y \in SessionSet
  BY <1>1, <1>4, <1>5, ObserveIs DEF Sane
<1>7. /\ Alike(y, z) /\ z.last = y.last /\ z.ck = y.ck /\ z.pending = y.pending
      /\ z.latest = y.latest
  BY <1>2, <1>6 DEF Alike, SessionSet
<1>8. Alike(y, y)
  BY DEF Alike
<1>9. PICK w : w = s'
  OBVIOUS
<1>10. /\ Alike(y, w) /\ w.last = y.last /\ w.ck = y.ck /\ w.pending = y.pending
       /\ w.latest = y.latest
  BY <1>3, <1>7, <1>8, <1>9
<1>11. Heed(w, cmds, Tail(events), e)
  BY <1>1, <1>3, <1>4, <1>10, HearsTail
<1> QED BY <1>3, <1>9, <1>11 DEF HeedInv

LEMMA ReconcileHeeds == ASSUME RuntimeInv, HeedInv, Reconcile PROVE HeedInv'
<1>1. s' = CaptureCurrent(s, Shown(e)) /\ UNCHANGED <<cmds, events, e>>
  BY ShownIsProgress DEF Reconcile
<1>2. s \in SessionSet /\ e \in EngineSet /\ Shown(e) \in Samplings
  BY FrontEndParts, InvParts, ShownIsProgress
<1>3. EngineFits(e) /\ SessionFits(s, e)
  BY HeedParts
<1>4. PICK y : y = CaptureCurrent(s, Shown(e))
  OBVIOUS
<1>5. Alike(s, y) /\ y.last = s.last /\ SessionFits(y, e)
  BY <1>2, <1>3, <1>4, CaptureFits
<1>6. Keeps(s, y)
  BY <1>2, <1>4, CaptureCurrentIs
<1>7. Heed(y, cmds, events, e)
  BY <1>5, <1>6, AlikeHeeds DEF HeedInv, Alike, Keeps
<1> QED BY <1>1, <1>4, <1>7 DEF HeedInv

LEMMA FrontEndHeeds == ASSUME RuntimeInv, HeedInv, FrontEnd PROVE HeedInv'
<1>1. CASE Stop \/ Quit \/ DrainDone
  BY <1>1 DEF Stop, Quit, DrainDone, HeedInv
<1> QED BY <1>1, PlayEntryHeeds, PlayDetachedHeeds, QueueHeeds, TransportHeeds, HearsHeeds,
           SampleHeeds, ReconcileHeeds DEF FrontEnd

(* At the start nothing has been heard, and only what was kept is stored. *)
LEMMA InitHeeds == ASSUME Init PROVE HeedInv
<1>1. PICK set \in StoredSets : \E entry \in plan.stored :
          s = NewSession(set, IF Cursor(set) = None THEN NoMedia
                              ELSE MediaOf(set, Cursor(set)),
                         [m \in Media |-> IF m \in Podcasts THEN entry[m] ELSE NoEntry])
  BY DEF Init
<1>2. PICK entry \in plan.stored :
          s = NewSession(set, IF Cursor(set) = None THEN NoMedia
                              ELSE MediaOf(set, Cursor(set)),
                         [m \in Media |-> IF m \in Podcasts THEN entry[m] ELSE NoEntry])
  BY <1>1
<1>3. PICK c : c = [m \in Media |-> IF m \in Podcasts THEN entry[m] ELSE NoEntry]
  OBVIOUS
<1>4. PICK saved : saved = IF Cursor(set) = None THEN NoMedia ELSE MediaOf(set, Cursor(set))
  OBVIOUS
<1>5. s = NewSession(set, saved, c)
  BY <1>2, <1>3, <1>4
<1>6. /\ s.ck = c /\ s.adopted.token = 0 /\ s.sample = NoSample /\ s.target = NoPos
      /\ DOMAIN s.pending = {}
  BY <1>5, NoLoadIn DEF NewSession
<1>7. cmds = <<>> /\ events = <<>> /\ Len(events) = 0
  BY DEF Init
<1>8. /\ e.load = 0 /\ e.loading = 0 /\ e.at = NoPos /\ e.pend = NoIntent /\ e.state = "Idle"
      /\ e.media = NoMedia
  BY DEF Init
<1>9. CheckpointsFit(s, e)
  <2>1. ASSUME NEW m \in Media PROVE KeptBy(c[m].pos, m, e) /\ KeptBy(c[m].est, m, e)
    <3>1. CASE m \in Podcasts
      <4>1. Kept(entry[m].pos, m) /\ Kept(entry[m].est, m)
        BY <3>1, RuntimeAssumption DEF Init
      <4> QED BY <1>3, <3>1, <4>1 DEF Kept, KeptBy, HeardAt, Worth
    <3>2. CASE m \notin Podcasts
      BY <1>3, <3>2 DEF NoEntry, KeptBy
    <3> QED BY <3>1, <3>2
  <2> QED BY <1>6, <2>1 DEF CheckpointsFit
<1>10. SessionFits(s, e)
  BY <1>6, <1>8, <1>9 DEF SessionFits, SampleFits, TargetFits, HeardFits, LoadFits
<1>11. EngineFits(e)
  BY <1>8 DEF EngineFits, NoPos
<1>12. /\ CutsFit(s, events) /\ OpeningFits(s, events, e) /\ QueuedFits(s, cmds, events, e)
       /\ Ordered(s, events)
  BY <1>6, <1>7, <1>8 DEF CutsFit, OpeningFits, QueuedFits, Ordered
<1>13. \A i, L, m : ~Reigns(s, events, i, L, m)
  BY <1>6, <1>7 DEF Reigns, Mine, Opened
<1>14. EventsFit(s, events, e) /\ EndFits(s, events, e)
  BY <1>7, <1>13 DEF EventsFit, EndFits
<1> QED BY <1>10, <1>11, <1>12, <1>14 DEF HeedInv, Heed

(* session.rs: a stored position was established by a load that was heard of   *)
(* that media, or was stored before, or follows a restart or an end that the   *)
(* listener heard; it is never another media's, the start nobody heard, a      *)
(* station's, or the zero that stands in for a resume the server refused.      *)
THEOREM CheckpointsAlwaysHeard == Spec => []CheckpointsWereHeard
<1> DEFINE Inv == RuntimeInv /\ HeedInv
<1>1. Init => Inv
  BY InitIs, InitHeeds
<1>2. Inv /\ [Next]_vars => Inv'
  <2> SUFFICES ASSUME RuntimeInv, HeedInv, [Next]_vars PROVE RuntimeInv' /\ HeedInv'
    OBVIOUS
  <2>1. RuntimeInv'
    BY NextIs
  <2>2. CASE UNCHANGED vars
    <3>1. UNCHANGED <<s, cmds, events, e>>
      BY <2>2 DEF vars
    <3>2. HeedInv'
      BY <3>1 DEF HeedInv
    <3> QED BY <2>1, <3>2
  <2>3. CASE Next
    BY <2>1, <2>3, FrontEndHeeds, EngineHeeds DEF Next
  <2> QED BY <2>2, <2>3
<1>3. Inv => CheckpointsWereHeard
  <2> SUFFICES ASSUME RuntimeInv, HeedInv PROVE CheckpointsWereHeard
    OBVIOUS
  <2>1. SessionFits(s, e)
    BY HeedParts
  <2>2. s.ck \in Checkpoints
    BY FrontEndParts DEF SessionSet
  <2>3. ASSUME NEW pos, NEW m, KeptBy(pos, m, e) PROVE WasHeard(pos, m)
    BY <2>3 DEF KeptBy, HeardAt, WasHeard, Kept, Worth
  <2> QED BY <2>1, <2>3 DEF SessionFits, CheckpointsFit, CheckpointsWereHeard
<1> QED BY <1>1, <1>2, <1>3, PTL DEF Spec
=============================================================================
