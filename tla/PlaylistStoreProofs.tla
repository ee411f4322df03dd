--------------------------- MODULE PlaylistStoreProofs ---------------------------
(* What the queue, its store and the remembered positions promise, for every   *)
(* number of lists, entries, edits and sessions, and whatever document is       *)
(* loaded.                                                                      *)
(*                                                                             *)
(* The argument: recovery is a fold over the records of a document of folds     *)
(* over their entries.  A fold over a sequence has a value for every place of   *)
(* it, each made from the one before (Unfolds), so that what holds at first and *)
(* is kept by one entry, or one record, holds at the end.  What is kept says     *)
(* how many entries there are, that all their ids are below the counter and     *)
(* those of different lists disjoint, and what has become of each record so     *)
(* far.  The edits then keep the set sound one list at a time.                  *)
EXTENDS PlaylistStore, Counting, SequenceTheorems, FiniteSetTheorems, TLAPS

-----------------------------------------------------------------------------
(* Folds over sequences. *)

(* Induction up to n, through the set of numbers for which it holds.           *)
LEMMA Climbs ==
  ASSUME NEW n \in Nat, NEW P, 0 \in P, \A m \in 0 .. n : m \in P /\ m < n => m + 1 \in P
  PROVE  \A m \in 0 .. n : m \in P
<1> DEFINE T == (0 .. n) \ P
<1> SUFFICES ASSUME T # {} PROVE FALSE
  OBVIOUS
<1>0. T \in SUBSET Nat /\ T # {}
  OBVIOUS
<1>1. PICK x \in T : \A y \in T : x <= y
  BY <1>0, LeastOfNat
<1>2. x \in 0 .. n /\ x # 0 /\ x \notin P
  BY <1>1
<1>3. x - 1 \in 0 .. n /\ x - 1 < n /\ (x - 1) + 1 = x
  BY <1>2
<1>4. x - 1 \in P
  BY <1>1, <1>3
<1> QED BY <1>2, <1>3, <1>4

(* A set of places has a last one. *)
LEMMA MaxOfPrefix ==
  ASSUME NEW n \in Nat, NEW s \in SUBSET (1 .. n), s # {}
  PROVE  Max(s) \in s /\ \A x \in s : x <= Max(s)
<1>1. s \in SUBSET (0 .. n)
  OBVIOUS
<1> QED BY <1>1, MaxBelow

(* The last of n places, and the places before it. *)
LEMMA MaxIsLast ==
  ASSUME NEW n \in Nat, n # 0 PROVE Max(1 .. n) = n /\ (1 .. n) \ {n} = 1 .. n - 1
<1>1. Max(1 .. n) \in 1 .. n /\ \A x \in 1 .. n : x <= Max(1 .. n)
  <2>1. 1 .. n \in SUBSET (1 .. n) /\ 1 .. n # {}
    OBVIOUS
  <2> QED BY <2>1, MaxOfPrefix
<1>2. PICK x : x = Max(1 .. n)
  OBVIOUS
<1>3. x \in 1 .. n /\ n <= x
  BY <1>1, <1>2
<1>4. x = n
  BY <1>3
<1> QED BY <1>2, <1>4

(* The values a fold takes on the sets of places, and on the places in order.  *)
FoldsOver(h, V, base, seq, F) ==
    /\ h \in [SUBSET (DOMAIN seq) -> V]
    /\ \A s \in SUBSET (DOMAIN seq) :
          h[s] = IF s = {} THEN base ELSE F[<<h[s \ {Max(s)}], seq[Max(s)]>>]
FoldsAlong(g, V, base, seq, F, iter) ==
    /\ g \in [0 .. Len(seq) -> V] /\ g[0] = base /\ g[Len(seq)] = iter[DOMAIN seq]
    /\ \A m \in 1 .. Len(seq) : g[m] = F[<<g[m - 1], seq[m]>>]

FoldsWithin(iter, V, base, seq, F) ==
    /\ iter[{}] = base
    /\ \A s \in SUBSET (DOMAIN seq) :
          s # {} /\ iter[s \ {Max(s)}] \in V =>
             iter[s] = F[<<iter[s \ {Max(s)}], seq[Max(s)]>>]

(* A fold over a sequence exists, whatever is folded: the values it takes on   *)
(* the sets of places are those of a function.                                 *)
LEMMA Unfolds ==
  ASSUME NEW V, NEW E, NEW base \in V, NEW seq \in Seq(E), NEW F \in [V \X E -> V]
  PROVE  \E h : FoldsOver(h, V, base, seq, F)
<1> DEFINE Folds(h, n) ==
      /\ h \in [SUBSET (1 .. n) -> V]
      /\ \A s \in SUBSET (1 .. n) :
            h[s] = IF s = {} THEN base ELSE F[<<h[s \ {Max(s)}], seq[Max(s)]>>]
      P == {n \in 0 .. Len(seq) : \E h : Folds(h, n)}
<1>1. Len(seq) \in Nat /\ DOMAIN seq = 1 .. Len(seq)
  OBVIOUS
<1>2. 0 \in P
  <2> DEFINE h == [s \in SUBSET (1 .. 0) |-> base]
  <2>1. 1 .. 0 = {}
    OBVIOUS
  <2>2. Folds(h, 0)
    BY <2>1
  <2> HIDE DEF Folds
  <2> QED BY <1>1, <2>2
<1>3. ASSUME NEW n \in 0 .. Len(seq), n \in P, n < Len(seq) PROVE n + 1 \in P
  <2>1. PICK h : Folds(h, n)
    BY <1>3
  <2> DEFINE m == n + 1
             g == [s \in SUBSET (1 .. m) |->
                     IF m \in s THEN F[<<h[s \ {m}], seq[m]>>] ELSE h[s]]
  <2>2. m \in DOMAIN seq /\ m \in Nat /\ seq[m] \in E /\ n \in Nat
    BY <1>1, <1>3
  <2>3. ASSUME NEW s \in SUBSET (1 .. m), m \notin s
        PROVE  s \in SUBSET (1 .. n) /\ s \ {Max(s)} \in SUBSET (1 .. n)
    <3>1. \A x \in s : x \in 1 .. n
      BY <2>2, <2>3
    <3>2. s \in SUBSET (1 .. n)
      BY <3>1
    <3> QED BY <3>2
  <2>4. ASSUME NEW s \in SUBSET (1 .. m), m \in s
        PROVE  Max(s) = m /\ s \ {m} \in SUBSET (1 .. n) /\ m \notin s \ {m}
    <3>1. Max(s) \in s /\ \A x \in s : x <= Max(s)
      BY <2>2, <2>4, MaxOfPrefix
    <3>2. Max(s) \in 1 .. m /\ m <= Max(s)
      BY <2>4, <3>1
    <3> QED BY <2>2, <3>2
  <2>5. ASSUME NEW s \in SUBSET (1 .. m) PROVE g[s] \in V
    <3>1. CASE m \in s
      <4>1. h[s \ {m}] \in V
        BY <2>1, <2>4, <3>1
      <4> QED BY <2>2, <3>1, <4>1
    <3>2. CASE m \notin s
      BY <2>1, <2>3, <3>2
    <3> QED BY <3>1, <3>2
  <2>6. ASSUME NEW s \in SUBSET (1 .. m)
        PROVE  g[s] = IF s = {} THEN base ELSE F[<<g[s \ {Max(s)}], seq[Max(s)]>>]
    <3>1. CASE m \in s
      <4>1. g[s \ {m}] = h[s \ {m}]
        BY <2>4, <3>1
      <4> QED BY <2>4, <3>1, <4>1
    <3>2. CASE m \notin s
      <4>1. g[s] = h[s] /\ g[s \ {Max(s)}] = h[s \ {Max(s)}]
        <5>1. s \ {Max(s)} \in SUBSET (1 .. m) /\ m \notin s \ {Max(s)}
          BY <3>2
        <5> QED BY <3>2, <5>1
      <4> QED BY <2>1, <2>3, <3>2, <4>1
    <3> QED BY <3>1, <3>2
  <2>7. g \in [SUBSET (1 .. m) -> V]
    BY <2>5
  <2> HIDE DEF g
  <2>8. Folds(g, m)
    BY <2>6, <2>7
  <2> HIDE DEF Folds
  <2> QED BY <1>1, <2>2, <2>8
<1> HIDE DEF Folds
<1>4. \A m \in 0 .. Len(seq) : m \in P
  BY <1>1, <1>2, <1>3, Climbs
<1>5. PICK h : Folds(h, Len(seq))
  BY <1>1, <1>4
<1> QED BY <1>1, <1>5 DEF Folds, FoldsOver

(* The values of a fold, place by place. *)
LEMMA UnfoldsTo ==
  ASSUME NEW V, NEW E, NEW base \in V, NEW seq \in Seq(E), NEW F \in [V \X E -> V], NEW iter,
         FoldsWithin(iter, V, base, seq, F)
  PROVE  \E g : FoldsAlong(g, V, base, seq, F, iter)
<1> DEFINE D == DOMAIN seq
           g == [m \in 0 .. Len(seq) |-> iter[1 .. m]]
           P == {m \in 0 .. Len(seq) : g[m] \in V}
<1>1. Len(seq) \in Nat /\ D = 1 .. Len(seq)
  OBVIOUS
<1>2. g[0] = base /\ g[Len(seq)] = iter[D]
  <2>1. 1 .. 0 = {} /\ 0 \in 0 .. Len(seq) /\ Len(seq) \in 0 .. Len(seq)
    BY <1>1
  <2> QED BY <1>1, <2>1 DEF FoldsWithin
<1>3. ASSUME NEW m \in 1 .. Len(seq), g[m - 1] \in V PROVE g[m] = F[<<g[m - 1], seq[m]>>]
  <2>1. m \in Nat /\ m # 0 /\ m - 1 \in 0 .. Len(seq) /\ m \in 0 .. Len(seq)
    BY <1>1
  <2>2. 1 .. m \in SUBSET D /\ 1 .. m # {}
    <3>1. \A x \in 1 .. m : x \in 1 .. Len(seq)
      BY <1>1, <2>1
    <3>2. 1 \in 1 .. m
      BY <2>1
    <3> QED BY <1>1, <3>1, <3>2
  <2>3. Max(1 .. m) = m /\ (1 .. m) \ {m} = 1 .. m - 1
    BY <2>1, MaxIsLast
  <2>4. iter[1 .. m - 1] \in V
    BY <1>3, <2>1
  <2>5. iter[1 .. m] = F[<<iter[1 .. m - 1], seq[m]>>]
    BY <2>2, <2>3, <2>4 DEF FoldsWithin
  <2> QED BY <2>1, <2>5
<1> HIDE DEF g
<1>4. 0 \in P
  BY <1>1, <1>2
<1>5. ASSUME NEW m \in 0 .. Len(seq), m \in P, m < Len(seq) PROVE m + 1 \in P
  <2>1. m + 1 \in 1 .. Len(seq) /\ (m + 1) - 1 = m /\ m + 1 \in 0 .. Len(seq) /\ m + 1 \in D
    BY <1>1, <1>5
  <2>2. g[m + 1] = F[<<g[m], seq[m + 1]>>] /\ seq[m + 1] \in E
    BY <1>3, <1>5, <2>1
  <2> QED BY <1>5, <2>1, <2>2
<1>6. \A m \in 0 .. Len(seq) : m \in P
  BY <1>1, <1>4, <1>5, Climbs
<1>7. g \in [0 .. Len(seq) -> V]
  BY <1>6 DEF g
<1>8. \A m \in 1 .. Len(seq) : g[m] = F[<<g[m - 1], seq[m]>>]
  <2> SUFFICES ASSUME NEW m \in 1 .. Len(seq) PROVE g[m] = F[<<g[m - 1], seq[m]>>]
    OBVIOUS
  <2>1. m - 1 \in 0 .. Len(seq)
    BY <1>1
  <2> QED BY <1>3, <1>7, <2>1
<1> QED BY <1>2, <1>7, <1>8 DEF FoldsAlong

-----------------------------------------------------------------------------
(* What is stored, and how recovery takes the entries of one list. *)

Identifiers == Nat \ {None}
Mediums == AnyMedium \union {NoMedium}
StoreEntries == [id : Identifiers, media : EntryMedia]
StoreLists == [id : Identifiers, cursor : Nat, first : Nat, entries : Seq(StoreEntries)]
StoreSets ==
    [lists : Seq(StoreLists), playing : Nat, entryIds : Identifiers, listIds : Identifiers]

(* A document, damaged or not. *)
Records == [id : Nat, cursor : Nat, first : Nat, entries : Seq(StoreEntries), readable : BOOLEAN]
Docs ==
    [lists : Seq(Records), playing : Nat, nextEntry : Identifiers, nextList : Identifiers,
     media : Mediums, intact : BOOLEAN]

(* What recovery has at hand between two entries. *)
Takings ==
    [lists : Seq(StoreLists), entries : Seq(StoreEntries), cursor : Nat, total : Nat,
     seen : SUBSET Nat, seenLists : SUBSET Nat, entryIds : Identifiers, listIds : Identifiers]

(* An identifier is past the one it is counted up from, and past what it saw. *)
LEMMA CounterOne ==
  ASSUME NEW n \in Identifiers, NEW id \in Nat
  PROVE  Counter(n, {id}) = IF id < n THEN n ELSE id + 1
<1>1. {n} \union {i + 1 : i \in {id}} = {n, id + 1}
  OBVIOUS
<1>2. n \in Nat /\ id + 1 \in Nat
  BY DEF Identifiers
<1>3. CASE id < n
  <2>1. \A c \in {n, id + 1} : c <= n
    BY <1>2, <1>3
  <2>2. \A m \in {n, id + 1} : (\A c \in {n, id + 1} : c <= m) => m = n
    BY <1>2, <1>3
  <2> QED BY <1>1, <1>3, <2>1, <2>2 DEF Counter
<1>4. CASE ~(id < n)
  <2>1. \A c \in {n, id + 1} : c <= id + 1
    BY <1>2, <1>4
  <2>2. \A m \in {n, id + 1} : (\A c \in {n, id + 1} : c <= m) => m = id + 1
    BY <1>2, <1>4
  <2> QED BY <1>1, <1>4, <2>1, <2>2 DEF Counter
<1> QED BY <1>3, <1>4

(* What becomes of an entry: it is left out, kept, or renamed. *)
Apace(x, y) == y.lists = x.lists /\ y.seenLists = x.seenLists /\ y.listIds = x.listIds
Skips(x, entry, y) ==
    /\ y.entries = x.entries /\ y.seen = x.seen /\ y.total = x.total /\ y.entryIds = x.entryIds
    /\ x.total >= EntryCap \/ entry.id \in x.seen
    /\ y.cursor \in {x.cursor, None}
Keeps(x, entry, y) ==
    /\ x.total < EntryCap /\ entry.id \notin x.seen
    /\ y.entries = Append(x.entries, entry) /\ y.seen = x.seen \union {entry.id}
    /\ y.total = x.total + 1 /\ y.cursor = x.cursor
    /\ y.entryIds = IF entry.id < x.entryIds THEN x.entryIds ELSE entry.id + 1
Renames(x, entry, y) ==
    /\ x.total < EntryCap /\ entry.id \in x.seen
    /\ y.entries = Append(x.entries, [entry EXCEPT !.id = x.entryIds])
    /\ y.seen = x.seen \union {x.entryIds} /\ y.total = x.total + 1
    /\ y.entryIds = x.entryIds + 1 /\ y.cursor \in {x.cursor, None}

(* Losing the cursor changes nothing else. *)
LEMMA UncursoredIs ==
  ASSUME NEW x \in Takings, NEW id
  PROVE  LET y == Uncursored(x, id) IN
         /\ y \in Takings /\ Apace(x, y) /\ y.cursor \in {x.cursor, None}
         /\ y.entries = x.entries /\ y.seen = x.seen /\ y.total = x.total /\ y.entryIds = x.entryIds
BY DEF Uncursored, Takings, Apace, None

(* An entry more. *)
Grown(x, longer, seen, n) ==
    [x EXCEPT !.entries = longer, !.seen = seen, !.total = x.total + 1, !.entryIds = n]

(* The entry is in, and what recovery counts has gone up by one. *)
LEMMA TakingGrows ==
  ASSUME NEW x \in Takings, NEW longer \in Seq(StoreEntries), NEW seen \in SUBSET Nat,
         NEW n \in Identifiers
  PROVE  LET y == Grown(x, longer, seen, n) IN
         /\ y \in Takings /\ Apace(x, y) /\ y.cursor = x.cursor
         /\ y.entries = longer /\ y.seen = seen /\ y.total = x.total + 1 /\ y.entryIds = n
<1> DEFINE y == Grown(x, longer, seen, n)
           a == [x EXCEPT !.entries = longer]
           b == [a EXCEPT !.seen = seen]
           c == [b EXCEPT !.total = x.total + 1]
           d == [c EXCEPT !.entryIds = n]
<1>0. x.total \in Nat /\ x.total + 1 \in Nat
  BY DEF Takings
<1>1. /\ a \in Takings /\ Apace(x, a) /\ a.cursor = x.cursor
      /\ a.entries = longer /\ a.total = x.total
  BY DEF Takings, Apace
<1>2. y = [a EXCEPT !.seen = seen, !.total = x.total + 1, !.entryIds = n]
  BY DEF Takings, Grown
<1> HIDE DEF a, y
<1>3. /\ b \in Takings /\ Apace(a, b) /\ b.cursor = a.cursor
      /\ b.entries = a.entries /\ b.seen = seen
  BY <1>1 DEF Takings, Apace
<1>4. y = [b EXCEPT !.total = x.total + 1, !.entryIds = n]
  BY <1>1, <1>2 DEF Takings
<1> HIDE DEF b
<1>5. /\ c \in Takings /\ Apace(b, c) /\ c.cursor = b.cursor
      /\ c.entries = b.entries /\ c.seen = b.seen /\ c.total = x.total + 1
  BY <1>0, <1>3 DEF Takings, Apace
<1>6. y = d
  BY <1>3, <1>4 DEF Takings
<1> HIDE DEF c
<1>7. /\ d \in Takings /\ Apace(c, d) /\ d.cursor = c.cursor
      /\ d.entries = c.entries /\ d.seen = c.seen /\ d.total = c.total /\ d.entryIds = n
  BY <1>5 DEF Takings, Apace
<1> HIDE DEF d
<1>8. Apace(x, d)
  BY <1>1, <1>3, <1>5, <1>7 DEF Apace
<1> QED BY <1>1, <1>3, <1>5, <1>6, <1>7, <1>8 DEF y

(* TakeEntry does one of the three. *)
LEMMA TakeEntryIs ==
  ASSUME NEW x \in Takings, NEW entry \in StoreEntries
  PROVE  LET y == TakeEntry(x, entry) IN
         /\ y \in Takings /\ Apace(x, y)
         /\ Skips(x, entry, y) \/ Keeps(x, entry, y) \/ Renames(x, entry, y)
<1> DEFINE y == TakeEntry(x, entry)
           u == Uncursored(x, entry.id)
           n == Counter(x.entryIds, {entry.id})
           renamed == [entry EXCEPT !.id = x.entryIds]
           kept == [x EXCEPT !.entries = Append(@, entry), !.seen = @ \cup {entry.id},
                             !.total = @ + 1, !.entryIds = n]
           called == [u EXCEPT !.entries = Append(@, renamed), !.seen = @ \cup {x.entryIds},
                               !.total = @ + 1, !.entryIds = @ + 1]
<1>1. /\ x.entryIds \in Identifiers /\ x.entryIds \in Nat /\ x.total \in Nat /\ EntryCap \in Nat
      /\ entry.id \in Nat /\ entry.id \in Identifiers /\ x.entries \in Seq(StoreEntries)
      /\ x.seen \in SUBSET Nat
  BY StoreAssumption DEF Takings, StoreEntries, Identifiers
<1>2. /\ u \in Takings /\ Apace(x, u) /\ u.cursor \in {x.cursor, None}
      /\ u.entries = x.entries /\ u.seen = x.seen /\ u.total = x.total /\ u.entryIds = x.entryIds
  BY UncursoredIs
<1>3. n = (IF entry.id < x.entryIds THEN x.entryIds ELSE entry.id + 1) /\ n \in Identifiers
  BY <1>1, CounterOne DEF Identifiers, None
<1>4. renamed \in StoreEntries
  BY <1>1 DEF StoreEntries
<1>6. /\ x.total >= EntryCap => y = u
      /\ x.total < EntryCap /\ entry.id \notin x.seen => y = kept
      /\ x.total < EntryCap /\ entry.id \in x.seen => y = u \/ y = called
  BY <1>1 DEF TakeEntry
<1> HIDE DEF u, n, renamed, y
<1>7. /\ kept \in Takings /\ Apace(x, kept) /\ kept.cursor = x.cursor
      /\ kept.entries = Append(x.entries, entry) /\ kept.seen = x.seen \cup {entry.id}
      /\ kept.total = x.total + 1 /\ kept.entryIds = n
  <2> DEFINE longer == Append(x.entries, entry)
             seen == x.seen \cup {entry.id}
  <2>1. longer \in Seq(StoreEntries) /\ seen \in SUBSET Nat
    BY <1>1
  <2> HIDE DEF longer, seen
  <2>2. kept = Grown(x, longer, seen, n)
    BY DEF longer, seen, Takings, Grown
  <2> HIDE DEF kept
  <2>3. kept \in Takings /\ Apace(x, kept) /\ kept.cursor = x.cursor
        /\ kept.entries = longer /\ kept.seen = seen /\ kept.total = x.total + 1 /\ kept.entryIds = n
    BY <1>3, <2>1, <2>2, TakingGrows
  <2> QED BY <2>3 DEF longer, seen
<1>8. /\ called \in Takings /\ Apace(x, called) /\ called.cursor \in {x.cursor, None}
      /\ called.entries = Append(x.entries, renamed) /\ called.seen = x.seen \cup {x.entryIds}
      /\ called.total = x.total + 1 /\ called.entryIds = x.entryIds + 1
  <2> DEFINE longer == Append(x.entries, renamed)
             seen == x.seen \cup {x.entryIds}
  <2>1. longer \in Seq(StoreEntries) /\ seen \in SUBSET Nat
    BY <1>1, <1>4
  <2> HIDE DEF longer, seen
  <2>2. called = Grown(u, longer, seen, x.entryIds + 1)
    BY <1>2 DEF longer, seen, Takings, Grown
  <2> HIDE DEF called
  <2>4. x.entryIds + 1 \in Identifiers
    BY <1>1 DEF Identifiers, None
  <2>3. called \in Takings /\ Apace(u, called) /\ called.cursor = u.cursor
        /\ called.entries = longer /\ called.seen = seen /\ called.total = x.total + 1
        /\ called.entryIds = x.entryIds + 1
    BY <1>2, <2>1, <2>2, <2>4, TakingGrows
  <2> QED BY <1>2, <2>3 DEF longer, seen, Apace
<1> HIDE DEF kept, called
<1>9. CASE x.total >= EntryCap
  BY <1>2, <1>6, <1>9 DEF Skips, y
<1>10. CASE x.total < EntryCap /\ entry.id \notin x.seen
  BY <1>3, <1>6, <1>7, <1>10 DEF Keeps, y
<1>11. CASE x.total < EntryCap /\ entry.id \in x.seen
  <2>1. CASE y = u
    BY <1>2, <1>11, <2>1 DEF Skips, y
  <2>2. CASE y = called
    BY <1>8, <1>11, <2>2 DEF Renames, renamed, y
  <2> QED BY <1>6, <1>11, <2>1, <2>2
<1> QED BY <1>1, <1>9, <1>10, <1>11

(* Recovery takes the entries of a list one after another. *)
LEMMA TakesFold ==
  ASSUME NEW r \in Takings, NEW seq \in Seq(StoreEntries)
  PROVE  \E g \in [0 .. Len(seq) -> Takings] :
            /\ g[0] = r /\ g[Len(seq)] = FoldLeft(TakeEntry, r, seq)
            /\ \A m \in 1 .. Len(seq) : g[m] = TakeEntry(g[m - 1], seq[m])
<1> DEFINE D == DOMAIN seq
           F == [p \in Takings \X StoreEntries |-> TakeEntry(p[1], p[2])]
           Is(f) == f = [s \in SUBSET D |->
                          IF s = {} THEN r ELSE TakeEntry(f[s \ {Max(s)}], seq[Max(s)])]
           iter == CHOOSE f : Is(f)
<1>1. Len(seq) \in Nat /\ D = 1 .. Len(seq)
  OBVIOUS
<1>2. FoldLeft(TakeEntry, r, seq) = iter[D]
  BY DEF FoldLeft, MapThenFoldSet
<1>3. F \in [Takings \X StoreEntries -> Takings]
  BY TakeEntryIs
<1>4. \A x \in Takings, entry \in StoreEntries : F[<<x, entry>>] = TakeEntry(x, entry)
  OBVIOUS
<1> HIDE DEF F
<1>5. \A s \in SUBSET D : s # {} => Max(s) \in D /\ seq[Max(s)] \in StoreEntries
  <2> SUFFICES ASSUME NEW s \in SUBSET D, s # {}
               PROVE  Max(s) \in D /\ seq[Max(s)] \in StoreEntries
    OBVIOUS
  <2>1. s \in SUBSET (1 .. Len(seq))
    BY <1>1
  <2>2. Max(s) \in s
    BY <1>1, <2>1, MaxOfPrefix
  <2> QED BY <2>2
<1>6. \E f : Is(f)
  <2>0. PICK h : FoldsOver(h, Takings, r, seq, F)
    BY <1>3, Unfolds
  <2>1. /\ h \in [SUBSET D -> Takings]
        /\ \A s \in SUBSET D :
              h[s] = IF s = {} THEN r ELSE F[<<h[s \ {Max(s)}], seq[Max(s)]>>]
    BY <2>0 DEF FoldsOver
  <2>2. ASSUME NEW s \in SUBSET D
        PROVE  h[s] = IF s = {} THEN r ELSE TakeEntry(h[s \ {Max(s)}], seq[Max(s)])
    BY <1>4, <1>5, <2>1
  <2>3. Is(h)
    BY <2>1, <2>2
  <2> HIDE DEF Is
  <2> QED BY <2>3
<1>7. Is(iter)
  <2> HIDE DEF Is
  <2> QED BY <1>6
<1> HIDE DEF iter
<1>8. FoldsWithin(iter, Takings, r, seq, F)
  BY <1>4, <1>5, <1>7 DEF FoldsWithin
<1> HIDE DEF Is
<1>0. PICK g : FoldsAlong(g, Takings, r, seq, F, iter)
  BY <1>3, <1>8, UnfoldsTo
<1>9. /\ g \in [0 .. Len(seq) -> Takings] /\ g[0] = r /\ g[Len(seq)] = iter[D]
      /\ \A m \in 1 .. Len(seq) : g[m] = F[<<g[m - 1], seq[m]>>]
  BY <1>0 DEF FoldsAlong
<1>10. ASSUME NEW m \in 1 .. Len(seq) PROVE g[m] = TakeEntry(g[m - 1], seq[m])
  <2>1. m - 1 \in 0 .. Len(seq) /\ m \in D
    BY <1>1
  <2>2. g[m - 1] \in Takings /\ seq[m] \in StoreEntries
    BY <1>9, <2>1
  <2> QED BY <1>4, <1>9, <2>2
<1> QED BY <1>0, <1>2, <1>9, <1>10

(* Ids and Once read the entries of a list, or those recovered so far. *)
Once(list) == \A i, j \in DOMAIN list.entries : list.entries[i].id = list.entries[j].id => i = j

Longer(x, y, entry) ==
    /\ y.entries \in Seq(StoreEntries) /\ Len(y.entries) = Len(x.entries) + 1
    /\ \A i \in DOMAIN x.entries : i \in DOMAIN y.entries /\ y.entries[i] = x.entries[i]
    /\ y.entries[Len(x.entries) + 1] = entry
    /\ Ids(y) = Ids(x) \union {entry.id}
    /\ Once(x) /\ entry.id \notin Ids(x) => Once(y)

(* An entry at the end adds its id, and no two are alike if it is a new one. *)
LEMMA OneMore ==
  ASSUME NEW x, NEW y, NEW entry \in StoreEntries, x.entries \in Seq(StoreEntries),
         y.entries = Append(x.entries, entry)
  PROVE  Longer(x, y, entry)
<1>1. PICK s \in Seq(StoreEntries) : s = x.entries
  OBVIOUS
<1>2. PICK t : t = y.entries
  OBVIOUS
<1>3. Len(s) \in Nat /\ DOMAIN s = 1 .. Len(s)
  OBVIOUS
<1>4. t = Append(s, entry)
  BY <1>1, <1>2
<1>5. /\ t \in Seq(StoreEntries) /\ Len(t) = Len(s) + 1 /\ t[Len(s) + 1] = entry
      /\ \A i \in 1 .. Len(s) : t[i] = s[i]
  BY <1>4, AppendProperties
<1>6. DOMAIN t = 1 .. Len(s) + 1 /\ \A i \in DOMAIN s : i \in DOMAIN t
  BY <1>3, <1>5
<1>7. \A i \in DOMAIN t : i \in DOMAIN s \/ i = Len(s) + 1
  BY <1>3, <1>6
<1>8. Len(s) + 1 \in DOMAIN t /\ Len(s) + 1 \notin DOMAIN s
  BY <1>3, <1>6
<1>9. Ids(y) = {t[i].id : i \in DOMAIN t} /\ Ids(x) = {s[i].id : i \in DOMAIN s}
  BY <1>1, <1>2 DEF Ids
<1>10. Ids(y) = Ids(x) \union {entry.id}
  BY <1>3, <1>5, <1>6, <1>7, <1>8, <1>9
<1>11. ASSUME Once(x), entry.id \notin Ids(x) PROVE Once(y)
  <2>1. \A i, j \in DOMAIN s : s[i].id = s[j].id => i = j
    BY <1>1, <1>11 DEF Once
  <2>2. \A i \in DOMAIN s : s[i].id # entry.id
    BY <1>9, <1>11
  <2>3. \A i, j \in DOMAIN t : t[i].id = t[j].id => i = j
    BY <1>3, <1>5, <1>7, <2>1, <2>2
  <2> QED BY <1>2, <2>3 DEF Once
<1> QED BY <1>1, <1>2, <1>3, <1>5, <1>6, <1>10, <1>11 DEF Longer

(* What recovery has counted, and what it has of the list it began with r. *)
Tallied(x) ==
    /\ IsFiniteSet(x.seen) /\ Cardinality(x.seen) = x.total /\ x.total <= EntryCap
    /\ \A id \in x.seen : id < x.entryIds
Taken(r, x) ==
    /\ x \in Takings /\ Apace(r, x) /\ Tallied(x) /\ r.entryIds <= x.entryIds
    /\ x.seen = r.seen \union Ids(x) /\ Ids(x) \cap r.seen = {} /\ Once(x)

(* An entry with a new id, below the counter, keeps the count. *)
LEMMA TakesOneMore ==
  ASSUME NEW r \in Takings, NEW x, Taken(r, x), NEW y \in Takings, Apace(x, y),
         NEW entry \in StoreEntries, entry.id \notin x.seen, x.total < EntryCap,
         y.entries = Append(x.entries, entry), y.seen = x.seen \union {entry.id},
         y.total = x.total + 1, x.entryIds <= y.entryIds, entry.id < y.entryIds
  PROVE  Taken(r, y)
<1>1. /\ x \in Takings /\ x.entries \in Seq(StoreEntries) /\ x.total \in Nat /\ EntryCap \in Nat
      /\ x.entryIds \in Nat /\ y.entryIds \in Nat /\ r.entryIds \in Nat /\ x.seen \in SUBSET Nat
      /\ entry.id \in Nat
  BY StoreAssumption DEF Taken, Takings, Identifiers, StoreEntries
<1>2. Ids(y) = Ids(x) \union {entry.id} /\ (Once(x) /\ entry.id \notin Ids(x) => Once(y))
  <2>1. Longer(x, y, entry)
    BY <1>1, OneMore
  <2> QED BY <2>1 DEF Longer
<1>0. /\ IsFiniteSet(x.seen) /\ Cardinality(x.seen) = x.total
      /\ \A id \in x.seen : id < x.entryIds
  BY DEF Taken, Tallied
<1>3. Cardinality(x.seen \union {entry.id}) = x.total + 1 /\ IsFiniteSet(x.seen \union {entry.id})
  BY <1>0, FS_AddElement
<1>4. \A id \in x.seen \union {entry.id} : id < y.entryIds
  <2> SUFFICES ASSUME NEW id \in x.seen \union {entry.id} PROVE id < y.entryIds
    OBVIOUS
  <2>1. CASE id = entry.id
    BY <2>1
  <2>2. CASE id \in x.seen
    <3>1. id \in Nat /\ id < x.entryIds
      BY <1>0, <1>1, <2>2
    <3> QED BY <1>1, <3>1
  <2> QED BY <2>1, <2>2
<1>5. Tallied(y)
  BY <1>1, <1>3, <1>4 DEF Tallied
<1>6. Once(y) /\ y.seen = r.seen \union Ids(y) /\ Ids(y) \cap r.seen = {}
  BY <1>2 DEF Taken
<1>7. Apace(r, y) /\ r.entryIds <= y.entryIds
  BY <1>1 DEF Apace, Taken
<1> QED BY <1>5, <1>6, <1>7 DEF Taken

(* So does every entry, whichever of the three becomes of it. *)
LEMMA TakesOn ==
  ASSUME NEW r \in Takings, NEW x, Taken(r, x), NEW entry \in StoreEntries, NEW y,
         y = TakeEntry(x, entry)
  PROVE  Taken(r, y) /\ (Skips(x, entry, y) \/ Keeps(x, entry, y) \/ Renames(x, entry, y))
<1>1. /\ x \in Takings /\ y \in Takings /\ Apace(x, y)
      /\ Skips(x, entry, y) \/ Keeps(x, entry, y) \/ Renames(x, entry, y)
  BY TakeEntryIs DEF Taken
<1>2. x.entryIds \in Nat /\ x.entryIds \in Identifiers /\ entry.id \in Nat /\ x.seen \in SUBSET Nat
  BY <1>1 DEF Takings, Identifiers, StoreEntries
<1>3. CASE Skips(x, entry, y)
  BY <1>1, <1>3 DEF Skips, Taken, Tallied, Apace, Ids, Once
<1>4. CASE Keeps(x, entry, y)
  <2>1. x.entryIds <= y.entryIds /\ entry.id < y.entryIds
    BY <1>2, <1>4 DEF Keeps
  <2> QED BY <1>1, <1>4, <2>1, TakesOneMore DEF Keeps
<1>5. CASE Renames(x, entry, y)
  <2> DEFINE called == [entry EXCEPT !.id = x.entryIds]
  <2>1. called \in StoreEntries /\ called.id = x.entryIds
    BY <1>2 DEF StoreEntries
  <2> HIDE DEF called
  <2>2. x.entryIds \notin x.seen
    BY <1>2 DEF Taken, Tallied
  <2>3. x.entryIds <= y.entryIds /\ x.entryIds < y.entryIds
    BY <1>2, <1>5 DEF Renames
  <2>4. y.entries = Append(x.entries, called) /\ y.seen = x.seen \union {called.id}
    BY <1>5, <2>1 DEF Renames, called
  <2> QED BY <1>1, <1>5, <2>1, <2>2, <2>3, <2>4, TakesOneMore DEF Renames
<1> QED BY <1>1, <1>3, <1>4, <1>5

(* Each entry so far is in, or its id was another list's, or the cap is met.   *)
Different(seq) == \A i, j \in DOMAIN seq : seq[i].id = seq[j].id => i = j
Below(seq, n) == \A i \in DOMAIN seq : seq[i].id < n
Settled(r, x, seq, m) ==
    /\ \A id \in x.seen :
          id \in r.seen \/ r.entryIds <= id \/ \E j \in 1 .. m : seq[j].id = id
    /\ \A i \in 1 .. m : seq[i].id \in r.seen \/ seq[i] \in ToSet(x.entries) \/ x.total = EntryCap

(* One entry on: the earlier ones stay in. *)
LEMMA SettlesOn ==
  ASSUME NEW r \in Takings, NEW x, Taken(r, x), NEW y, NEW seq \in Seq(StoreEntries),
         Different(seq), Below(seq, r.entryIds), NEW m \in 1 .. Len(seq),
         Settled(r, x, seq, m - 1), y = TakeEntry(x, seq[m])
  PROVE  Settled(r, y, seq, m)
<1> DEFINE entry == seq[m]
<1>0. /\ m \in Nat /\ m \in DOMAIN seq /\ entry \in StoreEntries
      /\ \A i \in 1 .. m : i \in DOMAIN seq /\ (i \in 1 .. m - 1 \/ i = m)
      /\ \A i \in 1 .. m - 1 : i \in 1 .. m /\ i # m
      /\ m \in 1 .. m
  OBVIOUS
<1>1. /\ Taken(r, y)
      /\ Skips(x, entry, y) \/ Keeps(x, entry, y) \/ Renames(x, entry, y)
  BY <1>0, TakesOn
<1>2. /\ x \in Takings /\ y \in Takings /\ x.entryIds \in Nat /\ r.entryIds \in Nat
      /\ r.entryIds <= x.entryIds /\ x.total \in Nat /\ EntryCap \in Nat /\ y.total <= EntryCap
      /\ entry.id \in Nat /\ x.entries \in Seq(StoreEntries) /\ y.total \in Nat
      /\ x.total <= EntryCap /\ entry.id < r.entryIds
  BY <1>0, <1>1, StoreAssumption DEF Taken, Takings, Identifiers, StoreEntries, Tallied, Below
<1>3. \A id \in y.seen : id \in x.seen \/ id = entry.id \/ r.entryIds <= id
  BY <1>1, <1>2 DEF Skips, Keeps, Renames
<1>4. \A id \in y.seen :
         id \in r.seen \/ r.entryIds <= id \/ \E j \in 1 .. m : seq[j].id = id
  <2> SUFFICES ASSUME NEW id \in y.seen, id \notin r.seen, ~(r.entryIds <= id)
               PROVE  \E j \in 1 .. m : seq[j].id = id
    OBVIOUS
  <2>1. CASE id = entry.id
    BY <1>0, <2>1
  <2>2. CASE id \in x.seen
    <3>1. PICK j \in 1 .. m - 1 : seq[j].id = id
      BY <2>2 DEF Settled
    <3> QED BY <1>0, <3>1
  <2> QED BY <1>3, <2>1, <2>2
<1>5. entry.id \in x.seen => entry.id \in r.seen
  <2> SUFFICES ASSUME entry.id \in x.seen, entry.id \notin r.seen PROVE FALSE
    OBVIOUS
  <2>1. ~(r.entryIds <= entry.id)
    BY <1>2
  <2>2. PICK j \in 1 .. m - 1 : seq[j].id = entry.id
    BY <2>1 DEF Settled
  <2>3. j \in DOMAIN seq /\ j # m
    BY <1>0
  <2> QED BY <1>0, <2>2, <2>3 DEF Different
<1>6. \A e \in ToSet(x.entries) : e \in ToSet(y.entries)
  <2>1. CASE y.entries = x.entries
    BY <2>1
  <2>2. ASSUME NEW e \in StoreEntries, y.entries = Append(x.entries, e)
        PROVE  \A f \in ToSet(x.entries) : f \in ToSet(y.entries)
    <3>1. \A i \in DOMAIN x.entries : i \in DOMAIN y.entries /\ y.entries[i] = x.entries[i]
      BY <1>2, <2>2, OneMore DEF Longer
    <3> QED BY <3>1 DEF ToSet
  <2>3. [entry EXCEPT !.id = x.entryIds] \in StoreEntries
    BY <1>0, <1>2 DEF StoreEntries, Takings
  <2> QED BY <1>0, <1>1, <2>1, <2>2, <2>3 DEF Skips, Keeps, Renames
<1>7. x.total <= y.total
  BY <1>1, <1>2 DEF Skips, Keeps, Renames
<1>8. entry.id \in r.seen \/ entry \in ToSet(y.entries) \/ y.total = EntryCap
  <2>1. CASE Keeps(x, entry, y)
    <3>1. y.entries = Append(x.entries, entry)
      BY <2>1 DEF Keeps
    <3>2. y.entries[Len(x.entries) + 1] = entry /\ Len(y.entries) = Len(x.entries) + 1
          /\ y.entries \in Seq(StoreEntries)
      BY <1>0, <1>2, <3>1, OneMore DEF Longer
    <3>3. Len(x.entries) + 1 \in DOMAIN y.entries
      BY <1>2, <3>2
    <3> QED BY <3>2, <3>3 DEF ToSet
  <2>2. CASE Skips(x, entry, y) \/ Renames(x, entry, y)
    BY <1>2, <1>5, <1>7, <2>2 DEF Skips, Renames
  <2> QED BY <1>1, <2>1, <2>2
<1>9. ASSUME NEW i \in 1 .. m
      PROVE  seq[i].id \in r.seen \/ seq[i] \in ToSet(y.entries) \/ y.total = EntryCap
  <2>1. CASE i = m
    BY <1>8, <2>1
  <2>2. CASE i \in 1 .. m - 1
    <3>1. seq[i].id \in r.seen \/ seq[i] \in ToSet(x.entries) \/ x.total = EntryCap
      BY <2>2 DEF Settled
    <3> QED BY <1>2, <1>6, <1>7, <3>1
  <2> QED BY <1>0, <2>1, <2>2
<1> QED BY <1>4, <1>9 DEF Settled

(* All of a list's entries are in, and in their order, when their ids are new  *)
(* and the cap leaves room for them.                                           *)
Whole(r, x, seq, m) ==
    /\ Len(x.entries) = m /\ \A i \in 1 .. m : x.entries[i] = seq[i]
    /\ x.cursor = r.cursor /\ x.entryIds = r.entryIds
Roomy(r, seq) ==
    /\ \A i \in DOMAIN seq : seq[i].id \notin r.seen
    /\ \E all : /\ IsFiniteSet(all) /\ Cardinality(all) <= EntryCap
                /\ r.seen \in SUBSET all /\ \A i \in DOMAIN seq : seq[i].id \in all

(* One entry on: none is left out or renamed. *)
LEMMA WholeSoFar ==
  ASSUME NEW r \in Takings, NEW x, Taken(r, x), NEW y, NEW seq \in Seq(StoreEntries),
         Different(seq), Below(seq, r.entryIds), Roomy(r, seq), NEW m \in 1 .. Len(seq),
         Whole(r, x, seq, m - 1), y = TakeEntry(x, seq[m])
  PROVE  Whole(r, y, seq, m)
<1> DEFINE entry == seq[m]
<1>0. /\ m \in Nat /\ m \in DOMAIN seq /\ entry \in StoreEntries /\ m - 1 \in Nat
      /\ \A i \in 1 .. m : i \in DOMAIN seq /\ (i \in 1 .. m - 1 \/ i = m)
      /\ \A i \in 1 .. m - 1 : i \in 1 .. m /\ i # m
  OBVIOUS
<1>1. /\ Taken(r, y)
      /\ Skips(x, entry, y) \/ Keeps(x, entry, y) \/ Renames(x, entry, y)
  BY <1>0, TakesOn
<1>2. /\ x \in Takings /\ x.entryIds \in Nat /\ x.entries \in Seq(StoreEntries)
      /\ x.total \in Nat /\ EntryCap \in Nat /\ entry.id \in Nat /\ entry.id < x.entryIds
      /\ DOMAIN x.entries = 1 .. m - 1
  BY <1>0, StoreAssumption DEF Taken, Takings, Identifiers, StoreEntries, Below, Whole
<1>3. entry.id \notin x.seen
  <2> SUFFICES ASSUME entry.id \in x.seen PROVE FALSE
    OBVIOUS
  <2>1. entry.id \in Ids(x)
    BY <1>0 DEF Taken, Roomy
  <2>2. PICK i \in DOMAIN x.entries : x.entries[i].id = entry.id
    BY <2>1 DEF Ids
  <2>3. i \in 1 .. m - 1 /\ seq[i].id = entry.id
    BY <1>2, <2>2 DEF Whole
  <2>4. i \in DOMAIN seq /\ i # m
    BY <1>0, <2>3
  <2> QED BY <1>0, <2>3, <2>4 DEF Different
<1>4. x.total < EntryCap
  <2>1. PICK all : /\ IsFiniteSet(all) /\ Cardinality(all) <= EntryCap
                   /\ r.seen \in SUBSET all /\ \A i \in DOMAIN seq : seq[i].id \in all
    BY DEF Roomy
  <2>2. \A id \in Ids(x) : id \in all
    <3> SUFFICES ASSUME NEW i \in DOMAIN x.entries PROVE x.entries[i].id \in all
      BY DEF Ids
    <3>1. i \in 1 .. m - 1 /\ x.entries[i] = seq[i]
      BY <1>2 DEF Whole
    <3> QED BY <1>0, <2>1, <3>1
  <2>3. x.seen \union {entry.id} \in SUBSET all
    BY <1>0, <2>1, <2>2 DEF Taken
  <2>4. Cardinality(x.seen \union {entry.id}) = x.total + 1
    BY <1>3, FS_AddElement DEF Taken, Tallied
  <2>5. Cardinality(x.seen \union {entry.id}) <= Cardinality(all) /\ Cardinality(all) \in Nat
    BY <2>1, <2>3, FS_Subset, FS_CardinalityType
  <2> QED BY <1>2, <2>1, <2>4, <2>5
<1>5. Keeps(x, entry, y)
  BY <1>1, <1>2, <1>3, <1>4 DEF Skips, Renames
<1>6. y.entries = Append(x.entries, entry) /\ y.cursor = x.cursor /\ y.entryIds = x.entryIds
  BY <1>2, <1>5 DEF Keeps
<1>7. /\ Len(y.entries) = Len(x.entries) + 1 /\ y.entries[Len(x.entries) + 1] = entry
      /\ \A i \in DOMAIN x.entries : y.entries[i] = x.entries[i]
  BY <1>0, <1>2, <1>6, OneMore DEF Longer
<1>8. Len(y.entries) = m /\ y.entries[m] = entry
  BY <1>0, <1>7 DEF Whole
<1>9. \A i \in 1 .. m : y.entries[i] = seq[i]
  BY <1>0, <1>2, <1>7, <1>8 DEF Whole
<1> QED BY <1>6, <1>8, <1>9 DEF Whole

(* All the entries of a list. *)
LEMMA TakesList ==
  ASSUME NEW r \in Takings, Tallied(r), r.entries = <<>>, NEW seq \in Seq(StoreEntries), NEW x,
         x = FoldLeft(TakeEntry, r, seq)
  PROVE  /\ Taken(r, x)
         /\ Different(seq) /\ Below(seq, r.entryIds) =>
               /\ Settled(r, x, seq, Len(seq))
               /\ Roomy(r, seq) => Whole(r, x, seq, Len(seq))
<1> DEFINE Tell == Different(seq) /\ Below(seq, r.entryIds)
           Fit == Tell /\ Roomy(r, seq)
           Tells(y, m) == Tell => Settled(r, y, seq, m)
           Suits(y, m) == Fit => Whole(r, y, seq, m)
<1>1. PICK g \in [0 .. Len(seq) -> Takings] :
            /\ g[0] = r /\ g[Len(seq)] = FoldLeft(TakeEntry, r, seq)
            /\ \A m \in 1 .. Len(seq) : g[m] = TakeEntry(g[m - 1], seq[m])
  BY TakesFold
<1> DEFINE P == {m \in 0 .. Len(seq) : Taken(r, g[m]) /\ Tells(g[m], m) /\ Suits(g[m], m)}
<1>2. Len(seq) \in Nat
  OBVIOUS
<1>3. Ids(r) = {} /\ Once(r) /\ r.entryIds \in Nat
  BY DEF Ids, Once, Takings, Identifiers
<1>4. Taken(r, r)
  BY <1>3 DEF Taken, Apace
<1>5. Settled(r, r, seq, 0)
  BY DEF Settled
<1>6. Whole(r, r, seq, 0)
  BY DEF Whole
<1>7. 0 \in P
  BY <1>1, <1>2, <1>4, <1>5, <1>6
<1>8. ASSUME NEW m \in 0 .. Len(seq), m \in P, m < Len(seq) PROVE m + 1 \in P
  <2>1. m + 1 \in 1 .. Len(seq) /\ (m + 1) - 1 = m /\ m + 1 \in 0 .. Len(seq) /\ m + 1 \in DOMAIN seq
    BY <1>2, <1>8
  <2>2. g[m + 1] = TakeEntry(g[m], seq[m + 1]) /\ seq[m + 1] \in StoreEntries
    BY <1>1, <2>1
  <2>3. Taken(r, g[m]) /\ Tells(g[m], m) /\ Suits(g[m], m)
    BY <1>8
  <2>4. Taken(r, g[m + 1])
    BY <2>2, <2>3, TakesOn
  <2>5. Tells(g[m + 1], m + 1)
    <3> SUFFICES ASSUME Tell PROVE Settled(r, g[m + 1], seq, m + 1)
      OBVIOUS
    <3>1. Settled(r, g[m], seq, (m + 1) - 1)
      BY <2>1, <2>3
    <3> QED BY <2>1, <2>2, <2>3, <3>1, SettlesOn
  <2>6. Suits(g[m + 1], m + 1)
    <3> SUFFICES ASSUME Fit PROVE Whole(r, g[m + 1], seq, m + 1)
      OBVIOUS
    <3>1. Whole(r, g[m], seq, (m + 1) - 1)
      BY <2>1, <2>3
    <3> QED BY <2>1, <2>2, <2>3, <3>1, WholeSoFar
  <2> HIDE DEF Tells, Suits
  <2> QED BY <2>1, <2>4, <2>5, <2>6
<1> HIDE DEF P
<1>9. \A m \in 0 .. Len(seq) : m \in P
  BY <1>2, <1>7, <1>8, Climbs
<1>10. Len(seq) \in P
  BY <1>2, <1>9
<1> QED BY <1>1, <1>10 DEF P

-----------------------------------------------------------------------------
(* The lists recovered so far. *)
IdsIn(lists) == UNION {Ids(lists[k]) : k \in DOMAIN lists}
OwnList(list) == Once(list) /\ list.cursor \in Ids(list) \union {None}
Apart(a, b) == a.id # b.id /\ Ids(a) \cap Ids(b) = {}
ListsSound(lists) ==
    /\ \A k \in DOMAIN lists : OwnList(lists[k])
    /\ \A k, l \in DOMAIN lists : k # l => Apart(lists[k], lists[l])
Ready(x) ==
    /\ x \in Takings /\ Tallied(x) /\ ListsSound(x.lists)
    /\ x.seen = IdsIn(x.lists) /\ x.seenLists = {x.lists[k].id : k \in DOMAIN x.lists}
    /\ \A id \in x.seenLists : id < x.listIds

Joins(lists, list, more) ==
    /\ more \in Seq(StoreLists) /\ ListsSound(more) /\ Len(more) = Len(lists) + 1
    /\ more[Len(lists) + 1] = list /\ \A k \in DOMAIN lists : more[k] = lists[k]
    /\ IdsIn(more) = IdsIn(lists) \union Ids(list)
    /\ {more[k].id : k \in DOMAIN more} = {lists[k].id : k \in DOMAIN lists} \union {list.id}

(* A list of its own name and ids at the end of sound lists. *)
LEMMA ListAppended ==
  ASSUME NEW lists \in Seq(StoreLists), ListsSound(lists), NEW list \in StoreLists, OwnList(list),
         list.id \notin {lists[k].id : k \in DOMAIN lists}, Ids(list) \cap IdsIn(lists) = {},
         NEW more, more = Append(lists, list)
  PROVE  Joins(lists, list, more)
<1> DEFINE n == Len(lists) + 1
<1>1. Len(lists) \in Nat /\ DOMAIN lists = 1 .. Len(lists)
  OBVIOUS
<1>2. /\ more \in Seq(StoreLists) /\ Len(more) = n /\ more[n] = list
      /\ \A k \in 1 .. Len(lists) : more[k] = lists[k]
  BY AppendProperties
<1>3. /\ DOMAIN more = 1 .. n /\ n \in DOMAIN more /\ n \notin DOMAIN lists
      /\ \A k \in DOMAIN lists : k \in DOMAIN more /\ more[k] = lists[k]
      /\ \A k \in DOMAIN more : k \in DOMAIN lists \/ k = n
  BY <1>1, <1>2
<1> HIDE DEF n
<1>4. IdsIn(more) = IdsIn(lists) \union Ids(list)
  BY <1>2, <1>3 DEF IdsIn
<1>5. {more[k].id : k \in DOMAIN more} = {lists[k].id : k \in DOMAIN lists} \union {list.id}
  BY <1>2, <1>3
<1>6. \A k \in DOMAIN lists : Apart(lists[k], list) /\ Apart(list, lists[k])
  BY DEF Apart, IdsIn
<1>7. \A k, l \in DOMAIN lists : k # l => Apart(lists[k], lists[l])
  BY DEF ListsSound
<1>8. \A k, l \in DOMAIN more : k # l => Apart(more[k], more[l])
  BY <1>2, <1>3, <1>6, <1>7
<1>9. \A k \in DOMAIN more : OwnList(more[k])
  BY <1>2, <1>3 DEF ListsSound
<1> QED BY <1>1, <1>2, <1>3, <1>4, <1>5, <1>8, <1>9 DEF ListsSound, n, Joins

(* What decodes of a record is all of its entries, or none. *)
LEMMA DecodedIs ==
  ASSUME NEW record \in Records
  PROVE  LET seq == Decoded(record) IN
         /\ seq \in Seq(StoreEntries) /\ Different(seq)
         /\ \A i \in DOMAIN seq : i \in DOMAIN record.entries /\ seq[i] = record.entries[i]
         /\ \A i \in DOMAIN seq : seq[i].id \in Ids(record)
<1>1. record.entries \in Seq(StoreEntries)
  BY DEF Records
<1>2. PICK seq : seq = Decoded(record)
  OBVIOUS
<1>3. CASE seq = <<>>
  BY <1>2, <1>3 DEF Different
<1>4. CASE seq # <<>>
  <2>1. seq = record.entries
    BY <1>2, <1>4 DEF Decoded
  <2>2. IsInjective([i \in DOMAIN record.entries |-> record.entries[i].id])
    BY <1>2, <1>4 DEF Decoded
  <2>3. Different(seq)
    BY <2>1, <2>2 DEF IsInjective, Different
  <2>4. \A i \in DOMAIN seq : seq[i].id \in Ids(record)
    BY <2>1 DEF Ids
  <2> QED BY <1>1, <1>2, <2>1, <2>3, <2>4
<1> QED BY <1>3, <1>4

(* What a record adds: a list under its own name or a new one, with the        *)
(* entries taken from it; or nothing, when no name is left.                    *)
Started(x, record, r) ==
    /\ r \in Takings /\ Apace(x, r) /\ r.entries = <<>> /\ r.cursor = record.cursor
    /\ r.seen = x.seen /\ r.total = x.total /\ r.entryIds = x.entryIds
NameOf(x, record) ==
    IF record.id # None /\ record.id \notin x.seenLists THEN record.id ELSE x.listIds
Anchored(took, record, list) ==
    list.cursor = IF \E i \in DOMAIN took.entries : took.entries[i].id = took.cursor
                  THEN took.cursor ELSE None
Pushes(x, record, r, took, list, y) ==
    /\ Started(x, record, r) /\ took = FoldLeft(TakeEntry, r, Decoded(record))
    /\ list \in StoreLists /\ list.id = NameOf(x, record) /\ list.entries = took.entries
    /\ Anchored(took, record, list)
    /\ y \in Takings /\ y.lists = Append(x.lists, list)
    /\ y.seenLists = x.seenLists \union {list.id}
    /\ y.seen = took.seen /\ y.total = took.total /\ y.entryIds = took.entryIds
    /\ y.listIds = IF list.id < x.listIds THEN x.listIds ELSE list.id + 1

Begun(x, cursor) == [x EXCEPT !.entries = <<>>, !.cursor = cursor]
Added(x, lists, seenLists, next) ==
    [x EXCEPT !.lists = lists, !.seenLists = seenLists, !.listIds = next]

(* A list begins with no entry and the cursor of its record. *)
LEMMA TakingBegins ==
  ASSUME NEW x \in Takings, NEW cursor \in Nat
  PROVE  LET y == Begun(x, cursor) IN
         /\ y \in Takings /\ Apace(x, y) /\ y.entries = <<>> /\ y.cursor = cursor
         /\ y.seen = x.seen /\ y.total = x.total /\ y.entryIds = x.entryIds
<1> DEFINE a == [x EXCEPT !.entries = <<>>]
           b == [a EXCEPT !.cursor = cursor]
<1>1. /\ a \in Takings /\ Apace(x, a) /\ a.entries = <<>>
      /\ a.seen = x.seen /\ a.total = x.total /\ a.entryIds = x.entryIds
  <2>1. <<>> \in Seq(StoreEntries)
    OBVIOUS
  <2> QED BY <2>1 DEF Takings, Apace
<1>2. Begun(x, cursor) = b
  BY DEF Begun, Takings
<1> HIDE DEF a
<1>3. /\ b \in Takings /\ Apace(a, b) /\ b.entries = a.entries /\ b.cursor = cursor
      /\ b.seen = a.seen /\ b.total = a.total /\ b.entryIds = a.entryIds
  BY <1>1 DEF Takings, Apace
<1> HIDE DEF b
<1> QED BY <1>1, <1>2, <1>3 DEF Apace

Adds(x, lists, seenLists, next, y) ==
    /\ y \in Takings /\ y.lists = lists /\ y.seenLists = seenLists /\ y.listIds = next
    /\ y.seen = x.seen /\ y.total = x.total /\ y.entryIds = x.entryIds

(* A list ends by joining the others. *)
LEMMA TakingAdds ==
  ASSUME NEW x \in Takings, NEW lists \in Seq(StoreLists), NEW seenLists \in SUBSET Nat,
         NEW next \in Identifiers
  PROVE  Adds(x, lists, seenLists, next, Added(x, lists, seenLists, next))
<1> DEFINE a == [x EXCEPT !.lists = lists]
           b == [a EXCEPT !.seenLists = seenLists]
           c == [b EXCEPT !.listIds = next]
           y == Added(x, lists, seenLists, next)
<1>1. /\ a \in Takings /\ a.lists = lists
      /\ a.seen = x.seen /\ a.total = x.total /\ a.entryIds = x.entryIds
  BY DEF Takings
<1>2. y = [a EXCEPT !.seenLists = seenLists, !.listIds = next]
  BY DEF Added, Takings
<1> HIDE DEF a, y
<1>3. /\ b \in Takings /\ b.lists = lists /\ b.seenLists = seenLists
      /\ b.seen = x.seen /\ b.total = x.total /\ b.entryIds = x.entryIds
  BY <1>1 DEF Takings
<1>4. y = c
  BY <1>1, <1>2 DEF Takings
<1> HIDE DEF b
<1>5. /\ c \in Takings /\ c.lists = lists /\ c.seenLists = seenLists /\ c.listIds = next
      /\ c.seen = x.seen /\ c.total = x.total /\ c.entryIds = x.entryIds
  BY <1>3 DEF Takings
<1> QED BY <1>4, <1>5 DEF y, Adds

Dropped(x, record, y) ==
    y = x /\ x.listIds = Exhausted /\ ~(record.id # None /\ record.id \notin x.seenLists)

(* PushRecord drops a record or pushes its list. *)
LEMMA PushRecordIs ==
  ASSUME NEW x \in Takings, NEW record \in Records, Tallied(x), NEW y, y = PushRecord(x, record)
  PROVE  \/ Dropped(x, record, y)
         \/ \E r, took, list : Pushes(x, record, r, took, list, y) /\ Taken(r, took)
<1> DEFINE r == Begun(x, record.cursor)
           took == FoldLeft(TakeEntry, r, Decoded(record))
           named == record.id # None /\ record.id \notin x.seenLists
           id == NameOf(x, record)
           member(v) == \E i \in DOMAIN took.entries : took.entries[i].id = v
           cursor == IF member(took.cursor) THEN took.cursor ELSE None
           first == IF record.first = Off \/ member(record.first) THEN record.first ELSE None
           list == [id |-> id, cursor |-> cursor, first |-> first, entries |-> took.entries]
           lists == Append(took.lists, list)
           seenLists == took.seenLists \union {id}
           next == IF named THEN Counter(took.listIds, {id}) ELSE took.listIds + 1
           new == Added(took, lists, seenLists, next)
<1>1. /\ record.id \in Nat /\ record.cursor \in Nat /\ record.first \in Nat
      /\ x.listIds \in Identifiers /\ x.seenLists \in SUBSET Nat /\ x.lists \in Seq(StoreLists)
  BY DEF Records, Takings
<1>2. Started(x, record, r)
  BY <1>1, TakingBegins DEF Started
<1>3. Tallied(r) /\ r.entries = <<>> /\ r \in Takings
  BY <1>2 DEF Tallied, Started
<1>4. Decoded(record) \in Seq(StoreEntries)
  BY DecodedIs
<1> HIDE DEF r
<1>5. Taken(r, took)
  BY <1>3, <1>4, TakesList
<1>6. /\ took \in Takings /\ took.lists = x.lists /\ took.seenLists = x.seenLists
      /\ took.listIds = x.listIds /\ took.entries \in Seq(StoreEntries) /\ took.cursor \in Nat
  BY <1>2, <1>5 DEF Taken, Started, Apace, Takings
<1>7. y = IF ~named /\ x.listIds = Exhausted THEN x ELSE new
  <2>1. id = IF named THEN record.id ELSE x.listIds
    BY DEF NameOf
  <2> QED BY <1>6, <2>1 DEF PushRecord, Added, Begun, r, Takings
<1> HIDE DEF took
<1>8. id \in Identifiers /\ id \in Nat
  BY <1>1 DEF NameOf, Identifiers
<1>9. cursor \in Nat /\ first \in Nat
  BY <1>1, <1>6 DEF None
<1>10. list \in StoreLists
  BY <1>6, <1>8, <1>9 DEF StoreLists
<1>11. Anchored(took, record, list)
  BY DEF Anchored
<1>12. next = (IF id < x.listIds THEN x.listIds ELSE id + 1) /\ next \in Identifiers
  <2>1. CASE named
    <3>1. next = IF id < x.listIds THEN x.listIds ELSE id + 1
      BY <1>1, <1>6, <1>8, <2>1, CounterOne
    <3> QED BY <1>1, <1>8, <3>1 DEF Identifiers, None
  <2>2. CASE ~named
    <3>1. id = x.listIds /\ next = x.listIds + 1
      BY <1>6, <2>2 DEF NameOf
    <3> QED BY <1>1, <3>1 DEF Identifiers, None
  <2> QED BY <2>1, <2>2
<1>13. list.id = id /\ list.entries = took.entries
  OBVIOUS
<1> HIDE DEF id, list, next
<1>14. lists \in Seq(StoreLists) /\ lists = Append(x.lists, list) /\ seenLists \in SUBSET Nat
       /\ seenLists = x.seenLists \union {list.id}
  BY <1>1, <1>6, <1>8, <1>10, <1>13
<1> HIDE DEF lists, seenLists
<1>15. /\ new \in Takings /\ new.lists = lists /\ new.seenLists = seenLists /\ new.listIds = next
       /\ new.seen = took.seen /\ new.total = took.total /\ new.entryIds = took.entryIds
  <2>1. /\ took \in Takings /\ lists \in Seq(StoreLists) /\ seenLists \in SUBSET Nat
        /\ next \in Identifiers
    BY <1>6, <1>12, <1>14
  <2>2. Adds(took, lists, seenLists, next, new)
    BY <2>1, TakingAdds
  <2> QED BY <2>2 DEF Adds
<1> HIDE DEF new
<1>16. took = FoldLeft(TakeEntry, r, Decoded(record))
  BY DEF took
<1>17. list.id = NameOf(x, record) /\ list.entries = took.entries
  BY <1>13 DEF id
<1>18. new.listIds = IF list.id < x.listIds THEN x.listIds ELSE list.id + 1
  BY <1>12, <1>13, <1>15
<1>19. ASSUME y = new PROVE Pushes(x, record, r, took, list, y)
  BY <1>2, <1>10, <1>11, <1>14, <1>15, <1>16, <1>17, <1>18, <1>19, Zenon DEF Pushes
<1> QED BY <1>5, <1>7, <1>19 DEF Dropped

(* The list pushed is a sound one, and shares nothing with those before. *)
LEMMA PushedList ==
  ASSUME NEW x, Ready(x), NEW record \in Records, NEW r, NEW took, NEW list, NEW y,
         Pushes(x, record, r, took, list, y), Taken(r, took)
  PROVE  /\ x.lists \in Seq(StoreLists) /\ ListsSound(x.lists) /\ list \in StoreLists
         /\ OwnList(list) /\ Ids(list) = Ids(took) /\ Ids(list) \cap IdsIn(x.lists) = {}
         /\ list.id \notin {x.lists[k].id : k \in DOMAIN x.lists}
         /\ y.lists = Append(x.lists, list)
<1>1. /\ x \in Takings /\ x.lists \in Seq(StoreLists) /\ ListsSound(x.lists)
      /\ x.seenLists = {x.lists[k].id : k \in DOMAIN x.lists} /\ x.seen = IdsIn(x.lists)
      /\ \A id \in x.seenLists : id < x.listIds
  BY DEF Ready, Takings
<1>2. x.listIds \in Nat /\ x.seenLists \in SUBSET Nat
  BY <1>1 DEF Takings, Identifiers
<1>3. Ids(list) = Ids(took) /\ Once(list)
  BY DEF Ids, Once, Pushes, Taken
<1>4. list.cursor \in Ids(list) \union {None}
  <2>1. CASE \E i \in DOMAIN took.entries : took.entries[i].id = took.cursor
    BY <1>3, <2>1 DEF Pushes, Anchored, Ids
  <2>2. CASE ~\E i \in DOMAIN took.entries : took.entries[i].id = took.cursor
    BY <2>2 DEF Pushes, Anchored
  <2> QED BY <2>1, <2>2
<1>5. Ids(took) \cap x.seen = {}
  BY DEF Pushes, Started, Taken
<1>6. list.id \notin x.seenLists
  BY <1>1, <1>2 DEF Pushes, NameOf
<1> QED BY <1>1, <1>3, <1>4, <1>5, <1>6 DEF OwnList, Pushes

Joined(x, record, y) ==
    \E r, took, list : Pushes(x, record, r, took, list, y) /\ Taken(r, took)

(* A record keeps recovery ready for the next. *)
LEMMA PushReady ==
  ASSUME NEW x, Ready(x), NEW record \in Records, NEW y, y = PushRecord(x, record)
  PROVE  /\ Ready(y) /\ x.entryIds <= y.entryIds
         /\ Dropped(x, record, y) \/ Joined(x, record, y)
<1>1. x \in Takings /\ Tallied(x) /\ x.entryIds \in Nat
  BY DEF Ready, Takings, Identifiers
<1>2. \/ Dropped(x, record, y)
      \/ \E r, took, list : Pushes(x, record, r, took, list, y) /\ Taken(r, took)
  BY <1>1, PushRecordIs
<1>3. ASSUME NEW r, NEW took, NEW list, Pushes(x, record, r, took, list, y), Taken(r, took)
      PROVE  Ready(y) /\ x.entryIds <= y.entryIds
  <2>1. /\ x.lists \in Seq(StoreLists) /\ ListsSound(x.lists) /\ list \in StoreLists
        /\ OwnList(list) /\ Ids(list) = Ids(took) /\ Ids(list) \cap IdsIn(x.lists) = {}
        /\ list.id \notin {x.lists[k].id : k \in DOMAIN x.lists}
        /\ y.lists = Append(x.lists, list)
    BY <1>3, PushedList
  <2>2. /\ ListsSound(y.lists) /\ IdsIn(y.lists) = IdsIn(x.lists) \union Ids(list)
        /\ {y.lists[k].id : k \in DOMAIN y.lists}
              = {x.lists[k].id : k \in DOMAIN x.lists} \union {list.id}
    <3>1. Joins(x.lists, list, y.lists)
      BY <2>1, ListAppended
    <3> QED BY <3>1 DEF Joins
  <2>3. y \in Takings /\ y.seen = took.seen /\ y.total = took.total /\ y.entryIds = took.entryIds
    BY <1>3 DEF Pushes
  <2>4. Tallied(y)
    BY <1>3, <2>3 DEF Tallied, Taken
  <2>5. y.seen = IdsIn(y.lists)
    <3>1. took.seen = r.seen \union Ids(took) /\ r.seen = x.seen /\ x.seen = IdsIn(x.lists)
      BY <1>3 DEF Taken, Pushes, Started, Ready
    <3> QED BY <2>1, <2>2, <2>3, <3>1
  <2>6. y.seenLists = {y.lists[k].id : k \in DOMAIN y.lists}
    BY <1>3, <2>2 DEF Pushes, Ready
  <2>7. \A id \in y.seenLists : id < y.listIds
    <3>1. /\ x.listIds \in Nat /\ x.seenLists \in SUBSET Nat /\ list.id \in Nat
          /\ y.seenLists = x.seenLists \union {list.id}
          /\ y.listIds = IF list.id < x.listIds THEN x.listIds ELSE list.id + 1
      BY <1>1, <1>3 DEF Takings, Identifiers, StoreLists, Pushes
    <3>2. \A id \in x.seenLists : id < x.listIds
      BY DEF Ready
    <3>3. CASE list.id < x.listIds
      BY <3>1, <3>2, <3>3
    <3>4. CASE ~(list.id < x.listIds)
      <4>1. y.listIds = list.id + 1 /\ \A id \in x.seenLists : id < list.id
        BY <3>1, <3>2, <3>4
      <4> QED BY <3>1, <4>1
    <3> QED BY <3>3, <3>4
  <2>8. x.entryIds <= y.entryIds
    BY <1>3, <2>3 DEF Pushes, Started, Taken
  <2> QED BY <2>2, <2>3, <2>4, <2>5, <2>6, <2>7, <2>8 DEF Ready
<1>4. ASSUME y = x PROVE Ready(y) /\ x.entryIds <= y.entryIds
  BY <1>1, <1>4
<1> QED BY <1>2, <1>3, <1>4 DEF Dropped, Joined

Readies == {x \in Takings : Ready(x)}

-----------------------------------------------------------------------------
(* Recovery takes the lists of a document one after another. *)
LEMMA PushesFold ==
  ASSUME NEW r \in Readies, NEW seq \in Seq(Records)
  PROVE  \E g \in [0 .. Len(seq) -> Readies] :
            /\ g[0] = r /\ g[Len(seq)] = FoldLeft(PushRecord, r, seq)
            /\ \A m \in 1 .. Len(seq) : g[m] = PushRecord(g[m - 1], seq[m])
<1> DEFINE D == DOMAIN seq
           F == [p \in Readies \X Records |-> PushRecord(p[1], p[2])]
           Is(f) == f = [s \in SUBSET D |->
                          IF s = {} THEN r ELSE PushRecord(f[s \ {Max(s)}], seq[Max(s)])]
           iter == CHOOSE f : Is(f)
<1>1. Len(seq) \in Nat /\ D = 1 .. Len(seq)
  OBVIOUS
<1>2. FoldLeft(PushRecord, r, seq) = iter[D]
  BY DEF FoldLeft, MapThenFoldSet
<1>3. F \in [Readies \X Records -> Readies]
  <2>1. \A x \in Readies, record \in Records : PushRecord(x, record) \in Readies
    BY PushReady DEF Readies, Ready
  <2> QED BY <2>1
<1>4. \A x \in Readies, record \in Records : F[<<x, record>>] = PushRecord(x, record)
  OBVIOUS
<1> HIDE DEF F
<1>5. \A s \in SUBSET D : s # {} => Max(s) \in D /\ seq[Max(s)] \in Records
  <2> SUFFICES ASSUME NEW s \in SUBSET D, s # {}
               PROVE  Max(s) \in D /\ seq[Max(s)] \in Records
    OBVIOUS
  <2>1. s \in SUBSET (1 .. Len(seq))
    BY <1>1
  <2>2. Max(s) \in s
    BY <1>1, <2>1, MaxOfPrefix
  <2> QED BY <2>2
<1>6. \E f : Is(f)
  <2>0. PICK h : FoldsOver(h, Readies, r, seq, F)
    BY <1>3, Unfolds
  <2>1. /\ h \in [SUBSET D -> Readies]
        /\ \A s \in SUBSET D :
              h[s] = IF s = {} THEN r ELSE F[<<h[s \ {Max(s)}], seq[Max(s)]>>]
    BY <2>0 DEF FoldsOver
  <2>2. ASSUME NEW s \in SUBSET D
        PROVE  h[s] = IF s = {} THEN r ELSE PushRecord(h[s \ {Max(s)}], seq[Max(s)])
    BY <1>4, <1>5, <2>1
  <2>3. Is(h)
    BY <2>1, <2>2
  <2> HIDE DEF Is
  <2> QED BY <2>3
<1>7. Is(iter)
  <2> HIDE DEF Is
  <2> QED BY <1>6
<1> HIDE DEF iter
<1>8. FoldsWithin(iter, Readies, r, seq, F)
  BY <1>4, <1>5, <1>7 DEF FoldsWithin
<1> HIDE DEF Is
<1>0. PICK g : FoldsAlong(g, Readies, r, seq, F, iter)
  BY <1>3, <1>8, UnfoldsTo
<1>9. /\ g \in [0 .. Len(seq) -> Readies] /\ g[0] = r /\ g[Len(seq)] = iter[D]
      /\ \A m \in 1 .. Len(seq) : g[m] = F[<<g[m - 1], seq[m]>>]
  BY <1>0 DEF FoldsAlong
<1>10. ASSUME NEW m \in 1 .. Len(seq) PROVE g[m] = PushRecord(g[m - 1], seq[m])
  <2>1. m - 1 \in 0 .. Len(seq) /\ m \in D
    BY <1>1
  <2>2. g[m - 1] \in Readies /\ seq[m] \in Records
    BY <1>9, <2>1
  <2> QED BY <1>4, <1>9, <2>2
<1> QED BY <1>0, <1>2, <1>9, <1>10

(* What has become of the records so far, when every id in the document is     *)
(* below n: the entries of each list are in it, or another list has the id, or *)
(* the cap is met; and no list was left out while its record was counted.      *)
Stands(docs, k, list, total) ==
    \A i \in DOMAIN Decoded(docs[k]) :
       LET entry == Decoded(docs[k])[i] IN
       \/ \E j \in DOMAIN docs \ {k} : entry.id \in Ids(docs[j])
       \/ entry \in ToSet(list.entries)
       \/ total = EntryCap
Standing(docs, n, x, m) ==
    /\ n <= x.entryIds /\ Len(x.lists) <= m
    /\ m # 0 /\ x.lists = <<>> => x.listIds = Exhausted
    /\ \A id \in x.seen : n <= id \/ \E j \in 1 .. m : id \in Ids(docs[j])
    /\ Len(x.lists) = m => \A k \in 1 .. m : Stands(docs, k, x.lists[k], x.total)

(* One record on: what stands of the earlier ones, and of this one. *)
LEMMA StandsOn ==
  ASSUME NEW docs \in Seq(Records), NEW n \in Nat, \A k \in DOMAIN docs : \A id \in Ids(docs[k]) : id < n,
         NEW m \in 1 .. Len(docs), NEW x, Ready(x), Standing(docs, n, x, m - 1), NEW y,
         y = PushRecord(x, docs[m])
  PROVE  Standing(docs, n, y, m)
<1> DEFINE record == docs[m]
           dec == Decoded(record)
<1>0. /\ m \in Nat /\ m - 1 \in Nat /\ m \in DOMAIN docs /\ record \in Records /\ m # 0
      /\ \A k \in 1 .. m : k \in DOMAIN docs /\ (k \in 1 .. m - 1 \/ k = m)
      /\ \A k \in 1 .. m - 1 : k \in 1 .. m /\ k # m
  OBVIOUS
<1>1. /\ Ready(y) /\ x.entryIds <= y.entryIds
      /\ Dropped(x, record, y) \/ Joined(x, record, y)
  BY <1>0, PushReady
<1>2. /\ x \in Takings /\ y \in Takings /\ x.entryIds \in Nat /\ y.entryIds \in Nat
      /\ x.lists \in Seq(StoreLists) /\ Len(x.lists) \in Nat /\ x.seen \in SUBSET Nat
      /\ x.total \in Nat /\ y.total \in Nat /\ EntryCap \in Nat /\ y.total <= EntryCap
      /\ DOMAIN x.lists = 1 .. Len(x.lists)
  <2>1. x \in Takings /\ y \in Takings /\ y.total <= EntryCap
    BY <1>1 DEF Ready, Tallied
  <2>2. /\ x.entryIds \in Nat /\ x.lists \in Seq(StoreLists) /\ x.seen \in SUBSET Nat
        /\ x.total \in Nat
    BY <2>1 DEF Takings, Identifiers
  <2>3. y.entryIds \in Nat /\ y.total \in Nat
    BY <2>1 DEF Takings, Identifiers
  <2> QED BY <2>1, <2>2, <2>3, StoreAssumption
<1>3. n <= y.entryIds
  BY <1>1, <1>2 DEF Standing
<1>4. CASE Dropped(x, record, y)
  <2>1. Len(y.lists) <= m /\ Len(y.lists) # m /\ y.listIds = Exhausted
    BY <1>0, <1>2, <1>4 DEF Dropped, Standing
  <2>2. \A id \in y.seen : n <= id \/ \E j \in 1 .. m : id \in Ids(docs[j])
    <3>1. y.seen = x.seen
      BY <1>4 DEF Dropped
    <3> QED BY <1>0, <3>1 DEF Standing
  <2> QED BY <1>3, <2>1, <2>2 DEF Standing
<1>5. ASSUME NEW r, NEW took, NEW list, Pushes(x, record, r, took, list, y), Taken(r, took)
      PROVE  Standing(docs, n, y, m)
  <2>1. /\ x.lists \in Seq(StoreLists) /\ ListsSound(x.lists) /\ list \in StoreLists
        /\ OwnList(list) /\ Ids(list) = Ids(took) /\ Ids(list) \cap IdsIn(x.lists) = {}
        /\ list.id \notin {x.lists[k].id : k \in DOMAIN x.lists}
        /\ y.lists = Append(x.lists, list)
    BY <1>0, <1>5, PushedList
  <2>2. Joins(x.lists, list, y.lists)
    BY <2>1, ListAppended
  <2>3. /\ Len(y.lists) = Len(x.lists) + 1 /\ y.lists[Len(x.lists) + 1] = list
        /\ \A k \in DOMAIN x.lists : y.lists[k] = x.lists[k]
    BY <2>2 DEF Joins
  <2>4. /\ r \in Takings /\ r.seen = x.seen /\ r.entryIds = x.entryIds /\ r.entries = <<>>
        /\ r.total = x.total /\ took = FoldLeft(TakeEntry, r, dec)
        /\ y.seen = took.seen /\ y.total = took.total /\ list.entries = took.entries
    BY <1>5 DEF Pushes, Started
  <2>5. Tallied(r)
    BY <2>4 DEF Tallied, Ready
  <2>6. /\ dec \in Seq(StoreEntries) /\ Different(dec)
        /\ \A i \in DOMAIN dec : dec[i].id \in Ids(record) /\ dec[i].id \in Nat
    <3>1. /\ dec \in Seq(StoreEntries) /\ Different(dec)
          /\ \A i \in DOMAIN dec : dec[i].id \in Ids(record)
      BY <1>0, DecodedIs
    <3>2. \A i \in DOMAIN dec : dec[i] \in StoreEntries
      BY <3>1
    <3> QED BY <3>1, <3>2 DEF StoreEntries, Identifiers
  <2>7. Below(dec, r.entryIds)
    <3> SUFFICES ASSUME NEW i \in DOMAIN dec PROVE dec[i].id < r.entryIds
      BY DEF Below
    <3>1. dec[i].id < n /\ dec[i].id \in Nat
      BY <1>0, <2>6
    <3>2. n <= x.entryIds
      BY DEF Standing
    <3> QED BY <1>2, <2>4, <3>1, <3>2
  <2> HIDE DEF dec
  <2>8. Settled(r, took, dec, Len(dec))
    BY <2>4, <2>5, <2>6, <2>7, TakesList
  <2>9. x.total <= y.total
    <3>1. IsFiniteSet(took.seen) /\ Cardinality(took.seen) = y.total /\ r.seen \in SUBSET took.seen
      BY <1>5, <2>4 DEF Taken, Tallied
    <3>2. Cardinality(r.seen) = x.total
      BY <2>4, <2>5 DEF Tallied
    <3> QED BY <3>1, <3>2, FS_Subset
  <2>10. \A id \in y.seen : n <= id \/ \E j \in 1 .. m : id \in Ids(docs[j])
    <3> SUFFICES ASSUME NEW id \in took.seen
                 PROVE  n <= id \/ \E j \in 1 .. m : id \in Ids(docs[j])
      BY <2>4
    <3>0. m \in 1 .. m /\ id \in Nat
      <4>1. took.seen \in SUBSET Nat
        BY <1>2, <2>4 DEF Takings
      <4> QED BY <1>0, <4>1
    <3>1. id \in x.seen \/ x.entryIds <= id \/ \E j \in 1 .. Len(dec) : dec[j].id = id
      BY <2>4, <2>8 DEF Settled
    <3>2. CASE id \in x.seen
      BY <1>0, <3>2 DEF Standing
    <3>3. CASE x.entryIds <= id
      <4>1. n <= x.entryIds
        BY DEF Standing
      <4> QED BY <1>2, <3>0, <3>3, <4>1
    <3>4. CASE \E j \in 1 .. Len(dec) : dec[j].id = id
      <4>1. PICK j \in DOMAIN dec : dec[j].id = id
        BY <2>6, <3>4
      <4> QED BY <2>6, <3>0, <4>1
    <3> QED BY <3>1, <3>2, <3>3, <3>4
  <2>11. ASSUME Len(y.lists) = m, NEW k \in 1 .. m PROVE Stands(docs, k, y.lists[k], y.total)
    <3>1. Len(x.lists) = m - 1 /\ DOMAIN x.lists = 1 .. m - 1
      BY <1>0, <1>2, <2>3, <2>11
    <3>2. CASE k \in 1 .. m - 1
      <4>1. Stands(docs, k, x.lists[k], x.total) /\ y.lists[k] = x.lists[k]
        BY <2>3, <3>1, <3>2 DEF Standing
      <4>2. x.total = EntryCap => y.total = EntryCap
        BY <1>2, <2>9
      <4> QED BY <4>1, <4>2 DEF Stands
    <3>3. CASE k = m
      <4>1. y.lists[k] = list
        BY <1>0, <2>3, <3>1, <3>3
      <4>2. ASSUME NEW i \in DOMAIN dec
            PROVE  \/ \E j \in DOMAIN docs \ {k} : dec[i].id \in Ids(docs[j])
                   \/ dec[i] \in ToSet(list.entries)
                   \/ y.total = EntryCap
        <5>1. i \in 1 .. Len(dec)
          BY <2>6
        <5>2. dec[i].id \in x.seen \/ dec[i] \in ToSet(list.entries) \/ y.total = EntryCap
          BY <2>4, <2>8, <5>1 DEF Settled
        <5>3. ASSUME dec[i].id \in x.seen
              PROVE  \E j \in DOMAIN docs \ {k} : dec[i].id \in Ids(docs[j])
          <6>1. dec[i].id < n /\ dec[i].id \in Nat
            BY <1>0, <2>6
          <6>2. PICK j \in 1 .. m - 1 : dec[i].id \in Ids(docs[j])
            BY <5>3, <6>1 DEF Standing
          <6> QED BY <1>0, <3>3, <6>2
        <5> QED BY <5>2, <5>3
      <4> QED BY <3>3, <4>1, <4>2 DEF Stands, dec
    <3> QED BY <1>0, <3>2, <3>3
  <2>12. Len(y.lists) <= m /\ (y.lists = <<>> => y.listIds = Exhausted)
    <3>1. Len(x.lists) <= m - 1
      BY DEF Standing
    <3>2. y.lists # <<>>
      <4>1. Len(y.lists) # 0
        BY <1>2, <2>3
      <4> QED BY <4>1
    <3> QED BY <1>0, <1>2, <2>3, <3>1, <3>2
  <2> QED BY <1>3, <2>10, <2>11, <2>12 DEF Standing
<1> QED BY <1>1, <1>4, <1>5 DEF Joined

(* What was stored whole comes back as it was, list by list. *)
SameList(a, b) == a.id = b.id /\ a.cursor = b.cursor /\ a.entries = b.entries
Restored(docs, n, l, x, m) ==
    /\ Len(x.lists) = m /\ \A k \in 1 .. m : SameList(x.lists[k], docs[k])
    /\ x.entryIds = n /\ x.listIds = l
Storable(docs, n, l) ==
    /\ ListsSound(docs) /\ IsFiniteSet(IdsIn(docs)) /\ Cardinality(IdsIn(docs)) <= EntryCap
    /\ \A k \in DOMAIN docs :
          /\ docs[k].readable /\ docs[k].id # None /\ docs[k].id < l
          /\ \A id \in Ids(docs[k]) : id < n

(* A record no damage came near decodes to all it has. *)
LEMMA WholeRecord ==
  ASSUME NEW record \in Records, record.readable, Once(record)
  PROVE  Decoded(record) = record.entries /\ Different(record.entries)
<1>1. \A i, j \in DOMAIN record.entries : record.entries[i].id = record.entries[j].id => i = j
  BY DEF Once
<1>2. IsInjective([i \in DOMAIN record.entries |-> record.entries[i].id])
  BY <1>1 DEF IsInjective
<1> QED BY <1>1, <1>2 DEF Decoded, Different

(* Sequences of one length with the same elements are one. *)
LEMMA SameSeq ==
  ASSUME NEW S, NEW s \in Seq(S), NEW t \in Seq(S), Len(s) = Len(t),
         \A i \in 1 .. Len(s) : s[i] = t[i]
  PROVE  s = t
<1>1. s = [i \in 1 .. Len(s) |-> s[i]] /\ t = [i \in 1 .. Len(s) |-> t[i]]
  OBVIOUS
<1> QED BY <1>1

(* One record on: each comes back as the list it was made from. *)
LEMMA RestoresOn ==
  ASSUME NEW docs \in Seq(Records), NEW n \in Nat, NEW l \in Nat, Storable(docs, n, l),
         NEW m \in 1 .. Len(docs), NEW x, Ready(x), Restored(docs, n, l, x, m - 1), NEW y,
         y = PushRecord(x, docs[m])
  PROVE  Restored(docs, n, l, y, m)
<1> DEFINE record == docs[m]
           seq == record.entries
<1>0. /\ m \in Nat /\ m - 1 \in Nat /\ m \in DOMAIN docs /\ record \in Records
      /\ \A k \in 1 .. m : k \in DOMAIN docs /\ (k \in 1 .. m - 1 \/ k = m)
      /\ \A k \in 1 .. m - 1 : k \in DOMAIN docs /\ k # m
  OBVIOUS
<1>1. Dropped(x, record, y) \/ Joined(x, record, y)
  BY <1>0, PushReady
<1>2. /\ x.lists \in Seq(StoreLists) /\ DOMAIN x.lists = 1 .. m - 1 /\ Len(x.lists) = m - 1
      /\ \A k \in 1 .. m - 1 : SameList(x.lists[k], docs[k])
      /\ x.entryIds = n /\ x.listIds = l
  BY DEF Ready, Takings, Restored
<1>3. /\ record.readable /\ record.id # None /\ record.id < l /\ record.id \in Nat
      /\ \A id \in Ids(record) : id < n
      /\ Once(record) /\ record.cursor \in Ids(record) \union {None} /\ seq \in Seq(StoreEntries)
      /\ record.cursor \in Nat
  BY <1>0 DEF Storable, ListsSound, OwnList, Records
<1>4. \A k \in 1 .. m - 1 : Apart(docs[k], record)
  BY <1>0 DEF Storable, ListsSound
<1>5. record.id \notin x.seenLists
  <2>1. x.seenLists = {x.lists[k].id : k \in 1 .. m - 1}
    BY <1>2 DEF Ready
  <2> QED BY <1>2, <1>4, <2>1 DEF SameList, Apart
<1>6. x.seen = UNION {Ids(docs[k]) : k \in 1 .. m - 1}
  <2>1. x.seen = UNION {Ids(x.lists[k]) : k \in 1 .. m - 1}
    BY <1>2 DEF Ready, IdsIn
  <2>2. \A k \in 1 .. m - 1 : Ids(x.lists[k]) = Ids(docs[k])
    BY <1>2 DEF SameList, Ids
  <2> QED BY <2>1, <2>2
<1>7. ~Dropped(x, record, y)
  BY <1>3, <1>5 DEF Dropped
<1>8. PICK r, took, list : Pushes(x, record, r, took, list, y) /\ Taken(r, took)
  BY <1>1, <1>7 DEF Joined
<1>9. Decoded(record) = seq /\ Different(seq)
  BY <1>0, <1>3, WholeRecord
<1>10. /\ r \in Takings /\ r.seen = x.seen /\ r.entryIds = n /\ r.entries = <<>>
       /\ r.total = x.total /\ r.cursor = record.cursor
       /\ took = FoldLeft(TakeEntry, r, Decoded(record))
       /\ list.id = NameOf(x, record) /\ list.entries = took.entries
       /\ Anchored(took, record, list) /\ y.entryIds = took.entryIds
       /\ y.listIds = IF list.id < x.listIds THEN x.listIds ELSE list.id + 1
  BY <1>2, <1>8 DEF Pushes, Started
<1>11. took = FoldLeft(TakeEntry, r, seq)
  BY <1>9, <1>10
<1>12. Tallied(r)
  BY <1>2, <1>10 DEF Tallied, Ready
<1>13. \A i \in DOMAIN seq : seq[i].id \in Ids(record)
  BY DEF Ids
<1>14. Below(seq, r.entryIds)
  BY <1>3, <1>10, <1>13 DEF Below
<1>15. Roomy(r, seq)
  <2>1. \A i \in DOMAIN seq : seq[i].id \notin r.seen
    <3> SUFFICES ASSUME NEW i \in DOMAIN seq, NEW k \in 1 .. m - 1, seq[i].id \in Ids(docs[k])
                 PROVE  FALSE
      BY <1>6, <1>10
    <3> QED BY <1>4, <1>13 DEF Apart
  <2>2. r.seen \in SUBSET IdsIn(docs) /\ \A i \in DOMAIN seq : seq[i].id \in IdsIn(docs)
    <3>1. \A k \in DOMAIN docs : Ids(docs[k]) \in SUBSET IdsIn(docs)
      BY DEF IdsIn
    <3>2. Ids(record) \in SUBSET IdsIn(docs) /\ \A k \in 1 .. m - 1 : Ids(docs[k]) \in SUBSET IdsIn(docs)
      BY <1>0, <3>1
    <3> QED BY <1>6, <1>10, <1>13, <3>2
  <2> QED BY <2>1, <2>2 DEF Roomy, Storable
<1> HIDE DEF seq
<1>16. Whole(r, took, seq, Len(seq))
  BY <1>3, <1>9, <1>10, <1>11, <1>12, <1>14, <1>15, TakesList
<1>17. took.entries = seq /\ took.cursor = record.cursor /\ took.entryIds = n
  <2>1. took.entries \in Seq(StoreEntries)
    BY <1>8 DEF Taken, Takings
  <2>2. Len(took.entries) = Len(seq) /\ \A i \in 1 .. Len(took.entries) : took.entries[i] = seq[i]
    BY <1>16 DEF Whole
  <2>3. took.entries = seq
    BY <1>3, <2>1, <2>2, SameSeq
  <2> QED BY <1>10, <1>16, <2>3 DEF Whole
<1>18. list.cursor = record.cursor
  <2>1. Ids(record) = {took.entries[i].id : i \in DOMAIN took.entries}
    BY <1>17 DEF Ids, seq
  <2>2. CASE record.cursor \in Ids(record)
    <3>1. \E i \in DOMAIN took.entries : took.entries[i].id = took.cursor
      BY <1>17, <2>1, <2>2
    <3> QED BY <1>10, <1>17, <3>1 DEF Anchored
  <2>3. CASE record.cursor \notin Ids(record)
    <3>1. ~\E i \in DOMAIN took.entries : took.entries[i].id = took.cursor
      BY <1>17, <2>1, <2>3
    <3> QED BY <1>3, <1>10, <2>3, <3>1 DEF Anchored
  <2> QED BY <2>2, <2>3
<1>19. list.id = record.id /\ y.listIds = l
  BY <1>2, <1>3, <1>5, <1>10 DEF NameOf
<1>20. SameList(list, record)
  BY <1>10, <1>17, <1>18, <1>19 DEF SameList, seq
<1>21. /\ x.lists \in Seq(StoreLists) /\ ListsSound(x.lists) /\ list \in StoreLists
       /\ OwnList(list) /\ Ids(list) = Ids(took) /\ Ids(list) \cap IdsIn(x.lists) = {}
       /\ list.id \notin {x.lists[k].id : k \in DOMAIN x.lists}
       /\ y.lists = Append(x.lists, list)
  BY <1>0, <1>8, PushedList
<1>22. Joins(x.lists, list, y.lists)
  BY <1>21, ListAppended
<1>23. Len(y.lists) = m /\ y.lists[m] = list /\ \A k \in 1 .. m - 1 : y.lists[k] = x.lists[k]
  <2>1. /\ Len(y.lists) = Len(x.lists) + 1 /\ y.lists[Len(x.lists) + 1] = list
        /\ \A k \in DOMAIN x.lists : y.lists[k] = x.lists[k]
    BY <1>22 DEF Joins
  <2> QED BY <1>0, <1>2, <2>1
<1>24. \A k \in 1 .. m : SameList(y.lists[k], docs[k])
  BY <1>0, <1>2, <1>20, <1>23
<1> QED BY <1>10, <1>17, <1>19, <1>23, <1>24 DEF Restored

(* All of a document's records.                                                *)
LEMMA PushesAll ==
  ASSUME NEW docs \in Seq(Records), NEW n \in Nat, NEW r, Ready(r), r.lists = <<>>, r.seen = {},
         n <= r.entryIds, \A k \in DOMAIN docs : \A id \in Ids(docs[k]) : id < n, NEW x,
         x = FoldLeft(PushRecord, r, docs)
  PROVE  /\ Ready(x) /\ Standing(docs, n, x, Len(docs))
         /\ Storable(docs, r.entryIds, r.listIds) =>
               Restored(docs, r.entryIds, r.listIds, x, Len(docs))
<1> DEFINE Fit == Storable(docs, r.entryIds, r.listIds)
           Suits(y, m) == Fit => Restored(docs, r.entryIds, r.listIds, y, m)
<1>0. r \in Readies
  BY DEF Ready, Readies
<1>1. PICK g \in [0 .. Len(docs) -> Readies] :
            /\ g[0] = r /\ g[Len(docs)] = FoldLeft(PushRecord, r, docs)
            /\ \A m \in 1 .. Len(docs) : g[m] = PushRecord(g[m - 1], docs[m])
  BY <1>0, PushesFold
<1> DEFINE P == {m \in 0 .. Len(docs) : Standing(docs, n, g[m], m) /\ Suits(g[m], m)}
<1>2. Len(docs) \in Nat /\ r.entryIds \in Nat /\ r.listIds \in Nat
  BY DEF Ready, Takings, Identifiers
<1>3. Standing(docs, n, r, 0)
  BY DEF Standing
<1>4. Restored(docs, r.entryIds, r.listIds, r, 0)
  BY DEF Restored
<1>5. 0 \in P
  BY <1>1, <1>2, <1>3, <1>4
<1>6. ASSUME NEW m \in 0 .. Len(docs), m \in P, m < Len(docs) PROVE m + 1 \in P
  <2>1. m + 1 \in 1 .. Len(docs) /\ (m + 1) - 1 = m /\ m + 1 \in 0 .. Len(docs)
    BY <1>2, <1>6
  <2>2. g[m + 1] = PushRecord(g[m], docs[m + 1]) /\ Ready(g[m])
    BY <1>1, <2>1 DEF Readies
  <2>3. Standing(docs, n, g[m], (m + 1) - 1) /\ Suits(g[m], (m + 1) - 1)
    BY <1>6, <2>1
  <2>4. Standing(docs, n, g[m + 1], m + 1)
    BY <2>1, <2>2, <2>3, StandsOn
  <2>5. Suits(g[m + 1], m + 1)
    <3> SUFFICES ASSUME Fit PROVE Restored(docs, r.entryIds, r.listIds, g[m + 1], m + 1)
      OBVIOUS
    <3>1. Restored(docs, r.entryIds, r.listIds, g[m], (m + 1) - 1)
      BY <2>3
    <3> QED BY <1>2, <2>1, <2>2, <3>1, RestoresOn
  <2> HIDE DEF Suits
  <2> QED BY <2>1, <2>4, <2>5
<1> HIDE DEF P
<1>7. Len(docs) \in P
  <2>1. \A m \in 0 .. Len(docs) : m \in P
    BY <1>2, <1>5, <1>6, Climbs
  <2> QED BY <1>2, <2>1
<1>8. Ready(g[Len(docs)])
  BY <1>1, <1>2 DEF Readies
<1> QED BY <1>1, <1>7, <1>8 DEF P

(* Finitely many numbers have a bound. *)
LEMMA Bounded ==
  ASSUME NEW n \in Nat, NEW f \in [1 .. n -> Nat]
  PROVE  \E b \in Nat : \A i \in 1 .. n : f[i] <= b
<1> DEFINE Bounds(m, b) == \A i \in 1 .. m : f[i] <= b
           P == {m \in 0 .. n : \E b \in Nat : Bounds(m, b)}
<1>1. 0 \in P
  <2>1. Bounds(0, 0)
    OBVIOUS
  <2> QED BY <2>1
<1>2. ASSUME NEW m \in 0 .. n, m \in P, m < n PROVE m + 1 \in P
  <2>1. PICK b \in Nat : Bounds(m, b)
    BY <1>2
  <2>2. m + 1 \in 1 .. n /\ m + 1 \in 0 .. n /\ f[m + 1] \in Nat
    BY <1>2
  <2>3. PICK c \in Nat : b <= c /\ f[m + 1] <= c
    <3>1. CASE b <= f[m + 1]
      BY <2>2, <3>1
    <3>2. CASE f[m + 1] <= b
      BY <2>2, <3>2
    <3> QED BY <2>2, <3>1, <3>2
  <2>4. ASSUME NEW i \in 1 .. m + 1 PROVE f[i] <= c
    <3>1. CASE i = m + 1
      BY <2>3, <3>1
    <3>2. CASE i # m + 1
      <4>1. i \in 1 .. m /\ i \in 1 .. n
        BY <1>2, <3>2
      <4>2. f[i] <= b /\ f[i] \in Nat
        BY <2>1, <4>1
      <4> QED BY <2>3, <4>2
    <3> QED BY <3>1, <3>2
  <2>5. Bounds(m + 1, c)
    BY <2>4
  <2> HIDE DEF Bounds
  <2> QED BY <2>2, <2>5
<1> HIDE DEF P
<1>3. n \in P
  <2>1. \A m \in 0 .. n : m \in P
    BY <1>1, <1>2, Climbs
  <2> QED BY <2>1
<1> QED BY <1>3 DEF P

(* The counter of a bounded set of ids. *)
LEMMA CounterIs ==
  ASSUME NEW n \in Identifiers, NEW ids \in SUBSET Nat, NEW b \in Nat, \A id \in ids : id <= b
  PROVE  /\ Counter(n, ids) \in Identifiers /\ n <= Counter(n, ids)
         /\ \A id \in ids : id < Counter(n, ids)
         /\ (\A id \in ids : id < n) => Counter(n, ids) = n
<1> DEFINE all == {n} \union {id + 1 : id \in ids}
<1>1. n \in Nat /\ n # 0
  BY DEF Identifiers, None
<1>2. all \in SUBSET (0 .. n + b + 1) /\ all # {} /\ n + b + 1 \in Nat
  BY <1>1
<1>3. PICK max \in all : \A c \in all : c <= max
  BY <1>2, MaxBelow
<1>4. \E m \in all : \A c \in all : c <= m
  BY <1>3
<1>5. Counter(n, ids) \in all /\ \A c \in all : c <= Counter(n, ids)
  <2>1. Counter(n, ids) = CHOOSE m \in all : \A c \in all : c <= m
    BY DEF Counter
  <2> HIDE DEF all
  <2> QED BY <1>4, <2>1
<1>6. PICK m : m = Counter(n, ids)
  OBVIOUS
<1>7. m \in Nat /\ n <= m /\ \A id \in ids : id + 1 <= m
  BY <1>2, <1>5, <1>6
<1>8. \A id \in ids : id < m
  BY <1>7
<1>9. m \in Identifiers
  BY <1>1, <1>7 DEF Identifiers, None
<1>10. ASSUME \A id \in ids : id < n PROVE m = n
  <2>1. \A c \in all : c <= n
    BY <1>1, <1>10
  <2> QED BY <1>1, <1>5, <1>6, <1>7, <2>1
<1> QED BY <1>6, <1>7, <1>8, <1>9, <1>10

(* A document names finitely many ids, of entries and of lists. *)
LEMMA StoredBounded ==
  ASSUME NEW doc \in Docs
  PROVE  /\ StoredIds(doc) \in SUBSET Nat /\ \E b \in Nat : \A id \in StoredIds(doc) : id <= b
         /\ \E b \in Nat : \A k \in DOMAIN doc.lists : doc.lists[k].id <= b
<1> DEFINE n == Len(doc.lists)
           In(k, b) == \A id \in Ids(doc.lists[k]) : id <= b
           f == [k \in 1 .. n |-> CHOOSE b \in Nat : In(k, b)]
<1>1. doc.lists \in Seq(Records)
  BY DEF Docs
<1>2. n \in Nat /\ DOMAIN doc.lists = 1 .. n /\ \A k \in 1 .. n : doc.lists[k] \in Records
  BY <1>1
<1>3. ASSUME NEW k \in 1 .. n PROVE Ids(doc.lists[k]) \in SUBSET Nat /\ \E b \in Nat : In(k, b)
  <2>1. PICK s \in Seq(StoreEntries) : s = doc.lists[k].entries
    BY <1>2 DEF Records
  <2>2. Ids(doc.lists[k]) = {s[i].id : i \in DOMAIN s}
    BY <2>1 DEF Ids
  <2>3. \A i \in DOMAIN s : s[i].id \in Nat
    <3>1. \A i \in DOMAIN s : s[i] \in StoreEntries
      OBVIOUS
    <3> QED BY <3>1 DEF StoreEntries, Identifiers
  <2>4. PICK b \in Nat : \A i \in 1 .. Len(s) : [j \in 1 .. Len(s) |-> s[j].id][i] <= b
    <3>1. [j \in 1 .. Len(s) |-> s[j].id] \in [1 .. Len(s) -> Nat] /\ Len(s) \in Nat
      BY <2>3
    <3> QED BY <3>1, Bounded
  <2>5. In(k, b)
    BY <2>2, <2>4
  <2> QED BY <2>2, <2>3, <2>5
<1>4. \A k \in 1 .. n : f[k] \in Nat /\ In(k, f[k])
  <2> HIDE DEF In
  <2> QED BY <1>3
<1>5. PICK b \in Nat : \A k \in 1 .. n : f[k] <= b
  <2> HIDE DEF In
  <2>1. f = [k \in 1 .. n |-> f[k]]
    OBVIOUS
  <2> HIDE DEF f
  <2>2. \A k \in 1 .. n : f[k] \in Nat
    BY <1>4
  <2>3. f \in [1 .. n -> Nat]
    BY <2>1, <2>2
  <2> QED BY <1>2, <2>3, Bounded
<1> HIDE DEF f
<1>6. StoredIds(doc) \in SUBSET Nat
  BY <1>2, <1>3 DEF StoredIds
<1>7. ASSUME NEW id \in StoredIds(doc) PROVE id <= b
  <2>1. PICK k \in 1 .. n : id \in Ids(doc.lists[k])
    BY <1>2 DEF StoredIds
  <2>2. id <= f[k] /\ f[k] <= b /\ f[k] \in Nat /\ id \in Nat
    BY <1>4, <1>5, <1>6, <2>1
  <2> QED BY <2>2
<1>8. \E c \in Nat : \A k \in DOMAIN doc.lists : doc.lists[k].id <= c
  <2>1. [k \in 1 .. n |-> doc.lists[k].id] \in [1 .. n -> Nat]
    BY <1>2 DEF Records
  <2>2. PICK c \in Nat : \A k \in 1 .. n : [j \in 1 .. n |-> doc.lists[j].id][k] <= c
    BY <1>2, <2>1, Bounded
  <2> QED BY <1>2, <2>2
<1> QED BY <1>6, <1>7, <1>8

(* The records of a document that recovery takes, and what it makes of them.   *)
Taking(doc) == SubSeq(doc.lists, 1, IF Len(doc.lists) < MaxLists THEN Len(doc.lists) ELSE MaxLists)
EntryCounter(doc) == Counter(doc.nextEntry, StoredIds(doc))
ListCounter(doc) == Counter(doc.nextList, {doc.lists[k].id : k \in DOMAIN doc.lists} \ {None})

(* Those records are the first of the document, all of them if there is room. *)
LEMMA TakingIs ==
  ASSUME NEW doc \in Docs
  PROVE  /\ Taking(doc) \in Seq(Records) /\ Len(Taking(doc)) <= MaxLists
         /\ Len(Taking(doc)) <= Len(doc.lists) /\ Len(Taking(doc)) \in Nat
         /\ \A k \in 1 .. Len(Taking(doc)) : k \in DOMAIN doc.lists /\ Taking(doc)[k] = doc.lists[k]
         /\ Len(doc.lists) <= MaxLists => Taking(doc) = doc.lists
<1>0. PICK n : n = IF Len(doc.lists) < MaxLists THEN Len(doc.lists) ELSE MaxLists
  OBVIOUS
<1>1. PICK s \in Seq(Records) : s = doc.lists
  BY DEF Docs
<1>2. Len(s) \in Nat /\ MaxLists \in Nat /\ DOMAIN s = 1 .. Len(s)
  BY StoreAssumption
<1>3. n \in Nat /\ n <= Len(s) /\ n <= MaxLists /\ (Len(s) <= MaxLists => n = Len(s))
  BY <1>0, <1>1, <1>2
<1>4. PICK t : t = SubSeq(s, 1, n)
  OBVIOUS
<1>5. t = Taking(doc)
  BY <1>0, <1>1, <1>4 DEF Taking
<1>7. \A i \in 1 .. n : i \in 1 .. Len(s) /\ s[i] \in Records
  <2>0. n \in Nat /\ n <= Len(s) /\ Len(s) \in Nat
    BY <1>2, <1>3
  <2>1. \A i \in 1 .. n : i \in 1 .. Len(s)
    BY <2>0
  <2> QED BY <1>2, <2>1
<1>6. /\ t \in Seq(Records) /\ Len(t) = IF 1 <= n THEN n - 1 + 1 ELSE 0
      /\ \A i \in 1 .. n - 1 + 1 : t[i] = s[1 + i - 1]
  <2>1. 1 \in Int /\ n \in Int /\ \A i \in 1 .. n : s[i] \in Records
    BY <1>3, <1>7
  <2> QED BY <1>4, <2>1, SubSeqProperties
<1>8. t \in Seq(Records) /\ Len(t) = n
  BY <1>3, <1>6
<1>9. \A i \in 1 .. n : t[i] = s[i]
  <2> SUFFICES ASSUME NEW i \in 1 .. n PROVE t[i] = s[i]
    OBVIOUS
  <2>1. i \in 1 .. n - 1 + 1 /\ 1 + i - 1 = i
    BY <1>3
  <2> QED BY <1>6, <2>1
<1>10. Len(s) <= MaxLists => t = s
  BY <1>2, <1>3, <1>8, <1>9, SameSeq
<1> QED BY <1>1, <1>2, <1>3, <1>5, <1>7, <1>8, <1>9, <1>10

(* The counters of a document are past all it names, and are the stored ones  *)
(* when those are.                                                            *)
LEMMA CountersAre ==
  ASSUME NEW doc \in Docs
  PROVE  /\ EntryCounter(doc) \in Identifiers /\ doc.nextEntry <= EntryCounter(doc)
         /\ \A k \in DOMAIN doc.lists : \A id \in Ids(doc.lists[k]) : id < EntryCounter(doc)
         /\ (\A k \in DOMAIN doc.lists : \A id \in Ids(doc.lists[k]) : id < doc.nextEntry) =>
               EntryCounter(doc) = doc.nextEntry
         /\ ListCounter(doc) \in Identifiers
         /\ (\A k \in DOMAIN doc.lists : doc.lists[k].id < doc.nextList) =>
               ListCounter(doc) = doc.nextList
<1> DEFINE listIds == {doc.lists[k].id : k \in DOMAIN doc.lists} \ {None}
<1>1. doc.nextEntry \in Identifiers /\ doc.nextList \in Identifiers
  BY DEF Docs
<1>2. PICK b \in Nat : \A id \in StoredIds(doc) : id <= b
  BY StoredBounded
<1>3. PICK c \in Nat : \A k \in DOMAIN doc.lists : doc.lists[k].id <= c
  BY StoredBounded
<1>4. StoredIds(doc) \in SUBSET Nat
  BY StoredBounded
<1>5. listIds \in SUBSET Nat /\ \A id \in listIds : id <= c
  <2>1. doc.lists \in Seq(Records)
    BY DEF Docs
  <2>2. \A k \in DOMAIN doc.lists : doc.lists[k] \in Records
    BY <2>1
  <2>3. \A k \in DOMAIN doc.lists : doc.lists[k].id \in Nat
    BY <2>2 DEF Records
  <2> QED BY <1>3, <2>3
<1>6. /\ EntryCounter(doc) \in Identifiers /\ doc.nextEntry <= EntryCounter(doc)
      /\ \A id \in StoredIds(doc) : id < EntryCounter(doc)
      /\ (\A id \in StoredIds(doc) : id < doc.nextEntry) => EntryCounter(doc) = doc.nextEntry
  BY <1>1, <1>2, <1>4, CounterIs DEF EntryCounter
<1>7. /\ ListCounter(doc) \in Identifiers
      /\ (\A id \in listIds : id < doc.nextList) => ListCounter(doc) = doc.nextList
  <2>1. ListCounter(doc) = Counter(doc.nextList, listIds)
    BY DEF ListCounter
  <2> HIDE DEF listIds
  <2> QED BY <1>1, <1>5, <2>1, CounterIs
<1> QED BY <1>6, <1>7 DEF StoredIds

(* What all the records make: every list stands, and is restored if it was whole. *)
LEMMA PushedIs ==
  ASSUME NEW doc \in Docs, NEW x, x = Pushed(doc)
  PROVE  /\ Ready(x) /\ Standing(Taking(doc), EntryCounter(doc), x, Len(Taking(doc)))
         /\ Storable(Taking(doc), EntryCounter(doc), ListCounter(doc)) =>
               Restored(Taking(doc), EntryCounter(doc), ListCounter(doc), x, Len(Taking(doc)))
<1> DEFINE r == [lists |-> <<>>, entries |-> <<>>, cursor |-> None, total |-> 0,
                 seen |-> {}, seenLists |-> {},
                 entryIds |-> EntryCounter(doc), listIds |-> ListCounter(doc)]
<1>1. x = FoldLeft(PushRecord, r, Taking(doc))
  BY DEF Pushed, Taking, EntryCounter, ListCounter
<1>2. EntryCounter(doc) \in Identifiers /\ ListCounter(doc) \in Identifiers
  BY CountersAre
<1>3. r \in Takings
  <2>1. <<>> \in Seq(StoreLists) /\ <<>> \in Seq(StoreEntries) /\ None \in Nat
    BY DEF None
  <2> QED BY <1>2, <2>1 DEF Takings
<1>4. /\ r.lists = <<>> /\ r.seen = {} /\ r.seenLists = {} /\ r.total = 0
      /\ r.entryIds = EntryCounter(doc) /\ r.listIds = ListCounter(doc)
  OBVIOUS
<1> HIDE DEF r
<1>5. Tallied(r)
  <2>1. IsFiniteSet({}) /\ Cardinality({}) = 0
    BY FS_EmptySet
  <2> QED BY <1>4, <2>1, StoreAssumption DEF Tallied
<1>6. Ready(r)
  BY <1>3, <1>4, <1>5 DEF Ready, ListsSound, IdsIn
<1>7. Taking(doc) \in Seq(Records) /\ EntryCounter(doc) \in Nat
      /\ \A k \in DOMAIN Taking(doc) : \A id \in Ids(Taking(doc)[k]) : id < EntryCounter(doc)
  <2>1. Taking(doc) \in Seq(Records) /\ EntryCounter(doc) \in Nat
    BY <1>2, TakingIs DEF Identifiers
  <2>2. \A k \in DOMAIN Taking(doc) : k \in DOMAIN doc.lists /\ Taking(doc)[k] = doc.lists[k]
    BY <2>1, TakingIs
  <2> QED BY <2>1, <2>2, CountersAre
<1>8. EntryCounter(doc) <= r.entryIds
  BY <1>4, <1>7
<1> QED BY <1>1, <1>4, <1>6, <1>7, <1>8, PushesAll

-----------------------------------------------------------------------------
(* A set as it is kept in memory. *)
StoreSound(x) ==
    /\ x \in StoreSets /\ x.lists # <<>> /\ Len(x.lists) <= MaxLists
    /\ ListsSound(x.lists) /\ \A k \in DOMAIN x.lists : x.lists[k].id < x.listIds
    /\ \A id \in AllIds(x) : id < x.entryIds
    /\ x.playing \in Members(x)
    /\ IsFiniteSet(AllIds(x)) /\ Cardinality(AllIds(x)) <= EntryCap

(* A cursor is on a medium. *)
LEMMA CursorMediaIs ==
  ASSUME NEW list \in StoreLists, OwnList(list) PROVE CursorMedia(list) \in Mediums
<1>1. CASE list.cursor = None
  BY <1>1 DEF CursorMedia, Mediums
<1>2. CASE list.cursor # None
  <2>1. \E i \in DOMAIN list.entries : list.entries[i].id = list.cursor
    BY <1>2 DEF OwnList, Ids
  <2>2. Position(list, list.cursor) \in DOMAIN list.entries
    BY <2>1 DEF Position
  <2>3. list.entries \in Seq(StoreEntries)
    BY DEF StoreLists
  <2>4. list.entries[Position(list, list.cursor)] \in StoreEntries
    BY <2>2, <2>3
  <2> QED BY <1>2, <2>4 DEF CursorMedia, Mediums, AnyMedium, StoreEntries
<1> QED BY <1>1, <1>2

(* One list of a set replaced by another of the same name. *)
Swaps(lists, k, list, more) ==
    /\ more \in Seq(StoreLists) /\ Len(more) = Len(lists) /\ DOMAIN more = DOMAIN lists
    /\ more[k] = list /\ \A l \in DOMAIN lists : l # k => more[l] = lists[l]
    /\ ListsSound(more)
    /\ {more[l].id : l \in DOMAIN more} = {lists[l].id : l \in DOMAIN lists}
    /\ \A l \in DOMAIN lists : more[l].id = lists[l].id
    /\ IdsIn(more) \in SUBSET (IdsIn(lists) \union Ids(list))

(* Swapping one list for a sound one leaves sound lists. *)
LEMMA ListSwapped ==
  ASSUME NEW lists \in Seq(StoreLists), ListsSound(lists), NEW k \in DOMAIN lists,
         NEW list \in StoreLists, OwnList(list), list.id = lists[k].id,
         \A l \in DOMAIN lists : l # k => Ids(list) \cap Ids(lists[l]) = {},
         NEW more, more = [lists EXCEPT ![k] = list]
  PROVE  Swaps(lists, k, list, more)
<1>1. /\ more \in Seq(StoreLists) /\ Len(more) = Len(lists) /\ DOMAIN more = DOMAIN lists
      /\ more[k] = list /\ \A l \in DOMAIN lists : l # k => more[l] = lists[l]
  <2>1. more \in Seq(StoreLists) /\ Len(more) = Len(lists)
        /\ \A l \in 1 .. Len(lists) : more[l] = IF l = k THEN list ELSE lists[l]
    BY ExceptSeq
  <2> QED BY <2>1
<1>2. \A l \in DOMAIN lists : more[l].id = lists[l].id
  BY <1>1
<1>3. \A l \in DOMAIN more : OwnList(more[l])
  BY <1>1 DEF ListsSound
<1>4. \A l \in DOMAIN lists : l # k => Apart(list, lists[l]) /\ Apart(lists[l], list)
  <2>1. \A l \in DOMAIN lists : l # k => Apart(lists[k], lists[l])
    BY DEF ListsSound
  <2> QED BY <2>1 DEF Apart
<1>5. \A l, m \in DOMAIN more : l # m => Apart(more[l], more[m])
  <2>1. \A l, m \in DOMAIN lists : l # m => Apart(lists[l], lists[m])
    BY DEF ListsSound
  <2> QED BY <1>1, <1>4, <2>1
<1>6. IdsIn(more) \in SUBSET (IdsIn(lists) \union Ids(list))
  <2> SUFFICES ASSUME NEW l \in DOMAIN more, NEW id \in Ids(more[l])
               PROVE  id \in IdsIn(lists) \union Ids(list)
    BY DEF IdsIn
  <2>1. CASE l = k
    BY <1>1, <2>1
  <2>2. CASE l # k
    BY <1>1, <2>2 DEF IdsIn
  <2> QED BY <2>1, <2>2
<1>7. {more[l].id : l \in DOMAIN more} = {lists[l].id : l \in DOMAIN lists}
  BY <1>1, <1>2
<1> QED BY <1>1, <1>2, <1>3, <1>5, <1>6, <1>7 DEF Swaps, ListsSound

(* Recovery, in one of three ways: a set of one empty list; the lists under    *)
(* the one that played, whose cursor is dropped if it is on another medium; or *)
(* the lists under the first of them.                                          *)
Rebuilt(out, lists, playing, entryIds, listIds, media) ==
    /\ out.set = [lists |-> lists, playing |-> playing, entryIds |-> entryIds, listIds |-> listIds]
    /\ out.media = media
Afresh(doc, x, out) ==
    /\ x.lists = <<>>
    /\ \E id, next :
          /\ IF x.listIds = Exhausted THEN id = 1 /\ next = Exhausted
             ELSE id = x.listIds /\ next = x.listIds + 1
          /\ Rebuilt(out, <<PlainList(id)>>, id, x.entryIds, next, doc.media)
Resumed(doc, x, out) ==
    \E k \in DOMAIN x.lists : \E lists :
       /\ x.lists[k].id = doc.playing
       /\ \/ lists = x.lists
          \/ /\ lists = [x.lists EXCEPT ![k] = [x.lists[k] EXCEPT !.cursor = None]]
             /\ CursorMedia(x.lists[k]) # doc.media
       /\ Rebuilt(out, lists, doc.playing, x.entryIds, x.listIds, doc.media)
Moved(doc, x, out) ==
    /\ x.lists # <<>> /\ \A k \in DOMAIN x.lists : x.lists[k].id # doc.playing
    /\ Rebuilt(out, x.lists, x.lists[1].id, x.entryIds, x.listIds, CursorMedia(x.lists[1]))

(* Recover does one of the three. *)
LEMMA RecoverIs ==
  ASSUME NEW doc, NEW x, x = Pushed(doc), x \in Takings
  PROVE  Afresh(doc, x, Recover(doc)) \/ Resumed(doc, x, Recover(doc)) \/ Moved(doc, x, Recover(doc))
<1> DEFINE known == {k \in DOMAIN x.lists : x.lists[k].id = doc.playing}
           kept(lists, playing) == [lists |-> lists, playing |-> playing,
                                    entryIds |-> x.entryIds, listIds |-> x.listIds]
           k0 == CHOOSE k \in known : TRUE
           stale == CursorMedia(x.lists[k0]) \notin {NoMedium, doc.media}
           id0 == IF x.listIds = Exhausted THEN 1 ELSE x.listIds
           afresh == [set |-> [kept(<<PlainList(id0)>>, id0) EXCEPT
                                 !.listIds = IF @ = Exhausted THEN @ ELSE @ + 1],
                      media |-> doc.media]
           resumed == [set |-> kept(IF stale THEN [x.lists EXCEPT ![k0].cursor = None] ELSE x.lists,
                                    doc.playing),
                       media |-> doc.media]
           moved == [set |-> kept(x.lists, x.lists[1].id), media |-> CursorMedia(x.lists[1])]
<1>0. x.lists \in Seq(StoreLists)
  BY DEF Takings
<1>1. /\ x.lists = <<>> => Recover(doc) = afresh
      /\ x.lists # <<>> /\ known # {} => Recover(doc) = resumed
      /\ x.lists # <<>> /\ known = {} => Recover(doc) = moved
  BY DEF Recover
<1>2. CASE x.lists = <<>>
  <2>1. afresh.set = [lists |-> <<PlainList(id0)>>, playing |-> id0, entryIds |-> x.entryIds,
                      listIds |-> IF x.listIds = Exhausted THEN Exhausted ELSE x.listIds + 1]
        /\ afresh.media = doc.media
    OBVIOUS
  <2> QED BY <1>1, <1>2, <2>1 DEF Afresh, Rebuilt
<1>3. CASE x.lists # <<>> /\ known # {}
  <2>1. k0 \in DOMAIN x.lists /\ x.lists[k0].id = doc.playing
    BY <1>3
  <2>2. resumed.set = kept(IF stale THEN [x.lists EXCEPT ![k0].cursor = None] ELSE x.lists,
                           doc.playing)
        /\ resumed.media = doc.media
    OBVIOUS
  <2> HIDE DEF k0
  <2> DEFINE lists == IF stale THEN [x.lists EXCEPT ![k0].cursor = None] ELSE x.lists
  <2>3. \/ lists = x.lists
        \/ /\ lists = [x.lists EXCEPT ![k0] = [x.lists[k0] EXCEPT !.cursor = None]]
           /\ CursorMedia(x.lists[k0]) # doc.media
    OBVIOUS
  <2>4. Rebuilt(resumed, lists, doc.playing, x.entryIds, x.listIds, doc.media)
    BY <2>2 DEF Rebuilt
  <2> HIDE DEF lists
  <2> QED BY <1>1, <1>3, <2>1, <2>3, <2>4 DEF Resumed
<1>4. CASE x.lists # <<>> /\ known = {}
  <2>1. moved.set = kept(x.lists, x.lists[1].id) /\ moved.media = CursorMedia(x.lists[1])
    OBVIOUS
  <2>2. Rebuilt(moved, x.lists, x.lists[1].id, x.entryIds, x.listIds, CursorMedia(x.lists[1]))
    BY <2>1 DEF Rebuilt
  <2> QED BY <1>1, <1>4, <2>2 DEF Moved
<1> QED BY <1>2, <1>3, <1>4

(* Lists that are ready make a sound set. *)
LEMMA ReadySound ==
  ASSUME NEW x, Ready(x), NEW y, y.lists \in Seq(StoreLists), y.lists # <<>>,
         Len(y.lists) <= MaxLists, ListsSound(y.lists),
         {y.lists[k].id : k \in DOMAIN y.lists} = {x.lists[k].id : k \in DOMAIN x.lists},
         IdsIn(y.lists) \in SUBSET IdsIn(x.lists), y.entryIds = x.entryIds, y.listIds = x.listIds,
         y.playing \in Members(y), y \in StoreSets
  PROVE  StoreSound(y)
<1>1. /\ \A id \in x.seenLists : id < x.listIds
      /\ x.seenLists = {x.lists[k].id : k \in DOMAIN x.lists}
      /\ IsFiniteSet(x.seen) /\ Cardinality(x.seen) <= EntryCap /\ x.seen = IdsIn(x.lists)
      /\ \A id \in x.seen : id < x.entryIds
  BY DEF Ready, Tallied
<1>2. \A k \in DOMAIN y.lists : y.lists[k].id < y.listIds
  BY <1>1
<1>3. AllIds(y) = IdsIn(y.lists)
  BY DEF AllIds, IdsIn
<1>4. \A id \in AllIds(y) : id < y.entryIds
  BY <1>1, <1>3
<1>5. IsFiniteSet(AllIds(y)) /\ Cardinality(AllIds(y)) <= Cardinality(x.seen)
  BY <1>1, <1>3, FS_Subset
<1>6. Cardinality(AllIds(y)) \in Nat /\ Cardinality(x.seen) \in Nat /\ EntryCap \in Nat
  BY <1>1, <1>5, FS_CardinalityType, StoreAssumption
<1>7. Cardinality(AllIds(y)) <= EntryCap
  BY <1>1, <1>5, <1>6
<1> QED BY <1>2, <1>4, <1>5, <1>7 DEF StoreSound

(* A list without its cursor. *)
LEMMA BareList ==
  ASSUME NEW list \in StoreLists, OwnList(list), NEW bare, bare = [list EXCEPT !.cursor = None]
  PROVE  /\ bare \in StoreLists /\ OwnList(bare) /\ bare.id = list.id /\ bare.cursor = None
         /\ bare.entries = list.entries /\ Ids(bare) = Ids(list)
<1>1. /\ bare \in StoreLists /\ bare.id = list.id /\ bare.cursor = None
      /\ bare.entries = list.entries
  BY DEF StoreLists, None
<1> QED BY <1>1 DEF OwnList, Once, Ids

(* The set of one empty list is sound. *)
LEMMA PlainSound ==
  ASSUME NEW id \in Identifiers, NEW next \in Identifiers, id < next, NEW ids \in Identifiers, NEW y,
         y = [lists |-> <<PlainList(id)>>, playing |-> id, entryIds |-> ids, listIds |-> next]
  PROVE  StoreSound(y)
<1> DEFINE list == PlainList(id)
<1>1. /\ list \in StoreLists /\ list.id = id /\ list.cursor = None /\ list.entries = <<>>
  <2>1. id \in Identifiers /\ None \in Nat /\ Off \in Nat /\ <<>> \in Seq(StoreEntries)
    BY StoreAssumption DEF None, Off
  <2> QED BY <2>1 DEF PlainList, StoreLists
<1> HIDE DEF list
<1>2. Ids(list) = {} /\ OwnList(list)
  BY <1>1 DEF Ids, OwnList, Once
<1>3. /\ y.lists = <<list>> /\ y.playing = id /\ y.entryIds = ids /\ y.listIds = next
      /\ y \in StoreSets
  <2>1. <<list>> \in Seq(StoreLists) /\ id \in Nat
    BY <1>1 DEF Identifiers
  <2> QED BY <2>1 DEF StoreSets, list
<1>4. DOMAIN y.lists = {1} /\ y.lists[1] = list /\ Len(y.lists) = 1 /\ y.lists # <<>>
  BY <1>3
<1>5. AllIds(y) = {}
  BY <1>2, <1>4 DEF AllIds
<1>6. IsFiniteSet({}) /\ Cardinality({}) = 0
  BY FS_EmptySet
<1>7. ListsSound(y.lists) /\ y.playing \in Members(y)
  BY <1>1, <1>2, <1>3, <1>4 DEF ListsSound, Members
<1>8. Len(y.lists) <= MaxLists /\ 0 <= EntryCap
  BY <1>4, StoreAssumption
<1> QED BY <1>1, <1>3, <1>4, <1>5, <1>6, <1>7, <1>8 DEF StoreSound

(* Whatever the document, the set recovered is sound, and no id that was given *)
(* out is given out again.                                                    *)
LEMMA RecoverSound ==
  ASSUME NEW doc \in Docs
  PROVE  LET out == Recover(doc) IN
         StoreSound(out.set) /\ out.media \in Mediums /\ doc.nextEntry <= out.set.entryIds
<1> DEFINE out == Recover(doc)
<1>1. PICK x : x = Pushed(doc)
  OBVIOUS
<1>2. Ready(x) /\ Standing(Taking(doc), EntryCounter(doc), x, Len(Taking(doc)))
  BY <1>1, PushedIs
<1>3. /\ x \in Takings /\ x.lists \in Seq(StoreLists) /\ x.entryIds \in Identifiers
      /\ x.listIds \in Identifiers /\ x.entryIds \in Nat /\ ListsSound(x.lists)
      /\ x.seen = IdsIn(x.lists)
  BY <1>2 DEF Ready, Takings, Identifiers
<1>4. doc.nextEntry <= x.entryIds
  <2>1. doc.nextEntry <= EntryCounter(doc) /\ EntryCounter(doc) \in Nat /\ doc.nextEntry \in Nat
    BY CountersAre DEF Docs, Identifiers
  <2>2. EntryCounter(doc) <= x.entryIds
    BY <1>2 DEF Standing
  <2> QED BY <1>3, <2>1, <2>2
<1>5. Len(x.lists) <= MaxLists
  <2>1. Len(x.lists) <= Len(Taking(doc)) /\ Len(Taking(doc)) <= MaxLists /\ Len(Taking(doc)) \in Nat
    BY <1>2, TakingIs DEF Standing
  <2> QED BY <1>3, <2>1, StoreAssumption
<1>6. doc.media \in Mediums /\ doc.playing \in Nat
  BY DEF Docs
<1>7. CASE Afresh(doc, x, out)
  <2>1. PICK id, next :
          /\ IF x.listIds = Exhausted THEN id = 1 /\ next = Exhausted
             ELSE id = x.listIds /\ next = x.listIds + 1
          /\ Rebuilt(out, <<PlainList(id)>>, id, x.entryIds, next, doc.media)
    BY <1>7 DEF Afresh
  <2>2. id \in Identifiers /\ next \in Identifiers /\ id < next
    BY <1>3, <2>1, StoreAssumption DEF Identifiers, None, Exhausted
  <2>3. out.set = [lists |-> <<PlainList(id)>>, playing |-> id, entryIds |-> x.entryIds,
                   listIds |-> next]
        /\ out.media = doc.media
    BY <2>1 DEF Rebuilt
  <2>4. StoreSound(out.set) /\ out.set.entryIds = x.entryIds
    BY <1>3, <2>2, <2>3, PlainSound
  <2> QED BY <1>4, <1>6, <2>3, <2>4
<1>8. ASSUME NEW lists \in Seq(StoreLists), NEW playing \in Nat, NEW media \in Mediums,
             ListsSound(lists), Len(lists) = Len(x.lists), lists # <<>>,
             {lists[k].id : k \in DOMAIN lists} = {x.lists[k].id : k \in DOMAIN x.lists},
             IdsIn(lists) \in SUBSET IdsIn(x.lists),
             playing \in {lists[k].id : k \in DOMAIN lists},
             Rebuilt(out, lists, playing, x.entryIds, x.listIds, media)
      PROVE  StoreSound(out.set) /\ out.media \in Mediums /\ doc.nextEntry <= out.set.entryIds
  <2>1. PICK y : y = out.set
    OBVIOUS
  <2>2. /\ y.lists = lists /\ y.playing = playing /\ y.entryIds = x.entryIds
        /\ y.listIds = x.listIds /\ y \in StoreSets /\ out.media = media
    BY <1>3, <1>8, <2>1 DEF Rebuilt, StoreSets
  <2>3. y.playing \in Members(y)
    BY <1>8, <2>2 DEF Members
  <2>4. StoreSound(y)
    BY <1>2, <1>5, <1>8, <2>2, <2>3, ReadySound
  <2> QED BY <1>4, <1>8, <2>1, <2>2, <2>4
<1>9. CASE Resumed(doc, x, out)
  <2>0. PICK k \in DOMAIN x.lists : \E lists :
           /\ x.lists[k].id = doc.playing
           /\ \/ lists = x.lists
              \/ /\ lists = [x.lists EXCEPT ![k] = [x.lists[k] EXCEPT !.cursor = None]]
                 /\ CursorMedia(x.lists[k]) # doc.media
           /\ Rebuilt(out, lists, doc.playing, x.entryIds, x.listIds, doc.media)
    BY <1>9 DEF Resumed
  <2>1. PICK lists :
           /\ x.lists[k].id = doc.playing
           /\ \/ lists = x.lists
              \/ /\ lists = [x.lists EXCEPT ![k] = [x.lists[k] EXCEPT !.cursor = None]]
                 /\ CursorMedia(x.lists[k]) # doc.media
           /\ Rebuilt(out, lists, doc.playing, x.entryIds, x.listIds, doc.media)
    BY <2>0
  <2>2. x.lists # <<>> /\ doc.playing \in {x.lists[l].id : l \in DOMAIN x.lists}
    BY <2>1
  <2>3. CASE lists = x.lists
    BY <1>3, <1>6, <1>8, <2>1, <2>2, <2>3
  <2>4. CASE lists = [x.lists EXCEPT ![k] = [x.lists[k] EXCEPT !.cursor = None]]
    <3>1. PICK bare : bare = [x.lists[k] EXCEPT !.cursor = None]
      OBVIOUS
    <3>2. x.lists[k] \in StoreLists /\ OwnList(x.lists[k])
      BY <1>3 DEF ListsSound
    <3>3. /\ bare \in StoreLists /\ OwnList(bare) /\ bare.id = x.lists[k].id
          /\ Ids(bare) = Ids(x.lists[k])
      BY <3>1, <3>2, BareList
    <3>4. \A l \in DOMAIN x.lists : l # k => Ids(bare) \cap Ids(x.lists[l]) = {}
      BY <1>3, <3>3 DEF ListsSound, Apart
    <3>5. Swaps(x.lists, k, bare, lists)
      BY <1>3, <2>4, <3>1, <3>3, <3>4, ListSwapped
    <3>6. Ids(bare) \in SUBSET IdsIn(x.lists)
      BY <3>3 DEF IdsIn
    <3>7. /\ lists \in Seq(StoreLists) /\ ListsSound(lists) /\ Len(lists) = Len(x.lists)
          /\ {lists[l].id : l \in DOMAIN lists} = {x.lists[l].id : l \in DOMAIN x.lists}
          /\ IdsIn(lists) \in SUBSET IdsIn(x.lists)
      BY <3>5, <3>6 DEF Swaps
    <3>8. lists # <<>>
      BY <1>3, <2>2, <3>7
    <3> QED BY <1>6, <1>8, <2>1, <2>2, <3>7, <3>8
  <2> QED BY <2>1, <2>3, <2>4
<1>10. CASE Moved(doc, x, out)
  <2>1. x.lists # <<>> /\ Rebuilt(out, x.lists, x.lists[1].id, x.entryIds, x.listIds,
                                  CursorMedia(x.lists[1]))
    BY <1>10 DEF Moved
  <2>2. 1 \in DOMAIN x.lists /\ x.lists[1] \in StoreLists
    BY <1>3, <2>1
  <2>3. CursorMedia(x.lists[1]) \in Mediums
    BY <1>3, <2>2, CursorMediaIs DEF ListsSound
  <2>4. x.lists[1].id \in Nat /\ x.lists[1].id \in {x.lists[k].id : k \in DOMAIN x.lists}
    BY <2>2 DEF StoreLists, Identifiers
  <2> QED BY <1>3, <1>8, <2>1, <2>3, <2>4
<1> QED BY <1>1, <1>3, <1>7, <1>9, <1>10, RecoverIs

(* As many values as places, when no two places have the same. *)
LEMMA CountDistinct ==
  ASSUME NEW n \in Nat, NEW f, \A i, j \in 1 .. n : f[i] = f[j] => i = j
  PROVE  LET all == {f[i] : i \in 1 .. n} IN IsFiniteSet(all) /\ Cardinality(all) = n
<1> DEFINE first(m) == {f[i] : i \in 1 .. m}
           Counts(m) == IsFiniteSet(first(m)) /\ Cardinality(first(m)) = m
           P == {m \in 0 .. n : Counts(m)}
<1>1. 0 \in P
  <2>1. first(0) = {}
    OBVIOUS
  <2>2. Counts(0)
    BY <2>1, FS_EmptySet
  <2> HIDE DEF Counts
  <2> QED BY <2>2
<1>2. ASSUME NEW m \in 0 .. n, m \in P, m < n PROVE m + 1 \in P
  <2>1. m + 1 \in 0 .. n /\ m \in Nat /\ m + 1 \in 1 .. m + 1 /\ m + 1 \in 1 .. n
    BY <1>2
  <2>2. \A i \in 1 .. m + 1 : i \in 1 .. m \/ i = m + 1
    BY <2>1
  <2>3. \A i \in 1 .. m : i \in 1 .. m + 1 /\ i \in 1 .. n /\ i # m + 1
    BY <2>1
  <2>4. first(m + 1) = first(m) \union {f[m + 1]}
    BY <2>1, <2>2, <2>3
  <2>5. f[m + 1] \notin first(m)
    BY <2>1, <2>3
  <2>6. IsFiniteSet(first(m)) /\ Cardinality(first(m)) = m
    BY <1>2
  <2> HIDE DEF first
  <2>7. Counts(m + 1)
    BY <2>4, <2>5, <2>6, FS_AddElement
  <2> HIDE DEF Counts
  <2> QED BY <2>1, <2>7
<1> HIDE DEF P
<1>3. n \in P
  <2>1. \A m \in 0 .. n : m \in P
    BY <1>1, <1>2, Climbs
  <2> QED BY <2>1
<1> QED BY <1>3 DEF P

(* The entries of one list are as many as their ids. *)
LEMMA EntriesCounted ==
  ASSUME NEW list \in StoreLists, Once(list)
  PROVE  IsFiniteSet(Ids(list)) /\ Cardinality(Ids(list)) = Len(list.entries)
<1> DEFINE n == Len(list.entries)
           f == [i \in 1 .. n |-> list.entries[i].id]
<1>1. n \in Nat /\ DOMAIN list.entries = 1 .. n
  BY DEF StoreLists
<1>2. \A i, j \in 1 .. n : f[i] = f[j] => i = j
  BY <1>1 DEF Once
<1>3. Ids(list) = {f[i] : i \in 1 .. n}
  BY <1>1 DEF Ids
<1> HIDE DEF f, n
<1>4. IsFiniteSet({f[i] : i \in 1 .. n}) /\ Cardinality({f[i] : i \in 1 .. n}) = n
  BY <1>1, <1>2, CountDistinct
<1> QED BY <1>3, <1>4 DEF n

(* The tally of the lists, place by place. *)
LEMMA TalliesFold ==
  ASSUME NEW seq \in Seq(StoreLists)
  PROVE  \E g \in [0 .. Len(seq) -> Nat] :
            /\ g[0] = 0 /\ g[Len(seq)] = FoldLeft(Tally, 0, seq)
            /\ \A m \in 1 .. Len(seq) : g[m] = Tally(g[m - 1], seq[m])
<1> DEFINE D == DOMAIN seq
           F == [p \in Nat \X StoreLists |-> Tally(p[1], p[2])]
           Is(f) == f = [s \in SUBSET D |->
                          IF s = {} THEN 0 ELSE Tally(f[s \ {Max(s)}], seq[Max(s)])]
           iter == CHOOSE f : Is(f)
<1>1. Len(seq) \in Nat /\ D = 1 .. Len(seq)
  OBVIOUS
<1>2. FoldLeft(Tally, 0, seq) = iter[D]
  BY DEF FoldLeft, MapThenFoldSet
<1>3. F \in [Nat \X StoreLists -> Nat]
  <2>1. \A n \in Nat, list \in StoreLists : Tally(n, list) \in Nat
    BY DEF Tally, StoreLists
  <2> QED BY <2>1
<1>4. \A n \in Nat, list \in StoreLists : F[<<n, list>>] = Tally(n, list)
  OBVIOUS
<1> HIDE DEF F
<1>5. \A s \in SUBSET D : s # {} => Max(s) \in D /\ seq[Max(s)] \in StoreLists
  <2> SUFFICES ASSUME NEW s \in SUBSET D, s # {}
               PROVE  Max(s) \in D /\ seq[Max(s)] \in StoreLists
    OBVIOUS
  <2>1. s \in SUBSET (1 .. Len(seq))
    BY <1>1
  <2>2. Max(s) \in s
    BY <1>1, <2>1, MaxOfPrefix
  <2> QED BY <2>2
<1>6. \E f : Is(f)
  <2>0. PICK h : FoldsOver(h, Nat, 0, seq, F)
    BY <1>3, Unfolds
  <2>1. /\ h \in [SUBSET D -> Nat]
        /\ \A s \in SUBSET D :
              h[s] = IF s = {} THEN 0 ELSE F[<<h[s \ {Max(s)}], seq[Max(s)]>>]
    BY <2>0 DEF FoldsOver
  <2>2. ASSUME NEW s \in SUBSET D
        PROVE  h[s] = IF s = {} THEN 0 ELSE Tally(h[s \ {Max(s)}], seq[Max(s)])
    BY <1>4, <1>5, <2>1
  <2>3. Is(h)
    BY <2>1, <2>2
  <2> HIDE DEF Is
  <2> QED BY <2>3
<1>7. Is(iter)
  <2> HIDE DEF Is
  <2> QED BY <1>6
<1> HIDE DEF iter
<1>8. FoldsWithin(iter, Nat, 0, seq, F)
  BY <1>4, <1>5, <1>7 DEF FoldsWithin
<1> HIDE DEF Is
<1>0. PICK g : FoldsAlong(g, Nat, 0, seq, F, iter)
  BY <1>3, <1>8, UnfoldsTo
<1>9. /\ g \in [0 .. Len(seq) -> Nat] /\ g[0] = 0 /\ g[Len(seq)] = iter[D]
      /\ \A m \in 1 .. Len(seq) : g[m] = F[<<g[m - 1], seq[m]>>]
  BY <1>0 DEF FoldsAlong
<1>10. ASSUME NEW m \in 1 .. Len(seq) PROVE g[m] = Tally(g[m - 1], seq[m])
  <2>1. m - 1 \in 0 .. Len(seq) /\ m \in D
    BY <1>1
  <2>2. g[m - 1] \in Nat /\ seq[m] \in StoreLists
    BY <1>9, <2>1
  <2> QED BY <1>4, <1>9, <2>2
<1> QED BY <1>0, <1>2, <1>9, <1>10

(* The entries of sound lists are as many as their ids. *)
LEMMA TotalIs ==
  ASSUME NEW x, x.lists \in Seq(StoreLists), ListsSound(x.lists)
  PROVE  IsFiniteSet(AllIds(x)) /\ Total(x) = Cardinality(AllIds(x))
<1>1. PICK seq \in Seq(StoreLists) : seq = x.lists
  OBVIOUS
<1>2. PICK g \in [0 .. Len(seq) -> Nat] :
            /\ g[0] = 0 /\ g[Len(seq)] = FoldLeft(Tally, 0, seq)
            /\ \A m \in 1 .. Len(seq) : g[m] = Tally(g[m - 1], seq[m])
  BY TalliesFold
<1> DEFINE first(m) == UNION {Ids(seq[k]) : k \in 1 .. m}
           Counts(m) == IsFiniteSet(first(m)) /\ Cardinality(first(m)) = g[m]
           P == {m \in 0 .. Len(seq) : Counts(m)}
<1>3. Len(seq) \in Nat /\ DOMAIN seq = 1 .. Len(seq)
  OBVIOUS
<1>4. 0 \in P
  <2>1. first(0) = {}
    OBVIOUS
  <2>2. Counts(0)
    BY <1>2, <2>1, FS_EmptySet
  <2> HIDE DEF Counts
  <2> QED BY <1>3, <2>2
<1>5. ASSUME NEW m \in 0 .. Len(seq), m \in P, m < Len(seq) PROVE m + 1 \in P
  <2>1. /\ m + 1 \in 0 .. Len(seq) /\ m + 1 \in 1 .. Len(seq) /\ m \in Nat /\ (m + 1) - 1 = m
        /\ m + 1 \in 1 .. m + 1 /\ m + 1 \in DOMAIN seq
    BY <1>3, <1>5
  <2>2. \A k \in 1 .. m + 1 : k \in 1 .. m \/ k = m + 1
    BY <2>1
  <2>3. \A k \in 1 .. m : k \in 1 .. m + 1 /\ k \in DOMAIN seq /\ k # m + 1
    BY <1>3, <2>1
  <2>4. PICK list \in StoreLists : list = seq[m + 1]
    BY <2>1
  <2>5. first(m + 1) = first(m) \union Ids(list)
    BY <2>1, <2>2, <2>3, <2>4
  <2>6. Once(list) /\ \A k \in 1 .. m : Ids(seq[k]) \cap Ids(list) = {}
    BY <1>1, <2>1, <2>3, <2>4 DEF ListsSound, OwnList, Apart
  <2>7. first(m) \cap Ids(list) = {}
    BY <2>6
  <2>8. IsFiniteSet(Ids(list)) /\ Cardinality(Ids(list)) = Len(list.entries)
    BY <2>6, EntriesCounted
  <2>9. IsFiniteSet(first(m)) /\ Cardinality(first(m)) = g[m]
    BY <1>5
  <2>10. g[m + 1] = g[m] + Len(list.entries)
    BY <1>2, <2>1, <2>4 DEF Tally
  <2> HIDE DEF first
  <2>11. /\ IsFiniteSet(first(m) \union Ids(list))
         /\ Cardinality(first(m) \union Ids(list))
               = Cardinality(first(m)) + Cardinality(Ids(list)) - Cardinality(first(m) \cap Ids(list))
    BY <2>8, <2>9, FS_Union
  <2>12. Cardinality(first(m) \cap Ids(list)) = 0
    BY <2>7, FS_EmptySet
  <2>13. g[m] \in Nat /\ Len(list.entries) \in Nat
    BY <1>2 DEF StoreLists
  <2>15. Cardinality(first(m) \union Ids(list)) = g[m] + Len(list.entries)
    BY <2>8, <2>9, <2>11, <2>12, <2>13
  <2>14. Counts(m + 1)
    BY <2>5, <2>10, <2>11, <2>15
  <2> HIDE DEF Counts
  <2> QED BY <2>1, <2>14
<1> HIDE DEF P
<1>6. Len(seq) \in P
  <2>1. \A m \in 0 .. Len(seq) : m \in P
    BY <1>3, <1>4, <1>5, Climbs
  <2> QED BY <1>3, <2>1
<1>7. AllIds(x) = first(Len(seq))
  BY <1>1, <1>3 DEF AllIds
<1>8. Total(x) = g[Len(seq)]
  BY <1>1, <1>2 DEF Total
<1> QED BY <1>6, <1>7, <1>8 DEF P

(* StoredStands of a set y, the current medium and the document just loaded.   *)
Intactly(y, media, doc) ==
    /\ Unanchored(y.lists) = Unanchored(doc.lists)
    /\ y.playing = doc.playing
    /\ y.entryIds = doc.nextEntry /\ y.listIds = doc.nextList
    /\ media = doc.media
    /\ \A k \in DOMAIN y.lists :
        y.lists[k].cursor # doc.lists[k].cursor =>
            y.lists[k].id = y.playing /\ CursorMedia(doc.lists[k]) # media
Partly(y, doc) ==
    Len(y.lists) = Len(doc.lists) /\ y.listIds # Exhausted =>
        \A k \in DOMAIN y.lists : Stands(doc.lists, k, y.lists[k], Total(y))

(* Recovery changes no list but for a cursor.                                  *)
SameEntries(lists, more) ==
    /\ Len(lists) = Len(more) /\ DOMAIN lists = DOMAIN more
    /\ \A k \in DOMAIN more : lists[k].entries = more[k].entries /\ lists[k].id = more[k].id

(* What resuming the list that played leaves as it was. *)
LEMMA ResumedIs ==
  ASSUME NEW doc, NEW x, x.lists \in Seq(StoreLists), NEW out, Resumed(doc, x, out)
  PROVE  /\ SameEntries(out.set.lists, x.lists) /\ out.set.playing = doc.playing
         /\ out.set.entryIds = x.entryIds /\ out.set.listIds = x.listIds /\ out.media = doc.media
         /\ \A k \in DOMAIN x.lists :
               out.set.lists[k].cursor # x.lists[k].cursor =>
                  x.lists[k].id = doc.playing /\ CursorMedia(x.lists[k]) # doc.media
<1>0. PICK k \in DOMAIN x.lists : \E lists :
         /\ x.lists[k].id = doc.playing
         /\ \/ lists = x.lists
            \/ /\ lists = [x.lists EXCEPT ![k] = [x.lists[k] EXCEPT !.cursor = None]]
               /\ CursorMedia(x.lists[k]) # doc.media
         /\ Rebuilt(out, lists, doc.playing, x.entryIds, x.listIds, doc.media)
  BY DEF Resumed
<1>1. PICK lists :
         /\ x.lists[k].id = doc.playing
         /\ \/ lists = x.lists
            \/ /\ lists = [x.lists EXCEPT ![k] = [x.lists[k] EXCEPT !.cursor = None]]
               /\ CursorMedia(x.lists[k]) # doc.media
         /\ Rebuilt(out, lists, doc.playing, x.entryIds, x.listIds, doc.media)
  BY <1>0
<1>2. /\ out.set.lists = lists /\ out.set.playing = doc.playing /\ out.media = doc.media
      /\ out.set.entryIds = x.entryIds /\ out.set.listIds = x.listIds
  BY <1>1 DEF Rebuilt
<1>3. CASE lists = x.lists
  BY <1>2, <1>3 DEF SameEntries
<1>4. CASE /\ lists = [x.lists EXCEPT ![k] = [x.lists[k] EXCEPT !.cursor = None]]
           /\ CursorMedia(x.lists[k]) # doc.media
  <2>1. PICK bare : bare = [x.lists[k] EXCEPT !.cursor = None]
    OBVIOUS
  <2>2. bare.entries = x.lists[k].entries /\ bare.id = x.lists[k].id /\ bare \in StoreLists
    <3>1. x.lists[k] \in StoreLists
      OBVIOUS
    <3> QED BY <2>1, <3>1 DEF StoreLists, None
  <2>3. lists = [x.lists EXCEPT ![k] = bare]
    BY <1>4, <2>1
  <2>4. /\ Len(lists) = Len(x.lists) /\ lists \in Seq(StoreLists)
        /\ \A l \in 1 .. Len(x.lists) : lists[l] = IF l = k THEN bare ELSE x.lists[l]
    BY <2>2, <2>3, ExceptSeq
  <2>5. DOMAIN lists = DOMAIN x.lists /\ DOMAIN x.lists = 1 .. Len(x.lists)
    BY <2>4
  <2>6. SameEntries(lists, x.lists)
    BY <2>2, <2>4, <2>5 DEF SameEntries
  <2>7. \A l \in DOMAIN x.lists : lists[l].cursor # x.lists[l].cursor => l = k
    BY <2>4, <2>5
  <2> QED BY <1>1, <1>2, <1>4, <2>6, <2>7
<1> QED BY <1>1, <1>3, <1>4

(* The same entries have the same ids. *)
LEMMA SameIds ==
  ASSUME NEW y, NEW x, SameEntries(y.lists, x.lists) PROVE AllIds(y) = IdsIn(x.lists)
<1>1. \A k \in DOMAIN x.lists : Ids(y.lists[k]) = Ids(x.lists[k])
  BY DEF SameEntries, Ids
<1> QED BY <1>1 DEF AllIds, IdsIn, SameEntries

(* What stands of any document, the second half of StoredStands. *)
LEMMA PartlyStands ==
  ASSUME NEW doc \in Docs PROVE Partly(Recover(doc).set, doc)
<1> DEFINE out == Recover(doc)
           y == Recover(doc).set
<1> SUFFICES ASSUME Len(y.lists) = Len(doc.lists), y.listIds # Exhausted,
                    NEW k \in DOMAIN y.lists
             PROVE  Stands(doc.lists, k, y.lists[k], Total(y))
  BY DEF Partly
<1>1. PICK x : x = Pushed(doc)
  OBVIOUS
<1>2. Ready(x) /\ Standing(Taking(doc), EntryCounter(doc), x, Len(Taking(doc)))
  BY <1>1, PushedIs
<1>3. /\ x \in Takings /\ x.lists \in Seq(StoreLists) /\ ListsSound(x.lists)
      /\ x.seen = IdsIn(x.lists) /\ Cardinality(x.seen) = x.total
  BY <1>2 DEF Ready, Tallied, Takings
<1>4. /\ Len(x.lists) <= Len(Taking(doc)) /\ Len(Taking(doc)) <= MaxLists
      /\ Len(Taking(doc)) <= Len(doc.lists) /\ Len(Taking(doc)) \in Nat /\ MaxLists \in Nat \ {0}
      /\ Len(doc.lists) <= MaxLists => Taking(doc) = doc.lists
  BY <1>2, TakingIs, StoreAssumption DEF Standing
<1>5. StoreSound(y)
  BY RecoverSound
<1>6. y.lists \in Seq(StoreLists) /\ Total(y) = Cardinality(AllIds(y))
  <2>1. y.lists \in Seq(StoreLists) /\ ListsSound(y.lists)
    BY <1>5 DEF StoreSound, StoreSets
  <2> QED BY <2>1, TotalIs
<1>7. ~Afresh(doc, x, out)
  <2> SUFFICES ASSUME Afresh(doc, x, out) PROVE FALSE
    OBVIOUS
  <2>1. PICK id, next :
          /\ IF x.listIds = Exhausted THEN id = 1 /\ next = Exhausted
             ELSE id = x.listIds /\ next = x.listIds + 1
          /\ Rebuilt(out, <<PlainList(id)>>, id, x.entryIds, next, doc.media)
    BY DEF Afresh
  <2>2. y.lists = <<PlainList(id)>> /\ y.listIds = next
    BY <2>1 DEF Rebuilt
  <2>3. Len(doc.lists) = 1
    BY <2>2
  <2>4. Len(Taking(doc)) = 1
    BY <1>4, <2>3
  <2>5. x.listIds = Exhausted
    BY <1>2, <2>4 DEF Afresh, Standing
  <2> QED BY <2>1, <2>2, <2>5
<1>8. SameEntries(y.lists, x.lists)
  <2>1. CASE Resumed(doc, x, out)
    BY <1>3, <2>1, ResumedIs
  <2>2. CASE Moved(doc, x, out)
    <3>1. Rebuilt(out, x.lists, x.lists[1].id, x.entryIds, x.listIds, CursorMedia(x.lists[1]))
      BY <2>2 DEF Moved
    <3> QED BY <3>1 DEF Rebuilt, SameEntries
  <2> QED BY <1>1, <1>3, <1>7, <2>1, <2>2, RecoverIs
<1>9. Total(y) = x.total
  BY <1>3, <1>6, <1>8, SameIds
<1>10. Len(x.lists) = Len(doc.lists) /\ Len(x.lists) \in Nat
  BY <1>3, <1>8 DEF SameEntries
<1>11. Len(Taking(doc)) = Len(doc.lists)
  BY <1>4, <1>10
<1>12. Taking(doc) = doc.lists
  BY <1>4, <1>11
<1>13. k \in 1 .. Len(doc.lists)
  BY <1>6
<1>14. Stands(doc.lists, k, x.lists[k], x.total)
  BY <1>2, <1>10, <1>12, <1>13 DEF Standing
<1>15. x.lists[k].entries = y.lists[k].entries
  BY <1>8 DEF SameEntries
<1> QED BY <1>9, <1>14, <1>15 DEF Stands

(* What is stored of a sound set is a document, with the same lists. *)
LEMMA EncodeIs ==
  ASSUME NEW x, StoreSound(x), NEW media \in Mediums, NEW doc, doc = Encode(x, media)
  PROVE  /\ doc \in Docs /\ doc.intact /\ SameEntries(doc.lists, x.lists)
         /\ \A k \in DOMAIN x.lists : SameList(doc.lists[k], x.lists[k]) /\ doc.lists[k].readable
         /\ doc.playing = x.playing /\ doc.nextEntry = x.entryIds /\ doc.nextList = x.listIds
         /\ doc.media = media
<1> DEFINE n == Len(x.lists)
           record(k) == [id |-> x.lists[k].id, cursor |-> x.lists[k].cursor,
                         first |-> x.lists[k].first, entries |-> x.lists[k].entries,
                         readable |-> TRUE]
           records == [k \in DOMAIN x.lists |-> record(k)]
<1>1. /\ x.lists \in Seq(StoreLists) /\ x.playing \in Nat /\ x.entryIds \in Identifiers
      /\ x.listIds \in Identifiers
  BY DEF StoreSound, StoreSets
<1>2. n \in Nat /\ DOMAIN x.lists = 1 .. n /\ \A k \in 1 .. n : x.lists[k] \in StoreLists
  BY <1>1
<1>3. \A k \in 1 .. n : record(k) \in Records
  BY <1>2 DEF StoreLists, Records, Identifiers
<1>4. \A k \in 1 .. n : SameList(record(k), x.lists[k]) /\ record(k).readable
  BY DEF SameList
<1>5. doc = [lists |-> records, playing |-> x.playing, nextEntry |-> x.entryIds,
             nextList |-> x.listIds, media |-> media, intact |-> TRUE]
  BY DEF Encode
<1> HIDE DEF record
<1>6. records \in Seq(Records) /\ Len(records) = n /\ DOMAIN records = 1 .. n
      /\ \A k \in 1 .. n : records[k] = record(k)
  BY <1>2, <1>3
<1> HIDE DEF records
<1>7. doc \in Docs /\ doc.intact /\ doc.lists = records
  BY <1>1, <1>5, <1>6 DEF Docs
<1>8. SameEntries(doc.lists, x.lists)
  BY <1>2, <1>4, <1>6, <1>7 DEF SameEntries, SameList
<1>9. \A k \in DOMAIN x.lists : SameList(doc.lists[k], x.lists[k]) /\ doc.lists[k].readable
  BY <1>2, <1>4, <1>6, <1>7
<1> QED BY <1>5, <1>7, <1>8, <1>9

(* A list and its record have the same ids and the same medium at the cursor. *)
LEMMA SameListIs ==
  ASSUME NEW a, NEW b, SameList(a, b)
  PROVE  /\ CursorMedia(a) = CursorMedia(b) /\ Ids(a) = Ids(b) /\ (OwnList(b) => OwnList(a))
<1>1. Ids(a) = Ids(b) /\ (Once(b) => Once(a))
  BY DEF SameList, Ids, Once
<1>2. CursorMedia(a) = CursorMedia(b)
  BY DEF SameList, CursorMedia, Position
<1> QED BY <1>1, <1>2 DEF OwnList, SameList

(* What is stored of a sound set can be restored whole. *)
LEMMA EncodeStorable ==
  ASSUME NEW x, StoreSound(x), NEW media \in Mediums, NEW doc, doc = Encode(x, media)
  PROVE  Storable(doc.lists, x.entryIds, x.listIds)
<1>1. /\ doc \in Docs /\ SameEntries(doc.lists, x.lists)
      /\ \A k \in DOMAIN x.lists : SameList(doc.lists[k], x.lists[k]) /\ doc.lists[k].readable
  BY EncodeIs
<1>2. DOMAIN doc.lists = DOMAIN x.lists
  BY <1>1 DEF SameEntries
<1>3. /\ ListsSound(x.lists) /\ \A k \in DOMAIN x.lists : x.lists[k].id < x.listIds
      /\ \A id \in AllIds(x) : id < x.entryIds
      /\ IsFiniteSet(AllIds(x)) /\ Cardinality(AllIds(x)) <= EntryCap
      /\ x.lists \in Seq(StoreLists)
  BY DEF StoreSound, StoreSets
<1>4. \A k \in DOMAIN x.lists :
         /\ Ids(doc.lists[k]) = Ids(x.lists[k]) /\ OwnList(doc.lists[k])
         /\ doc.lists[k].id = x.lists[k].id
  BY <1>1, <1>3, SameListIs DEF ListsSound, SameList
<1>5. \A k, l \in DOMAIN x.lists : k # l => Apart(doc.lists[k], doc.lists[l])
  <2>1. \A k, l \in DOMAIN x.lists : k # l => Apart(x.lists[k], x.lists[l])
    BY <1>3 DEF ListsSound
  <2> QED BY <1>4, <2>1 DEF Apart
<1>6. IdsIn(doc.lists) = AllIds(x)
  BY <1>2, <1>4 DEF IdsIn, AllIds
<1>7. \A k \in DOMAIN doc.lists :
         /\ doc.lists[k].readable /\ doc.lists[k].id # None /\ doc.lists[k].id < x.listIds
         /\ \A id \in Ids(doc.lists[k]) : id < x.entryIds
  <2> SUFFICES ASSUME NEW k \in DOMAIN x.lists
               PROVE  /\ doc.lists[k].readable /\ doc.lists[k].id # None
                      /\ doc.lists[k].id < x.listIds
                      /\ \A id \in Ids(doc.lists[k]) : id < x.entryIds
    BY <1>2
  <2>1. x.lists[k] \in StoreLists
    BY <1>3
  <2>2. x.lists[k].id # None
    BY <2>1 DEF StoreLists, Identifiers
  <2>3. Ids(x.lists[k]) \in SUBSET AllIds(x)
    BY DEF AllIds
  <2> QED BY <1>1, <1>3, <1>4, <2>2, <2>3
<1>8. ListsSound(doc.lists)
  BY <1>2, <1>4, <1>5 DEF ListsSound
<1> QED BY <1>3, <1>6, <1>7, <1>8 DEF Storable

(* Storing and loading a sound set gives it back, the first half of           *)
(* StoredStands.                                                              *)
LEMMA IntactStands ==
  ASSUME NEW x, StoreSound(x), NEW media \in Mediums, NEW doc, doc = Encode(x, media)
  PROVE  Intactly(Recover(doc).set, Recover(doc).media, doc)
<1> DEFINE out == Recover(doc)
           y == out.set
<1>1. /\ doc \in Docs /\ SameEntries(doc.lists, x.lists)
      /\ \A k \in DOMAIN x.lists : SameList(doc.lists[k], x.lists[k])
      /\ doc.playing = x.playing /\ doc.nextEntry = x.entryIds /\ doc.nextList = x.listIds
      /\ doc.media = media
  BY EncodeIs
<1>2. Storable(doc.lists, x.entryIds, x.listIds)
  BY EncodeStorable
<1>3. /\ x.lists \in Seq(StoreLists) /\ x.lists # <<>> /\ Len(x.lists) <= MaxLists
      /\ x.playing \in {x.lists[k].id : k \in DOMAIN x.lists}
  BY DEF StoreSound, StoreSets, Members
<1>4. Taking(doc) = doc.lists
  BY <1>1, <1>3, TakingIs DEF SameEntries
<1>5. EntryCounter(doc) = x.entryIds /\ ListCounter(doc) = x.listIds
  BY <1>1, <1>2, CountersAre DEF Storable
<1>6. PICK p : p = Pushed(doc)
  OBVIOUS
<1>7. Ready(p) /\ Restored(doc.lists, x.entryIds, x.listIds, p, Len(doc.lists))
  BY <1>1, <1>2, <1>4, <1>5, <1>6, PushedIs
<1>8. /\ p \in Takings /\ p.lists \in Seq(StoreLists)
      /\ Len(p.lists) = Len(x.lists) /\ DOMAIN p.lists = DOMAIN x.lists
      /\ p.entryIds = doc.nextEntry /\ p.listIds = doc.nextList
  <2>1. p \in Takings /\ p.lists \in Seq(StoreLists)
    BY <1>7 DEF Ready, Takings
  <2>2. Len(p.lists) = Len(doc.lists) /\ p.entryIds = x.entryIds /\ p.listIds = x.listIds
    BY <1>7 DEF Restored
  <2>3. Len(doc.lists) = Len(x.lists)
    BY <1>1 DEF SameEntries
  <2> QED BY <1>1, <1>3, <2>1, <2>2, <2>3
<1>9. \A k \in DOMAIN x.lists : SameList(p.lists[k], doc.lists[k])
  <2>1. \A k \in 1 .. Len(doc.lists) : SameList(p.lists[k], doc.lists[k])
    BY <1>7 DEF Restored
  <2>2. DOMAIN x.lists = 1 .. Len(doc.lists)
    BY <1>1, <1>3 DEF SameEntries
  <2> QED BY <2>1, <2>2
<1>10. ~Afresh(doc, p, out)
  <2>1. p.lists # <<>>
    BY <1>3, <1>8
  <2> QED BY <2>1 DEF Afresh
<1>11. ~Moved(doc, p, out)
  <2>1. PICK k \in DOMAIN x.lists : x.lists[k].id = x.playing
    BY <1>3
  <2>2. p.lists[k].id = doc.playing
    BY <1>1, <1>9, <2>1 DEF SameList
  <2> QED BY <1>8, <2>1, <2>2 DEF Moved
<1>12. Resumed(doc, p, out)
  BY <1>6, <1>8, <1>10, <1>11, RecoverIs
<1> HIDE DEF out
<1>13. /\ SameEntries(y.lists, p.lists) /\ y.playing = doc.playing
       /\ y.entryIds = p.entryIds /\ y.listIds = p.listIds /\ out.media = doc.media
       /\ \A k \in DOMAIN p.lists :
             y.lists[k].cursor # p.lists[k].cursor =>
                p.lists[k].id = doc.playing /\ CursorMedia(p.lists[k]) # doc.media
  <2>1. p.lists \in Seq(StoreLists)
    BY <1>8
  <2> QED BY <1>12, <2>1, ResumedIs
<1>14. /\ DOMAIN y.lists = DOMAIN x.lists /\ DOMAIN doc.lists = DOMAIN x.lists
       /\ \A k \in DOMAIN x.lists :
             y.lists[k].entries = doc.lists[k].entries /\ y.lists[k].id = doc.lists[k].id
  BY <1>1, <1>8, <1>9, <1>13 DEF SameEntries, SameList
<1>15. Unanchored(y.lists) = Unanchored(doc.lists)
  BY <1>14 DEF Unanchored
<1>16. ASSUME NEW k \in DOMAIN y.lists, y.lists[k].cursor # doc.lists[k].cursor
       PROVE  y.lists[k].id = y.playing /\ CursorMedia(doc.lists[k]) # out.media
  <2>1. k \in DOMAIN x.lists /\ k \in DOMAIN p.lists
    BY <1>8, <1>14
  <2>2. SameList(p.lists[k], doc.lists[k])
    BY <1>9, <2>1
  <2>3. CursorMedia(p.lists[k]) = CursorMedia(doc.lists[k])
    BY <2>2, SameListIs
  <2>4. p.lists[k].cursor = doc.lists[k].cursor /\ p.lists[k].id = doc.lists[k].id
    BY <2>2 DEF SameList
  <2> QED BY <1>13, <1>14, <1>16, <2>1, <2>3, <2>4
<1> QED BY <1>8, <1>13, <1>15, <1>16 DEF Intactly, out

-----------------------------------------------------------------------------
(* What damage may leave is a document still. *)
IsDamage(d) == d \in Docs /\ ~d.intact

(* A damaged record is a record. *)
LEMMA RecordDamaged ==
  ASSUME NEW record \in Records, NEW r \in DamagedRecord(record) PROVE r \in Records
<1>0. /\ MaxId \in Identifiers /\ 1 \in Identifiers /\ None \in Nat
      /\ \A id \in Identifiers : id \in Nat
  BY StoreAssumption DEF Identifiers, None
<1>1. SomeIds \in SUBSET Identifiers
  BY <1>0 DEF SomeIds
<1>2. ASSUME NEW id \in SomeIds \cup {None}, r = [record EXCEPT !.id = id] PROVE r \in Records
  <2>1. id \in Nat
    BY <1>0, <1>1
  <2> QED BY <1>2, <2>1 DEF Records
<1>3. ASSUME r = [record EXCEPT !.readable = FALSE] PROVE r \in Records
  BY <1>3 DEF Records
<1>4. ASSUME NEW id \in SomeIds, r = [record EXCEPT !.cursor = id] PROVE r \in Records
  <2>1. id \in Nat
    BY <1>0, <1>1
  <2> QED BY <1>4, <2>1 DEF Records
<1>5. ASSUME NEW id \in {i \in SomeIds : record.entries # <<>>},
             r = [record EXCEPT !.entries[1].id = id]
      PROVE  r \in Records
  <2>1. PICK s \in Seq(StoreEntries) : s = record.entries
    BY DEF Records
  <2>2. 1 \in 1 .. Len(s) /\ s[1] \in StoreEntries
    BY <1>5, <2>1
  <2>3. PICK entry : entry = [s[1] EXCEPT !.id = id]
    OBVIOUS
  <2>4. entry \in StoreEntries
    BY <1>1, <2>2, <2>3 DEF StoreEntries
  <2>5. PICK t : t = [s EXCEPT ![1] = entry]
    OBVIOUS
  <2>6. t \in Seq(StoreEntries)
    BY <2>2, <2>4, <2>5, ExceptSeq
  <2>7. r = [record EXCEPT !.entries = t]
    BY <1>5, <2>1, <2>3, <2>5
  <2> QED BY <2>6, <2>7 DEF Records
<1> QED BY <1>2, <1>3, <1>4, <1>5 DEF DamagedRecord

(* So is a damaged document a document, and known to be damaged. *)
LEMMA DamagedIs ==
  ASSUME NEW doc \in Docs, NEW d \in Damaged(doc) PROVE IsDamage(d)
<1>0. doc.lists \in Seq(Records)
  BY DEF Docs
<1>1. /\ 1 \in Identifiers /\ MaxId \in Identifiers /\ Exhausted \in Identifiers /\ None \in Nat
      /\ \A id \in Identifiers : id \in Nat
  BY StoreAssumption DEF Identifiers, None, Exhausted
<1>2. \A id \in SomeIds \cup {None} : id \in Nat
  BY <1>1 DEF SomeIds
<1> DEFINE A == UNION {{WithRecord(doc, k, record) : record \in DamagedRecord(doc.lists[k])} :
                          k \in DOMAIN doc.lists}
           B == {[doc EXCEPT !.lists = Append(@, doc.lists[k])] : k \in DOMAIN doc.lists}
           C == {[doc EXCEPT !.playing = id] : id \in SomeIds \cup {None}}
           D == {[doc EXCEPT !.nextEntry = next] : next \in {1, Exhausted}}
           E == {[doc EXCEPT !.nextList = next] : next \in {1, Exhausted}}
           F == {[doc EXCEPT !.lists = <<>>]}
<1>3. Altered(doc) = A \cup B \cup C \cup D \cup E \cup F
  BY Zenon DEF Altered
<1>4. ASSUME NEW e \in A PROVE e \in Docs
  <2>1. PICK k \in DOMAIN doc.lists :
           e \in {WithRecord(doc, k, record) : record \in DamagedRecord(doc.lists[k])}
    OBVIOUS
  <2>2. PICK record \in DamagedRecord(doc.lists[k]) : e = WithRecord(doc, k, record)
    BY <2>1
  <2>3. record \in Records
    BY <1>0, RecordDamaged
  <2>4. [doc.lists EXCEPT ![k] = record] \in Seq(Records)
    BY <1>0, <2>3, ExceptSeq
  <2>5. e = [doc EXCEPT !.lists = [doc.lists EXCEPT ![k] = record]]
    BY <2>2 DEF WithRecord
  <2> QED BY <2>4, <2>5 DEF Docs
<1>5. ASSUME NEW e \in B PROVE e \in Docs
  <2>1. PICK k \in DOMAIN doc.lists : e = [doc EXCEPT !.lists = Append(@, doc.lists[k])]
    OBVIOUS
  <2>2. Append(doc.lists, doc.lists[k]) \in Seq(Records)
    BY <1>0
  <2> QED BY <2>1, <2>2 DEF Docs
<1>6. ASSUME NEW e \in C PROVE e \in Docs
  BY <1>2 DEF Docs
<1>7. ASSUME NEW e \in D PROVE e \in Docs
  BY <1>1 DEF Docs
<1>8. ASSUME NEW e \in E PROVE e \in Docs
  BY <1>1 DEF Docs
<1>9. ASSUME NEW e \in F PROVE e \in Docs
  <2>1. <<>> \in Seq(Records)
    OBVIOUS
  <2> QED BY <2>1 DEF Docs
<1> HIDE DEF A, B, C, D, E, F
<1>10. \A e \in Altered(doc) : e \in Docs
  BY <1>3, <1>4, <1>5, <1>6, <1>7, <1>8, <1>9
<1>11. PICK e \in Docs : d = [e EXCEPT !.intact = FALSE]
  BY <1>10 DEF Damaged
<1> QED BY <1>11 DEF Docs, IsDamage

(* And one damaged twice. *)
LEMMA DamagedUpToIs ==
  ASSUME NEW doc \in Docs, NEW d \in DamagedUpTo(doc) PROVE d = doc \/ IsDamage(d)
<1>1. d = doc \/ d \in Damaged(doc) \/ \E e \in Damaged(doc) : d \in Damaged(e)
  BY DEF DamagedUpTo
<1>2. \A e \in Damaged(doc) : e \in Docs
  BY DamagedIs DEF IsDamage
<1> QED BY <1>1, <1>2, DamagedIs

-----------------------------------------------------------------------------
(* The edits.  One list is changed, by entries of its own and new ones. *)
Edit(x, k, list, playing, next) ==
    [lists |-> [x.lists EXCEPT ![k] = list], playing |-> playing, entryIds |-> next,
     listIds |-> x.listIds]
Renews(x, new, next) ==
    /\ next \in Identifiers /\ x.entryIds <= next /\ new \in SUBSET Nat /\ IsFiniteSet(new)
    /\ \A id \in new : x.entryIds <= id /\ id < next
    /\ Cardinality(AllIds(x)) + Cardinality(new) <= EntryCap

(* The set stays sound when the new ids are those next in line. *)
LEMMA ListEdited ==
  ASSUME NEW x, StoreSound(x), NEW k \in DOMAIN x.lists, NEW list \in StoreLists, OwnList(list),
         list.id = x.lists[k].id, NEW next, NEW new, Renews(x, new, next),
         Ids(list) \in SUBSET (Ids(x.lists[k]) \union new), NEW playing \in Members(x), NEW y,
         y = Edit(x, k, list, playing, next)
  PROVE  StoreSound(y) /\ AllIds(y) \in SUBSET (AllIds(x) \union new) /\ y.entryIds = next
<1>1. /\ x \in StoreSets /\ x.lists \in Seq(StoreLists) /\ ListsSound(x.lists)
      /\ x.entryIds \in Nat /\ next \in Nat /\ IsFiniteSet(AllIds(x))
      /\ \A id \in AllIds(x) : id < x.entryIds /\ id \in Nat
  <2>1. x \in StoreSets /\ ListsSound(x.lists) /\ IsFiniteSet(AllIds(x))
        /\ \A id \in AllIds(x) : id < x.entryIds
    BY DEF StoreSound
  <2>2. x.lists \in Seq(StoreLists) /\ x.entryIds \in Identifiers
    BY <2>1 DEF StoreSets
  <2>3. \A l \in DOMAIN x.lists : x.lists[l] \in StoreLists
    BY <2>2
  <2>4. \A l \in DOMAIN x.lists : Ids(x.lists[l]) \in SUBSET Nat
    <3> SUFFICES ASSUME NEW l \in DOMAIN x.lists, NEW i \in DOMAIN x.lists[l].entries
                 PROVE  x.lists[l].entries[i].id \in Nat
      BY DEF Ids
    <3>1. x.lists[l].entries \in Seq(StoreEntries)
      BY <2>3 DEF StoreLists
    <3>2. x.lists[l].entries[i] \in StoreEntries
      BY <3>1
    <3> QED BY <3>2 DEF StoreEntries, Identifiers
  <2> QED BY <2>1, <2>2, <2>4 DEF AllIds, Renews, Identifiers
<1>2. \A l \in DOMAIN x.lists : l # k => Ids(list) \cap Ids(x.lists[l]) = {}
  <2> SUFFICES ASSUME NEW l \in DOMAIN x.lists, l # k, NEW id \in Ids(list), id \in Ids(x.lists[l])
               PROVE  FALSE
    OBVIOUS
  <2>1. id < x.entryIds /\ id \in Nat
    BY <1>1 DEF AllIds
  <2>2. id \notin new
    BY <1>1, <2>1 DEF Renews
  <2>3. Apart(x.lists[k], x.lists[l])
    BY <1>1 DEF ListsSound
  <2> QED BY <2>2, <2>3 DEF Apart
<1>3. PICK more : more = [x.lists EXCEPT ![k] = list]
  OBVIOUS
<1>4. Swaps(x.lists, k, list, more)
  BY <1>1, <1>2, <1>3, ListSwapped
<1>5. /\ y.lists = more /\ y.playing = playing /\ y.entryIds = next /\ y.listIds = x.listIds
      /\ y = [lists |-> more, playing |-> playing, entryIds |-> next, listIds |-> x.listIds]
  BY <1>3 DEF Edit
<1>6. y.playing \in Members(y)
  BY <1>4, <1>5 DEF Swaps, Members
<1>7. y \in StoreSets
  <2>1. more \in Seq(StoreLists) /\ next \in Identifiers /\ x.listIds \in Identifiers
    BY <1>1, <1>4 DEF Swaps, Renews, StoreSets
  <2>2. playing \in Nat
    <3>1. PICK l \in DOMAIN x.lists : playing = x.lists[l].id
      BY DEF Members
    <3>2. x.lists[l] \in StoreLists
      BY <1>1
    <3> QED BY <3>1, <3>2 DEF StoreLists, Identifiers
  <2> QED BY <1>5, <2>1, <2>2 DEF StoreSets
<1>8. AllIds(y) \in SUBSET (AllIds(x) \union new)
  <2>1. AllIds(y) = IdsIn(more) /\ IdsIn(x.lists) = AllIds(x)
    BY <1>5 DEF AllIds, IdsIn
  <2>2. Ids(x.lists[k]) \in SUBSET AllIds(x)
    BY DEF AllIds
  <2> QED BY <1>4, <2>1, <2>2 DEF Swaps
<1>9. IsFiniteSet(AllIds(y)) /\ Cardinality(AllIds(y)) <= EntryCap
  <2>1. PICK a : a = AllIds(x)
    OBVIOUS
  <2>2. IsFiniteSet(a) /\ IsFiniteSet(new)
    BY <1>1, <2>1 DEF Renews
  <2>3. /\ IsFiniteSet(a \union new)
        /\ Cardinality(a \union new) = Cardinality(a) + Cardinality(new) - Cardinality(a \cap new)
    BY <2>2, FS_Union
  <2>4. a \cap new = {}
    BY <1>1, <2>1 DEF Renews
  <2>5. Cardinality({}) = 0 /\ Cardinality(a) \in Nat /\ Cardinality(new) \in Nat
    BY <2>2, FS_EmptySet, FS_CardinalityType
  <2>6. Cardinality(a \union new) <= EntryCap /\ Cardinality(a \union new) \in Nat
    <3>1. Cardinality(a \cap new) = 0
      BY <2>4, <2>5
    <3>2. Cardinality(a) + Cardinality(new) <= EntryCap
      BY <2>1 DEF Renews
    <3> QED BY <2>3, <2>5, <3>1, <3>2
  <2>7. AllIds(y) \in SUBSET (a \union new)
    BY <1>8, <2>1
  <2>8. IsFiniteSet(AllIds(y)) /\ Cardinality(AllIds(y)) <= Cardinality(a \union new)
    BY <2>3, <2>7, FS_Subset
  <2>9. Cardinality(AllIds(y)) \in Nat
    BY <2>8, FS_CardinalityType
  <2> QED BY <2>6, <2>8, <2>9, StoreAssumption
<1>10. \A id \in AllIds(y) : id < next
  <2> SUFFICES ASSUME NEW id \in AllIds(y) PROVE id < next
    OBVIOUS
  <2>1. CASE id \in new
    BY <2>1 DEF Renews
  <2>2. CASE id \in AllIds(x)
    <3>1. id < x.entryIds /\ id \in Nat /\ x.entryIds <= next
      BY <1>1, <2>2 DEF Renews
    <3> QED BY <1>1, <3>1
  <2> QED BY <1>8, <2>1, <2>2
<1>11. ListsSound(more) /\ Len(more) = Len(x.lists) /\ more # <<>>
       /\ DOMAIN more = DOMAIN x.lists /\ \A l \in DOMAIN more : more[l].id < x.listIds
  <2>1. ListsSound(more) /\ Len(more) = Len(x.lists) /\ DOMAIN more = DOMAIN x.lists
        /\ \A l \in DOMAIN x.lists : more[l].id = x.lists[l].id
    BY <1>4 DEF Swaps
  <2>2. x.lists # <<>> /\ \A l \in DOMAIN x.lists : x.lists[l].id < x.listIds
    BY DEF StoreSound
  <2> QED BY <2>1, <2>2
<1>12. Len(more) <= MaxLists
  BY <1>11 DEF StoreSound
<1> QED BY <1>5, <1>6, <1>7, <1>8, <1>9, <1>10, <1>11, <1>12 DEF StoreSound

(* One list is changed, by entries of its own. *)
LEMMA ListRevised ==
  ASSUME NEW x, StoreSound(x), NEW k \in DOMAIN x.lists, NEW list \in StoreLists, OwnList(list),
         list.id = x.lists[k].id, Ids(list) \in SUBSET Ids(x.lists[k]), NEW playing \in Members(x),
         NEW y, y = Edit(x, k, list, playing, x.entryIds)
  PROVE  StoreSound(y) /\ AllIds(y) \in SUBSET AllIds(x) /\ y.entryIds = x.entryIds
<1>1. /\ x.entryIds \in Identifiers /\ x.entryIds \in Nat /\ IsFiniteSet(AllIds(x))
      /\ Cardinality(AllIds(x)) <= EntryCap
  BY DEF StoreSound, StoreSets, Identifiers
<1>2. IsFiniteSet({}) /\ Cardinality({}) = 0 /\ Cardinality(AllIds(x)) \in Nat
  BY <1>1, FS_EmptySet, FS_CardinalityType
<1>3. Renews(x, {}, x.entryIds)
  BY <1>1, <1>2 DEF Renews
<1>4. Ids(list) \in SUBSET (Ids(x.lists[k]) \union {})
  OBVIOUS
<1>5. StoreSound(y) /\ AllIds(y) \in SUBSET (AllIds(x) \union {})
  BY <1>3, <1>4, ListEdited
<1> QED BY <1>5 DEF Edit

(* Entries in another order, or fewer of them. *)
Selects(list, less, g) ==
    /\ \A i \in DOMAIN less.entries :
          g[i] \in DOMAIN list.entries /\ less.entries[i] = list.entries[g[i]]
    /\ \A i, j \in DOMAIN less.entries : g[i] = g[j] => i = j
    /\ less.cursor = None \/ \E i \in DOMAIN less.entries : less.entries[i].id = less.cursor

(* A list so selected from a sound one is sound, and adds no id. *)
LEMMA EntriesOf ==
  ASSUME NEW list \in StoreLists, OwnList(list), NEW less \in StoreLists, NEW g,
         Selects(list, less, g)
  PROVE  OwnList(less) /\ Ids(less) \in SUBSET Ids(list)
<1>1. Once(less)
  <2> SUFFICES ASSUME NEW i \in DOMAIN less.entries, NEW j \in DOMAIN less.entries,
                      less.entries[i].id = less.entries[j].id
               PROVE  i = j
    BY DEF Once
  <2>1. g[i] = g[j]
    BY DEF OwnList, Once, Selects
  <2> QED BY <2>1 DEF Selects
<1>2. Ids(less) \in SUBSET Ids(list)
  <2> SUFFICES ASSUME NEW i \in DOMAIN less.entries PROVE less.entries[i].id \in Ids(list)
    BY DEF Ids
  <2> QED BY DEF Ids, Selects
<1>3. less.cursor \in Ids(less) \union {None}
  BY DEF Ids, Selects
<1> QED BY <1>1, <1>2, <1>3 DEF OwnList

(* The list of an entry, and the entry's place in it. *)
LEMMA OwnerIs ==
  ASSUME NEW x, NEW id \in AllIds(x)
  PROVE  LET k == Owner(x, id) IN
         /\ k \in DOMAIN x.lists /\ id \in Ids(x.lists[k])
         /\ Position(x.lists[k], id) \in DOMAIN x.lists[k].entries
         /\ x.lists[k].entries[Position(x.lists[k], id)].id = id
<1> DEFINE k == Owner(x, id)
<1>1. \E l \in DOMAIN x.lists : id \in Ids(x.lists[l])
  BY DEF AllIds
<1>2. k \in DOMAIN x.lists /\ id \in Ids(x.lists[k])
  BY <1>1 DEF Owner
<1> HIDE DEF k
<1>3. \E i \in DOMAIN x.lists[k].entries : x.lists[k].entries[i].id = id
  BY <1>2 DEF Ids
<1>4. /\ Position(x.lists[k], id) \in DOMAIN x.lists[k].entries
      /\ x.lists[k].entries[Position(x.lists[k], id)].id = id
  BY <1>3 DEF Position
<1> QED BY <1>2, <1>4 DEF k

(* What a sound set is made of. *)
LEMMA SoundHas ==
  ASSUME NEW x, StoreSound(x)
  PROVE  /\ x \in StoreSets /\ x.lists \in Seq(StoreLists) /\ ListsSound(x.lists)
         /\ x.entryIds \in Nat /\ x.listIds \in Identifiers /\ x.playing \in Members(x)
         /\ x = [lists |-> x.lists, playing |-> x.playing, entryIds |-> x.entryIds,
                 listIds |-> x.listIds]
         /\ \A k \in DOMAIN x.lists :
               /\ x.lists[k] \in StoreLists /\ OwnList(x.lists[k])
               /\ x.lists[k].entries \in Seq(StoreEntries) /\ x.lists[k].id \in Members(x)
<1>1. x \in StoreSets /\ ListsSound(x.lists) /\ x.playing \in Members(x)
  BY DEF StoreSound
<1>2. /\ x.lists \in Seq(StoreLists) /\ x.entryIds \in Identifiers /\ x.listIds \in Identifiers
      /\ x = [lists |-> x.lists, playing |-> x.playing, entryIds |-> x.entryIds,
              listIds |-> x.listIds]
  BY <1>1 DEF StoreSets
<1>3. ASSUME NEW k \in DOMAIN x.lists
      PROVE  /\ x.lists[k] \in StoreLists /\ OwnList(x.lists[k])
             /\ x.lists[k].entries \in Seq(StoreEntries) /\ x.lists[k].id \in Members(x)
  <2>1. x.lists[k] \in StoreLists
    BY <1>2
  <2>2. OwnList(x.lists[k])
    BY <1>1 DEF ListsSound
  <2> QED BY <2>1, <2>2 DEF StoreLists, Members
<1> QED BY <1>1, <1>2, <1>3 DEF Identifiers

(* What an edit that gives out no name leaves. *)
Keeping(x, y) == StoreSound(y) /\ AllIds(y) \in SUBSET AllIds(x) /\ y.entryIds = x.entryIds

(* SetShuffle: only the anchor changes. *)
LEMMA ShuffleKeeps ==
  ASSUME NEW x, StoreSound(x), NEW k \in DOMAIN x.lists, NEW first \in Nat, NEW y,
         y = [x EXCEPT !.lists[k].first = first]
  PROVE  Keeping(x, y)
<1> DEFINE less == [x.lists[k] EXCEPT !.first = first]
<1>1. x.lists[k] \in StoreLists /\ OwnList(x.lists[k])
  BY SoundHas
<1>2. /\ less \in StoreLists /\ less.id = x.lists[k].id /\ less.cursor = x.lists[k].cursor
      /\ less.entries = x.lists[k].entries
  BY <1>1 DEF StoreLists
<1> HIDE DEF less
<1>3. OwnList(less) /\ Ids(less) \in SUBSET Ids(x.lists[k])
  BY <1>1, <1>2 DEF OwnList, Once, Ids
<1>4. y = Edit(x, k, less, x.playing, x.entryIds)
  <2>1. x = [lists |-> x.lists, playing |-> x.playing, entryIds |-> x.entryIds,
             listIds |-> x.listIds]
    BY SoundHas
  <2> QED BY <2>1 DEF Edit, less
<1>5. x.playing \in Members(x)
  BY SoundHas
<1> QED BY <1>2, <1>3, <1>4, <1>5, ListRevised DEF Keeping

(* MoveEntry: two neighbours change places. *)
LEMMA MoveKeeps ==
  ASSUME NEW x, StoreSound(x), NEW k \in DOMAIN x.lists, NEW i \in 1 .. (Len(x.lists[k].entries) - 1),
         NEW y,
         y = [x EXCEPT !.lists[k].entries = [@ EXCEPT ![i] = x.lists[k].entries[i + 1],
                                                      ![i + 1] = x.lists[k].entries[i]]]
  PROVE  Keeping(x, y)
<1> DEFINE list == x.lists[k]
           one == [list.entries EXCEPT ![i] = list.entries[i + 1]]
           more == [one EXCEPT ![i + 1] = list.entries[i]]
           less == [list EXCEPT !.entries = more]
           n == Len(list.entries)
           g == [j \in 1 .. n |-> IF j = i THEN i + 1 ELSE IF j = i + 1 THEN i ELSE j]
<1>1. list \in StoreLists /\ OwnList(list) /\ list.entries \in Seq(StoreEntries)
  BY SoundHas
<1>2. n \in Nat /\ DOMAIN list.entries = 1 .. n /\ i \in 1 .. n /\ i + 1 \in 1 .. n /\ i # i + 1
  BY <1>1
<1>3. list.entries[i] \in StoreEntries /\ list.entries[i + 1] \in StoreEntries
  BY <1>1, <1>2
<1>4. /\ one \in Seq(StoreEntries) /\ Len(one) = n
      /\ \A j \in 1 .. n : one[j] = IF j = i THEN list.entries[i + 1] ELSE list.entries[j]
  BY <1>1, <1>2, <1>3, ExceptSeq
<1> HIDE DEF one
<1>5. /\ more \in Seq(StoreEntries) /\ Len(more) = n
      /\ \A j \in 1 .. n : more[j] = IF j = i + 1 THEN list.entries[i] ELSE one[j]
  BY <1>2, <1>3, <1>4, ExceptSeq
<1> HIDE DEF more
<1>6. /\ less \in StoreLists /\ less.id = list.id /\ less.cursor = list.cursor /\ less.entries = more
  BY <1>1, <1>5 DEF StoreLists
<1>7. y = Edit(x, k, less, x.playing, x.entryIds)
  <2>1. x = [lists |-> x.lists, playing |-> x.playing, entryIds |-> x.entryIds,
             listIds |-> x.listIds]
    BY SoundHas
  <2>2. more = [list.entries EXCEPT ![i] = list.entries[i + 1], ![i + 1] = list.entries[i]]
    BY <1>1, <1>2 DEF one, more
  <2> QED BY <2>1, <2>2 DEF Edit
<1> HIDE DEF less, list, n
<1>8. DOMAIN less.entries = 1 .. n
  BY <1>2, <1>5, <1>6
<1>9. \A j \in 1 .. n : g[j] \in 1 .. n /\ more[j] = list.entries[g[j]] /\ g[g[j]] = j
  BY <1>2, <1>4, <1>5
<1> HIDE DEF g
<1>10. \A j, l \in 1 .. n : g[j] = g[l] => j = l
  BY <1>9
<1>11. list.cursor = None \/ \E j \in 1 .. n : more[j].id = list.cursor
  <2> SUFFICES ASSUME list.cursor # None PROVE \E j \in 1 .. n : more[j].id = list.cursor
    OBVIOUS
  <2>1. PICK l \in 1 .. n : list.entries[l].id = list.cursor
    BY <1>1, <1>2 DEF OwnList, Ids
  <2>2. g[l] \in 1 .. n /\ more[g[l]] = list.entries[l]
    BY <1>9
  <2> QED BY <2>1, <2>2
<1>12. OwnList(less) /\ Ids(less) \in SUBSET Ids(list)
  <2>1. Selects(list, less, g)
    BY <1>2, <1>6, <1>8, <1>9, <1>10, <1>11 DEF Selects
  <2> QED BY <1>1, <1>6, <2>1, EntriesOf
<1>13. x.playing \in Members(x)
  BY SoundHas
<1> QED BY <1>6, <1>7, <1>12, <1>13, ListRevised DEF Keeping, list

(* DropEntry: the cursor goes with its entry. *)
LEMMA RemoveKeeps ==
  ASSUME NEW x, StoreSound(x), NEW id \in AllIds(x), NEW y, y = RemoveFrom(x, id)
  PROVE  Keeping(x, y)
<1> DEFINE k == Owner(x, id)
           list == x.lists[k]
           p == Position(list, id)
           n == Len(list.entries)
           rest == RemoveAt(list.entries, p)
           cursor == IF list.cursor = id THEN None ELSE list.cursor
           less == [list EXCEPT !.entries = rest, !.cursor = cursor]
           g == [i \in 1 .. n - 1 |-> IF i < p THEN i ELSE i + 1]
<1>1. k \in DOMAIN x.lists /\ p \in DOMAIN list.entries /\ list.entries[p].id = id
  BY OwnerIs
<1>2. list \in StoreLists /\ OwnList(list) /\ list.entries \in Seq(StoreEntries)
  BY <1>1, SoundHas
<1>3. y = Edit(x, k, less, x.playing, x.entryIds)
  <2>1. x = [lists |-> x.lists, playing |-> x.playing, entryIds |-> x.entryIds,
             listIds |-> x.listIds]
    BY SoundHas
  <2> QED BY <2>1 DEF Edit, RemoveFrom, WithList
<1> HIDE DEF k
<1>4. n \in Nat /\ DOMAIN list.entries = 1 .. n /\ p \in 1 .. n
  BY <1>1, <1>2
<1> HIDE DEF p
<1>5. /\ rest \in Seq(StoreEntries) /\ DOMAIN rest = 1 .. n - 1
      /\ \A i \in 1 .. n - 1 : rest[i] = IF i < p THEN list.entries[i] ELSE list.entries[i + 1]
  BY <1>2, <1>4, RemovedIs, ZenonT(60)
<1> HIDE DEF rest
<1>6. list.cursor \in Nat /\ cursor \in Nat
  BY <1>2 DEF StoreLists, None
<1>7. less \in StoreLists /\ less.id = list.id /\ less.cursor = cursor /\ less.entries = rest
  BY <1>2, <1>5, <1>6 DEF StoreLists
<1> HIDE DEF less, list, n
<1>8. \A i \in 1 .. n - 1 : g[i] \in 1 .. n /\ rest[i] = list.entries[g[i]]
  BY <1>4, <1>5
<1>9. \A i, j \in 1 .. n - 1 : g[i] = g[j] => i = j
  BY <1>4
<1>10. cursor = None \/ \E i \in 1 .. n - 1 : rest[i].id = cursor
  <2> SUFFICES ASSUME cursor # None PROVE \E i \in 1 .. n - 1 : rest[i].id = cursor
    OBVIOUS
  <2>1. list.cursor # id /\ cursor = list.cursor /\ list.cursor # None
    OBVIOUS
  <2>2. PICK j \in 1 .. n : list.entries[j].id = list.cursor
    BY <1>2, <1>4, <2>1 DEF OwnList, Ids
  <2>3. j # p
    BY <1>1, <2>1, <2>2
  <2>4. CASE j < p
    <3>1. j \in 1 .. n - 1 /\ rest[j] = list.entries[j]
      BY <1>4, <1>5, <2>4
    <3> QED BY <2>1, <2>2, <3>1
  <2>5. CASE j > p
    <3>1. j - 1 \in 1 .. n - 1 /\ ~(j - 1 < p) /\ (j - 1) + 1 = j
      BY <1>4, <2>5
    <3>2. rest[j - 1] = list.entries[(j - 1) + 1]
      BY <1>5, <3>1
    <3> QED BY <2>1, <2>2, <3>1, <3>2
  <2> QED BY <1>4, <2>3, <2>4, <2>5
<1> HIDE DEF g, cursor
<1>11. OwnList(less) /\ Ids(less) \in SUBSET Ids(list)
  <2>1. Selects(list, less, g)
    BY <1>4, <1>5, <1>7, <1>8, <1>9, <1>10 DEF Selects
  <2> QED BY <1>2, <1>7, <2>1, EntriesOf
<1>12. x.playing \in Members(x)
  BY SoundHas
<1> QED BY <1>1, <1>3, <1>7, <1>11, <1>12, ListRevised DEF Keeping, list

(* The place of a list that is in the set. *)
LEMMA MemberAt ==
  ASSUME NEW x, NEW list \in Members(x)
  PROVE  Index(x, list) \in DOMAIN x.lists /\ x.lists[Index(x, list)].id = list
<1>1. \E k \in DOMAIN x.lists : x.lists[k].id = list
  BY DEF Members
<1> QED BY <1>1 DEF Index

(* Clear: the list stays, without entries or cursor. *)
LEMMA ClearKeeps ==
  ASSUME NEW x, StoreSound(x), NEW id \in Members(x), NEW y, y = ClearList(x, id)
  PROVE  Keeping(x, y)
<1> DEFINE k == Index(x, id)
           list == x.lists[k]
           less == [list EXCEPT !.entries = <<>>, !.cursor = None]
<1>1. k \in DOMAIN x.lists
  BY MemberAt
<1>2. list \in StoreLists
  BY <1>1, SoundHas
<1>3. y = Edit(x, k, less, x.playing, x.entryIds)
  <2>1. x = [lists |-> x.lists, playing |-> x.playing, entryIds |-> x.entryIds,
             listIds |-> x.listIds]
    BY SoundHas
  <2> QED BY <2>1 DEF Edit, ClearList, WithList
<1> HIDE DEF k
<1>4. less \in StoreLists /\ less.id = list.id /\ less.cursor = None /\ less.entries = <<>>
  <2>1. <<>> \in Seq(StoreEntries) /\ None \in Nat
    BY DEF None
  <2> QED BY <1>2, <2>1 DEF StoreLists
<1> HIDE DEF less, list
<1>5. Ids(less) = {} /\ OwnList(less)
  BY <1>4 DEF Ids, OwnList, Once
<1>6. x.playing \in Members(x) /\ Ids(less) \in SUBSET Ids(list)
  BY <1>5, SoundHas
<1> QED BY <1>1, <1>3, <1>4, <1>5, <1>6, ListRevised DEF Keeping, list

(* AdoptEntry: the owner plays, with its cursor on the entry. *)
LEMMA AdoptKeeps ==
  ASSUME NEW x, StoreSound(x), NEW id \in AllIds(x), NEW y, y = Adopt(x, id)
  PROVE  Keeping(x, y) /\ MediaOf(x, id) \in Mediums
<1> DEFINE k == Owner(x, id)
           list == x.lists[k]
           less == [list EXCEPT !.cursor = id]
           p == Position(list, id)
<1>1. k \in DOMAIN x.lists /\ id \in Ids(list) /\ p \in DOMAIN list.entries
      /\ list.entries[p].id = id
  BY OwnerIs
<1>2. list \in StoreLists /\ OwnList(list) /\ list.entries \in Seq(StoreEntries)
      /\ list.id \in Members(x)
  BY <1>1, SoundHas
<1>3. y = Edit(x, k, less, list.id, x.entryIds)
  <2>1. x = [lists |-> x.lists, playing |-> x.playing, entryIds |-> x.entryIds,
             listIds |-> x.listIds]
    BY SoundHas
  <2> QED BY <2>1 DEF Edit, Adopt
<1>4. MediaOf(x, id) = list.entries[p].media
  BY DEF MediaOf
<1> HIDE DEF k, p
<1>5. list.entries[p] \in StoreEntries
  BY <1>1, <1>2
<1>6. id \in Nat /\ list.entries[p].media \in Mediums
  BY <1>1, <1>5 DEF StoreEntries, Identifiers, Mediums, AnyMedium
<1>7. less \in StoreLists /\ less.id = list.id /\ less.cursor = id /\ less.entries = list.entries
  BY <1>2, <1>6 DEF StoreLists
<1> HIDE DEF less, list
<1>8. Ids(less) = Ids(list) /\ (Once(list) => Once(less))
  BY <1>7 DEF Ids, Once
<1>9. OwnList(less) /\ Ids(less) \in SUBSET Ids(list)
  BY <1>1, <1>2, <1>7, <1>8 DEF OwnList
<1>10. Keeping(x, y)
  BY <1>1, <1>2, <1>3, <1>7, <1>9, ListRevised DEF Keeping, list
<1> QED BY <1>4, <1>6, <1>10

Extends(s, t, u) ==
    /\ Len(u) = Len(s) + Len(t)
    /\ \A i \in 1 .. Len(s) : u[i] = s[i]
    /\ \A i \in 1 .. Len(t) : u[Len(s) + i] = t[i]

(* One sequence after another. *)
LEMMA Concatenated ==
  ASSUME NEW S, NEW s \in Seq(S), NEW t \in Seq(S), NEW u, u = s \o t
  PROVE  u \in Seq(S) /\ Extends(s, t, u)
<1>1. /\ u \in Seq(S) /\ Len(u) = Len(s) + Len(t)
      /\ \A i \in 1 .. Len(s) + Len(t) : u[i] = IF i <= Len(s) THEN s[i] ELSE t[i - Len(s)]
  BY ConcatProperties
<1>2. Len(s) \in Nat /\ Len(t) \in Nat
  OBVIOUS
<1>3. ASSUME NEW i \in 1 .. Len(t) PROVE u[Len(s) + i] = t[i]
  <2>1. Len(s) + i \in 1 .. Len(s) + Len(t) /\ ~(Len(s) + i <= Len(s)) /\ (Len(s) + i) - Len(s) = i
    BY <1>2
  <2> QED BY <1>1, <2>1
<1>4. ASSUME NEW i \in 1 .. Len(s) PROVE u[i] = s[i]
  <2>1. i \in 1 .. Len(s) + Len(t) /\ i <= Len(s)
    BY <1>2
  <2> QED BY <1>1, <2>1
<1> QED BY <1>1, <1>3, <1>4 DEF Extends

(* A batch of entries at the end of a list, under the next names. *)
Named(x, batch) == [i \in DOMAIN batch |-> [id |-> x.entryIds + i - 1, media |-> batch[i]]]
Roomed(x, batch) == Total(x) + Len(batch) <= EntryCap /\ x.entryIds + Len(batch) <= Exhausted
Enlists(x, y, batch, new) ==
    /\ StoreSound(y) /\ y.entryIds = x.entryIds + Len(batch)
    /\ \A i \in DOMAIN new : new[i].id \in Nat /\ new[i].id < y.entryIds
Enqueued(x, k, batch, new) ==
    [x EXCEPT !.entryIds = @ + Len(batch),
              !.lists[k].entries = @ \o new,
              !.lists[k].first = IF @ = Off THEN Off ELSE x.lists[k].cursor]

(* Enqueue: the batch is in, under ids that are new. *)
LEMMA EnqueueSound ==
  ASSUME NEW x, StoreSound(x), NEW k \in DOMAIN x.lists, NEW batch \in Seq(EntryMedia),
         Roomed(x, batch), NEW new, new = Named(x, batch),
         NEW y, y = Enqueued(x, k, batch, new)
  PROVE  Enlists(x, y, batch, new)
<1> DEFINE list == x.lists[k]
           s == list.entries
           n == Len(s)
           b == Len(batch)
           more == s \o new
           first == IF list.first = Off THEN Off ELSE list.cursor
           less == [list EXCEPT !.entries = more, !.first = first]
           ids == {x.entryIds + i - 1 : i \in 1 .. b}
           next == x.entryIds + b
<1>1. list \in StoreLists /\ OwnList(list) /\ s \in Seq(StoreEntries) /\ x.playing \in Members(x)
  BY SoundHas
<1>2. x.entryIds \in Identifiers /\ x.entryIds \in Nat /\ x.entryIds > 0 /\ b \in Nat
      /\ DOMAIN batch = 1 .. b /\ n \in Nat /\ DOMAIN s = 1 .. n
  BY <1>1 DEF StoreSound, StoreSets, Identifiers, None
<1>3. new \in Seq(StoreEntries) /\ Len(new) = b
      /\ \A i \in 1 .. b : new[i].id = x.entryIds + i - 1
  <2>1. \A i \in 1 .. b : x.entryIds + i - 1 \in Identifiers /\ batch[i] \in EntryMedia
    BY <1>2 DEF Identifiers, None
  <2>2. \A i \in 1 .. b : [id |-> x.entryIds + i - 1, media |-> batch[i]] \in StoreEntries
    BY <2>1 DEF StoreEntries
  <2> QED BY <1>2, <2>2 DEF Named
<1>4. /\ more \in Seq(StoreEntries) /\ Len(more) = n + b
      /\ \A i \in 1 .. n : more[i] = s[i]
      /\ \A i \in 1 .. b : more[n + i] = new[i]
  <2>1. PICK t : t = s
    OBVIOUS
  <2>2. PICK c : c = new
    OBVIOUS
  <2>3. PICK u : u = t \o c
    OBVIOUS
  <2>4. t \in Seq(StoreEntries) /\ c \in Seq(StoreEntries) /\ Len(t) = n /\ Len(c) = b /\ u = more
    BY <1>1, <1>3, <2>1, <2>2, <2>3
  <2>5. u \in Seq(StoreEntries) /\ Extends(t, c, u)
    BY <2>3, <2>4, Concatenated
  <2> HIDE DEF n, b, more, s
  <2> QED BY <2>1, <2>2, <2>4, <2>5 DEF Extends
<1>5. y = Edit(x, k, less, x.playing, next)
  <2>1. x = [lists |-> x.lists, playing |-> x.playing, entryIds |-> x.entryIds,
             listIds |-> x.listIds]
    BY SoundHas
  <2> QED BY <2>1 DEF Edit, Enqueued
<1>6. first \in Nat
  <2>1. list.first \in Nat /\ list.cursor \in Nat
    BY <1>1 DEF StoreLists
  <2> QED BY <2>1
<1> HIDE DEF more, first
<1>7. less \in StoreLists /\ less.id = list.id /\ less.cursor = list.cursor /\ less.entries = more
  BY <1>1, <1>4, <1>6 DEF StoreLists
<1> HIDE DEF less
<1>8. ASSUME NEW id \in Ids(list) PROVE id < x.entryIds /\ id \in Nat
  <2>1. PICK i \in DOMAIN s : id = s[i].id
    BY DEF Ids
  <2>2. s[i] \in StoreEntries
    BY <1>1, <2>1
  <2>3. id \in AllIds(x)
    BY DEF AllIds
  <2> QED BY <2>1, <2>2, <2>3 DEF StoreEntries, Identifiers, StoreSound
<1> HIDE DEF list, n, b
<1>9. DOMAIN more = 1 .. n + b
  BY <1>2, <1>4
<1>10. ASSUME NEW i \in 1 .. n + b
       PROVE  \/ i \in 1 .. n /\ more[i] = list.entries[i] /\ more[i].id \in Ids(list)
              \/ i - n \in 1 .. b /\ more[i].id = x.entryIds + (i - n) - 1
  <2>1. CASE i <= n
    <3>1. i \in 1 .. n /\ more[i] = list.entries[i]
      BY <1>2, <1>4, <2>1
    <3> QED BY <1>2, <3>1 DEF Ids
  <2>2. CASE ~(i <= n)
    <3>1. i - n \in 1 .. b /\ n + (i - n) = i
      BY <1>2, <2>2
    <3> QED BY <1>3, <1>4, <3>1
  <2> QED BY <2>1, <2>2
<1>11. Once(less)
  <2> SUFFICES ASSUME NEW i \in 1 .. n + b, NEW j \in 1 .. n + b, more[i].id = more[j].id
               PROVE  i = j
    BY <1>7, <1>9 DEF Once
  <2>1. CASE more[i].id \in Ids(list)
    <3>1. more[i].id < x.entryIds /\ more[i].id \in Nat
      BY <1>8, <2>1
    <3>2. i \in 1 .. n /\ more[i] = list.entries[i]
      BY <1>2, <1>10, <3>1
    <3>3. j \in 1 .. n /\ more[j] = list.entries[j]
      BY <1>2, <1>10, <3>1
    <3> QED BY <1>1, <1>2, <3>2, <3>3 DEF OwnList, Once
  <2>2. CASE more[i].id \notin Ids(list)
    <3>1. i - n \in 1 .. b /\ more[i].id = x.entryIds + (i - n) - 1
      BY <1>10, <2>2
    <3>2. j - n \in 1 .. b /\ more[j].id = x.entryIds + (j - n) - 1
      BY <1>10, <2>2
    <3>3. x.entryIds + (i - n) - 1 = x.entryIds + (j - n) - 1
      BY <3>1, <3>2
    <3>4. PICK e \in Nat : e = x.entryIds
      BY <1>2
    <3>5. i \in Int /\ j \in Int /\ n \in Int
      BY <1>2
    <3>6. e + (i - n) - 1 = e + (j - n) - 1
      BY <3>3, <3>4
    <3> QED BY <3>5, <3>6
  <2> QED BY <2>1, <2>2
<1>12. Ids(less) \in SUBSET (Ids(list) \union ids)
  <2> SUFFICES ASSUME NEW i \in 1 .. n + b PROVE more[i].id \in Ids(list) \union ids
    BY <1>7, <1>9 DEF Ids
  <2>1. CASE more[i].id \in Ids(list)
    BY <2>1
  <2>2. CASE i - n \in 1 .. b /\ more[i].id = x.entryIds + (i - n) - 1
    <3>1. PICK j \in 1 .. b : j = i - n
      BY <2>2
    <3>2. more[i].id = x.entryIds + j - 1
      BY <2>2, <3>1
    <3> QED BY <3>2
  <2> QED BY <1>10, <2>1, <2>2
<1>13. OwnList(less)
  <2>1. ASSUME list.cursor # None PROVE list.cursor \in Ids(less)
    <3>1. PICK i \in 1 .. n : list.entries[i].id = list.cursor
      BY <1>1, <1>2, <2>1 DEF OwnList, Ids
    <3>2. more[i] = list.entries[i]
      BY <1>4, <3>1
    <3>3. i \in 1 .. n + b /\ more[i].id = list.cursor
      BY <1>2, <3>1, <3>2
    <3> QED BY <1>7, <1>9, <3>3 DEF Ids
  <2> QED BY <1>7, <1>11, <2>1 DEF OwnList
<1>14. IsFiniteSet(ids) /\ Cardinality(ids) = b
  <2> DEFINE f == [i \in 1 .. b |-> x.entryIds + i - 1]
  <2>1. \A i, j \in 1 .. b : f[i] = f[j] => i = j
    BY <1>2
  <2>2. ids = {f[i] : i \in 1 .. b}
    OBVIOUS
  <2> HIDE DEF f, ids
  <2>3. IsFiniteSet({f[i] : i \in 1 .. b}) /\ Cardinality({f[i] : i \in 1 .. b}) = b
    BY <1>2, <2>1, CountDistinct
  <2> QED BY <2>2, <2>3
<1>15. Total(x) = Cardinality(AllIds(x))
  BY SoundHas, TotalIs
<1>16. Renews(x, ids, next)
  <2>1. next \in Identifiers /\ x.entryIds <= next
    BY <1>2 DEF Identifiers, None
  <2>2. ids \in SUBSET Nat /\ \A id \in ids : x.entryIds <= id /\ id < next
    BY <1>2
  <2>3. Cardinality(AllIds(x)) + Cardinality(ids) <= EntryCap
    BY <1>14, <1>15 DEF b, Roomed
  <2> QED BY <1>14, <2>1, <2>2, <2>3 DEF Renews
<1> HIDE DEF ids, next
<1>17. StoreSound(y) /\ y.entryIds = next
  BY <1>1, <1>5, <1>7, <1>12, <1>13, <1>16, ListEdited DEF list
<1>18. y.entryIds = x.entryIds + b
  BY <1>17 DEF next
<1>19. \A i \in DOMAIN new : new[i].id \in Nat /\ new[i].id < y.entryIds
  <2>1. DOMAIN new = 1 .. b
    BY <1>3
  <2> QED BY <1>2, <1>3, <1>18, <2>1
<1> QED BY <1>17, <1>18, <1>19 DEF b, Enlists

Created(x) == [x EXCEPT !.lists = Append(@, PlainList(x.listIds)), !.listIds = @ + 1]

(* Create: an empty list under the next name. *)
LEMMA CreateKeeps ==
  ASSUME NEW x, StoreSound(x), Len(x.lists) < MaxLists, x.listIds # Exhausted, NEW y,
         y = Created(x)
  PROVE  Keeping(x, y)
<1> DEFINE list == PlainList(x.listIds)
           more == Append(x.lists, list)
<1>1. /\ x \in StoreSets /\ x.lists \in Seq(StoreLists) /\ ListsSound(x.lists)
      /\ x.entryIds \in Nat /\ x.listIds \in Identifiers /\ x.playing \in Members(x)
      /\ x = [lists |-> x.lists, playing |-> x.playing, entryIds |-> x.entryIds,
              listIds |-> x.listIds]
  BY SoundHas
<1>2. list \in StoreLists /\ list.id = x.listIds /\ list.cursor = None /\ list.entries = <<>>
  <2>1. None \in Nat /\ Off \in Nat /\ <<>> \in Seq(StoreEntries)
    BY StoreAssumption DEF None, Off
  <2> QED BY <1>1, <2>1 DEF PlainList, StoreLists
<1>3. y = [lists |-> more, playing |-> x.playing, entryIds |-> x.entryIds, listIds |-> x.listIds + 1]
  BY <1>1 DEF Created
<1> HIDE DEF list
<1>4. Ids(list) = {} /\ OwnList(list)
  BY <1>2 DEF Ids, OwnList, Once
<1>5. x.listIds \in Nat /\ x.listIds + 1 \in Identifiers
      /\ \A k \in DOMAIN x.lists : x.lists[k].id < x.listIds /\ x.lists[k].id \in Nat
  <2>1. x.listIds \in Nat /\ x.listIds + 1 \in Identifiers
    BY <1>1 DEF Identifiers, None
  <2>2. \A k \in DOMAIN x.lists : x.lists[k].id < x.listIds
    BY DEF StoreSound
  <2>3. \A k \in DOMAIN x.lists : x.lists[k] \in StoreLists
    BY <1>1
  <2>4. \A k \in DOMAIN x.lists : x.lists[k].id \in Nat
    BY <2>3 DEF StoreLists, Identifiers
  <2> QED BY <2>1, <2>2, <2>4
<1>6. list.id \notin {x.lists[k].id : k \in DOMAIN x.lists} /\ Ids(list) \cap IdsIn(x.lists) = {}
  BY <1>2, <1>4, <1>5
<1>7. Joins(x.lists, list, more)
  BY <1>1, <1>2, <1>4, <1>6, ListAppended
<1> HIDE DEF more
<1>8. /\ y.lists = more /\ y.playing = x.playing /\ y.entryIds = x.entryIds
      /\ y.listIds = x.listIds + 1
  BY <1>3
<1>9. y \in StoreSets
  <2>1. more \in Seq(StoreLists) /\ x.playing \in Nat /\ x.entryIds \in Identifiers
    BY <1>1, <1>7 DEF Joins, StoreSets
  <2> QED BY <1>3, <1>5, <2>1 DEF StoreSets
<1>10. AllIds(y) = AllIds(x)
  <2>1. AllIds(y) = IdsIn(more) /\ AllIds(x) = IdsIn(x.lists)
    BY <1>8 DEF AllIds, IdsIn
  <2>2. IdsIn(more) = IdsIn(x.lists) \union Ids(list)
    BY <1>7 DEF Joins
  <2> QED BY <1>4, <2>1, <2>2
<1>11. x.playing \in {more[k].id : k \in DOMAIN more}
  BY <1>1, <1>7 DEF Joins, Members
<1>12. y.playing \in Members(y)
  BY <1>8, <1>11 DEF Members
<1>13. /\ ListsSound(more) /\ Len(more) = Len(x.lists) + 1 /\ more # <<>> /\ Len(x.lists) \in Nat
       /\ Len(more) <= MaxLists
  <2>1. more \in Seq(StoreLists) /\ ListsSound(more) /\ Len(more) = Len(x.lists) + 1
    BY <1>7 DEF Joins
  <2>2. Len(x.lists) \in Nat
    BY <1>1
  <2> QED BY <2>1, <2>2, StoreAssumption
<1>14. ASSUME NEW k \in DOMAIN more PROVE more[k].id < x.listIds + 1
  <2>1. more[k].id \in {x.lists[l].id : l \in DOMAIN x.lists} \union {list.id}
    BY <1>7 DEF Joins
  <2>2. more[k].id \in Nat /\ more[k].id <= x.listIds
    BY <1>2, <1>5, <2>1
  <2> QED BY <1>5, <2>2
<1>15. /\ \A id \in AllIds(y) : id < x.entryIds
       /\ IsFiniteSet(AllIds(y)) /\ Cardinality(AllIds(y)) <= EntryCap
  BY <1>10 DEF StoreSound
<1>16. StoreSound(y)
  BY <1>8, <1>9, <1>12, <1>13, <1>14, <1>15 DEF StoreSound
<1> QED BY <1>8, <1>10, <1>16 DEF Keeping

(* Delete: the other lists stay, and one of them plays. *)
LEMMA DeleteKeeps ==
  ASSUME NEW x, StoreSound(x), NEW id \in Members(x), Len(x.lists) > 1, NEW y, y = DeleteList(x, id)
  PROVE  Keeping(x, y)
<1> DEFINE k == Index(x, id)
           n == Len(x.lists)
           rest == RemoveAt(x.lists, k)
           m == IF k <= Len(rest) THEN k ELSE Len(rest)
           playing == IF x.playing = id THEN rest[m].id ELSE x.playing
           g == [l \in 1 .. n - 1 |-> IF l < k THEN l ELSE l + 1]
<1>1. /\ x \in StoreSets /\ x.lists \in Seq(StoreLists) /\ ListsSound(x.lists)
      /\ x.entryIds \in Nat /\ x.listIds \in Identifiers /\ x.playing \in Members(x)
      /\ x = [lists |-> x.lists, playing |-> x.playing, entryIds |-> x.entryIds,
              listIds |-> x.listIds]
  BY SoundHas
<1>2. y = [lists |-> rest, playing |-> playing, entryIds |-> x.entryIds, listIds |-> x.listIds]
  BY <1>1 DEF DeleteList
<1>3. k \in DOMAIN x.lists /\ x.lists[k].id = id
  BY MemberAt
<1> HIDE DEF k
<1>4. n \in Nat /\ n > 1 /\ DOMAIN x.lists = 1 .. n /\ k \in 1 .. n
  BY <1>1, <1>3
<1>5. /\ rest \in Seq(StoreLists) /\ Len(rest) = n - 1 /\ DOMAIN rest = 1 .. n - 1
      /\ \A l \in 1 .. n - 1 : rest[l] = IF l < k THEN x.lists[l] ELSE x.lists[l + 1]
  BY <1>1, <1>4, RemovedIs, ZenonT(60)
<1> HIDE DEF rest, n
<1>6. \A l \in 1 .. n - 1 : g[l] \in 1 .. n /\ rest[l] = x.lists[g[l]]
  BY <1>4, <1>5
<1>7. \A i, j \in 1 .. n - 1 : i # j => g[i] # g[j]
  BY <1>4
<1> HIDE DEF g
<1>8. ListsSound(rest)
  <2>1. \A l \in 1 .. n - 1 : OwnList(rest[l])
    BY <1>1, <1>4, <1>6 DEF ListsSound
  <2>2. ASSUME NEW i \in 1 .. n - 1, NEW j \in 1 .. n - 1, i # j PROVE Apart(rest[i], rest[j])
    <3>1. g[i] # g[j] /\ g[i] \in DOMAIN x.lists /\ g[j] \in DOMAIN x.lists
      BY <1>4, <1>6, <1>7, <2>2
    <3>2. Apart(x.lists[g[i]], x.lists[g[j]])
      BY <1>1, <3>1 DEF ListsSound
    <3> QED BY <1>6, <3>2
  <2> QED BY <1>5, <2>1, <2>2 DEF ListsSound
<1>9. m \in 1 .. n - 1
  BY <1>4, <1>5
<1> HIDE DEF m
<1>10. playing \in {rest[l].id : l \in 1 .. n - 1}
  <2>1. CASE x.playing = id
    BY <1>9, <2>1
  <2>2. CASE x.playing # id
    <3>1. PICK j \in 1 .. n : x.lists[j].id = x.playing
      BY <1>1, <1>4 DEF Members
    <3>2. j # k /\ playing = x.playing
      BY <1>3, <2>2, <3>1
    <3>3. CASE j < k
      <4>1. j \in 1 .. n - 1 /\ rest[j] = x.lists[j]
        BY <1>4, <1>5, <3>3
      <4> QED BY <3>1, <3>2, <4>1
    <3>4. CASE j > k
      <4>1. j - 1 \in 1 .. n - 1 /\ ~(j - 1 < k) /\ (j - 1) + 1 = j
        BY <1>4, <3>4
      <4>2. rest[j - 1] = x.lists[(j - 1) + 1]
        BY <1>5, <4>1
      <4> QED BY <3>1, <3>2, <4>1, <4>2
    <3> QED BY <1>4, <3>2, <3>3, <3>4
  <2> QED BY <2>1, <2>2
<1> HIDE DEF playing
<1>11. /\ y.lists = rest /\ y.playing = playing /\ y.entryIds = x.entryIds
       /\ y.listIds = x.listIds
  BY <1>2
<1>12. y.playing \in Members(y)
  BY <1>5, <1>10, <1>11 DEF Members
<1>13. \A l \in 1 .. n - 1 : rest[l] \in StoreLists /\ rest[l].id < x.listIds
  <2>1. \A l \in 1 .. n : x.lists[l].id < x.listIds
    BY <1>4 DEF StoreSound
  <2> QED BY <1>5, <1>6, <2>1
<1>14. y \in StoreSets
  <2>1. playing \in Nat
    BY <1>10, <1>13 DEF StoreLists, Identifiers
  <2>2. x.entryIds \in Identifiers
    BY <1>1 DEF StoreSets
  <2> QED BY <1>1, <1>2, <1>5, <2>1, <2>2 DEF StoreSets
<1>15. AllIds(y) \in SUBSET AllIds(x)
  <2> SUFFICES ASSUME NEW l \in 1 .. n - 1, NEW e \in Ids(rest[l]) PROVE e \in AllIds(x)
    BY <1>5, <1>11 DEF AllIds
  <2> QED BY <1>4, <1>6 DEF AllIds
<1>16. IsFiniteSet(AllIds(y)) /\ Cardinality(AllIds(y)) <= EntryCap
  <2>1. IsFiniteSet(AllIds(x)) /\ Cardinality(AllIds(x)) <= EntryCap
    BY DEF StoreSound
  <2>2. /\ IsFiniteSet(AllIds(y)) /\ Cardinality(AllIds(y)) <= Cardinality(AllIds(x))
    BY <1>15, <2>1, FS_Subset
  <2>3. Cardinality(AllIds(x)) \in Nat /\ Cardinality(AllIds(y)) \in Nat
    BY <2>1, <2>2, FS_CardinalityType
  <2> QED BY <2>1, <2>2, <2>3, StoreAssumption
<1>17. \A e \in AllIds(y) : e < x.entryIds
  BY <1>15 DEF StoreSound
<1>18. rest # <<>> /\ Len(rest) <= MaxLists
  <2>1. n <= MaxLists
    BY DEF StoreSound, n
  <2> QED BY <1>4, <1>5, <2>1, StoreAssumption
<1>19. StoreSound(y)
  BY <1>5, <1>8, <1>11, <1>12, <1>13, <1>14, <1>16, <1>17, <1>18 DEF StoreSound
<1> QED BY <1>11, <1>15, <1>19 DEF Keeping

(* What the list that plays has its cursor on. *)
LEMMA PlayingMedia ==
  ASSUME NEW x, StoreSound(x) PROVE CursorMedia(x.lists[Index(x, x.playing)]) \in Mediums
<1>1. Index(x, x.playing) \in DOMAIN x.lists
  BY SoundHas, MemberAt
<1>2. x.lists[Index(x, x.playing)] \in StoreLists /\ OwnList(x.lists[Index(x, x.playing)])
  BY <1>1, SoundHas
<1> QED BY <1>2, CursorMediaIs

-----------------------------------------------------------------------------
(* The inductive invariant: the set is sound, what is current is a medium, no   *)
(* id was given out that is still to come, and a document just loaded stands.   *)
IssuedBelow == \A id \in issued : id \in Nat /\ id < set.entryIds
StoreInv == StoreSound(set) /\ current \in Mediums /\ IssuedBelow /\ StoredStands

(* Every entry is below its allocator. *)
LEMMA IdsBelow ==
  ASSUME NEW x, StoreSound(x)
  PROVE  \A id \in AllIds(x) : id \in Nat /\ id < x.entryIds
<1> SUFFICES ASSUME NEW id \in AllIds(x) PROVE id \in Nat /\ id < x.entryIds
  OBVIOUS
<1>1. PICK k \in DOMAIN x.lists : id \in Ids(x.lists[k])
  BY DEF AllIds
<1>2. PICK i \in DOMAIN x.lists[k].entries : x.lists[k].entries[i].id = id
  BY <1>1 DEF Ids
<1>3. x.lists[k].entries \in Seq(StoreEntries)
  BY SoundHas
<1>4. x.lists[k].entries[i] \in StoreEntries
  BY <1>2, <1>3
<1> QED BY <1>2, <1>4 DEF StoreEntries, Identifiers, StoreSound

(* A profile of the one-queue schema. *)
LEMMA MigrateSound ==
  ASSUME NEW first \in Identifiers, NEW second \in Identifiers, NEW one \in EntryMedia,
         NEW two \in EntryMedia, NEW cursor \in Nat, NEW old,
         old = Migrate(<<[id |-> first, media |-> one], [id |-> second, media |-> two]>>, cursor, one)
  PROVE  StoreSound(old.set) /\ old.media \in Mediums
<1> DEFINE entries == <<[id |-> first, media |-> one], [id |-> second, media |-> two]>>
<1>1. entries \in Seq(StoreEntries)
  <2>1. [id |-> first, media |-> one] \in StoreEntries /\ [id |-> second, media |-> two] \in StoreEntries
    BY DEF StoreEntries
  <2> QED BY <2>1
<1> HIDE DEF entries
<1>2. <<>> \in Seq(StoreEntries)
  OBVIOUS
<1>3. PICK kept \in Seq(StoreEntries) : \E active :
         old = Recover([NoDocument EXCEPT
                  !.lists = <<[id |-> 1, cursor |-> IF active = {} THEN None ELSE cursor,
                               first |-> Off, entries |-> kept, readable |-> TRUE]>>,
                  !.playing = 1, !.nextList = 2, !.media = one])
  <2> DEFINE usable == /\ IsInjective([i \in DOMAIN entries |-> entries[i].id])
                       /\ Len(entries) <= EntryCap
             kept == IF usable THEN entries ELSE <<>>
             active == {i \in DOMAIN kept : kept[i].id = cursor /\ kept[i].media = one}
  <2>1. kept \in Seq(StoreEntries)
    BY <1>1, <1>2
  <2>2. old = Recover([NoDocument EXCEPT
                  !.lists = <<[id |-> 1, cursor |-> IF active = {} THEN None ELSE cursor,
                               first |-> Off, entries |-> kept, readable |-> TRUE]>>,
                  !.playing = 1, !.nextList = 2, !.media = one])
    BY Zenon DEF Migrate, entries
  <2> HIDE DEF kept, active
  <2> QED BY <2>1, <2>2
<1>3a. PICK active :
         old = Recover([NoDocument EXCEPT
                  !.lists = <<[id |-> 1, cursor |-> IF active = {} THEN None ELSE cursor,
                               first |-> Off, entries |-> kept, readable |-> TRUE]>>,
                  !.playing = 1, !.nextList = 2, !.media = one])
  BY <1>3
<1>4. PICK at : at = IF active = {} THEN None ELSE cursor
  OBVIOUS
<1>5. PICK record :
         record = [id |-> 1, cursor |-> at, first |-> Off, entries |-> kept, readable |-> TRUE]
  OBVIOUS
<1>6. record \in Records
  <2>1. at \in Nat /\ Off \in Nat
    BY <1>4, StoreAssumption DEF None, Off
  <2> QED BY <1>5, <2>1 DEF Records
<1>7. PICK doc : doc = [lists |-> <<record>>, playing |-> 1, nextEntry |-> 1, nextList |-> 2,
                        media |-> one, intact |-> FALSE]
  OBVIOUS
<1>8. doc \in Docs
  <2>1. <<record>> \in Seq(Records) /\ 1 \in Identifiers /\ 2 \in Identifiers /\ one \in Mediums
    BY <1>6 DEF Identifiers, None, Mediums, AnyMedium
  <2> QED BY <1>7, <2>1 DEF Docs
<1>9. old = Recover(doc)
  <2>0. PICK lists : lists = <<record>>
    OBVIOUS
  <2>1. doc = [NoDocument EXCEPT !.lists = lists, !.playing = 1, !.nextList = 2, !.media = one]
    <3>1. PICK a : a = [lists |-> <<>>, playing |-> None, nextEntry |-> 1, nextList |-> 1,
                        media |-> NoMedium, intact |-> FALSE]
      OBVIOUS
    <3>2. PICK b : b = [a EXCEPT !.lists = lists]
      OBVIOUS
    <3>3. b = [lists |-> lists, playing |-> None, nextEntry |-> 1, nextList |-> 1,
               media |-> NoMedium, intact |-> FALSE]
      BY <3>1, <3>2
    <3>4. PICK c : c = [b EXCEPT !.playing = 1]
      OBVIOUS
    <3>5. c = [lists |-> lists, playing |-> 1, nextEntry |-> 1, nextList |-> 1,
               media |-> NoMedium, intact |-> FALSE]
      BY <3>3, <3>4
    <3>6. PICK e : e = [c EXCEPT !.nextList = 2]
      OBVIOUS
    <3>7. e = [lists |-> lists, playing |-> 1, nextEntry |-> 1, nextList |-> 2,
               media |-> NoMedium, intact |-> FALSE]
      BY <3>5, <3>6
    <3>8. PICK f : f = [e EXCEPT !.media = one]
      OBVIOUS
    <3>9. f = [lists |-> lists, playing |-> 1, nextEntry |-> 1, nextList |-> 2,
               media |-> one, intact |-> FALSE]
      BY <3>7, <3>8
    <3>10. f = doc
      BY <1>7, <2>0, <3>9
    <3>11. [a EXCEPT !.lists = lists, !.playing = 1, !.nextList = 2, !.media = one] = f
      BY Zenon, <3>2, <3>4, <3>6, <3>8
    <3> QED BY <3>1, <3>10, <3>11 DEF NoDocument
  <2> QED BY <1>3a, <1>4, <1>5, <2>0, <2>1
<1> QED BY <1>8, <1>9, RecoverSound

(* Both ways to start. *)
LEMMA StoreStarts ==
  ASSUME StoreInit PROVE StoreInv
<1>1. stored = NoDocument /\ issued = AllIds(set)
  BY DEF StoreInit
<1>2. StoreSound(set) /\ current \in Mediums
  <2>1. CASE set = DefaultSet /\ current = NoMedium
    <3>1. 1 \in Identifiers /\ 2 \in Identifiers /\ 1 < 2
      BY DEF Identifiers, None
    <3>2. StoreSound(set)
      BY <2>1, <3>1, PlainSound DEF DefaultSet
    <3> QED BY <2>1, <3>2 DEF Mediums
  <2>2. CASE \E ids \in {<<1, 2>>, <<2, 2>>, <<MaxId, 1>>}, cursor \in {None, 1},
                other \in EntryMedia :
               LET media == CHOOSE m \in EntryMedia : TRUE
                   entries == <<[id |-> ids[1], media |-> media],
                                [id |-> ids[2], media |-> other]>>
                   old == Migrate(entries, cursor, media) IN
               set = old.set /\ current = old.media
    <3>1. PICK ids \in {<<1, 2>>, <<2, 2>>, <<MaxId, 1>>}, cursor \in {None, 1},
               other \in EntryMedia :
               LET media == CHOOSE m \in EntryMedia : TRUE
                   entries == <<[id |-> ids[1], media |-> media],
                                [id |-> ids[2], media |-> other]>>
                   old == Migrate(entries, cursor, media) IN
               set = old.set /\ current = old.media
      BY <2>2
    <3>2. PICK media : media = CHOOSE m \in EntryMedia : TRUE
      OBVIOUS
    <3>3. media \in EntryMedia
      BY <3>2
    <3>4. ids[1] \in Identifiers /\ ids[2] \in Identifiers /\ cursor \in Nat
      BY StoreAssumption DEF Identifiers, None
    <3>5. PICK old : old = Migrate(<<[id |-> ids[1], media |-> media],
                                     [id |-> ids[2], media |-> other]>>, cursor, media)
      OBVIOUS
    <3>6. set = old.set /\ current = old.media
      BY <3>1, <3>2, <3>5
    <3>7. StoreSound(old.set) /\ old.media \in Mediums
      BY <3>3, <3>4, <3>5, MigrateSound
    <3> QED BY <3>6, <3>7
  <2> QED BY <2>1, <2>2 DEF StoreInit
<1>3. IssuedBelow
  BY <1>1, <1>2, IdsBelow DEF IssuedBelow
<1> QED BY <1>1, <1>2, <1>3 DEF StoreInv, StoredStands

(* An edit that gives out no name. *)
LEMMA EditStands ==
  ASSUME StoreInv, Keeping(set, set'), issued' = issued, stored' = NoDocument, current' \in Mediums
  PROVE  StoreInv'
<1>1. StoreSound(set)' /\ IssuedBelow'
  BY DEF Keeping, StoreInv, IssuedBelow
<1> QED BY <1>1 DEF StoreInv, StoredStands

(* A document loaded, damaged or not. *)
LEMMA LoadedStands ==
  ASSUME NEW x, StoreSound(x), NEW media \in Mediums, NEW d \in DamagedUpTo(Encode(x, media))
  PROVE  /\ d \in Docs /\ StoreSound(Recover(d).set) /\ Recover(d).media \in Mediums
         /\ d.nextEntry <= Recover(d).set.entryIds
         /\ Partly(Recover(d).set, d)
         /\ (d.intact => Intactly(Recover(d).set, Recover(d).media, d))
<1>1. PICK doc : doc = Encode(x, media)
  OBVIOUS
<1>2. doc \in Docs
  BY <1>1, EncodeIs
<1>3. d = doc \/ IsDamage(d)
  BY <1>1, <1>2, DamagedUpToIs
<1>4. d \in Docs
  BY <1>2, <1>3 DEF IsDamage
<1>5. d.intact => Intactly(Recover(d).set, Recover(d).media, d)
  <2>1. ASSUME d.intact PROVE d = doc
    BY <1>3, <2>1 DEF IsDamage
  <2> QED BY <1>1, <2>1, IntactStands
<1> QED BY <1>4, <1>5, RecoverSound, PartlyStands

(* Reload: what was issued stays below the allocator, and the document stands. *)
LEMMA ReloadStands ==
  ASSUME StoreInv, Reload PROVE StoreInv'
<1>1. PICK d \in DamagedUpTo(Encode(set, current)) :
        /\ set' = Recover(d).set /\ current' = Recover(d).media /\ stored' = d
        /\ issued' = IF d.nextEntry = set.entryIds THEN issued \cup AllIds(set') ELSE AllIds(set')
  BY DEF Reload
<1>2. /\ d \in Docs /\ StoreSound(set') /\ current' \in Mediums
      /\ d.nextEntry <= set'.entryIds /\ Partly(set', d)
      /\ (d.intact => Intactly(set', current', d))
  BY <1>1, LoadedStands DEF StoreInv
<1>3. IssuedBelow'
  <2>1. \A id \in AllIds(set') : id \in Nat /\ id < set'.entryIds
    BY <1>2, IdsBelow
  <2>2. set'.entryIds \in Nat /\ d.nextEntry \in Nat
    BY <1>2, SoundHas DEF Docs, Identifiers
  <2> SUFFICES ASSUME NEW id \in issued' PROVE id \in Nat /\ id < set'.entryIds
    BY DEF IssuedBelow
  <2>3. CASE id \in AllIds(set')
    BY <2>1, <2>3
  <2>4. CASE id \in issued /\ d.nextEntry = set.entryIds
    <3>1. id \in Nat /\ id < d.nextEntry
      BY <2>4 DEF StoreInv, IssuedBelow
    <3> QED BY <1>2, <2>2, <3>1
  <2> QED BY <1>1, <2>3, <2>4
<1>4. StoredStands'
  <2>1. Partly(set', stored') /\ (stored'.intact => Intactly(set', current', stored'))
    BY <1>1, <1>2
  <2>2. Len(set'.lists) = Len(stored'.lists) /\ set'.listIds # Exhausted =>
           \A k \in DOMAIN set'.lists : Stands(stored'.lists, k, set'.lists[k], Total(set'))
    BY <2>1 DEF Partly
  <2> QED BY <2>1, <2>2 DEF StoredStands, Intactly, Stands
<1> QED BY <1>2, <1>3, <1>4 DEF StoreInv

(* Enqueue gives out ids, and counts them as issued. *)
LEMMA EnqueueStands ==
  ASSUME StoreInv, Enqueue PROVE StoreInv'
<1>1. /\ StoreSound(set) /\ current' = current /\ current \in Mediums /\ stored' = NoDocument
      /\ IssuedBelow
  BY DEF StoreInv, Enqueue, Edited, SameMedia
<1>2. PICK k \in DOMAIN set.lists, batch \in Batches :
        LET new == Named(set, batch)
        IN /\ Fits(batch)
           /\ set' = Enqueued(set, k, batch, new)
           /\ issued' = issued \cup {new[i].id : i \in DOMAIN new}
  BY Zenon DEF Enqueue, Enqueued, Named
<1>3. PICK new :
        /\ new = Named(set, batch) /\ Roomed(set, batch)
        /\ set' = Enqueued(set, k, batch, new)
        /\ issued' = issued \cup {new[i].id : i \in DOMAIN new}
  BY <1>2, Zenon DEF Fits, Roomed
<1>4. batch \in Seq(EntryMedia)
  <2>1. \E m \in EntryMedia : batch = <<m>> \/ batch = <<m, m>>
    BY Zenon DEF Batches
  <2>2. \A m \in EntryMedia : <<m>> \in Seq(EntryMedia) /\ <<m, m>> \in Seq(EntryMedia)
    OBVIOUS
  <2> QED BY <2>1, <2>2
<1>5. /\ StoreSound(set') /\ set'.entryIds = set.entryIds + Len(batch)
      /\ \A i \in DOMAIN new : new[i].id \in Nat /\ new[i].id < set'.entryIds
  <2>1. Enlists(set, set', batch, new)
    BY <1>1, <1>3, <1>4, EnqueueSound
  <2> QED BY <2>1 DEF Enlists
<1>6. IssuedBelow'
  <2> SUFFICES ASSUME NEW id \in issued' PROVE id \in Nat /\ id < set'.entryIds
    BY DEF IssuedBelow
  <2>1. CASE id \in issued
    <3>1. id \in Nat /\ id < set.entryIds /\ set.entryIds \in Nat /\ Len(batch) \in Nat
      BY <1>1, <1>4, <2>1, SoundHas DEF IssuedBelow
    <3> QED BY <1>5, <3>1
  <2>2. CASE id \in {new[i].id : i \in DOMAIN new}
    BY <1>5, <2>2
  <2> QED BY <1>3, <2>1, <2>2
<1> QED BY <1>1, <1>5, <1>6 DEF StoreInv, StoredStands

(* The step, action by action. *)
LEMMA StoreSteps ==
  ASSUME StoreInv, [StoreNext]_storeVars PROVE StoreInv'
<1>0. StoreSound(set) /\ current \in Mediums
  BY DEF StoreInv
<1>1. CASE Enqueue
  BY <1>1, EnqueueStands
<1>2. CASE Create
  <2>1. /\ Len(set.lists) < MaxLists /\ set.listIds # Exhausted /\ set' = Created(set)
        /\ current' = current /\ issued' = issued /\ stored' = NoDocument
    BY <1>2 DEF Create, Created, Edited, SameMedia
  <2>2. Keeping(set, set')
    BY <1>0, <2>1, CreateKeeps
  <2> QED BY <1>0, <2>1, <2>2, EditStands
<1>3. CASE SetShuffle
  <2>1. PICK k \in DOMAIN set.lists, on \in BOOLEAN :
           set' = [set EXCEPT !.lists[k].first = IF on THEN set.lists[k].cursor ELSE Off]
    BY <1>3 DEF SetShuffle
  <2>2. PICK first : first = IF on THEN set.lists[k].cursor ELSE Off
    OBVIOUS
  <2>3. first \in Nat
    <3>1. set.lists[k] \in StoreLists
      BY <1>0, SoundHas
    <3> QED BY <2>2, <3>1, StoreAssumption DEF StoreLists, Off
  <2>4. set' = [set EXCEPT !.lists[k].first = first]
    BY <2>1, <2>2
  <2>5. Keeping(set, set')
    BY <1>0, <2>3, <2>4, ShuffleKeeps
  <2>6. current' = current /\ issued' = issued /\ stored' = NoDocument
    BY <1>3 DEF SetShuffle, Edited, SameMedia
  <2> QED BY <1>0, <2>5, <2>6, EditStands
<1>4. CASE MoveEntry
  <2>1. PICK k \in DOMAIN set.lists : \E i \in 1..(Len(set.lists[k].entries) - 1) :
           set' = [set EXCEPT !.lists[k].entries =
                      [@ EXCEPT ![i] = set.lists[k].entries[i + 1],
                                ![i + 1] = set.lists[k].entries[i]]]
    BY <1>4 DEF MoveEntry
  <2>2. PICK i \in 1..(Len(set.lists[k].entries) - 1) :
           set' = [set EXCEPT !.lists[k].entries =
                      [@ EXCEPT ![i] = set.lists[k].entries[i + 1],
                                ![i + 1] = set.lists[k].entries[i]]]
    BY <2>1
  <2>3. Keeping(set, set')
    BY <1>0, <2>2, MoveKeeps
  <2>4. current' = current /\ issued' = issued /\ stored' = NoDocument
    BY <1>4 DEF MoveEntry, Edited, SameMedia
  <2> QED BY <1>0, <2>3, <2>4, EditStands
<1>5. CASE DropEntry
  <2>1. /\ \E id \in AllIds(set) : set' = RemoveFrom(set, id)
        /\ current' = current /\ issued' = issued /\ stored' = NoDocument
    BY <1>5 DEF DropEntry, Edited, SameMedia
  <2>2. Keeping(set, set')
    BY <1>0, <2>1, RemoveKeeps
  <2> QED BY <1>0, <2>1, <2>2, EditStands
<1>6. CASE Clear
  <2>1. /\ \E list \in Members(set) : set' = ClearList(set, list)
        /\ current' = current /\ issued' = issued /\ stored' = NoDocument
    BY <1>6 DEF Clear, Edited, SameMedia
  <2>2. Keeping(set, set')
    BY <1>0, <2>1, ClearKeeps
  <2> QED BY <1>0, <2>1, <2>2, EditStands
<1>7. CASE Delete
  <2>1. PICK list \in Members(set) :
           /\ Deletable(set, list) /\ set' = DeleteList(set, list)
           /\ IF list = set.playing
              THEN CurrentIs(CursorMedia(set'.lists[Index(set', set'.playing)]))
              ELSE UNCHANGED <<current, pinned>>
    BY <1>7 DEF Delete
  <2>2. Keeping(set, set')
    BY <1>0, <2>1, DeleteKeeps DEF Deletable
  <2>3. CursorMedia(set'.lists[Index(set', set'.playing)]) \in Mediums
    BY <2>2, PlayingMedia DEF Keeping
  <2>4. current' \in Mediums
    BY <1>0, <2>1, <2>3 DEF CurrentIs
  <2>5. issued' = issued /\ stored' = NoDocument
    BY <1>7 DEF Delete, Edited
  <2> QED BY <2>2, <2>4, <2>5, EditStands
<1>8. CASE AdoptEntry
  <2>1. PICK id \in AllIds(set) : set' = Adopt(set, id) /\ CurrentIs(MediaOf(set, id))
    BY <1>8 DEF AdoptEntry
  <2>2. Keeping(set, set') /\ MediaOf(set, id) \in Mediums
    BY <1>0, <2>1, AdoptKeeps
  <2>3. issued' = issued /\ stored' = NoDocument /\ current' \in Mediums
    BY <1>8, <2>1, <2>2 DEF AdoptEntry, Edited, CurrentIs
  <2> QED BY <2>2, <2>3, EditStands
<1>9. CASE AdoptElsewhere \/ RecordPoint
  <2>1. set' = set /\ issued' = issued /\ stored' = NoDocument /\ current' \in Mediums
    BY <1>0, <1>9 DEF AdoptElsewhere, RecordPoint, Edited, CurrentIs, Mediums, AnyMedium
  <2>2. Keeping(set, set')
    BY <1>0, <2>1 DEF Keeping
  <2> QED BY <2>1, <2>2, EditStands
<1>10. CASE Reload
  BY <1>10, ReloadStands
<1>11. CASE UNCHANGED storeVars
  BY <1>11 DEF storeVars, StoreInv, IssuedBelow, StoredStands
<1> QED BY <1>1, <1>2, <1>3, <1>4, <1>5, <1>6, <1>7, <1>8, <1>9, <1>10, <1>11 DEF StoreNext

(* What the invariant says of SetIsSound: counting ids counts entries and lists. *)
LEMMA SoundIs ==
  ASSUME StoreInv PROVE SetIsSound
<1>1. /\ StoreSound(set) /\ IssuedBelow /\ ListsSound(set.lists)
      /\ set.lists \in Seq(StoreLists) /\ set.playing \in Members(set)
  BY SoundHas DEF StoreInv
<1>2. set.lists # <<>> /\ Len(set.lists) <= MaxLists
      /\ Cardinality(AllIds(set)) <= EntryCap
  BY <1>1 DEF StoreSound
<1>3. \A k \in DOMAIN set.lists : set.lists[k].cursor \in Ids(set.lists[k]) \cup {None}
  BY <1>1 DEF ListsSound, OwnList
<1>4. Cardinality(AllIds(set)) = Total(set)
  BY <1>1, TotalIs
<1>5. Cardinality(Members(set)) = Len(set.lists)
  <2> DEFINE n == Len(set.lists)
             f == [k \in 1 .. n |-> set.lists[k].id]
  <2>1. n \in Nat /\ DOMAIN set.lists = 1 .. n
    BY <1>1
  <2>2. \A i, j \in 1 .. n : f[i] = f[j] => i = j
    <3> SUFFICES ASSUME NEW i \in 1 .. n, NEW j \in 1 .. n, i # j
                 PROVE  set.lists[i].id # set.lists[j].id
      BY DEF f
    <3>1. i \in DOMAIN set.lists /\ j \in DOMAIN set.lists
      BY <2>1
    <3>2. Apart(set.lists[i], set.lists[j])
      BY <1>1, <3>1 DEF ListsSound
    <3> QED BY <3>2 DEF Apart
  <2>3. Members(set) = {f[i] : i \in 1 .. n}
    BY <2>1 DEF Members
  <2> HIDE DEF f, n
  <2>4. IsFiniteSet({f[i] : i \in 1 .. n}) /\ Cardinality({f[i] : i \in 1 .. n}) = n
    <3>1. \A i, j \in 1 .. n : f[i] = f[j] => i = j
      BY <2>2
    <3>2. n \in Nat
      BY <2>1
    <3> QED BY <3>1, <3>2, CountDistinct
  <2> QED BY <2>3, <2>4 DEF n
<1>6. \A id \in issued \cup AllIds(set) : id < set.entryIds
  BY <1>1, IdsBelow DEF IssuedBelow
<1> QED BY <1>1, <1>2, <1>3, <1>4, <1>5, <1>6 DEF SetIsSound

(* Whatever is edited, stored, damaged and loaded: no two entries and no two    *)
(* lists share an id, no id is given out twice, cursors and the playing list    *)
(* are there and the caps hold; and a load gives back what was stored, all of   *)
(* it or what of a damaged document stands (set.rs, queue_codec.rs).            *)
THEOREM SetAlwaysStands == StoreSpec => []SetStands
<1>1. StoreInit => StoreInv
  BY StoreStarts
<1>2. StoreInv /\ [StoreNext]_storeVars => StoreInv'
  BY StoreSteps
<1>3. StoreInv => SetStands
  BY SoundIs DEF SetStands, StoreInv
<1> QED BY <1>1, <1>2, <1>3, PTL DEF StoreSpec

-----------------------------------------------------------------------------
(* The remembered positions. *)

(* The remembered positions: as many as there is room for, that of what is    *)
(* current among them once it was recorded.                                   *)
PointsInv ==
    /\ points \in Seq(AnyMedium) /\ Len(points) <= PointCap
    /\ pinned \in BOOLEAN
    /\ pinned => \E i \in DOMAIN points : points[i] = current

(* There is an oldest of some places of the positions. *)
LEMMA OldestIs ==
  ASSUME NEW I \in SUBSET DOMAIN points, I # {}, points \in Seq(AnyMedium)
  PROVE  Oldest(I) \in I
<1>1. I \in SUBSET Nat
  OBVIOUS
<1>2. \E i \in I : \A j \in I : i <= j
  BY <1>1, LeastOfNat
<1> QED BY <1>2 DEF Oldest

(* Taking a place out leaves what is at every other. *)
LEMMA OthersStay ==
  ASSUME NEW s \in Seq(AnyMedium), NEW k \in DOMAIN s, NEW m \in AnyMedium
  PROVE  LET t == Append(RemoveAt(s, k), m) IN
         /\ t \in Seq(AnyMedium) /\ Len(t) = Len(s)
         /\ \E i \in DOMAIN t : t[i] = m
         /\ \A j \in DOMAIN s : j # k => \E i \in DOMAIN t : t[i] = s[j]
<1> DEFINE r == RemoveAt(s, k)
           t == Append(r, m)
<1>1. DOMAIN s = 1 .. Len(s) /\ Len(s) \in Nat /\ k \in 1 .. Len(s)
  OBVIOUS
<1>2. /\ r \in Seq(AnyMedium) /\ Len(r) = Len(s) - 1
      /\ \A i \in 1 .. Len(s) - 1 : r[i] = IF i < k THEN s[i] ELSE s[i + 1]
  BY <1>1, RemovedIs
<1> HIDE DEF r
<1>3. /\ t \in Seq(AnyMedium) /\ Len(t) = Len(s) /\ DOMAIN t = 1 .. Len(s) /\ t[Len(s)] = m
      /\ \A i \in 1 .. Len(s) - 1 : t[i] = r[i]
  <2>1. /\ t \in Seq(AnyMedium) /\ Len(t) = Len(r) + 1 /\ t[Len(r) + 1] = m
        /\ \A i \in 1 .. Len(r) : t[i] = r[i]
    BY <1>2, AppendProperties
  <2> HIDE DEF t
  <2> QED BY <1>1, <1>2, <2>1
<1> HIDE DEF t
<1>4. Len(s) \in DOMAIN t
  BY <1>1, <1>3
<1>5. ASSUME NEW j \in DOMAIN s, j # k PROVE \E i \in DOMAIN t : t[i] = s[j]
  <2>1. CASE j < k
    <3>1. j \in 1 .. Len(s) - 1
      BY <1>1, <2>1
    <3> QED BY <1>1, <1>2, <1>3, <2>1, <3>1
  <2>2. CASE j > k
    <3>1. j - 1 \in 1 .. Len(s) - 1 /\ ~ (j - 1 < k) /\ (j - 1) + 1 = j
      BY <1>1, <2>2
    <3>2. t[j - 1] = s[j] /\ j - 1 \in DOMAIN t
      BY <1>1, <1>2, <1>3, <3>1
    <3> QED BY <3>2
  <2> QED BY <1>1, <1>5, <2>1, <2>2
<1> QED BY <1>3, <1>4, <1>5 DEF t, r

(* What is current stays, and the cap holds, whatever is recorded. *)
LEMMA RecordKeeps ==
  ASSUME PointsInv, RecordPoint PROVE PointsInv'
<1>1. PICK media \in AnyMedium : points' = Recorded(media) /\ pinned' = (pinned \/ media = current)
  BY DEF RecordPoint
<1>2. current' = current /\ Len(points) \in Nat /\ points \in Seq(AnyMedium)
  BY DEF RecordPoint, PointsInv
<1> DEFINE own == {i \in DOMAIN points : points[i] = media}
<1>3. CASE own # {}
  <2>1. Oldest(own) \in own
    BY <1>2, <1>3, OldestIs
  <2>2. points' = Append(RemoveAt(points, Oldest(own)), media)
    BY <1>1, <1>3 DEF Recorded
  <2> PICK k : k = Oldest(own)
    OBVIOUS
  <2>3. k \in DOMAIN points /\ points[k] = media /\ points' = Append(RemoveAt(points, k), media)
    BY <2>1, <2>2
  <2>4. /\ points' \in Seq(AnyMedium) /\ Len(points') = Len(points)
        /\ \E i \in DOMAIN points' : points'[i] = media
        /\ \A j \in DOMAIN points : j # k => \E i \in DOMAIN points' : points'[i] = points[j]
    BY ZenonT(60), <1>2, <2>3, OthersStay
  <2> QED BY <1>1, <1>2, <2>3, <2>4 DEF PointsInv
<1>4. CASE own = {} /\ Len(points) < PointCap
  <2>1. points' = Append(points, media)
    BY <1>1, <1>4 DEF Recorded
  <2>2. /\ points' \in Seq(AnyMedium) /\ Len(points') = Len(points) + 1
        /\ DOMAIN points' = 1 .. Len(points) + 1 /\ points'[Len(points) + 1] = media
        /\ \A i \in 1 .. Len(points) : points'[i] = points[i]
    BY <1>2, <2>1, AppendProperties
  <2>3. \A j \in DOMAIN points : \E i \in DOMAIN points' : points'[i] = points[j]
    BY <1>2, <2>2
  <2>4. \E i \in DOMAIN points' : points'[i] = media
    BY <1>2, <2>2
  <2> QED BY <1>1, <1>2, <1>4, <2>2, <2>3, <2>4, StoreAssumption DEF PointsInv
<1>5. CASE own = {} /\ ~ (Len(points) < PointCap) /\ Evictable = {}
  <2>1. points' = points
    BY <1>1, <1>5 DEF Recorded
  <2>2. media # current
    <3>1. 1 \in DOMAIN points
      BY <1>2, <1>5, StoreAssumption
    <3>2. points[1] = current
      BY <1>5, <3>1 DEF Evictable
    <3> QED BY <1>5, <3>1, <3>2
  <2> QED BY <1>1, <1>2, <2>1, <2>2 DEF PointsInv
<1>6. CASE own = {} /\ ~ (Len(points) < PointCap) /\ Evictable # {}
  <2>1. Oldest(Evictable) \in Evictable
    BY <1>2, <1>6, OldestIs DEF Evictable
  <2>2. points' = Append(RemoveAt(points, Oldest(Evictable)), media)
    BY <1>1, <1>6 DEF Recorded
  <2> PICK k : k = Oldest(Evictable)
    OBVIOUS
  <2>3. k \in DOMAIN points /\ points[k] # current /\ points' = Append(RemoveAt(points, k), media)
    BY <2>1, <2>2 DEF Evictable
  <2>4. /\ points' \in Seq(AnyMedium) /\ Len(points') = Len(points)
        /\ \E i \in DOMAIN points' : points'[i] = media
        /\ \A j \in DOMAIN points : j # k => \E i \in DOMAIN points' : points'[i] = points[j]
    BY ZenonT(60), <1>2, <2>3, OthersStay
  <2> QED BY <1>1, <1>2, <2>3, <2>4 DEF PointsInv
<1> QED BY <1>3, <1>4, <1>5, <1>6

(* The position of what is playing, once recorded, is never evicted by those  *)
(* of other media, and the cap holds, whatever is edited, stored, damaged and *)
(* recovered in between.                                                      *)
THEOREM CurrentIsAlwaysRemembered == StoreSpec => []CurrentIsRemembered
<1>1. StoreInit => PointsInv
  <2> SUFFICES ASSUME StoreInit PROVE PointsInv
    OBVIOUS
  <2>1. CASE set = DefaultSet /\ current = NoMedium /\ points = <<>> /\ pinned = FALSE
    <3>1. points \in Seq(AnyMedium) /\ Len(points) = 0
      BY <2>1
    <3>2. pinned \in BOOLEAN /\ ~pinned
      BY <2>1
    <3> QED BY <3>1, <3>2, StoreAssumption DEF PointsInv
  <2>2. CASE ~ (set = DefaultSet /\ current = NoMedium /\ points = <<>> /\ pinned = FALSE)
    <3> DEFINE media == CHOOSE m \in EntryMedia : TRUE
    <3>1. /\ points = <<media, Elsewhere>> /\ pinned = (current = media)
          /\ \E other \in EntryMedia : TRUE
      BY <2>2 DEF StoreInit
    <3>2. media \in AnyMedium /\ Elsewhere \in AnyMedium
      BY <3>1 DEF AnyMedium
    <3> HIDE DEF media
    <3>3. points \in Seq(AnyMedium) /\ Len(points) = 2 /\ DOMAIN points = 1 .. 2 /\ points[1] = media
      BY <3>1, <3>2
    <3>4. pinned \in BOOLEAN /\ (pinned => current = media)
      BY <3>1
    <3>5. Len(points) <= PointCap
      BY <3>3, StoreAssumption
    <3>6. \E i \in DOMAIN points : points[i] = media
      BY <3>3
    <3> QED BY <3>3, <3>4, <3>5, <3>6 DEF PointsInv
  <2> QED BY <2>1, <2>2
<1>2. PointsInv /\ [StoreNext]_storeVars => PointsInv'
  <2> SUFFICES ASSUME PointsInv, [StoreNext]_storeVars PROVE PointsInv'
    OBVIOUS
  <2>1. CASE RecordPoint
    BY <2>1, RecordKeeps
  <2>2. CASE ~RecordPoint
    <3>1. UNCHANGED points /\ (pinned' = pinned \/ pinned' = FALSE)
          /\ (pinned' => pinned /\ current' = current)
      <4>1. CASE Enqueue
        BY <4>1 DEF Enqueue, SameMedia
      <4>2. CASE Create
        BY <4>2 DEF Create, SameMedia
      <4>3. CASE SetShuffle
        BY <4>3 DEF SetShuffle, SameMedia
      <4>4. CASE MoveEntry
        BY <4>4 DEF MoveEntry, SameMedia
      <4>5. CASE DropEntry
        BY <4>5 DEF DropEntry, SameMedia
      <4>6. CASE Clear
        BY <4>6 DEF Clear, SameMedia
      <4>7. CASE Delete
        BY <4>7 DEF Delete, CurrentIs, PointsInv
      <4>8. CASE AdoptEntry
        BY <4>8 DEF AdoptEntry, CurrentIs, PointsInv
      <4>9. CASE AdoptElsewhere
        BY <4>9 DEF AdoptElsewhere, CurrentIs, PointsInv
      <4>10. CASE Reload
        BY <4>10 DEF Reload, PointsInv
      <4>11. CASE UNCHANGED storeVars
        BY <4>11 DEF storeVars, PointsInv
      <4> QED BY <2>2, <4>1, <4>2, <4>3, <4>4, <4>5, <4>6, <4>7, <4>8, <4>9, <4>10,
           <4>11
              DEF StoreNext
    <3> QED BY <3>1 DEF PointsInv
  <2> QED BY <2>1, <2>2
<1>3. PointsInv => CurrentIsRemembered
  BY DEF PointsInv, CurrentIsRemembered, ToSet
<1> QED BY <1>1, <1>2, <1>3, PTL DEF StoreSpec
=============================================================================
