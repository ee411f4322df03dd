-------------------------------- MODULE Library --------------------------------
(* library.rs and application/feed_ops.rs: changes to the subscribed feeds,   *)
(* each an entry of subscriptions.json and an episode cache of its own, and   *)
(* to the saved stations.  `tenuto subscribe` and its like run in a process   *)
(* of their own beside a player whose browse worker does the same, one change *)
(* at a time; a process may die at any step, and a write may fail.            *)
(*                                                                            *)
(* A replacement of a file is one step (DurableFile).  A cache is its title   *)
(* and whether this build can use it; a slug is a base and a suffix; a URL is *)
(* the normalised one.  Stations are known by their media, never by a slug.   *)
EXTENDS Naturals, Sequences, FiniteSetsExt, SequencesExt, Functions

CONSTANTS Shells,     \* processes that run one command each at a time
          Players,    \* the players among the processes: they manage stations
          FeedIds,        \* feed ids there is randomness for
          Urls, Titles,
          MaxOps,     \* bound: operations begun
          MaxDiskFaults,  \* bound: writes that fail
          Lists       \* what subscriptions.json and the caches may hold at first

Procs == Shells \union Players

CONSTANTS NoOne, NoUrl, NoSlug

VARIABLES
    listing,   \* subscriptions.json: "usable" or "malformed"
    subs,      \* the subscriptions it holds
    caches,    \* per feed id its cache file
    stations,  \* stations.json: media |-> whether an identity is stored
    lock,      \* who holds subscriptions.lock
    jobs,      \* per process, the operation under way
    ledger,    \* history: the list, were every commit applied to the last one
    ops, diskFaults

LibraryVars == <<listing, subs, caches, stations, lock, jobs, ledger, ops, diskFaults>>

Feed(id, slug, title, url) == [id |-> id, slug |-> slug, title |-> title, url |-> url]
NoFeed == Feed(NoOne, NoSlug, NoSlug, NoUrl)

Cache(title, kind) == [title |-> title, kind |-> kind]
NoCache == Cache(NoSlug, "missing")

Idle == [at |-> "idle", op |-> "none", snap |-> <<>>, todo |-> <<>>, feed |-> NoFeed,
         got |-> NoCache, known |-> FALSE, complete |-> TRUE]

-----------------------------------------------------------------------------
(* Helpers. *)

IdsOf(list) == {list[i].id : i \in DOMAIN list}
SlugsOf(list) == {list[i].slug : i \in DOMAIN list}
UrlsOf(list) == {list[i].url : i \in DOMAIN list}

(* validate_records, at every load and again at every save. *)
Storable(list) == IsInjective([i \in DOMAIN list |-> list[i].id])
                    /\ IsInjective([i \in DOMAIN list |-> list[i].slug])

(* CacheStore::read: there, of this schema and parser, and of this feed. *)
Usable(cache) == cache.kind = "good"

Find(list, slug) == CHOOSE i \in DOMAIN list : list[i].slug = slug
Without(list, id) ==
    LET own == {i \in DOMAIN list : list[i].id = id}   \* ids are unique: one at most
    IN IF own = {} THEN list ELSE RemoveAt(list, CHOOSE i \in own : TRUE)
Replacing(list, feed) == [i \in DOMAIN list |-> IF list[i].id = feed.id THEN feed ELSE list[i]]

(* choose_slug: the explicit one, else the first free suffix of the base. *)
ChooseSlug(title, explicit, occupied) ==
    IF explicit # NoSlug THEN explicit
    ELSE <<title, Min({n \in 1 .. Cardinality(occupied) + 1 : <<title, n>> \notin occupied})>>

(* What the files may hold when a process first opens them: a list that loads *)
(* is one validate_records passed, and each of its feeds has a cache.         *)
Feeds == [id : FeedIds, slug : Titles \X Nat, title : Titles, url : Urls]
Caches == [title : Titles, kind : {"good", "unusable"}] \union {NoCache}

ASSUME LibraryAssumption ==
    /\ MaxOps \in Nat /\ MaxDiskFaults \in Nat
    /\ NoOne \notin FeedIds \union Procs
    /\ \A d \in Lists :
         /\ d.listing \in {"usable", "malformed"}
         /\ d.subs \in Seq(Feeds) /\ Storable(d.subs)
         /\ d.caches \in [FeedIds -> Caches]
         /\ \A i \in DOMAIN d.subs : d.caches[d.subs[i].id] # NoCache

LibraryInit ==
    /\ \E d \in Lists : listing = d.listing /\ subs = d.subs /\ caches = d.caches
    /\ stations = << >>
    /\ lock = NoOne
    /\ jobs = [p \in Procs |-> Idle]
    /\ ledger = subs
    /\ ops = MaxOps /\ diskFaults = MaxDiskFaults

On(p, job) == jobs' = [jobs EXCEPT ![p] = job]
Goes(p, at) == On(p, [jobs[p] EXCEPT !.at = at])
Ends(p, complete) == On(p, [jobs[p] EXCEPT !.at = "done", !.complete = complete])
DiskFails == diskFaults > 0 /\ diskFaults' = diskFaults - 1

Begins(p) == jobs[p].at = "idle" /\ ops > 0 /\ ops' = ops - 1

(* Mutant: the change goes ahead without the lock. *)
CommandAdmittedUnlocked(p) == lock' = lock /\ listing = "usable"

(* lock_subscriptions and load_mutating, as far as they succeed. *)
CommandAdmitted(p) == lock = NoOne /\ lock' = p /\ listing = "usable"

(* The operation is over before it changed anything. *)
Refused(p, op) ==
    /\ On(p, [Idle EXCEPT !.at = "done", !.op = op, !.complete = FALSE])
    /\ UNCHANGED lock

-----------------------------------------------------------------------------
(* Beginnings: the lock is tried, the file is loaded, the arguments checked.  *)

(* SubscriptionsBusy, an HTTP service that will not start, a file that cannot *)
(* be read; a malformed one is moved aside if it can be, and still refused.   *)
Refuse(p) ==
    /\ Begins(p)
    /\ \E op \in {"subscribe", "unsubscribe", "refresh"} : Refused(p, op)
    /\ listing' \in IF lock = NoOne THEN {listing, "usable"} ELSE {listing}
    /\ UNCHANGED <<subs, caches, stations, ledger, diskFaults>>

Subscribe(p) ==
    /\ Begins(p)
    /\ \E url \in Urls, explicit \in {NoSlug} \union (Titles \X {1}) :
         IF url \in UrlsOf(subs) \/ explicit \in SlugsOf(subs)
           THEN lock = NoOne /\ listing = "usable" /\ Refused(p, "subscribe")
           ELSE /\ CommandAdmitted(p)
                /\ On(p, [Idle EXCEPT !.at = "fetch", !.op = "subscribe", !.snap = subs,
                                      !.feed = Feed(NoOne, explicit, NoSlug, url)])
    /\ UNCHANGED <<listing, subs, caches, stations, ledger, diskFaults>>

Unsubscribe(p) ==
    /\ Begins(p) /\ CommandAdmitted(p)
    /\ \E slug \in SlugsOf(subs) :
         On(p, [Idle EXCEPT !.at = "list", !.op = "unsubscribe", !.snap = subs,
                            !.feed = subs[Find(subs, slug)]])
    /\ UNCHANGED <<listing, subs, caches, stations, ledger, diskFaults>>

(* One feed, or every feed of the snapshot one after another. *)
Refresh(p) ==
    /\ Begins(p) /\ CommandAdmitted(p)
    /\ \E todo \in {<<Find(subs, slug)>> : slug \in SlugsOf(subs)}
                     \union {[i \in DOMAIN subs |-> i]} :
         On(p, [Idle EXCEPT !.at = IF todo = <<>> THEN "done" ELSE "fetch",
                            !.op = "refresh", !.snap = subs, !.todo = todo])
    /\ UNCHANGED <<listing, subs, caches, stations, ledger, diskFaults>>

-----------------------------------------------------------------------------
(* The middle: the network, then the two commits. *)

(* On to the next feed of the batch, which is complete only if each one is. *)
NextFeed(p, fine, snap) ==
    LET job == jobs[p]
        rest == Tail(job.todo) IN
    On(p, [job EXCEPT !.at = IF rest = <<>> THEN "done" ELSE "fetch",
                      !.todo = rest, !.snap = snap, !.complete = @ /\ fine])

(* A failed fetch, an unsolicited 304, a body that does not parse. *)
FetchFails(p) ==
    /\ jobs[p].at = "fetch"
    /\ IF jobs[p].op = "subscribe" THEN Ends(p, FALSE) ELSE NextFeed(p, FALSE, jobs[p].snap)
    /\ UNCHANGED <<listing, subs, caches, stations, lock, ledger, ops, diskFaults>>

(* The new feed gets an id and a slug that no subscription has. *)
FetchNew(p) ==
    /\ jobs[p].at = "fetch" /\ jobs[p].op = "subscribe"
    /\ \E title \in Titles, moved \in {NoUrl} \union Urls, id \in FeedIds \ IdsOf(jobs[p].snap) :
         LET asked == jobs[p].feed
             slug == ChooseSlug(title, asked.slug, SlugsOf(jobs[p].snap)) IN
         On(p, [jobs[p] EXCEPT
                  !.at = "cache", !.got = Cache(title, "good"),
                  !.feed = Feed(id, slug, title, IF moved = NoUrl THEN asked.url ELSE moved)])
    /\ UNCHANGED <<listing, subs, caches, stations, lock, ledger, ops, diskFaults>>

(* 200, or 304 over a cache this build can use, which it then keeps. *)
FetchAgain(p) ==
    /\ jobs[p].at = "fetch" /\ jobs[p].op = "refresh"
    /\ LET was == jobs[p].snap[Head(jobs[p].todo)]
           old == caches[was.id] IN
       \E got \in {Cache(title, "good") : title \in Titles}
                    \union {c \in {old} : Usable(c)},
          moved \in {NoUrl} \union Urls :
         On(p, [jobs[p] EXCEPT
                  !.at = "cache", !.got = got,
                  !.feed = [was EXCEPT !.title = got.title,
                                       !.url = IF moved = NoUrl THEN @ ELSE moved]])
    /\ UNCHANGED <<listing, subs, caches, stations, lock, ledger, ops, diskFaults>>

Unchanged(p) == jobs[p].op = "refresh" /\ jobs[p].feed = jobs[p].snap[Head(jobs[p].todo)]

(* The cache lands first. *)
SaveCache(p) ==
    /\ jobs[p].at = "cache"
    /\ caches' = [caches EXCEPT ![jobs[p].feed.id] = jobs[p].got]
    /\ IF Unchanged(p) THEN NextFeed(p, TRUE, jobs[p].snap) ELSE Goes(p, "list")
    /\ UNCHANGED <<listing, subs, stations, lock, ledger, ops, diskFaults>>

(* Mutant: the list is saved all the same. *)
SaveCacheFailsIgnored(p) ==
    /\ jobs[p].at = "cache" /\ DiskFails
    /\ Goes(p, "list")
    /\ UNCHANGED <<listing, subs, caches, stations, lock, ledger, ops>>

SaveCacheFails(p) ==
    /\ jobs[p].at = "cache" /\ DiskFails
    /\ IF jobs[p].op = "subscribe" THEN Ends(p, FALSE) ELSE NextFeed(p, FALSE, jobs[p].snap)
    /\ UNCHANGED <<listing, subs, caches, stations, lock, ledger, ops>>

SaveListSubscribed(p) ==
    /\ jobs[p].at = "list" /\ jobs[p].op = "subscribe"
    /\ subs' = Append(jobs[p].snap, jobs[p].feed) /\ Storable(subs')
    /\ ledger' = Append(ledger, jobs[p].feed)
    /\ Ends(p, TRUE)
    /\ UNCHANGED <<listing, caches, stations, lock, ops, diskFaults>>

SaveListRefreshed(p) ==
    /\ jobs[p].at = "list" /\ jobs[p].op = "refresh"
    /\ subs' = Replacing(jobs[p].snap, jobs[p].feed) /\ Storable(subs')
    /\ ledger' = Replacing(ledger, jobs[p].feed)
    /\ NextFeed(p, TRUE, subs')
    /\ UNCHANGED <<listing, caches, stations, lock, ops, diskFaults>>

SaveListUnsubscribed(p) ==
    /\ jobs[p].at = "list" /\ jobs[p].op = "unsubscribe"
    /\ subs' = Without(jobs[p].snap, jobs[p].feed.id)
    /\ ledger' = Without(ledger, jobs[p].feed.id)
    /\ Goes(p, "remove")
    /\ UNCHANGED <<listing, caches, stations, lock, ops, diskFaults>>

(* Mutant: a title that could not be recorded is no failure. *)
SaveListFailsQuietly(p) ==
    /\ jobs[p].at = "list" /\ DiskFails
    /\ IF jobs[p].op = "refresh" THEN NextFeed(p, TRUE, jobs[p].snap) ELSE Ends(p, FALSE)
    /\ UNCHANGED <<listing, subs, caches, stations, lock, ledger, ops>>

(* The followup of a subscribe or a refresh, the error of an unsubscribe. *)
SaveListFails(p) ==
    /\ jobs[p].at = "list" /\ DiskFails
    /\ IF jobs[p].op = "refresh" THEN NextFeed(p, FALSE, jobs[p].snap) ELSE Ends(p, FALSE)
    /\ UNCHANGED <<listing, subs, caches, stations, lock, ledger, ops>>

RemoveCache(p) ==
    /\ jobs[p].at = "remove"
    /\ caches' = [caches EXCEPT ![jobs[p].feed.id] = NoCache]
    /\ Ends(p, TRUE)
    /\ UNCHANGED <<listing, subs, stations, lock, ledger, ops, diskFaults>>

RemoveCacheFails(p) ==
    /\ jobs[p].at = "remove" /\ DiskFails
    /\ Ends(p, FALSE)
    /\ UNCHANGED <<listing, subs, caches, stations, lock, ledger, ops>>

-----------------------------------------------------------------------------
(* Readers: no lock, the list first and each cache after it. *)

ListFeeds(p) ==
    /\ Begins(p) /\ listing = "usable"
    /\ On(p, [Idle EXCEPT !.at = "read", !.op = "feeds", !.snap = subs])
    /\ UNCHANGED <<listing, subs, caches, stations, lock, ledger, diskFaults>>

(* list_episodes, episode_candidates and resolve_episode. *)
ListEpisodes(p) ==
    /\ Begins(p) /\ listing = "usable"
    /\ \E i \in DOMAIN subs :
         On(p, [Idle EXCEPT !.at = "read", !.op = "episodes", !.snap = subs, !.feed = subs[i]])
    /\ UNCHANGED <<listing, subs, caches, stations, lock, ledger, diskFaults>>

(* A feed whose cache is gone is a row without a count; of the others each    *)
(* must be one this build can use.                                            *)
ReadCaches(p) ==
    /\ jobs[p].at = "read"
    /\ Ends(p, IF jobs[p].op = "feeds"
                 THEN \A id \in IdsOf(jobs[p].snap) : Usable(caches[id]) \/ caches[id] = NoCache
                 ELSE Usable(caches[jobs[p].feed.id]))
    /\ UNCHANGED <<listing, subs, caches, stations, lock, ledger, ops, diskFaults>>

-----------------------------------------------------------------------------
(* Stations: the player's worker only, and no lock. *)

(* add_station, of a new one or of one already saved, and reprobe_station. *)
Probe(p) ==
    /\ p \in Players /\ Begins(p)
    /\ \E url \in Urls :
         \E op \in IF url \in DOMAIN stations THEN {"again", "reprobe"} ELSE {"add"} :
           On(p, [Idle EXCEPT !.at = "probe", !.op = op, !.feed.url = url])
    /\ UNCHANGED <<listing, subs, caches, stations, lock, ledger, diskFaults>>

(* It is live; or the server said nothing, which lets a new one in unknown. *)
ProbeAnswers(p) ==
    /\ jobs[p].at = "probe"
    /\ \E live \in BOOLEAN :
         /\ live \/ jobs[p].op = "add"
         /\ On(p, [jobs[p] EXCEPT !.at = "stations", !.known = live])
    /\ UNCHANGED <<listing, subs, caches, stations, lock, ledger, ops, diskFaults>>

(* Not a live stream, or no answer for one that is saved: the record stays. *)
ProbeFails(p) ==
    /\ jobs[p].at = "probe"
    /\ Ends(p, FALSE)
    /\ UNCHANGED <<listing, subs, caches, stations, lock, ledger, ops, diskFaults>>

SaveStation(p) ==
    /\ jobs[p].at = "stations"
    /\ LET saved == jobs[p].feed.url IN
       stations' = [url \in DOMAIN stations \union {saved} |->
                      IF url = saved THEN jobs[p].known ELSE stations[url]]
    /\ Ends(p, TRUE)
    /\ UNCHANGED <<listing, subs, caches, lock, ledger, ops, diskFaults>>

SaveStationFails(p) ==
    /\ jobs[p].at = "stations" /\ DiskFails
    /\ Ends(p, FALSE)
    /\ UNCHANGED <<listing, subs, caches, stations, lock, ledger, ops>>

RemoveStation(p) ==
    /\ p \in Players /\ Begins(p)
    /\ \E url \in DOMAIN stations :
         /\ stations' = Restrict(stations, DOMAIN stations \ {url})
         /\ On(p, [Idle EXCEPT !.at = "done", !.op = "remove", !.feed.url = url])
    /\ UNCHANGED <<listing, subs, caches, lock, ledger, diskFaults>>

-----------------------------------------------------------------------------
(* The end.  What an operation returns is settled while it holds the lock,    *)
(* which goes as it returns; the text made of it later reads nothing else.   *)

Freed(p) == lock' = IF lock = p THEN NoOne ELSE lock

Return(p) ==
    /\ jobs[p].at = "done"
    /\ On(p, Idle) /\ Freed(p)
    /\ UNCHANGED <<listing, subs, caches, stations, ledger, ops, diskFaults>>

(* Killed, interrupted, or quit under a worker that nobody waits for. *)
Die(p) ==
    /\ jobs[p].at \notin {"idle", "done"}
    /\ On(p, Idle) /\ Freed(p)
    /\ UNCHANGED <<listing, subs, caches, stations, ledger, ops, diskFaults>>

LibraryNext ==
    \E p \in Procs :
      \/ Refuse(p) \/ Subscribe(p) \/ Unsubscribe(p) \/ Refresh(p)
      \/ FetchFails(p) \/ FetchNew(p) \/ FetchAgain(p)
      \/ SaveCache(p) \/ SaveCacheFails(p)
      \/ SaveListSubscribed(p) \/ SaveListRefreshed(p) \/ SaveListUnsubscribed(p)
      \/ SaveListFails(p) \/ RemoveCache(p) \/ RemoveCacheFails(p)
      \/ ListFeeds(p) \/ ListEpisodes(p) \/ ReadCaches(p)
      \/ Probe(p) \/ ProbeAnswers(p) \/ ProbeFails(p)
      \/ SaveStation(p) \/ SaveStationFails(p) \/ RemoveStation(p)
      \/ Return(p) \/ Die(p)

LibrarySpec == LibraryInit /\ [][LibraryNext]_LibraryVars

-----------------------------------------------------------------------------
(* Properties *)

(* Every change that was committed is in the file and no other: none is lost  *)
(* to a snapshot read before it, by whichever process, and none is committed  *)
(* by a later feed of a batch after its own save failed.                      *)
NoLostCommit == subs = ledger

(* A subscription in the file has its episode cache, whichever of the two     *)
(* writes failed and wherever a process died.                                 *)
EveryFeedHasItsCache == \A id \in IdsOf(subs) : caches[id] # NoCache

(* What an operation returns is true of the files as it returns it: a         *)
(* complete one did all of it, and a subscribe that is not complete           *)
(* subscribed nothing.  The text is made after the lock has gone, so another *)
(* process may have changed the files by the time it is read.                *)
ReportIsTrue ==
    \A p \in Procs : jobs[p].at = "done" =>
        LET job == jobs[p] IN
        CASE job.op = "subscribe" ->
               IF job.complete
                 THEN job.feed \in Range(subs) /\ caches[job.feed.id] = job.got
                 ELSE job.feed.id \notin IdsOf(subs)
          [] job.op = "unsubscribe" ->
               job.complete => /\ job.feed.id \notin IdsOf(subs)
                               /\ caches[job.feed.id] = NoCache
          [] job.op = "refresh" ->
               job.complete /\ job.feed # NoFeed =>
                 /\ job.feed \in Range(subs)
                 /\ caches[job.feed.id].title = job.feed.title
          [] OTHER -> TRUE
=============================================================================
