---------------------------- MODULE ApplicationProofs ----------------------------
(* Proofs about the parts of the player around its engine, each for every     *)
(* value of the constants.  The parts share no state: every theorem is about  *)
(* the specification of one module.                                           *)
EXTENDS Library, Browser, SeekBurst, Covers, Enrichment, MediaControls, Lifecycle,
        Counting, SequenceTheorems, FiniteSetTheorems, TLAPS

-----------------------------------------------------------------------------
(* Covers. *)

IsImageOf(image, media) == image \notin {NoCover, Failed} => image.media = media

(* What was last asked for is what was last seen playing, and every image,    *)
(* wherever it waits, is filed under the media it was loaded from.            *)
CoverInv ==
    /\ seenPlaying.cover = requested
    /\ shown.media = requested.media
    /\ IsImageOf(shown.image, shown.media)
    /\ IsImageOf(ahead.image, ahead.source.media)
    /\ IsImageOf(finished.image, finished.media)
    /\ ahead = Ahead(ahead.source, ahead.image)

(* The cover on the screen, on its way or asked for is that of what plays. *)
LEMMA CoverInvariant == CoverSpec => []CoverInv
<1> USE DEF CoverInv, IsImageOf
<1>1. CoverInit => CoverInv
  BY DEF CoverInit, NotShown, ShowingCover, NoAhead, Ahead, NoCover, Source
<1>2. CoverInv /\ [CoverNext]_CoverVars => CoverInv'
  <2> SUFFICES ASSUME CoverInv, [CoverNext]_CoverVars PROVE CoverInv'
    OBVIOUS
  <2>1. ASSUME StartLoading \/ Loaded \/ CoverLoadFails \/ Rekeyed
        PROVE  CoverInv'
    BY <2>1 DEF StartLoading, Loaded, CoverLoadFails, Rekeyed, Keeps, Worker
  <2>2. CASE TrackCovers \/ PollDone
    BY <2>2 DEF TrackCovers, PollDone, Track, Worker
  <2>3. CASE Want
    <3>1. /\ seenPlaying' = playing /\ finished' = finished
          /\ \/ seenPlaying = playing \/ requested = playing.cover
             \/ /\ requested' = playing.cover
                /\ \/ shown' = NotShown /\ playing.cover = NoCover /\ ahead' = ahead
                   \/ /\ ahead' = NoAhead
                      /\ shown' = ShowingCover(playing.cover.media,
                           IF ahead.source = playing.cover THEN ahead.image ELSE NoCover)
          /\ seenPlaying = playing \/ requested = playing.cover
               => UNCHANGED <<requested, shown, ahead>>
      BY <2>3 DEF Want
    <3> QED BY <3>1 DEF NotShown, ShowingCover, NoAhead, Ahead, NoCover, Source
  <2>4. CASE WantAhead
    BY <2>4 DEF WantAhead, Ahead
  <2>5. CASE Poll
    <3>1. /\ finished' = NotShown /\ UNCHANGED <<seenPlaying, requested>>
          /\ \/ /\ finished.media = requested.media
                /\ shown' = finished /\ ahead' = ahead
             \/ /\ shown' = shown
                /\ \/ ahead' = ahead \/ ahead' = NoAhead
                   \/ /\ ahead.source.media = finished.media
                      /\ ahead' = [ahead EXCEPT !.image = finished.image]
      BY <2>5 DEF Poll, IsShown
    <3>2. [ahead EXCEPT !.image = finished.image] = Ahead(ahead.source, finished.image)
      BY DEF Ahead
    <3> QED BY <3>1, <3>2 DEF NotShown, ShowingCover, NoAhead, Ahead, NoCover, Source
  <2>6. CASE TakeJob
    BY <2>6 DEF TakeJob, Keeps
  <2>7. CASE FinishJob
    BY <2>7 DEF FinishJob, Keeps, ShowingCover
  <2>8. CASE UNCHANGED CoverVars
    BY <2>8 DEF CoverVars
  <2> QED
    BY <2>1, <2>2, <2>3, <2>4, <2>5, <2>6, <2>7, <2>8 DEF CoverNext
<1> QED BY <1>1, <1>2, PTL DEF CoverSpec

(* However loads, failures and answers of the one worker overtake each other, *)
(* the cover on show is of the media that plays, for any media and versions.  *)
THEOREM CoverBelongs == CoverSpec => []CoverIsOfPlaying
<1>1. CoverInv => CoverIsOfPlaying
  BY DEF CoverInv, IsImageOf, CoverIsOfPlaying
<1> QED BY <1>1, CoverInvariant, PTL

-----------------------------------------------------------------------------
(* Queues: what is in one after an append, and after its head is taken. *)

(* What an appended sequence holds. *)
LEMMA AppendRange ==
  ASSUME NEW S, NEW s \in Seq(S), NEW e \in S
  PROVE  Append(s, e) \in Seq(S) /\ Range(Append(s, e)) = Range(s) \union {e}
<1>1. /\ Append(s, e) \in Seq(S) /\ DOMAIN s = 1 .. Len(s)
      /\ DOMAIN Append(s, e) = 1 .. Len(s) + 1 /\ Len(s) \in Nat
      /\ \A i \in 1 .. Len(s) : Append(s, e)[i] = s[i]
      /\ Append(s, e)[Len(s) + 1] = e
  BY AppendProperties, LenProperties
<1> QED BY <1>1 DEF Range

(* What a sequence holds is its head and what its tail holds. *)
LEMMA TailRange ==
  ASSUME NEW S, NEW s \in Seq(S), s # <<>>
  PROVE  /\ Tail(s) \in Seq(S) /\ Head(s) \in S
         /\ Range(s) = {Head(s)} \union Range(Tail(s))
<1>1. /\ Tail(s) \in Seq(S) /\ Head(s) \in S /\ Len(s) \in Nat \ {0}
      /\ Head(s) = s[1] /\ DOMAIN s = 1 .. Len(s)
      /\ DOMAIN Tail(s) = 1 .. Len(s) - 1
      /\ \A i \in 1 .. Len(s) - 1 : Tail(s)[i] = s[i + 1]
  BY HeadTailProperties, LenProperties, EmptySeq
<1>2. Range(s) \subseteq {Head(s)} \union Range(Tail(s))
  <2> SUFFICES ASSUME NEW i \in 1 .. Len(s), i # 1 PROVE s[i] \in Range(Tail(s))
    BY <1>1 DEF Range
  <2>1. i - 1 \in 1 .. Len(s) - 1 /\ (i - 1) + 1 = i
    BY <1>1
  <2> QED BY <1>1, <2>1 DEF Range
<1>3. Range(Tail(s)) \subseteq Range(s)
  BY <1>1 DEF Range
<1>4. Head(s) \in Range(s)
  BY <1>1 DEF Range
<1> QED BY <1>1, <1>2, <1>3, <1>4

-----------------------------------------------------------------------------
(* Browser. *)

Tabs == {"files", "podcasts", "radio"}
Requestable ==
    {"nothing", "dir", "feeds", "episodes", "stations", "tree",
     "add", "refresh", "probe", "remove", "drop"}
BrowserAsks ==
    [what : Requestable,
     arg : {"nothing", "home", "music", "all", "feeds"} \union Tabs \union Slugs]
Listings == [of : BrowserAsks, at : Nat]

Browsers ==
    [open : {TRUE}, tab : Tabs, cwd : {"home", "music"}, view : {"feeds"} \union Slugs,
     entries : Listings, feeds : Listings, episodes : Listings, stations : Listings,
     loading : BOOLEAN, marked : Listings, prompt : BOOLEAN, confirm : BrowserAsks,
     pending : BrowserAsks, known : Nat]

IsOf(rows, ask) == rows # NoRows => rows.of = ask

(* Every list of the tab looked at is the answer to its own request, also the *)
(* one behind the list on the screen.                                         *)
ListsInv(b) ==
    /\ b.tab = "files" => IsOf(b.entries, Ask("dir", b.cwd))
    /\ b.tab = "radio" => IsOf(b.stations, Ask("stations", "all"))
    /\ b.tab = "podcasts" =>
        /\ IsOf(b.feeds, Ask("feeds", "all"))
        /\ b.view # "feeds" => IsOf(b.episodes, Ask("episodes", b.view))
    /\ b.marked # NoRows => b.marked = Shown(b)

BrowserOK(b) == b \in Browsers /\ ListsInv(b)

BrowserInv ==
    /\ browser = Closed \/ BrowserOK(browser)
    /\ requests \in Seq(BrowserAsks) /\ answers \in Seq(Listings)
    /\ served \in Nat

(* Where a browser stands is a list it can ask for. *)
LEMMA PlaceIsAsked ==
  ASSUME NEW b \in Browsers PROVE Place(b) \in BrowserAsks /\ IsList(Place(b))
BY DEF Browsers, Place, BrowserAsks, Ask, Requestable, Tabs, IsList

(* A browser just opened is in order. *)
LEMMA OpenedIsOK == BrowserOK(Opened("home"))
BY DEF BrowserOK, Browsers, Opened, ListsInv, IsOf, NoRows, Rows, NoAsk, Ask,
       Listings, BrowserAsks, Requestable, Tabs

(* The empty list and the absent request are a list and a request. *)
LEMMA NothingShown == NoRows \in Listings /\ NoAsk \in BrowserAsks
BY DEF NoRows, Rows, NoAsk, Ask, Listings, BrowserAsks, Requestable

(* Leaving the episodes keeps the lists of a browser their own. *)
LEMMA LeaveIsOK ==
  ASSUME NEW b, BrowserOK(b) PROVE BrowserOK(LeaveEpisodes(b))
<1>1. CASE b.view = "feeds"
  BY <1>1 DEF LeaveEpisodes
<1>2. CASE b.view # "feeds"
  <2> DEFINE c == LeaveEpisodes(b)
  <2>1. c = [b EXCEPT !.view = "feeds", !.episodes = NoRows, !.marked = NoRows,
                      !.loading = FALSE]
    BY <1>2 DEF LeaveEpisodes
  <2>2. c \in Browsers
    BY ZenonT(60), <2>1, NothingShown DEF BrowserOK, Browsers
  <2>3. /\ c.view = "feeds" /\ c.marked = NoRows /\ c.tab = b.tab /\ c.cwd = b.cwd
        /\ c.entries = b.entries /\ c.feeds = b.feeds /\ c.stations = b.stations
    BY <2>1 DEF BrowserOK, Browsers
  <2> HIDE DEF c
  <2>4. ListsInv(c)
    BY <2>3 DEF BrowserOK, ListsInv
  <2> QED BY <2>2, <2>4 DEF BrowserOK, c
<1> QED BY <1>1, <1>2

(* Settling an answer for where the browser stands keeps it in order. *)
LEMMA SettledIsOK ==
  ASSUME NEW b, BrowserOK(b), NEW rows \in Listings, IsOf(rows, Place(b))
  PROVE  BrowserOK(Settled(b, rows))
<1> DEFINE d == [b EXCEPT !.loading = FALSE, !.marked = NoRows]
           c == Settled(b, rows)
<1>1. /\ b \in Browsers /\ d \in Browsers /\ d.marked = NoRows /\ d.tab = b.tab
      /\ d.cwd = b.cwd /\ d.view = b.view /\ d.entries = b.entries
      /\ d.stations = b.stations /\ d.feeds = b.feeds /\ d.episodes = b.episodes
  BY NothingShown DEF BrowserOK, Browsers
<1>2. c = Showing(d, rows)
  BY DEF Settled
<1> HIDE DEF c, d
<1>3. CASE b.tab = "files"
  <2>1. c = [d EXCEPT !.entries = rows]
    BY <1>1, <1>2, <1>3 DEF Showing
  <2>2. /\ c \in Browsers /\ c.tab = "files" /\ c.cwd = b.cwd /\ c.marked = NoRows
        /\ c.entries = rows
    BY <1>1, <1>3, <2>1 DEF Browsers
  <2> QED BY <1>3, <2>2 DEF BrowserOK, ListsInv, IsOf, Place, c
<1>4. CASE b.tab = "radio"
  <2>1. c = [d EXCEPT !.stations = rows]
    BY <1>1, <1>2, <1>4 DEF Showing
  <2>2. /\ c \in Browsers /\ c.tab = "radio" /\ c.marked = NoRows
        /\ c.stations = rows
    BY <1>1, <1>4, <2>1 DEF Browsers
  <2> QED BY <1>4, <2>2 DEF BrowserOK, ListsInv, IsOf, Place, c
<1>5. CASE b.tab = "podcasts" /\ b.view = "feeds"
  <2>1. c = [d EXCEPT !.feeds = rows]
    BY <1>1, <1>2, <1>5 DEF Showing
  <2>2. /\ c \in Browsers /\ c.tab = "podcasts" /\ c.view = "feeds"
        /\ c.marked = NoRows /\ c.feeds = rows
    BY <1>1, <1>5, <2>1 DEF Browsers
  <2> QED BY <1>5, <2>2 DEF BrowserOK, ListsInv, IsOf, Place, c
<1>6. CASE b.tab = "podcasts" /\ b.view # "feeds"
  <2>1. c = [d EXCEPT !.episodes = rows]
    BY <1>1, <1>2, <1>6 DEF Showing
  <2>2. /\ c \in Browsers /\ c.tab = "podcasts" /\ c.view = b.view
        /\ c.marked = NoRows /\ c.feeds = b.feeds /\ c.episodes = rows
    BY <1>1, <1>6, <2>1 DEF Browsers
  <2> QED BY <1>6, <2>2 DEF BrowserOK, ListsInv, IsOf, Place, c
<1>7. b.tab \in {"files", "podcasts", "radio"}
  BY <1>1 DEF Browsers, Tabs
<1> QED BY <1>3, <1>4, <1>5, <1>6, <1>7

(* A list that is asked for again is shown again with no mark. *)
LEMMA SwitchedIsOK ==
  ASSUME NEW b \in Browsers, b.marked = NoRows,
         \/ b.tab = "files" /\ b.entries = NoRows
         \/ b.tab = "radio" /\ b.stations = NoRows
         \/ b.tab = "podcasts" /\ b.episodes = NoRows
              /\ (b.feeds = NoRows \/ b.feeds.of = Ask("feeds", "all"))
  PROVE  BrowserOK(b)
BY DEF BrowserOK, ListsInv, IsOf

(* What leaves the lists alone. *)
LEMMA SameListsIsOK ==
  ASSUME NEW b, BrowserOK(b), NEW c \in Browsers,
         c.tab = b.tab, c.cwd = b.cwd, c.view = b.view, c.entries = b.entries,
         c.feeds = b.feeds, c.episodes = b.episodes, c.stations = b.stations,
         c.marked \in {NoRows, b.marked, Shown(b)}
  PROVE  BrowserOK(c) /\ Place(c) = Place(b) /\ Shown(c) = Shown(b)
BY DEF BrowserOK, ListsInv, IsOf, Shown, Place

(* Every open browser is in order, in every reachable state. *)
LEMMA BrowserInvariant == BrowserSpec => []BrowserInv
<1>1. BrowserInit => BrowserInv
  BY DEF BrowserInit, BrowserInv
<1>2. BrowserInv /\ [BrowserNext]_BrowserVars => BrowserInv'
  <2> SUFFICES ASSUME BrowserInv, [BrowserNext]_BrowserVars PROVE BrowserInv'
    OBVIOUS
  <2>1. browser.open => BrowserOK(browser)
    BY DEF BrowserInv, Closed
  (* What is asked for, and what is not. *)
  <2>2. ASSUME NEW ask \in BrowserAsks, Request(ask), Theirs,
               browser' = Closed \/ BrowserOK(browser')
        PROVE  BrowserInv'
    BY <2>2, AppendProperties DEF BrowserInv, Request, Theirs
  <2>3. ASSUME Quiet, Theirs, browser' = Closed \/ BrowserOK(browser')
        PROVE  BrowserInv'
    BY <2>3 DEF BrowserInv, Quiet, Theirs
  <2>4. CASE BrowserOpen
    <3>1. Ask("dir", "home") \in BrowserAsks
      BY DEF Ask, BrowserAsks, Requestable
    <3> QED BY <2>2, <2>4, <3>1, OpenedIsOK DEF BrowserOpen
  <2>5. CASE BrowserClose
    BY <2>3, <2>5 DEF BrowserClose
  <2>6. CASE SwitchTab
    <3> DEFINE b == ListingLoads(browser)
               turned == CASE b.tab = "files" -> [b EXCEPT !.tab = "podcasts", !.view = "feeds",
                                                         !.episodes = NoRows, !.feeds = NoRows]
                         [] b.tab = "podcasts" -> [b EXCEPT !.tab = "radio", !.view = "feeds",
                                                            !.episodes = NoRows, !.stations = NoRows]
                         [] OTHER -> [b EXCEPT !.tab = "files", !.entries = NoRows]
    <3>1. browser \in Browsers
      BY <2>1, <2>6 DEF SwitchTab, Keys, BrowserOK
    <3>2. b \in Browsers /\ b.marked = NoRows
      BY <3>1, NothingShown DEF ListingLoads, Browsers
    <3>3. /\ turned \in Browsers /\ turned.marked = NoRows
          /\ \/ turned.tab = "files" /\ turned.entries = NoRows
             \/ turned.tab = "radio" /\ turned.stations = NoRows
             \/ turned.tab = "podcasts" /\ turned.episodes = NoRows /\ turned.feeds = NoRows
      <4> HIDE DEF b
      <4> QED BY <3>2, NothingShown DEF Browsers, Tabs
    <3> HIDE DEF turned
    <3>4. BrowserOK(turned) /\ Place(turned) \in BrowserAsks
      BY <3>3, SwitchedIsOK, PlaceIsAsked
    <3>5. browser' = turned /\ Request(Place(turned)) /\ Theirs
      BY <2>6 DEF SwitchTab, turned
    <3> QED BY <2>2, <3>4, <3>5
  <2>7. ASSUME NEW dir \in {"home", "music"}, OpenDirectory(dir), Theirs, browser.open,
               browser.tab = "files"
        PROVE  BrowserInv'
    <3>1. browser \in Browsers /\ Ask("dir", dir) \in BrowserAsks
      BY <2>1, <2>7 DEF BrowserOK, Ask, BrowserAsks, Requestable
    <3>2. /\ browser' \in Browsers /\ browser'.marked = NoRows
          /\ browser'.tab = "files" /\ browser'.entries = NoRows
      BY <2>7, <3>1, NothingShown DEF OpenDirectory, ListingLoads, Browsers
    <3>3. BrowserOK(browser')
      BY <3>2, SwitchedIsOK
    <3> QED BY <2>2, <2>7, <3>1, <3>3 DEF OpenDirectory
  <2>8. CASE Enter
    <3>1. ASSUME NEW slug \in Slugs, browser.tab = "podcasts", browser.view = "feeds",
                 browser' = [ListingLoads(browser) EXCEPT !.view = slug, !.episodes = NoRows],
                 Request(Ask("episodes", slug))
          PROVE  BrowserInv'
      <4>1. BrowserOK(browser) /\ Ask("episodes", slug) \in BrowserAsks
        BY <2>1, <2>8 DEF Enter, Keys, Ask, BrowserAsks, Requestable
      <4>2. /\ browser' \in Browsers /\ browser'.marked = NoRows
            /\ browser'.tab = "podcasts" /\ browser'.episodes = NoRows
            /\ browser'.feeds = browser.feeds
        BY <3>1, <4>1, NothingShown DEF BrowserOK, ListingLoads, Browsers
      <4>3. browser.feeds = NoRows \/ browser.feeds.of = Ask("feeds", "all")
        BY <3>1, <4>1 DEF BrowserOK, ListsInv, IsOf
      <4>4. BrowserOK(browser')
        BY <4>2, <4>3, SwitchedIsOK
      <4> QED BY <2>2, <2>8, <3>1, <4>1, <4>4 DEF Enter
    <3> QED BY <2>7, <2>8, <3>1 DEF Enter, Keys
  <2>9. CASE Back
    <3>1. CASE /\ browser' = LeaveEpisodes(browser)
               /\ Request(Ask("feeds", "all"))
      <4>1. Ask("feeds", "all") \in BrowserAsks
        BY DEF Ask, BrowserAsks, Requestable
      <4> QED BY <2>1, <2>2, <2>9, <3>1, <4>1, LeaveIsOK DEF Back, Keys
    <3> QED BY <2>7, <2>9, <3>1 DEF Back, Keys, Parent
  <2>10. CASE Mark
    <3>1. BrowserOK(browser)
      BY <2>1, <2>10 DEF Mark, Keys
    <3>2. Shown(browser) \in Listings
      BY <3>1 DEF BrowserOK, Browsers, Shown, Tabs
    <3>3. BrowserOK(browser')
      BY <2>10, <3>1, <3>2, SameListsIsOK DEF Mark, BrowserOK, Browsers
    <3> QED BY <2>3, <2>10, <3>3 DEF Mark
  <2>11. CASE AddSelection
    <3>1. BrowserOK(browser)
      BY <2>1, <2>11 DEF AddSelection, Keys
    <3>2. BrowserOK(browser')
      BY <2>11, <3>1, NothingShown, SameListsIsOK DEF AddSelection, BrowserOK, Browsers
    <3>3. browser.cwd \in {"home", "music"}
      BY <3>1 DEF BrowserOK, Browsers
    <3>4. Ask("tree", browser.cwd) \in BrowserAsks
      BY <3>3 DEF Ask, BrowserAsks, Requestable
    <3> QED BY <2>2, <2>3, <2>11, <3>2, <3>4 DEF AddSelection
  <2>12. CASE OpenPrompt \/ ClosePrompt
    <3>1. BrowserOK(browser)
      BY <2>1, <2>12 DEF OpenPrompt, ClosePrompt, Keys
    <3>2. PICK open \in BOOLEAN : browser' = [browser EXCEPT !.prompt = open]
      BY <2>12 DEF OpenPrompt, ClosePrompt
    <3>3. BrowserOK(browser')
      BY <3>1, <3>2, SameListsIsOK DEF BrowserOK, Browsers
    <3> QED BY <2>3, <2>12, <3>3 DEF OpenPrompt, ClosePrompt
  <2>13. ASSUME NEW op \in BrowserAsks, NEW b, BrowserOK(b), Submit(b, op)
         PROVE  BrowserInv'
    <3>1. BrowserOK(browser')
      BY <2>13, SameListsIsOK DEF Submit, BrowserOK, Browsers
    <3> QED BY <2>2, <2>13, <3>1 DEF Submit
  <2>14. CASE EnterUrl
    <3> DEFINE b == [browser EXCEPT !.prompt = FALSE]
    <3>1. BrowserOK(browser)
      BY <2>1, <2>14 DEF EnterUrl
    <3>2. BrowserOK(b)
      BY <3>1, SameListsIsOK DEF BrowserOK, Browsers
    <3>3. browser.tab \in Tabs
      BY <3>1 DEF BrowserOK, Browsers
    <3>4. Ask("add", browser.tab) \in BrowserAsks
      BY <3>3 DEF Ask, BrowserAsks, Requestable
    <3> QED BY <2>13, <2>14, <3>2, <3>4 DEF EnterUrl
  <2>15. ASSUME BrowserOK(browser), NEW slug \in TargetSlugs(browser)
         PROVE  slug \in {"feeds"} \union Slugs
    BY <2>15 DEF TargetSlugs, BrowserOK, Browsers
  <2>16. CASE RefreshKey
    <3>1. BrowserOK(browser)
      BY <2>1, <2>16 DEF RefreshKey, Keys
    <3>2. PICK slug \in TargetSlugs(browser) \union {"all"} :
            Submit(browser, Ask(IF browser.tab = "radio" THEN "probe" ELSE "refresh", slug))
      BY <2>16 DEF RefreshKey
    <3>3. slug \in {"all", "feeds"} \union Slugs
      BY <2>15, <3>1
    <3>4. Ask(IF browser.tab = "radio" THEN "probe" ELSE "refresh", slug) \in BrowserAsks
      BY <3>3 DEF Ask, BrowserAsks, Requestable
    <3> QED BY <2>13, <3>1, <3>2, <3>4
  <2>17. CASE AskRemoval
    <3>1. BrowserOK(browser)
      BY <2>1, <2>17 DEF AskRemoval, Keys
    <3>2. PICK slug \in TargetSlugs(browser) :
            browser' = [browser EXCEPT !.confirm = Ask(Removing(browser), slug)]
      BY <2>17 DEF AskRemoval
    <3>3. Ask(Removing(browser), slug) \in BrowserAsks
      BY <2>15, <3>1 DEF Ask, BrowserAsks, Requestable, Removing
    <3>4. BrowserOK(browser')
      BY <3>1, <3>2, <3>3, SameListsIsOK DEF BrowserOK, Browsers
    <3> QED BY <2>3, <2>17, <3>4 DEF AskRemoval
  <2>18. CASE ConfirmRemoval
    <3> DEFINE b == [browser EXCEPT !.confirm = NoAsk]
    <3>1. BrowserOK(browser)
      BY <2>1, <2>18 DEF ConfirmRemoval
    <3>2. BrowserOK(b) /\ browser.confirm \in BrowserAsks
      BY <3>1, NothingShown, SameListsIsOK DEF BrowserOK, Browsers
    <3> QED BY <2>13, <2>18, <3>2 DEF ConfirmRemoval
  <2>19. CASE DeclineRemoval
    <3>1. BrowserOK(browser)
      BY <2>1, <2>19 DEF DeclineRemoval
    <3>2. BrowserOK(browser')
      BY <2>19, <3>1, NothingShown, SameListsIsOK DEF DeclineRemoval, BrowserOK,
         Browsers
    <3> QED BY <2>3, <2>19, <3>2 DEF DeclineRemoval
  <2>20. CASE Serve
    <3>1. Head(requests) \in BrowserAsks /\ Tail(requests) \in Seq(BrowserAsks)
      BY <2>20, HeadTailProperties DEF Serve, BrowserInv
    <3>2. Rows(Head(requests), served') \in Listings
      BY <2>20, <3>1 DEF Serve, BrowserInv, Rows, Listings
    <3>3. answers' \in Seq(Listings)
      BY <2>20, <3>2, AppendProperties DEF Serve, BrowserInv
    <3> QED BY <2>20, <3>1, <3>3 DEF Serve, BrowserInv
  <2>21. ASSUME answers # <<>>
         PROVE  Head(answers) \in Listings /\ Tail(answers) \in Seq(Listings)
    BY <2>21, HeadTailProperties DEF BrowserInv
  <2>22. CASE ApplyList
    <3>1. ASSUME browser.open, Applies(browser, Head(answers)),
                 NEW rows \in {Head(answers), NoRows}, browser' = Settled(browser, rows)
          PROVE  BrowserOK(browser')
      BY <2>1, <2>21, <2>22, <3>1, NothingShown, SettledIsOK DEF ApplyList, Applies,
         IsOf
    <3>2. browser' = Closed \/ BrowserOK(browser')
      BY <2>22, <3>1 DEF ApplyList, BrowserInv
    <3> QED BY <2>21, <2>22, <3>2 DEF ApplyList, BrowserInv, Quiet
  <2>23. CASE ApplyChange
    <3> DEFINE answer == Head(answers)
               told == [browser EXCEPT !.pending = NoAsk, !.known = answer.at]
               left == IF answer.of = Ask("remove", told.view) THEN LeaveEpisodes(told)
                                                               ELSE told
    <3>1. CASE ~browser.open \/ browser.pending # answer.of
      BY <2>21, <2>23, <3>1 DEF ApplyChange, BrowserInv, Quiet
    <3>2. CASE browser.open /\ browser.pending = answer.of
      <4>1. answer.at \in Nat /\ BrowserOK(browser)
        BY <2>1, <2>21, <2>23, <3>2 DEF ApplyChange, Listings
      <4>2. BrowserOK(told)
        BY <4>1, NothingShown, SameListsIsOK DEF BrowserOK, Browsers
      <4>3. BrowserOK(left)
        BY <4>2, LeaveIsOK
      <4>4. \/ browser' = left /\ Quiet
            \/ browser' = [left EXCEPT !.loading = TRUE] /\ requests' = ReRead(left)
        BY <2>23, <3>2 DEF ApplyChange
      <4> HIDE DEF left
      <4>5. BrowserOK([left EXCEPT !.loading = TRUE])
        BY <4>3, SameListsIsOK DEF BrowserOK, Browsers
      <4>6. ReRead(left) \in Seq(BrowserAsks)
        BY <4>3, PlaceIsAsked, AppendProperties DEF BrowserOK, ReRead, BrowserInv
      <4> QED
        BY <2>21, <2>23, <4>3, <4>4, <4>5, <4>6 DEF ApplyChange, BrowserInv, Quiet
    <3> QED BY <3>1, <3>2
  <2>24. CASE TakeTree
    BY <2>21, <2>24 DEF TakeTree, BrowserInv, Quiet
  <2>25. CASE UNCHANGED BrowserVars
    BY <2>25 DEF BrowserVars, BrowserInv
  <2> QED
    BY <2>4, <2>5, <2>6, <2>8, <2>9, <2>10, <2>11, <2>12, <2>14, <2>16, <2>17,
       <2>18, <2>19, <2>20, <2>22, <2>23, <2>24, <2>25 DEF BrowserNext
<1> QED BY <1>1, <1>2, PTL DEF BrowserSpec

(* Whatever answers arrive late, the list on the screen is of the place the   *)
(* browser is at and the marks are of that list, for any feeds and stations   *)
(* and any number of requests.                                                *)
THEOREM ShownIsAlwaysMeant == BrowserSpec => []ShownIsMeant
<1>1. BrowserInv => ShownIsMeant
  <2> SUFFICES ASSUME BrowserInv, browser.open
               PROVE /\ Shown(browser) # NoRows => Shown(browser).of = Place(browser)
                     /\ browser.marked # NoRows => browser.marked = Shown(browser)
    BY DEF ShownIsMeant
  <2>1. BrowserOK(browser)
    BY DEF BrowserInv, Closed
  <2>2. browser.tab \in {"files", "podcasts", "radio"} /\ ListsInv(browser)
    BY <2>1 DEF BrowserOK, Browsers, Tabs
  <2>3. CASE browser.tab = "files"
    BY <2>2, <2>3 DEF ListsInv, IsOf, Shown, Place
  <2>4. CASE browser.tab = "radio"
    BY <2>2, <2>4 DEF ListsInv, IsOf, Shown, Place
  <2>5. CASE browser.tab = "podcasts"
    BY <2>2, <2>5 DEF ListsInv, IsOf, Shown, Place
  <2> QED BY <2>2, <2>3, <2>4, <2>5
<1> QED BY <1>1, BrowserInvariant, PTL

(* What a browser still waits for is among what is owed. *)
Promised(b, owed) ==
    /\ b.pending # NoAsk => b.pending \in owed
    /\ b.loading => Place(b) \in owed
    /\ b.tab # "files" /\ Shown(b) # NoRows /\ Shown(b).at < b.known
         => Place(b) \in owed

(* Answers come in the order the worker gave them, all of them later than the *)
(* last change the browser was told of; only a change is ever pending.        *)
PromiseInv ==
    /\ \A i \in DOMAIN answers : 0 < answers[i].at /\ answers[i].at <= served
    /\ \A i, j \in DOMAIN answers : i < j => answers[i].at < answers[j].at
    /\ browser.open =>
        /\ browser.known <= served
        /\ \A i \in DOMAIN answers : browser.known < answers[i].at
        /\ browser.pending = NoAsk \/ IsChange(browser.pending)
        /\ browser.confirm = NoAsk \/ IsChange(browser.confirm)
        /\ Promised(browser, Owed)

(* Keys that change neither the place nor what is shown there. *)
Stays(b, c) ==
    /\ c.open /\ c.tab = b.tab /\ c.cwd = b.cwd /\ c.view = b.view
    /\ c.entries = b.entries /\ c.feeds = b.feeds
    /\ c.episodes = b.episodes /\ c.stations = b.stations
    /\ c.loading = b.loading /\ c.known = b.known

(* The answer at the head of the queue is taken. *)
LEMMA AnswerTaken ==
  ASSUME BrowserInv, PromiseInv, answers # <<>>, answers' = Tail(answers),
         Range(requests) \subseteq Range(requests')
  PROVE  /\ Owed \subseteq Owed' \union {Head(answers).of}
         /\ \A i \in DOMAIN answers' : /\ i + 1 \in DOMAIN answers
                                       /\ answers'[i] = answers[i + 1]
                                       /\ Head(answers).at < answers'[i].at
         /\ 0 < Head(answers).at /\ Head(answers).at <= served
         /\ browser.open => browser.known < Head(answers).at
<1>1. /\ answers \in Seq(Listings) /\ Len(answers) \in Nat \ {0}
      /\ DOMAIN answers = 1 .. Len(answers) /\ Head(answers) = answers[1]
      /\ DOMAIN answers' = 1 .. Len(answers) - 1
      /\ \A i \in 1 .. Len(answers) - 1 : answers'[i] = answers[i + 1]
  BY HeadTailProperties, LenProperties, EmptySeq DEF BrowserInv
<1>2. Range(answers) = {Head(answers)} \union Range(answers')
  BY <1>1, TailRange
<1>3. ASSUME NEW i \in DOMAIN answers'
      PROVE  1 \in DOMAIN answers /\ i + 1 \in DOMAIN answers /\ 1 < i + 1
  BY <1>1
<1>4. 1 \in DOMAIN answers
  BY <1>1
<1> QED BY <1>1, <1>2, <1>3, <1>4 DEF Owed, PromiseInv

(* While a browser is loading, somebody owes it the answer. *)
LEMMA PromiseInvariant == BrowserSpec => []PromiseInv
<1>1. BrowserInit => PromiseInv
  BY DEF BrowserInit, PromiseInv, Closed
<1>2. BrowserInv /\ BrowserInv' /\ PromiseInv /\ [BrowserNext]_BrowserVars => PromiseInv'
  <2> SUFFICES ASSUME BrowserInv, BrowserInv', PromiseInv, [BrowserNext]_BrowserVars
               PROVE  PromiseInv'
    OBVIOUS
  <2>1. browser.open => BrowserOK(browser) /\ browser \in Browsers
    BY DEF BrowserInv, BrowserOK, Closed
  <2>2. browser'.open => BrowserOK(browser')
    BY DEF BrowserInv, BrowserOK, Closed
  <2>3. ASSUME NEW ask, Request(ask), Theirs PROVE Owed' = Owed \union {ask} /\ ask \in Owed'
    <3>1. requests' = Append(requests, ask) /\ answers' = answers
      BY <2>3 DEF Request, Theirs
    <3>2. requests \in Seq(BrowserAsks \union {ask}) /\ ask \in BrowserAsks \union {ask}
      BY SeqMonotonic DEF BrowserInv
    <3>3. Range(requests') = Range(requests) \union {ask}
      BY <3>1, <3>2, AppendRange
    <3> QED BY <3>1, <3>3 DEF Owed
  (* The place the browser goes to is asked for at once. *)
  <2>4. ASSUME Request(Place(browser')), Theirs, browser'.open,
               \/ ~browser.open /\ browser'.known = 0 /\ browser'.pending = NoAsk
                    /\ browser'.confirm = NoAsk
               \/ browser.open /\ browser'.known = browser.known
                    /\ browser'.pending = browser.pending
                    /\ browser'.confirm = browser.confirm
        PROVE  PromiseInv'
    <3>1. Place(browser') \in Owed' /\ Owed \subseteq Owed'
      BY <2>3, <2>4
    <3>2. answers' = answers /\ served' = served
      BY <2>4 DEF Theirs
    <3> QED BY <2>4, <3>1, <3>2 DEF PromiseInv, Promised, BrowserInv
  (* The browser stays where it is, and all that was owed still is. *)
  <2>5. ASSUME browser.open, Stays(browser, browser'), Owed \subseteq Owed', Theirs,
               \/ browser'.pending = browser.pending
               \/ browser'.pending \in Owed' /\ IsChange(browser'.pending),
               \/ browser'.confirm \in {NoAsk, browser.confirm}
               \/ IsChange(browser'.confirm)
        PROVE  PromiseInv'
    <3>1. Place(browser') = Place(browser) /\ Shown(browser') = Shown(browser)
      BY <2>5 DEF Stays, Place, Shown
    <3> QED BY <2>5, <3>1 DEF PromiseInv, Promised, Theirs, Stays
  <2>6. Quiet /\ Theirs => Owed' = Owed
    BY DEF Quiet, Theirs, Owed
  <2>7. CASE BrowserOpen
    BY <2>4, <2>7 DEF BrowserOpen, Opened, Place
  <2>8. CASE BrowserClose
    BY <2>8 DEF BrowserClose, Closed, PromiseInv, Theirs
  <2>9. CASE SwitchTab
    <3> DEFINE b == ListingLoads(browser)
    <3>1. browser.open /\ browser \in Browsers /\ Request(Place(browser')) /\ Theirs
      BY <2>1, <2>9 DEF SwitchTab, Keys
    <3>2. /\ b \in Browsers /\ b.open = TRUE /\ b.known = browser.known
          /\ b.pending = browser.pending /\ b.confirm = browser.confirm
      BY <3>1, NothingShown DEF ListingLoads, Browsers
    <3>3. \/ browser' = [b EXCEPT !.tab = "podcasts", !.view = "feeds",
                                  !.episodes = NoRows, !.feeds = NoRows]
          \/ browser' = [b EXCEPT !.tab = "radio", !.view = "feeds",
                                  !.episodes = NoRows, !.stations = NoRows]
          \/ browser' = [b EXCEPT !.tab = "files", !.entries = NoRows]
      BY <2>9 DEF SwitchTab
    <3> HIDE DEF b
    <3>4. /\ browser'.open /\ browser'.known = browser.known
          /\ browser'.pending = browser.pending /\ browser'.confirm = browser.confirm
      BY <3>2, <3>3 DEF Browsers
    <3> QED BY <2>4, <3>1, <3>4
  <2>10. ASSUME NEW dir \in {"home", "music"}, OpenDirectory(dir), Theirs,
                browser.open, browser.tab = "files"
         PROVE  PromiseInv'
    <3>1. /\ browser'.open /\ browser'.known = browser.known /\ browser'.tab = "files"
          /\ browser'.pending = browser.pending /\ browser'.confirm = browser.confirm
          /\ browser'.cwd = dir
      BY <2>1, <2>10 DEF OpenDirectory, ListingLoads, Browsers
    <3>2. Request(Place(browser'))
      BY <2>10, <3>1 DEF OpenDirectory, Place
    <3> QED BY <2>4, <2>10, <3>1, <3>2
  <2>11. CASE Enter
    <3>1. ASSUME NEW slug \in Slugs, browser.tab = "podcasts", browser.view = "feeds",
                 browser' = [ListingLoads(browser) EXCEPT !.view = slug, !.episodes = NoRows],
                 Request(Ask("episodes", slug))
          PROVE  PromiseInv'
      <4>1. browser.open /\ browser \in Browsers /\ Theirs
        BY <2>1, <2>11 DEF Enter, Keys
      <4>2. /\ browser'.open /\ browser'.known = browser.known
            /\ browser'.tab = "podcasts" /\ browser'.view = slug
            /\ browser'.pending = browser.pending /\ browser'.confirm = browser.confirm
        BY <3>1, <4>1 DEF ListingLoads, Browsers
      <4>3. slug # "feeds" => Request(Place(browser'))
        BY <3>1, <4>2 DEF Place
      <4> QED BY <2>4, <4>1, <4>2, <4>3, BrowserAssumption
    <3> QED BY <2>10, <2>11, <3>1 DEF Enter, Keys
  <2>12. CASE Back
    <3>1. CASE /\ browser.tab = "podcasts" /\ browser.view # "feeds"
               /\ browser' = LeaveEpisodes(browser) /\ Request(Ask("feeds", "all"))
      <4>1. browser.open /\ browser \in Browsers /\ Theirs
        BY <2>1, <2>12 DEF Back, Keys
      <4>2. /\ browser'.open /\ browser'.known = browser.known
            /\ browser'.tab = "podcasts" /\ browser'.view = "feeds"
            /\ browser'.pending = browser.pending /\ browser'.confirm = browser.confirm
        BY <3>1, <4>1 DEF LeaveEpisodes, Browsers
      <4>3. Request(Place(browser'))
        BY <3>1, <4>2 DEF Place
      <4> QED BY <2>4, <4>1, <4>2, <4>3
    <3> QED BY <2>10, <2>12, <3>1 DEF Back, Keys, Parent
  <2>13. CASE Mark \/ OpenPrompt \/ ClosePrompt \/ AskRemoval \/ DeclineRemoval
    <3>1. browser.open /\ browser \in Browsers /\ Quiet /\ Theirs
      BY <2>1, <2>13 DEF Mark, OpenPrompt, ClosePrompt, AskRemoval, DeclineRemoval, Keys
    <3>2. \/ browser' = [browser EXCEPT !.marked = Shown(browser)]
          \/ \E open \in BOOLEAN : browser' = [browser EXCEPT !.prompt = open]
          \/ \E confirm : /\ confirm = NoAsk \/ IsChange(confirm)
                          /\ browser' = [browser EXCEPT !.confirm = confirm]
      <4>1. \A slug : IsChange(Ask(Removing(browser), slug))
        BY DEF IsChange, Ask, Removing
      <4> QED BY <2>13, <4>1
              DEF Mark, OpenPrompt, ClosePrompt, AskRemoval, DeclineRemoval
    <3>3. /\ Stays(browser, browser') /\ browser'.pending = browser.pending
          /\ browser'.confirm \in {NoAsk, browser.confirm} \/ IsChange(browser'.confirm)
      BY <3>1, <3>2 DEF Stays, Browsers
    <3> QED BY <2>5, <2>6, <3>1, <3>3
  <2>14. CASE AddSelection
    <3>1. browser.open /\ browser \in Browsers /\ Theirs
      BY <2>1, <2>14 DEF AddSelection, Keys
    <3>2. Owed \subseteq Owed'
      BY <2>3, <2>6, <2>14 DEF AddSelection
    <3>3. /\ Stays(browser, browser') /\ browser'.pending = browser.pending
          /\ browser'.confirm = browser.confirm
      BY <2>14, <3>1 DEF AddSelection, Stays, Browsers
    <3> QED BY <2>5, <3>1, <3>2, <3>3
  <2>15. ASSUME browser.open, NEW op, IsChange(op),
                \/ Submit(browser, op)
                \/ Submit([browser EXCEPT !.prompt = FALSE], op)
                \/ Submit([browser EXCEPT !.confirm = NoAsk], op)
         PROVE  PromiseInv'
    <3>1. browser \in Browsers /\ Request(op) /\ Theirs
      BY <2>1, <2>15 DEF Submit
    <3>2. /\ Stays(browser, browser') /\ browser'.pending = op
          /\ browser'.confirm \in {NoAsk, browser.confirm}
      BY ZenonT(60), <2>15, <3>1 DEF Submit, Stays, Browsers
    <3> QED BY <2>3, <2>5, <2>15, <3>1, <3>2
  <2>16. CASE EnterUrl
    <3>1. IsChange(Ask("add", browser.tab))
      BY DEF IsChange, Ask
    <3> QED BY <2>15, <2>16, <3>1 DEF EnterUrl
  <2>17. CASE RefreshKey
    <3>1. \A slug : IsChange(Ask(IF browser.tab = "radio" THEN "probe" ELSE "refresh", slug))
      BY DEF IsChange, Ask
    <3> QED BY <2>15, <2>17, <3>1 DEF RefreshKey, Keys
  <2>18. CASE ConfirmRemoval
    <3>1. IsChange(browser.confirm)
      BY <2>18 DEF ConfirmRemoval, PromiseInv
    <3> QED BY <2>15, <2>18, <3>1 DEF ConfirmRemoval
  <2>19. CASE Serve
    <3> DEFINE answer == Rows(Head(requests), served')
    <3>1. /\ requests \in Seq(BrowserAsks) /\ requests # <<>> /\ requests' = Tail(requests)
          /\ answers \in Seq(Listings) /\ answers' = Append(answers, answer)
          /\ served' = served + 1 /\ served \in Nat /\ browser' = browser
      BY <2>19 DEF Serve, BrowserInv
    <3>2. Range(requests) = {Head(requests)} \union Range(requests') /\ Head(requests) \in BrowserAsks
      BY <3>1, TailRange
    <3>3. answer \in Listings /\ answer.of = Head(requests) /\ answer.at = served + 1
      BY <3>1, <3>2 DEF Rows, Listings
    <3> HIDE DEF answer
    <3>4. Range(answers') = Range(answers) \union {answer}
      BY <3>1, <3>3, AppendRange
    <3>5. Owed' = Owed
      BY <3>2, <3>3, <3>4 DEF Owed
    <3>6. /\ DOMAIN answers = 1 .. Len(answers) /\ Len(answers) \in Nat
          /\ DOMAIN answers' = 1 .. Len(answers) + 1
          /\ \A i \in 1 .. Len(answers) : answers'[i] = answers[i]
          /\ answers'[Len(answers) + 1] = answer
          /\ \A i \in 1 .. Len(answers) : answers[i].at \in Nat
      <4>1. /\ DOMAIN answers = 1 .. Len(answers) /\ Len(answers) \in Nat
            /\ \A i \in 1 .. Len(answers) : answers[i] \in Listings
        BY <3>1, LenProperties, ElementOfSeq
      <4>2. /\ answers' \in Seq(Listings) /\ Len(answers') = Len(answers) + 1
            /\ \A i \in 1 .. Len(answers) : answers'[i] = answers[i]
            /\ answers'[Len(answers) + 1] = answer
        BY <3>1, <3>3, AppendProperties
      <4>3. DOMAIN answers' = 1 .. Len(answers')
        BY <4>2, LenProperties
      <4> QED BY <4>1, <4>2, <4>3 DEF Listings
    <3>7. \A i \in DOMAIN answers' : \/ i \in DOMAIN answers /\ answers'[i] = answers[i]
                                     \/ i = Len(answers) + 1 /\ answers'[i].at = served + 1
      BY <3>3, <3>6
    <3>8. browser.open => browser.known \in Nat
      BY <2>1 DEF Browsers
    <3>9. /\ \A i \in DOMAIN answers' : 0 < answers'[i].at /\ answers'[i].at <= served'
          /\ browser.open => \A i \in DOMAIN answers' : browser.known < answers'[i].at
      BY <3>1, <3>6, <3>7, <3>8 DEF PromiseInv
    <3>10. ASSUME NEW i \in DOMAIN answers', NEW j \in DOMAIN answers', i < j
           PROVE  answers'[i].at < answers'[j].at
      <4>1. i \in DOMAIN answers /\ answers'[i] = answers[i] /\ answers[i].at \in Nat
        BY <3>6, <3>10
      <4>2. CASE j \in DOMAIN answers
        BY <3>6, <3>10, <4>1, <4>2 DEF PromiseInv
      <4>3. CASE j = Len(answers) + 1
        BY <3>1, <3>3, <3>6, <4>1, <4>3 DEF PromiseInv
      <4> QED BY <3>6, <4>2, <4>3
    <3> QED BY <3>1, <3>5, <3>8, <3>9, <3>10 DEF PromiseInv
  <2>20. ASSUME answers # <<>>, answers' = Tail(answers), served' = served,
                Range(requests) \subseteq Range(requests'),
                browser'.open => browser.open /\ browser'.known \in {browser.known, Head(answers).at},
                browser'.open => /\ browser'.pending = NoAsk \/ IsChange(browser'.pending)
                                 /\ browser'.confirm = NoAsk \/ IsChange(browser'.confirm)
                                 /\ Promised(browser', Owed')
         PROVE  PromiseInv'
    <3>1. \A i \in DOMAIN answers' : 0 < answers'[i].at /\ answers'[i].at <= served
      BY <2>20, AnswerTaken DEF PromiseInv
    <3>2. \A i, j \in DOMAIN answers' : i < j => answers'[i].at < answers'[j].at
      <4> SUFFICES ASSUME NEW i \in DOMAIN answers', NEW j \in DOMAIN answers', i < j
                   PROVE  answers'[i].at < answers'[j].at
        OBVIOUS
      <4>1. i \in Nat /\ j \in Nat
        BY <2>20, AnswerTaken, HeadTailProperties, LenProperties DEF BrowserInv
      <4> QED BY <2>20, <4>1, AnswerTaken DEF PromiseInv
    <3>3. browser'.open => browser'.known <= served /\ \A i \in DOMAIN answers' : browser'.known < answers'[i].at
      BY <2>20, AnswerTaken DEF PromiseInv
    <3> QED BY <2>20, <3>1, <3>2, <3>3 DEF PromiseInv
  <2>21. CASE TakeTree
    <3>1. /\ answers # <<>> /\ answers' = Tail(answers) /\ served' = served
          /\ requests' = requests /\ browser' = browser /\ Head(answers).of.what = "tree"
      BY <2>21 DEF TakeTree, Quiet
    <3>2. browser.open => /\ Place(browser) # Head(answers).of
                          /\ browser.pending # Head(answers).of
      <4>1. \A b \in Browsers : Place(b).what # "tree"
        BY PlaceIsAsked DEF IsList
      <4>2. browser.open => browser.pending = NoAsk \/ IsChange(browser.pending)
        BY DEF PromiseInv
      <4> QED BY <2>1, <3>1, <4>1, <4>2 DEF IsChange, NoAsk, Ask
    <3>3. Owed \subseteq Owed' \union {Head(answers).of}
      BY <3>1, AnswerTaken
    <3>4. browser.open => Promised(browser, Owed')
      BY <3>2, <3>3 DEF PromiseInv, Promised
    <3> QED BY <2>20, <3>1, <3>4 DEF PromiseInv
  <2>22. CASE ApplyList
    <3> DEFINE answer == Head(answers)
    <3>1. /\ answers # <<>> /\ answers' = Tail(answers) /\ served' = served
          /\ requests' = requests /\ IsList(answer.of)
      BY <2>22 DEF ApplyList, Quiet
    <3>2. Owed \subseteq Owed' \union {answer.of}
      BY <3>1, AnswerTaken
    <3>3. browser.open => browser.pending # answer.of
      <4>1. browser.open => browser.pending = NoAsk \/ IsChange(browser.pending)
        BY DEF PromiseInv
      <4> QED BY <3>1, <4>1 DEF IsChange, IsList, NoAsk, Ask
    <3>4. CASE browser' = browser /\ ~(browser.open /\ Applies(browser, answer))
      <4>1. browser.open => Promised(browser, Owed')
        BY <3>2, <3>3, <3>4 DEF PromiseInv, Promised, Applies
      <4> QED BY <2>20, <3>1, <3>4, <4>1 DEF PromiseInv
    <3>5. ASSUME browser.open, NEW rows \in {answer, NoRows}, browser' = Settled(browser, rows)
          PROVE  PromiseInv'
      <4>1. browser \in Browsers /\ browser.known < answer.at /\ browser.known \in Nat
            /\ answer \in Listings
        BY <2>1, <3>1, <3>5, AnswerTaken, HeadTailProperties DEF Browsers, BrowserInv
      <4>2. /\ browser'.open /\ ~browser'.loading /\ browser'.known = browser.known
            /\ browser'.pending = browser.pending /\ browser'.confirm = browser.confirm
            /\ Shown(browser') = rows
        <5> DEFINE d == [browser EXCEPT !.loading = FALSE, !.marked = NoRows]
        <5>1. /\ d \in Browsers /\ d.open /\ ~d.loading /\ d.known = browser.known
              /\ d.pending = browser.pending /\ d.confirm = browser.confirm
          BY <4>1, NothingShown DEF Browsers
        <5>2. browser' = Showing(d, rows)
          BY <3>5 DEF Settled
        <5>3. d.tab \in {"files", "podcasts", "radio"}
          BY <5>1 DEF Browsers, Tabs
        <5> HIDE DEF d
        <5>4. CASE d.tab = "files"
          <6>1. browser' = [d EXCEPT !.entries = rows]
            BY <5>2, <5>4 DEF Showing
          <6> QED BY <5>1, <5>4, <6>1 DEF Browsers, Shown
        <5>5. CASE d.tab = "radio"
          <6>1. browser' = [d EXCEPT !.stations = rows]
            BY <5>2, <5>5 DEF Showing
          <6> QED BY <5>1, <5>5, <6>1 DEF Browsers, Shown
        <5>6. CASE d.tab = "podcasts" /\ d.view = "feeds"
          <6>1. browser' = [d EXCEPT !.feeds = rows]
            BY <5>2, <5>6 DEF Showing
          <6> QED BY <5>1, <5>6, <6>1 DEF Browsers, Shown
        <5>7. CASE d.tab = "podcasts" /\ d.view # "feeds"
          <6>1. browser' = [d EXCEPT !.episodes = rows]
            BY <5>2, <5>7 DEF Showing
          <6> QED BY <5>1, <5>7, <6>1 DEF Browsers, Shown
        <5> QED BY <5>3, <5>4, <5>5, <5>6, <5>7
      <4>3. Promised(browser', Owed')
        BY <3>2, <3>3, <3>5, <4>1, <4>2 DEF PromiseInv, Promised, Listings
      <4> QED BY <2>20, <3>1, <3>5, <4>2, <4>3 DEF PromiseInv
    <3> QED BY <2>22, <3>4, <3>5 DEF ApplyList
  <2>23. CASE ApplyChange
    <3> DEFINE answer == Head(answers)
               told == [browser EXCEPT !.pending = NoAsk, !.known = answer.at]
               left == IF answer.of = Ask("remove", told.view) THEN LeaveEpisodes(told)
                                                               ELSE told
    <3>1. /\ answers # <<>> /\ answers' = Tail(answers) /\ served' = served
          /\ IsChange(answer.of)
      BY <2>23 DEF ApplyChange
    <3>2. CASE ~browser.open \/ browser.pending # answer.of
      <4>1. browser' = browser /\ requests' = requests
        BY <2>23, <3>2 DEF ApplyChange, Quiet
      <4>2. Owed \subseteq Owed' \union {answer.of}
        BY <3>1, <4>1, AnswerTaken
      <4>3. browser.open => Place(browser) # answer.of
        BY <2>1, <3>1, PlaceIsAsked DEF IsList, IsChange
      <4>4. browser.open => Promised(browser, Owed')
        BY <3>2, <4>2, <4>3 DEF PromiseInv, Promised
      <4> QED BY <2>20, <3>1, <4>1, <4>4 DEF PromiseInv
    <3>3. CASE browser.open /\ browser.pending = answer.of
      <4>1. answer.at \in Nat /\ browser \in Browsers
        <5>1. answer \in Listings
          BY <3>1, HeadTailProperties DEF BrowserInv
        <5> HIDE DEF answer
        <5> QED BY <2>1, <3>3, <5>1 DEF Listings
      <4>2. /\ told \in Browsers /\ told.open /\ told.pending = NoAsk
            /\ told.known = answer.at /\ told.confirm = browser.confirm
            /\ told.tab = browser.tab /\ told.loading = browser.loading
            /\ told.view = browser.view /\ told.cwd = browser.cwd
        BY <4>1, NothingShown DEF Browsers
      <4>3. /\ left \in Browsers /\ left.open /\ left.pending = NoAsk
            /\ left.known = answer.at /\ left.confirm = browser.confirm
            /\ left.tab = browser.tab
            /\ left.loading => browser.loading
            /\ left.cwd = browser.cwd
        <5> HIDE DEF told
        <5> QED BY <4>2, NothingShown DEF LeaveEpisodes, Browsers
      <4>4. \/ browser' = left /\ left.tab = "files" /\ requests' = requests
            \/ browser' = [left EXCEPT !.loading = TRUE] /\ requests' = Append(requests, Place(left))
        BY <2>23, <3>3 DEF ApplyChange, Quiet, ReRead
      <4> HIDE DEF left, told
      <4>5. CASE browser' = left /\ left.tab = "files" /\ requests' = requests
        <5>1. Place(left) = Place(browser) /\ Place(browser) # answer.of
          BY <3>1, <4>1, <4>3, <4>5, PlaceIsAsked DEF Place, IsList, IsChange
        <5>2. Owed \subseteq Owed' \union {answer.of}
          BY <3>1, <4>5, AnswerTaken
        <5>3. Promised(browser', Owed')
          BY <3>3, <4>3, <4>5, <5>1, <5>2 DEF PromiseInv, Promised
        <5> QED BY <2>20, <3>1, <3>3, <4>3, <4>5, <5>3 DEF PromiseInv
      <4>6. CASE /\ browser' = [left EXCEPT !.loading = TRUE]
                 /\ requests' = Append(requests, Place(left))
        <5>1. Range(requests') = Range(requests) \union {Place(left)}
          BY <4>3, <4>6, PlaceIsAsked, AppendRange DEF BrowserInv
        <5>2. /\ browser'.open /\ browser'.pending = NoAsk /\ browser'.known = answer.at
              /\ browser'.confirm = browser.confirm /\ Place(browser') = Place(left)
          BY <4>3, <4>6 DEF Browsers, Place
        <5>3. Promised(browser', Owed')
          BY <5>1, <5>2 DEF Promised, Owed
        <5> QED BY <2>20, <3>1, <3>3, <5>1, <5>2, <5>3 DEF PromiseInv
      <4> QED BY <4>4, <4>5, <4>6
    <3> QED BY <3>2, <3>3
  <2>24. CASE UNCHANGED BrowserVars
    BY <2>24 DEF BrowserVars, PromiseInv, Owed
  <2> QED
    BY <2>7, <2>8, <2>9, <2>11, <2>12, <2>13, <2>14, <2>16, <2>17, <2>18, <2>19,
       <2>21, <2>22, <2>23, <2>24 DEF BrowserNext
<1> QED BY <1>1, <1>2, BrowserInvariant, PTL DEF BrowserSpec

(* Nothing the browser waits for is forgotten: a pending change, a list being *)
(* loaded and one made old by a change each have a request or an answer under *)
(* way, across closing, reopening and every switch in between.                *)
THEOREM AnswersAreAlwaysOwed == BrowserSpec => []AnswersAreOwed
<1>1. PromiseInv => AnswersAreOwed
  BY DEF PromiseInv, Promised, AnswersAreOwed
<1> QED BY <1>1, PromiseInvariant, PTL

-----------------------------------------------------------------------------
(* Enrichment. *)

Jobs == [file : Files \union {"none"}, generation : Nat, checked : BOOLEAN]
Results == [file : Files \union {"none"}, generation : Nat, tagged : BOOLEAN]

(* A finite set is put in some order, all of it. *)
LEMMA SetToSeqIsOrder ==
  ASSUME NEW S, IsFiniteSet(S)
  PROVE  /\ SetToSeq(S) \in Seq(S) /\ Len(SetToSeq(S)) = Cardinality(S)
         /\ Range(SetToSeq(S)) = S
<1>1. PICK g \in Bijection(1 .. Cardinality(S), S) : TRUE
  BY FS_CardinalityType DEF ExistsBijection
<1>2. g \in [1 .. Cardinality(S) -> S] /\ IsInjective(g)
  BY DEF Bijection, Injection
<1>3. SetToSeq(S) \in [1 .. Cardinality(S) -> S] /\ IsInjective(SetToSeq(S))
  BY <1>2 DEF SetToSeq
<1>4. Cardinality(S) \in Nat
  BY FS_CardinalityType
<1>5. SetToSeq(S) \in Seq(S) /\ Len(SetToSeq(S)) = Cardinality(S)
  BY <1>3, <1>4
<1>6. IsFiniteSet(1 .. Cardinality(S)) /\ Cardinality(1 .. Cardinality(S)) = Cardinality(S)
  BY <1>4, FS_Interval
<1>7. SetToSeq(S) \in Surjection(1 .. Cardinality(S), S)
  BY <1>3, <1>6, FS_Injection DEF Injection
<1> QED BY <1>3, <1>5, <1>7 DEF Surjection, Range

(* What is queued comes from the files given, all of them when they fit. *)
LEMMA FittingIsPart ==
  ASSUME NEW queued \in Seq(Jobs), NEW files \in SUBSET Files
  PROVE  /\ Fitting(queued, files) \in Seq(files)
         /\ Cardinality(files) <= ListCap - Len(queued)
              => Range(Fitting(queued, files)) = files
<1> DEFINE room == {Cardinality(files), ListCap - Len(queued)}
<1>1. IsFiniteSet(files) /\ Cardinality(files) \in Nat
  BY EnrichAssumption, FS_Subset, FS_CardinalityType
<1>2. /\ SetToSeq(files) \in Seq(files) /\ Len(SetToSeq(files)) = Cardinality(files)
      /\ Range(SetToSeq(files)) = files
  BY <1>1, SetToSeqIsOrder
<1>3. ListCap - Len(queued) \in Int
  BY EnrichAssumption
<1>4. PICK k \in room : \A j \in room : k <= j
  BY <1>1, <1>3
<1>5. Min(room) \in room /\ \A j \in room : Min(room) <= j
  BY <1>4 DEF Min
<1>6. Min(room) \in Int /\ Min(room) <= Cardinality(files)
  BY <1>1, <1>3, <1>5
<1>7. Fitting(queued, files) \in Seq(files)
  <2>1. \A i \in 1 .. Min(room) : SetToSeq(files)[i] \in files
    BY <1>1, <1>2, <1>6
  <2>2. Fitting(queued, files) = SubSeq(SetToSeq(files), 1, Min(room))
    BY DEF Fitting
  <2> HIDE DEF room
  <2>3. SubSeq(SetToSeq(files), 1, Min(room)) \in Seq(files)
    BY <1>6, <2>1, SubSeqProperties
  <2> QED BY <2>2, <2>3
<1>8. ASSUME Cardinality(files) <= ListCap - Len(queued)
      PROVE  Range(Fitting(queued, files)) = files
  <2>1. Min(room) = Cardinality(files)
    BY <1>1, <1>3, <1>5, <1>8
  <2> QED BY <1>2, <2>1, SubSeqFull DEF Fitting
<1> QED BY <1>7, <1>8

(* What is asked for joins the backlog or counts as dropped. *)
LEMMA RequestedIsOffered ==
  ASSUME NEW queued \in Seq(Jobs), NEW files \in SUBSET Files, NEW gen \in Nat
  PROVE  /\ Requested(queued, files, gen) \in Seq(Jobs)
         /\ Range(queued) \subseteq Range(Requested(queued, files, gen))
         /\ \A f \in files : \/ f \in DroppedOf(queued, files)
                            \/ Job(f, gen) \in Range(Requested(queued, files, gen))
<1> DEFINE F == Fitting(queued, files)
           new == [i \in DOMAIN F |-> Job(F[i], gen)]
<1>1. F \in Seq(files)
  BY FittingIsPart
<1> HIDE DEF F
<1>2. /\ Len(F) \in Nat /\ DOMAIN F = 1 .. Len(F)
      /\ \A i \in 1 .. Len(F) : F[i] \in files
  BY <1>1, LenProperties, ElementOfSeq
<1>3. \A f \in files : Job(f, gen) \in Jobs
  BY DEF Job, Jobs
<1>4. new \in Seq(Jobs)
  BY <1>2, <1>3, IsASeq
<1>5. \A f \in Range(F) : Job(f, gen) \in Range(new)
  BY <1>2 DEF Range
<1>6. Requested(queued, files, gen) = queued \o new
  BY DEF Requested, F
<1> HIDE DEF new
<1>7. /\ queued \o new \in Seq(Jobs)
      /\ Range(queued \o new) = Range(queued) \union Range(new)
  BY <1>4, ConcatProperties, RangeConcatenation
<1> QED BY <1>5, <1>6, <1>7 DEF DroppedOf, F

(* A job carries the file and the generation it was made with. *)
LEMMA JobNames ==
  ASSUME NEW file, NEW gen PROVE Job(file, gen).file = file /\ Job(file, gen).generation = gen
BY DEF Job

(* The jobs and the results there are. *)
Underway == Range(backlog) \union {hands[t] : t \in Threads} \union Range(found)

EnrichInv ==
    /\ untitled \subseteq listed /\ listed \subseteq Files
    /\ Cardinality(listed) <= ListCap
    /\ generation \in Nat
    /\ backlog \in Seq(Jobs) /\ hands \in [Threads -> Jobs] /\ found \in Seq(Results)
    /\ EveryFileIsProbed

(* Every untitled file is queued, in hand or found, in every reachable        *)
(* state.                                                                     *)
LEMMA EnrichInvariant == EnrichSpec => []EnrichInv
<1>1. EnrichInit => EnrichInv
  <2> SUFFICES ASSUME EnrichInit PROVE EnrichInv
    OBVIOUS
  <2> DEFINE first == {Job(f, 0) : f \in listed}
  <2>1. /\ listed \in SUBSET Files /\ Cardinality(listed) <= ListCap /\ untitled = listed
        /\ generation = 0 /\ backlog = SetToSeq(first) /\ found = <<>>
        /\ hands = [t \in Threads |-> NoJob]
    BY DEF EnrichInit
  <2>2. IsFiniteSet(listed)
    BY <2>1, EnrichAssumption, FS_Subset
  <2>3. [f \in listed |-> Job(f, 0)] \in Surjection(listed, first)
    BY DEF Surjection
  <2>4. first \subseteq Jobs /\ NoJob \in Jobs
    <3>1. \A f \in listed : Job(f, 0) \in Jobs
      BY <2>1 DEF Job, Jobs
    <3>2. NoJob \in Jobs
      BY DEF Job, Jobs, NoJob
    <3> QED BY <3>1, <3>2
  <2> HIDE DEF first
  <2>5. IsFiniteSet(first)
    BY <2>2, <2>3, FS_Surjection
  <2>6. backlog \in Seq(first) /\ Range(backlog) = first
    BY <2>1, <2>5, SetToSeqIsOrder
  <2>7. backlog \in Seq(Jobs)
    BY <2>4, <2>6, SeqMonotonic
  <2>8. EveryFileIsProbed
    <3> SUFFICES ASSUME NEW file \in untitled \ hopeless
                 PROVE  \E job \in Underway : job.file = file /\ job.generation = generation
      BY DEF EveryFileIsProbed, Underway
    <3>1. Job(file, 0) \in Underway
      BY <2>1, <2>6 DEF Underway, first
    <3> QED BY <2>1, <3>1, JobNames
  <2> QED BY <2>1, <2>4, <2>7, <2>8, EmptySeq DEF EnrichInv
<1>2. EnrichInv /\ [EnrichNext]_EnrichVars => EnrichInv'
  <2> SUFFICES ASSUME EnrichInv, [EnrichNext]_EnrichVars PROVE EnrichInv'
    OBVIOUS
  <2> USE DEF EnrichInv
  <2>1. ASSUME NEW fewer, fewer \subseteq listed
        PROVE  IsFiniteSet(fewer) /\ Cardinality(fewer) <= ListCap
    <3>1. IsFiniteSet(listed)
      BY EnrichAssumption, FS_Subset
    <3>2. IsFiniteSet(fewer) /\ Cardinality(fewer) <= Cardinality(listed)
      BY <2>1, <3>1, FS_Subset
    <3>3. Cardinality(listed) \in Nat /\ Cardinality(fewer) \in Nat
      BY <3>1, <3>2, FS_CardinalityType
    <3> QED BY <3>2, <3>3, EnrichAssumption
  <2>2. CASE AddFiles
    <3>1. PICK files \in SUBSET (Files \ listed) :
            /\ Cardinality(listed \union files) <= ListCap
            /\ listed' = listed \union files /\ untitled' = untitled \union files
            /\ backlog' = Requested(backlog, files, generation)
            /\ hopeless' = (hopeless \ files) \union DroppedOf(backlog, files)
      BY <2>2 DEF AddFiles
    <3>2. UNCHANGED <<generation, hands, found>>
      BY <2>2 DEF AddFiles
    <3>3. /\ backlog' \in Seq(Jobs) /\ Range(backlog) \subseteq Range(backlog')
          /\ \A f \in files : f \in hopeless' \/ Job(f, generation) \in Range(backlog')
      BY <3>1, RequestedIsOffered
    <3>4. EveryFileIsProbed'
      <4> SUFFICES ASSUME NEW file \in untitled' \ hopeless'
                   PROVE  \E job \in Underway' : job.file = file /\ job.generation = generation'
        BY DEF EveryFileIsProbed, Underway
      <4>1. CASE file \in files
        <5>1. Job(file, generation) \in Underway'
          BY <3>3, <4>1 DEF Underway
        <5> QED BY <3>2, <5>1, JobNames
      <4>2. CASE file \notin files
        <5>1. file \in untitled \ hopeless
          BY <3>1, <4>2
        <5>2. PICK job \in Underway : job.file = file /\ job.generation = generation
          BY <5>1 DEF EveryFileIsProbed, Underway
        <5>3. job \in Underway'
          BY <3>2, <3>3, <5>2 DEF Underway
        <5> QED BY <3>2, <5>2, <5>3
      <4> QED BY <4>1, <4>2
    <3> QED BY <3>1, <3>2, <3>3, <3>4
  <2>3. CASE RemoveFile
    <3>1. PICK file \in listed : listed' = listed \ {file} /\ untitled' = untitled \ {file}
      BY <2>3 DEF RemoveFile
    <3>2. UNCHANGED <<generation, backlog, hands, found, hopeless>>
      BY <2>3 DEF RemoveFile
    <3>3. EveryFileIsProbed'
      BY <3>1, <3>2 DEF EveryFileIsProbed
    <3> QED BY <2>1, <3>1, <3>2, <3>3
  <2>4. CASE VacateListSlot
    <3>1. PICK gone \in SUBSET listed :
            /\ listed' = listed \ gone /\ untitled' = untitled \ gone
            /\ generation' = generation + 1
            /\ backlog' = Requested(<<>>, untitled', generation')
      BY <2>4 DEF VacateListSlot, ReOffered
    <3>2. UNCHANGED <<hands, found>>
      BY <2>4 DEF VacateListSlot
    <3>3. Cardinality(untitled') <= ListCap - Len(<<>>) /\ untitled' \subseteq Files
      <4>1. Cardinality(untitled') <= ListCap
        BY <2>1, <3>1
      <4>2. Cardinality(untitled') \in Nat
        BY <2>1, <3>1, FS_CardinalityType
      <4> QED BY <3>1, <4>1, <4>2, EnrichAssumption
    <3>4. generation' \in Nat
      BY <3>1
    <3>5. DroppedOf(<<>>, untitled') = {}
      BY <3>3, FittingIsPart, EmptySeq DEF DroppedOf
    <3>6. /\ backlog' \in Seq(Jobs)
          /\ \A f \in untitled' : Job(f, generation') \in Range(backlog')
      BY <3>1, <3>3, <3>4, <3>5, RequestedIsOffered, EmptySeq
    <3>7. EveryFileIsProbed'
      <4> SUFFICES ASSUME NEW file \in untitled' \ hopeless'
                   PROVE  \E job \in Underway' : job.file = file /\ job.generation = generation'
        BY DEF EveryFileIsProbed, Underway
      <4>1. Job(file, generation') \in Underway'
        BY <3>6 DEF Underway
      <4> QED BY <4>1, JobNames
    <3> QED BY <2>1, <3>1, <3>2, <3>4, <3>6, <3>7
  <2>5. CASE ApplyEnrichment
    <3>1. /\ found' = <<>> /\ UNCHANGED <<listed, generation, backlog, hands>>
          /\ \A r \in Range(found) : r.generation = generation =>
                /\ r.tagged => r.file \notin untitled'
                /\ ~r.tagged => r.file \in hopeless'
          /\ untitled' \subseteq untitled /\ hopeless \subseteq hopeless'
      BY <2>5 DEF ApplyEnrichment
    <3>2. EveryFileIsProbed'
      <4> SUFFICES ASSUME NEW file \in untitled' \ hopeless'
                   PROVE  \E job \in Underway' : job.file = file /\ job.generation = generation'
        BY DEF EveryFileIsProbed, Underway
      <4>1. PICK job \in Underway : job.file = file /\ job.generation = generation
        BY <3>1 DEF EveryFileIsProbed, Underway
      <4>2. job \notin Range(found)
        BY <3>1, <4>1
      <4> QED BY <3>1, <4>1, <4>2 DEF Underway
    <3> QED BY <3>1, <3>2, EmptySeq
  <2>6. ASSUME NEW t \in Threads, Receive(t) PROVE EnrichInv'
    <3>1. /\ backlog # <<>> /\ backlog' = Tail(backlog) /\ hands[t] = NoJob
          /\ hands' = [hands EXCEPT ![t] = Head(backlog)]
          /\ UNCHANGED <<listed, untitled, generation, found, hopeless>>
      BY <2>6 DEF Receive, Hold
    <3>2. /\ Tail(backlog) \in Seq(Jobs) /\ Head(backlog) \in Jobs
          /\ Range(backlog) = {Head(backlog)} \union Range(Tail(backlog))
      BY <3>1, TailRange
    <3>3. EveryFileIsProbed'
      <4> SUFFICES ASSUME NEW file \in untitled \ hopeless
                   PROVE  \E job \in Underway' : job.file = file /\ job.generation = generation
        BY <3>1 DEF EveryFileIsProbed, Underway
      <4>1. PICK job \in Underway : job.file = file /\ job.generation = generation
        BY DEF EveryFileIsProbed, Underway
      <4>2. job # NoJob
        BY <4>1, EnrichAssumption DEF NoJob, Job
      <4>3. hands'[t] = Head(backlog) /\ \A s \in Threads : s # t => hands'[s] = hands[s]
        BY <3>1
      <4> QED BY <3>1, <3>2, <4>1, <4>2, <4>3 DEF Underway
    <3> QED BY <3>1, <3>2, <3>3
  <2>7. ASSUME NEW t \in Threads, CheckGeneration(t) PROVE EnrichInv'
    <3>1. /\ hands' = [hands EXCEPT ![t] = IF hands[t].generation = generation
                         THEN [hands[t] EXCEPT !.checked = TRUE] ELSE NoJob]
          /\ UNCHANGED <<listed, untitled, generation, backlog, found, hopeless>>
      BY <2>7 DEF CheckGeneration, Hold
    <3>2. /\ hands'[t] \in Jobs
          /\ hands[t].generation = generation =>
               hands'[t].file = hands[t].file /\ hands'[t].generation = generation
          /\ \A s \in Threads : s # t => hands'[s] = hands[s]
      BY <3>1 DEF Jobs, NoJob, Job
    <3>3. hands' \in [Threads -> Jobs]
      BY <3>1, <3>2
    <3>4. EveryFileIsProbed'
      <4> SUFFICES ASSUME NEW file \in untitled \ hopeless
                   PROVE  \E job \in Underway' : job.file = file /\ job.generation = generation
        BY <3>1 DEF EveryFileIsProbed, Underway
      <4>1. PICK job \in Underway : job.file = file /\ job.generation = generation
        BY DEF EveryFileIsProbed, Underway
      <4> QED BY <3>1, <3>2, <4>1 DEF Underway
    <3> QED BY <3>1, <3>3, <3>4
  <2>8. ASSUME NEW t \in Threads, FinishProbe(t) PROVE EnrichInv'
    <3>1. PICK tagged \in BOOLEAN : found' = Append(found, Found(hands[t], tagged))
      BY <2>8 DEF FinishProbe
    <3>2. /\ hands' = [hands EXCEPT ![t] = NoJob]
          /\ UNCHANGED <<listed, untitled, generation, backlog, hopeless>>
      BY <2>8 DEF FinishProbe, Hold
    <3>3. /\ Found(hands[t], tagged) \in Results
          /\ Found(hands[t], tagged).file = hands[t].file
          /\ Found(hands[t], tagged).generation = hands[t].generation
      BY DEF Found, Results, Jobs
    <3>4. found' \in Seq(Results) /\ Range(found') = Range(found) \union {Found(hands[t], tagged)}
      BY <3>1, <3>3, AppendRange
    <3>5. NoJob \in Jobs
      BY DEF NoJob, Job, Jobs
    <3>6. EveryFileIsProbed'
      <4> SUFFICES ASSUME NEW file \in untitled \ hopeless
                   PROVE  \E job \in Underway' : job.file = file /\ job.generation = generation
        BY <3>2 DEF EveryFileIsProbed, Underway
      <4>1. PICK job \in Underway : job.file = file /\ job.generation = generation
        BY DEF EveryFileIsProbed, Underway
      <4>2. \A s \in Threads : s # t => hands'[s] = hands[s]
        BY <3>2
      <4> QED BY <3>2, <3>3, <3>4, <4>1, <4>2 DEF Underway
    <3> QED BY <3>2, <3>4, <3>5, <3>6
  <2>9. CASE UNCHANGED EnrichVars
    BY <2>9 DEF EnrichVars, EveryFileIsProbed
  <2> QED BY <2>2, <2>3, <2>4, <2>5, <2>6, <2>7, <2>8, <2>9 DEF EnrichNext
<1> QED BY <1>1, <1>2, PTL DEF EnrichSpec

(* No entry is forgotten: whatever is added, removed and cancelled while any  *)
(* number of workers read tags, an entry still without a title has a job or a *)
(* result no cancellation has overtaken, or is known to have none to give.    *)
THEOREM EveryEntryIsProbed == EnrichSpec => []EveryFileIsProbed
<1>1. EnrichInv => EveryFileIsProbed
  BY DEF EnrichInv
<1> QED BY <1>1, EnrichInvariant, PTL

-----------------------------------------------------------------------------
(* Seek bursts. *)

SeekTargets == 0 .. SeekTop
SeekQueue == [what : {"seek", "restart", "stop", "load"}, at : SeekTargets]
Heard ==
    [what : {"completed", "rejected", "cancelled", "stored", "restarted", "ended", "loaded",
             "failed"}, at : SeekTargets]
Releasing == {"completed", "restarted", "loaded", "failed"}

SeekTypes ==
    /\ burst \in SeekTargets \union {NoTarget} /\ submitted \in SeekTargets \union {NoTarget}
    /\ storedSeek \in SeekTargets \union {NoTarget} /\ landing \in SeekTargets \union {NoTarget}
    /\ flight \in Nat /\ burstMirror \in SeekTargets
    /\ commands \in Seq(SeekQueue) /\ heard \in Seq(Heard)

(* A target the worker reports as stored has still to land, or what let it go *)
(* is on its way behind the report.                                          *)
StoredIsLet ==
    \A i \in DOMAIN heard : heard[i].what = "stored" =>
        \/ landing # NoTarget
        \/ \E j \in DOMAIN heard : i < j /\ heard[j].what \in Releasing

InFlightIsOwed == flight <= SeeksOwed
SubmittedIsInFlight == submitted # NoTarget => flight > 0
StoredIsOwed ==
    storedSeek # NoTarget =>
         \/ landing # NoTarget
         \/ \E i \in DOMAIN heard : heard[i].what \in Releasing
         \/ SeeksOwed > 0

SeekInv ==
    SeekTypes /\ StoredIsLet /\ InFlightIsOwed /\ SubmittedIsInFlight /\ StoredIsOwed

(* What a step adds to the events, or takes from them. *)
LEMMA HeardMore ==
  ASSUME NEW h \in Seq(Heard), NEW e \in Heard
  PROVE  /\ Append(h, e) \in Seq(Heard) /\ DOMAIN Append(h, e) = 1 .. Len(h) + 1
         /\ DOMAIN h = 1 .. Len(h) /\ Append(h, e)[Len(h) + 1] = e /\ Len(h) \in Nat
         /\ \A i \in 1 .. Len(h) : Append(h, e)[i] = h[i]
  BY AppendProperties

(* The same for the event that is drained. *)
LEMMA HeardLess ==
  ASSUME NEW h \in Seq(Heard), h # <<>>
  PROVE  /\ Tail(h) \in Seq(Heard) /\ DOMAIN Tail(h) = 1 .. Len(h) - 1
         /\ DOMAIN h = 1 .. Len(h) /\ Head(h) = h[1] /\ Head(h) \in Heard
         /\ Len(h) \in Nat /\ Len(h) >= 1
         /\ \A i \in 1 .. Len(h) - 1 : Tail(h)[i] = h[i + 1]
  BY HeadTailProperties, EmptySeq

(* The events and commands that are owed, after each kind of step. *)
LEMMA OwedIs ==
  ASSUME SeekTypes
  PROVE  /\ SeeksOwed \in Nat
         /\ SeeksOwed = CountIn(commands, SeekCommands) + CountIn(heard, SeekAnswers)
         /\ CountIn(commands, SeekCommands) \in Nat /\ CountIn(heard, SeekAnswers) \in Nat
<1>1. SeeksOwed = CountIn(commands, SeekCommands) + CountIn(heard, SeekAnswers)
  BY DEF SeeksOwed, CountIn, Places
<1>2. CountIn(commands, SeekCommands) \in 0 .. Len(commands) /\ Len(commands) \in Nat
  BY CountIsNat DEF SeekTypes
<1>3. CountIn(heard, SeekAnswers) \in 0 .. Len(heard) /\ Len(heard) \in Nat
  BY CountIsNat DEF SeekTypes
<1> QED BY <1>1, <1>2, <1>3

(* What the listener asks for past the burst is a command. *)
LEMMA AskedIsCommand ==
  ASSUME SeekSuperseded \/ SeekCancelled
  PROVE  \E c \in SeekQueue : Submits(c)
<1>1. 0 \in SeekTargets /\ \A t \in 0 .. SeekTop : SeekTo(t) \in SeekQueue
  BY SeekAssumption DEF SeekTargets, SeekTo, SeekQueue
<1>2. \A w \in {"restart", "stop", "load"} : Other(w) \in SeekQueue
  BY <1>1 DEF Other, SeekQueue
<1>3. CASE SeekSuperseded
  BY <1>2, <1>3 DEF SeekSuperseded
<1>4. CASE SeekCancelled
  BY <1>1, <1>2, <1>4 DEF SeekCancelled
<1> QED BY <1>3, <1>4

(* Types. *)
LEMMA SeekTypesStep == SeekTypes /\ [SeekNext]_SeekVars => SeekTypes'
<1> SUFFICES ASSUME SeekTypes, [SeekNext]_SeekVars PROVE SeekTypes'
  OBVIOUS
<1> USE SeekAssumption DEF SeekTypes, SeekTargets, NoTarget, Key, Release, Tells, Submits,
    Other, SeekTo, Or, Displayed, Left
<1>0. \A i \in 0 .. SeekTop : i # SeekTop + 1
  OBVIOUS
<1>1. CASE Press
  <2>1. Or(Displayed, burstMirror) \in SeekTargets
    BY <1>0
  <2>2. burst' \in SeekTargets
    BY <1>1, <2>1 DEF Press, Target
  <2> QED BY <1>1, <2>2 DEF Press
<1>2. CASE SeekSuperseded
  <2>1. PICK c \in SeekQueue : Submits(c)
    BY <1>2, AskedIsCommand
  <2>2. commands' \in Seq(SeekQueue)
    BY <2>1
  <2> QED BY <1>2, <1>0, <2>2 DEF SeekSuperseded
<1>3. CASE SeekCancelled
  <2>1. PICK c \in SeekQueue : Submits(c)
    BY <1>3, AskedIsCommand
  <2>2. commands' \in Seq(SeekQueue)
    BY <2>1
  <2> QED BY <1>3, <1>0, <2>2 DEF SeekCancelled
<1>4. CASE QuietWindow
  BY <1>4, <1>0 DEF QuietWindow, SeekQueue, Heard
<1>5. CASE SeekFlush
  <2>1. burst \in SeekTargets
    BY <1>5 DEF SeekFlush
  <2>2. SeekTo(burst) \in SeekQueue
    BY <2>1 DEF SeekQueue
  <2>3. commands' \in Seq(SeekQueue)
    <3> DEFINE c == SeekTo(burst)
    <3>1. commands' = Append(commands, c) \/ commands' = commands
      BY <1>5 DEF SeekFlush
    <3>2. c \in SeekQueue
      BY <2>2
    <3> HIDE DEF c
    <3> QED BY <3>1, <3>2
  <2>4. submitted' \in SeekTargets \union {NoTarget} /\ storedSeek' \in SeekTargets \union {NoTarget}
        /\ flight' \in Nat
    BY <1>5, <2>1 DEF SeekFlush, RefusedReleases
  <2> QED BY <1>5, <2>3, <2>4 DEF SeekFlush
<1>6. CASE SeekObserve
  <2>1. Head(heard) \in Heard /\ Tail(heard) \in Seq(Heard)
    BY <1>6, HeardLess DEF SeekObserve
  <2>c. \/ storedSeek' = Head(heard).at /\ flight' = Left /\ burst' = burst
           /\ submitted' = IF Left = 0 THEN NoTarget ELSE submitted
        \/ /\ IF Left = 0 THEN Release ELSE flight' = Left /\ UNCHANGED <<submitted,
                                                                          storedSeek>>
           /\ burst' = burst
        \/ Release /\ burst' = burst
        \/ Release /\ burst' = NoTarget
    BY <1>6, <2>1 DEF SeekObserve, Heard
  <2>d. Left \in Nat /\ Head(heard).at \in SeekTargets
    BY <2>1 DEF Heard
  <2>2. /\ flight' \in Nat
        /\ burst' \in SeekTargets \union {NoTarget}
        /\ submitted' \in SeekTargets \union {NoTarget}
        /\ storedSeek' \in SeekTargets \union {NoTarget}
    BY <2>c, <2>d
  <2>3. burstMirror' \in SeekTargets
    <3>1. Displayed' \in SeekTargets \union {NoTarget}
      BY <2>2
    <3> HIDE DEF Displayed
    <3> QED BY <1>6, <2>1, <3>1 DEF SeekObserve, Heard
  <2> QED BY <1>6, <2>1, <2>2, <2>3 DEF SeekObserve
<1>7. CASE SeekAnswered
  <2>1. Head(commands) \in SeekQueue /\ Tail(commands) \in Seq(SeekQueue)
    BY <1>7, HeadTailProperties DEF SeekAnswered
  <2>2. Head(commands).at \in SeekTargets /\ 0 \in SeekTargets
    BY <2>1 DEF SeekQueue
  <2>3. /\ heard' = heard \/ \E e \in Heard : heard' = Append(heard, e)
        /\ landing' \in SeekTargets \union {NoTarget}
    BY <1>7, <2>2 DEF SeekAnswered, Heard
  <2>4. heard' \in Seq(Heard)
    BY <2>3
  <2> QED BY <1>7, <2>1, <2>3, <2>4 DEF SeekAnswered
<1>8. CASE OtherAnswered
  <2>1. Head(commands) \in SeekQueue /\ Tail(commands) \in Seq(SeekQueue)
    BY <1>8, HeadTailProperties DEF OtherAnswered
  <2>2. Head(commands).at \in SeekTargets /\ 0 \in SeekTargets
    BY <2>1 DEF SeekQueue
  <2>3. /\ heard' = heard \/ \E e \in Heard : heard' = Append(heard, e)
        /\ landing' \in SeekTargets \union {NoTarget}
    BY <1>8, <2>2 DEF OtherAnswered, Heard
  <2>4. heard' \in Seq(Heard)
    BY <2>3
  <2> QED BY <1>8, <2>1, <2>3, <2>4 DEF OtherAnswered
<1>9. CASE StoredLands
  BY <1>9, <1>0 DEF StoredLands, SeekQueue, Heard
<1>10. CASE TrackEnds
  BY <1>10, <1>0 DEF TrackEnds, SeekQueue, Heard
<1>20. CASE UNCHANGED SeekVars
  BY <1>20 DEF SeekVars
<1> QED BY <1>1, <1>2, <1>3, <1>4, <1>5, <1>6, <1>7, <1>8, <1>9, <1>10, <1>20
     DEF SeekNext

(* Every step keeps what is owed. *)
LEMMA SeekStep == SeekInv /\ [SeekNext]_SeekVars => SeekInv'
<1> SUFFICES ASSUME SeekInv, [SeekNext]_SeekVars PROVE SeekInv'
  OBVIOUS
<1>0. SeekTypes /\ SeekTypes'
  BY SeekTypesStep DEF SeekInv
<1> DEFINE cs == CountIn(commands, SeekCommands)
           as == CountIn(heard, SeekAnswers)
<1>o. /\ SeeksOwed = cs + as /\ cs \in Nat /\ as \in Nat
      /\ SeeksOwed' = cs' + as' /\ cs' \in Nat /\ as' \in Nat
      /\ flight \in Nat /\ flight' \in Nat
  <2>1. SeeksOwed = cs + as /\ cs \in Nat /\ as \in Nat
    BY <1>0, OwedIs
  <2>2. SeeksOwed' = cs' + as'
    BY DEF SeeksOwed, CountIn, Places
  <2>3. cs' \in Nat /\ as' \in Nat
    <3>1. CountIn(commands', SeekCommands) \in 0 .. Len(commands') /\ Len(commands') \in Nat
      BY <1>0, CountIsNat DEF SeekTypes
    <3>2. CountIn(heard', SeekAnswers) \in 0 .. Len(heard') /\ Len(heard') \in Nat
      BY <1>0, CountIsNat DEF SeekTypes
    <3> QED BY <3>1, <3>2
  <2> QED BY <1>0, <2>1, <2>2, <2>3 DEF SeekTypes
<1>c. PICK c1, c2, a1, a2, f1, f2 :
        c1 = cs /\ c2 = cs' /\ a1 = as /\ a2 = as' /\ f1 = flight /\ f2 = flight'
  OBVIOUS
<1>n. c1 \in Nat /\ c2 \in Nat /\ a1 \in Nat /\ a2 \in Nat /\ f1 \in Nat /\ f2 \in Nat
  BY <1>o, <1>c
<1>i. /\ f1 <= c1 + a1 /\ (submitted # NoTarget => f1 > 0)
      /\ storedSeek # NoTarget =>
           \/ landing # NoTarget
           \/ \E i \in DOMAIN heard : heard[i].what \in Releasing
           \/ c1 + a1 > 0
  BY <1>o, <1>c DEF SeekInv, InFlightIsOwed, SubmittedIsInFlight, StoredIsOwed
<1>j. ASSUME StoredIsLet', f2 <= c2 + a2, submitted' # NoTarget => f2 > 0,
             storedSeek' # NoTarget =>
               \/ landing' # NoTarget
               \/ \E i \in DOMAIN heard' : heard'[i].what \in Releasing
               \/ c2 + a2 > 0
      PROVE  SeekInv'
  <2>1. SeeksOwed' = c2 + a2 /\ flight' = f2
    BY <1>o, <1>c
  <2> QED BY <1>0, <1>j, <2>1 DEF SeekInv, InFlightIsOwed, SubmittedIsInFlight,
       StoredIsOwed,
             NoTarget
<1> HIDE DEF cs, as
<1>q. ASSUME NEW c \in SeekQueue, Submits(c)
      PROVE  c2 >= c1
  <2>1. commands \in Seq(SeekQueue)
    BY <1>0 DEF SeekTypes
  <2>2. CASE commands' = commands
    BY <1>n, <1>c, <2>2 DEF cs
  <2>3. CASE commands' = Append(commands, c)
    <3>1. CountIn(Append(commands, c), SeekCommands)
            = CountIn(commands, SeekCommands) + (IF c \in SeekCommands THEN 1 ELSE 0)
      BY <2>1, CountAppend
    <3>2. c2 = c1 + (IF c \in SeekCommands THEN 1 ELSE 0)
      BY <1>c, <2>3, <3>1 DEF cs
    <3> QED BY <1>n, <3>2
  <2> QED BY <1>q, <2>2, <2>3 DEF Submits
<1>h. ASSUME NEW e \in Heard, heard' = Append(heard, e)
      PROVE  a2 = a1 + (IF e \in SeekAnswers THEN 1 ELSE 0)
  <2>1. CountIn(Append(heard, e), SeekAnswers)
          = CountIn(heard, SeekAnswers) + (IF e \in SeekAnswers THEN 1 ELSE 0)
    BY <1>0, CountAppend DEF SeekTypes
  <2> QED BY <1>c, <1>h, <2>1 DEF as
<1>u. (heard' = heard => a2 = a1) /\ (commands' = commands => c2 = c1)
  BY <1>c DEF as, cs
<1>t. ASSUME commands # <<>>, commands' = Tail(commands)
      PROVE  /\ c2 = c1 - (IF Head(commands).what = "seek" THEN 1 ELSE 0)
             /\ Head(commands) \in SeekQueue
  <2>1. Head(commands) \in SeekQueue
    BY <1>0, <1>t, HeadTailProperties DEF SeekTypes
  <2>2. Head(commands) \in SeekCommands <=> Head(commands).what = "seek"
    BY <2>1 DEF SeekQueue, SeekCommands, SeekTargets
  <2>3. CountIn(Tail(commands), SeekCommands)
          = CountIn(commands, SeekCommands) - (IF Head(commands) \in SeekCommands THEN 1 ELSE 0)
    BY <1>0, <1>t, CountTail DEF SeekTypes
  <2>4. c2 = c1 - (IF Head(commands) \in SeekCommands THEN 1 ELSE 0)
    BY <1>c, <1>t, <2>3 DEF cs
  <2> QED BY <2>1, <2>2, <2>4
<1>l. UNCHANGED <<heard, landing>> => StoredIsLet'
  BY DEF SeekInv, StoredIsLet
<1>1. CASE Press
  BY <1>1, <1>c, <1>n, <1>i, <1>j, <1>u, <1>l DEF Press, Key, Release
<1>2. CASE SeekSuperseded
  <2>1. PICK c \in SeekQueue : Submits(c)
    BY <1>2, AskedIsCommand
  <2>2. c2 >= c1 /\ a2 = a1 /\ UNCHANGED <<heard, landing>> /\ f2 = 0 /\ submitted' = NoTarget
        /\ (storedSeek' = storedSeek \/ storedSeek' = NoTarget)
    BY <1>2, <1>c, <1>q, <1>u, <2>1 DEF SeekSuperseded, Key, Release
  <2> QED BY <1>n, <1>i, <1>j, <1>l, <2>2
<1>3. CASE SeekCancelled
  <2>1. PICK c \in SeekQueue : Submits(c)
    BY <1>3, AskedIsCommand
  <2>2. c2 >= c1 /\ a2 = a1 /\ UNCHANGED <<heard, landing>> /\ f2 = 0 /\ submitted' = NoTarget
        /\ (storedSeek' = storedSeek \/ storedSeek' = NoTarget)
    BY <1>3, <1>c, <1>q, <1>u, <2>1 DEF SeekCancelled, Key, Release
  <2> QED BY <1>n, <1>i, <1>j, <1>l, <2>2
<1>4. CASE QuietWindow
  BY <1>4, <1>c, <1>n, <1>i, <1>j, <1>u, <1>l DEF QuietWindow, Key, Release
<1>5. CASE SeekFlush
  <2>1. CASE Len(commands) < SeekQueueCap
    <3>1. SeekTo(burst) \in SeekQueue /\ SeekTo(burst) \in SeekCommands
      BY <1>0, <1>5 DEF SeekFlush, SeekTo, SeekQueue, SeekCommands, SeekTypes,
         SeekTargets
    <3>2. CountIn(Append(commands, SeekTo(burst)), SeekCommands)
            = CountIn(commands, SeekCommands) + 1
      BY <1>0, <3>1, CountAppend DEF SeekTypes
    <3>3. c2 = c1 + 1
      BY <1>c, <1>5, <2>1, <3>2 DEF SeekFlush, cs
    <3>4. f2 = f1 + 1 /\ a2 = a1 /\ UNCHANGED <<heard, landing, storedSeek>>
      BY <1>5, <1>c, <1>u, <2>1 DEF SeekFlush
    <3> QED BY <1>n, <1>i, <1>j, <1>l, <3>3, <3>4
  <2>2. CASE ~(Len(commands) < SeekQueueCap)
    <3>1. /\ a2 = a1 /\ c2 = c1 /\ UNCHANGED <<heard, landing>>
          /\ IF f1 = 0 THEN submitted' = NoTarget /\ storedSeek' = NoTarget /\ f2 = 0
                       ELSE storedSeek' = storedSeek /\ f2 = f1
      BY <1>5, <1>c, <1>u, <2>2 DEF SeekFlush, RefusedReleases, Release
    <3> QED BY <1>n, <1>i, <1>j, <1>l, <3>1
  <2> QED BY <2>1, <2>2
<1>6. CASE SeekObserve
  <2>1. /\ heard' = Tail(heard) /\ heard # <<>> /\ UNCHANGED <<commands, landing>>
        /\ DOMAIN heard = 1 .. Len(heard) /\ DOMAIN heard' = 1 .. Len(heard) - 1
        /\ Len(heard) \in Nat /\ Len(heard) >= 1 /\ Head(heard) = heard[1] /\ Head(heard) \in Heard
        /\ \A i \in 1 .. Len(heard) - 1 : heard'[i] = heard[i + 1]
    BY <1>6, <1>0, HeardLess DEF SeekObserve, SeekTypes
  <2>2. a2 = a1 - (IF Head(heard) \in SeekAnswers THEN 1 ELSE 0)
    <3>1. CountIn(Tail(heard), SeekAnswers)
            = CountIn(heard, SeekAnswers) - (IF Head(heard) \in SeekAnswers THEN 1 ELSE 0)
      BY <1>0, <2>1, CountTail DEF SeekTypes
    <3> QED BY <1>c, <2>1, <3>1 DEF as
  <2>3. Head(heard) \in SeekAnswers
          <=> Head(heard).what \in {"completed", "rejected", "cancelled", "stored"}
    BY <2>1 DEF Heard, SeekAnswers, SeekTargets
  <2>4. StoredIsLet'
    <3> SUFFICES ASSUME NEW i \in 1 .. Len(heard) - 1, heard'[i].what = "stored",
                        landing = NoTarget
                 PROVE  \E j \in 1 .. Len(heard) - 1 : i < j /\ heard'[j].what \in Releasing
      BY <2>1 DEF SeekInv, StoredIsLet
    <3>1. i + 1 \in 1 .. Len(heard) /\ heard[i + 1].what = "stored"
      BY <2>1
    <3>2. PICK j \in 1 .. Len(heard) : i + 1 < j /\ heard[j].what \in Releasing
      BY <2>1, <3>1 DEF SeekInv, StoredIsLet
    <3>3. j - 1 \in 1 .. Len(heard) - 1 /\ i < j - 1 /\ heard'[j - 1] = heard[(j - 1) + 1]
      BY <2>1, <3>2
    <3> QED BY <3>2, <3>3
  <2>5. \A j \in 1 .. Len(heard) : heard[j].what \in Releasing =>
            j = 1 \/ \E i \in DOMAIN heard' : heard'[i].what \in Releasing
    <3> SUFFICES ASSUME NEW j \in 1 .. Len(heard), heard[j].what \in Releasing, j # 1
                 PROVE  \E i \in DOMAIN heard' : heard'[i].what \in Releasing
      OBVIOUS
    <3>1. j - 1 \in 1 .. Len(heard) - 1 /\ (j - 1) + 1 = j
      BY <2>1
    <3>2. heard'[j - 1] = heard[j]
      BY <2>1, <3>1
    <3> QED BY <2>1, <3>1, <3>2
  <2>6. CASE Head(heard).what = "stored"
    <3>1. landing # NoTarget \/ \E j \in 1 .. Len(heard) : 1 < j /\ heard[j].what \in Releasing
      BY <2>1, <2>6 DEF SeekInv, StoredIsLet
    <3>2. landing # NoTarget \/ \E i \in DOMAIN heard' : heard'[i].what \in Releasing
      BY SMTT(60), <2>5, <3>1
    <3>3. a2 = a1 - 1 /\ c2 = c1
      BY <2>1, <2>2, <2>3, <2>6, <1>u
    <3>4. f2 = (IF f1 = 0 THEN 0 ELSE f1 - 1) /\ (f2 = 0 => submitted' = NoTarget)
      BY <1>6, <1>c, <2>6 DEF SeekObserve, Left
    <3>5. landing' = landing
      BY <2>1
    <3> QED BY <1>n, <1>i, <1>j, <2>4, <3>2, <3>3, <3>4, <3>5
  <2>7. CASE Head(heard).what \in {"completed", "rejected", "cancelled"}
    <3>3. a2 = a1 - 1 /\ c2 = c1
      BY <2>1, <2>2, <2>3, <2>7, <1>u
    <3>4. IF f1 <= 1 THEN submitted' = NoTarget /\ storedSeek' = NoTarget /\ f2 = 0
                     ELSE f2 = f1 - 1
      <4>1. IF Left = 0 THEN submitted' = NoTarget /\ storedSeek' = NoTarget /\ flight' = 0
                        ELSE flight' = Left
        BY <1>6, <2>7 DEF SeekObserve, Release
      <4>2. Left = IF f1 = 0 THEN 0 ELSE f1 - 1
        BY <1>c DEF Left
      <4> QED BY <1>c, <1>n, <4>1, <4>2
    <3> QED BY SMTT(60), <1>n, <1>i, <1>j, <2>4, <3>3, <3>4
  <2>8. CASE Head(heard).what \in {"restarted", "ended", "loaded", "failed"}
    <3>4. submitted' = NoTarget /\ storedSeek' = NoTarget /\ f2 = 0
      BY <1>6, <1>c, <2>8 DEF SeekObserve, Release
    <3> QED BY <1>n, <1>i, <1>j, <2>4, <3>4
  <2> QED BY <2>1, <2>6, <2>7, <2>8 DEF Heard
<1>7. CASE SeekAnswered
  <2>1. /\ c2 = c1 - 1 /\ Head(commands) \in SeekQueue /\ UNCHANGED <<flight,
                                                                      submitted, storedSeek>>
        /\ commands # <<>> /\ Head(commands).what = "seek"
    BY <1>7, <1>t DEF SeekAnswered
  <2>2. PICK what \in {"completed", "rejected", "cancelled", "stored"}, p \in 0 .. SeekTop :
             /\ heard' = Append(heard, [what |-> what, at |-> p])
             /\ \/ what = "completed"
                \/ what \in {"rejected", "cancelled"} /\ landing' = landing
                \/ what = "stored" /\ landing' # NoTarget
    <3>1. Head(commands).at \in 0 .. SeekTop /\ Head(commands).at # NoTarget /\ 0 \in 0 .. SeekTop
      BY <2>1, SeekAssumption DEF SeekQueue, SeekTargets, NoTarget
    <3>2. CASE Tells("completed", Head(commands).at) /\ landing' = NoTarget
      BY <3>1, <3>2 DEF Tells
    <3>3. CASE \E what \in {"rejected", "cancelled"} : Tells(what, 0) /\ UNCHANGED landing
      BY <3>1, <3>3 DEF Tells
    <3>4. CASE Tells("stored", Head(commands).at) /\ landing' = Head(commands).at
      BY <3>1, <3>4 DEF Tells
    <3> QED BY <1>7, <3>2, <3>3, <3>4 DEF SeekAnswered
  <2> DEFINE e == [what |-> what, at |-> p]
  <2>3. e \in Heard /\ e \in SeekAnswers /\ e.what = what
    BY DEF Heard, SeekAnswers, SeekTargets
  <2>4. a2 = a1 + (IF e \in SeekAnswers THEN 1 ELSE 0)
    BY <1>h, <2>2, <2>3
  <2>5. /\ DOMAIN heard = 1 .. Len(heard) /\ DOMAIN heard' = 1 .. Len(heard) + 1
        /\ Len(heard) \in Nat /\ heard'[Len(heard) + 1] = e
        /\ \A i \in 1 .. Len(heard) : heard'[i] = heard[i]
    BY <1>0, <2>2, <2>3, HeardMore DEF SeekTypes
  <2> HIDE DEF e
  <2>6. StoredIsLet'
    BY <2>2, <2>1, <2>3, <2>5 DEF SeekInv, StoredIsLet, Releasing
  <2>7. (\E i \in DOMAIN heard : heard[i].what \in Releasing)
          => \E i \in DOMAIN heard' : heard'[i].what \in Releasing
    BY <2>5
  <2>8. c2 + a2 >= c1 + a1
    BY <1>n, <2>1, <2>3, <2>4
  <2>9. landing' = landing \/ landing' # NoTarget
          \/ \E i \in DOMAIN heard' : heard'[i].what \in Releasing
    BY SMTT(60), <1>7, <1>n, <2>1, <2>2, <2>3, <2>5 DEF Releasing, SeekAnswered
  <2>a. f2 = f1
    BY <1>c, <2>1
  <2>b. c2 + a2 >= f2
    BY <1>n, <1>i, <2>8, <2>a
  <2>x. submitted' # NoTarget => f2 > 0
    BY <1>i, <2>1, <2>a
  <2>y. ASSUME storedSeek' # NoTarget
        PROVE  \/ landing' # NoTarget
               \/ \E i \in DOMAIN heard' : heard'[i].what \in Releasing
               \/ c2 + a2 > 0
    BY <1>n, <1>i, <2>1, <2>7, <2>8, <2>9, <2>y
  <2> QED BY <1>j, <2>6, <2>b, <2>x, <2>y
<1>8. CASE OtherAnswered
  <2>1. c2 = c1 /\ UNCHANGED <<flight, submitted, storedSeek>>
    BY <1>8, <1>t, <1>n DEF OtherAnswered
  <2>a. CASE UNCHANGED <<heard, landing>>
    BY <1>c, <1>n, <1>i, <1>j, <1>u, <1>l, <2>1, <2>a
  <2>b. ASSUME NEW what \in {"restarted", "loaded", "failed"},
               heard' = Append(heard, [what |-> what, at |-> 0])
        PROVE  SeekInv'
    <3> DEFINE e == [what |-> what, at |-> 0]
    <3>3. e \in Heard /\ e \notin SeekAnswers /\ e.what = what
      BY SeekAssumption DEF Heard, SeekAnswers, SeekTargets
    <3>4. a2 = a1
      BY <1>h, <1>n, <2>b, <3>3
    <3>5. /\ DOMAIN heard = 1 .. Len(heard) /\ DOMAIN heard' = 1 .. Len(heard) + 1
          /\ Len(heard) \in Nat /\ heard'[Len(heard) + 1] = e
          /\ \A i \in 1 .. Len(heard) : heard'[i] = heard[i]
      BY <1>0, <2>b, <3>3, HeardMore DEF SeekTypes
    <3> HIDE DEF e
    <3>6. StoredIsLet' /\ \E i \in DOMAIN heard' : heard'[i].what \in Releasing
      BY <3>3, <3>5 DEF SeekInv, StoredIsLet, Releasing
    <3> QED BY <1>c, <1>n, <1>i, <1>j, <2>1, <3>4, <3>6
  <2>c. \/ UNCHANGED <<heard, landing>>
        \/ \E what \in {"restarted", "loaded", "failed"} :
              heard' = Append(heard, [what |-> what, at |-> 0])
    BY <1>8 DEF OtherAnswered, Tells
  <2> QED BY <2>a, <2>b, <2>c
<1>9. CASE StoredLands
  <2>1. c2 = c1 /\ UNCHANGED <<flight, submitted, storedSeek>>
    BY <1>9, <1>u DEF StoredLands
  <2> DEFINE e == [what |-> "completed", at |-> landing]
  <2>2. heard' = Append(heard, e)
    BY <1>9 DEF StoredLands, Tells
  <2>3. e \in Heard /\ e \in SeekAnswers /\ e.what = "completed"
    BY <1>9, <1>0 DEF StoredLands, Heard, SeekAnswers, SeekTargets, SeekTypes
  <2>4. a2 = a1 + (IF e \in SeekAnswers THEN 1 ELSE 0)
    BY <1>h, <2>2, <2>3
  <2>5. /\ DOMAIN heard = 1 .. Len(heard) /\ DOMAIN heard' = 1 .. Len(heard) + 1
        /\ Len(heard) \in Nat /\ heard'[Len(heard) + 1] = e
        /\ \A i \in 1 .. Len(heard) : heard'[i] = heard[i]
    BY <1>0, <2>2, <2>3, HeardMore DEF SeekTypes
  <2> HIDE DEF e
  <2>6. StoredIsLet'
    BY <2>2, <2>1, <2>3, <2>5 DEF SeekInv, StoredIsLet, Releasing
  <2>7. (\E i \in DOMAIN heard : heard[i].what \in Releasing)
          => \E i \in DOMAIN heard' : heard'[i].what \in Releasing
    BY <2>5
  <2>8. c2 + a2 >= c1 + a1
    BY <1>n, <2>1, <2>3, <2>4
  <2>9. landing' = landing \/ landing' # NoTarget
          \/ \E i \in DOMAIN heard' : heard'[i].what \in Releasing
    BY <1>9, <1>n, <2>1, <2>2, <2>3, <2>5 DEF Releasing, StoredLands
  <2>a. f2 = f1
    BY <1>c, <2>1
  <2>b. c2 + a2 >= f2
    BY <1>n, <1>i, <2>8, <2>a
  <2>x. submitted' # NoTarget => f2 > 0
    BY <1>i, <2>1, <2>a
  <2>y. ASSUME storedSeek' # NoTarget
        PROVE  \/ landing' # NoTarget
               \/ \E i \in DOMAIN heard' : heard'[i].what \in Releasing
               \/ c2 + a2 > 0
    BY <1>n, <1>i, <2>1, <2>7, <2>8, <2>9, <2>y
  <2> QED BY <1>j, <2>6, <2>b, <2>x, <2>y
<1>10. CASE TrackEnds
  <2>1. c2 = c1 /\ UNCHANGED <<flight, submitted, storedSeek>> /\ landing' = landing
    BY <1>10, <1>u DEF TrackEnds
  <2> DEFINE e == [what |-> "ended", at |-> 0]
  <2>2. heard' = Append(heard, e)
    BY <1>10 DEF TrackEnds, Tells
  <2>3. e \in Heard /\ e \notin SeekAnswers /\ e.what = "ended"
    BY SeekAssumption DEF Heard, SeekAnswers, SeekTargets
  <2>4. a2 = a1 + (IF e \in SeekAnswers THEN 1 ELSE 0)
    BY <1>h, <2>2, <2>3
  <2>5. /\ DOMAIN heard = 1 .. Len(heard) /\ DOMAIN heard' = 1 .. Len(heard) + 1
        /\ Len(heard) \in Nat /\ heard'[Len(heard) + 1] = e
        /\ \A i \in 1 .. Len(heard) : heard'[i] = heard[i]
    BY <1>0, <2>2, <2>3, HeardMore DEF SeekTypes
  <2> HIDE DEF e
  <2>6. StoredIsLet'
    BY <2>2, <2>1, <2>3, <2>5 DEF SeekInv, StoredIsLet, Releasing
  <2>7. (\E i \in DOMAIN heard : heard[i].what \in Releasing)
          => \E i \in DOMAIN heard' : heard'[i].what \in Releasing
    BY <2>5
  <2>8. c2 + a2 >= c1 + a1
    BY <1>n, <2>1, <2>3, <2>4
  <2>9. landing' = landing \/ landing' # NoTarget
          \/ \E i \in DOMAIN heard' : heard'[i].what \in Releasing
    BY <1>10, <1>n, <2>1, <2>2, <2>3, <2>5 DEF Releasing, TrackEnds
  <2>a. f2 = f1
    BY <1>c, <2>1
  <2>b. c2 + a2 >= f2
    BY <1>n, <1>i, <2>8, <2>a
  <2>x. submitted' # NoTarget => f2 > 0
    BY <1>i, <2>1, <2>a
  <2>y. ASSUME storedSeek' # NoTarget
        PROVE  \/ landing' # NoTarget
               \/ \E i \in DOMAIN heard' : heard'[i].what \in Releasing
               \/ c2 + a2 > 0
    BY <1>n, <1>i, <2>1, <2>7, <2>8, <2>9, <2>y
  <2> QED BY <1>j, <2>6, <2>b, <2>x, <2>y
<1>20. CASE UNCHANGED SeekVars
  BY <1>20, <1>c, <1>n, <1>i, <1>j, <1>u, <1>l DEF SeekVars
<1> QED BY <1>1, <1>2, <1>3, <1>4, <1>5, <1>6, <1>7, <1>8, <1>9, <1>10, <1>20
     DEF SeekNext

(* The display never sticks on a seek's target: something that lets it go is   *)
(* always on its way, whatever the listener and the worker do.                *)
THEOREM EveryHoldIsLetGo == SeekSpec => []HoldIsOwed
<1>1. SeekInit => SeekInv
  <2> SUFFICES ASSUME SeekInit PROVE SeekInv
    OBVIOUS
  <2>1. SeekTypes /\ DOMAIN heard = {}
    BY SeekAssumption DEF SeekInit, SeekTypes, SeekTargets, NoTarget
  <2>2. SeeksOwed \in Nat
    BY <2>1, OwedIs
  <2> QED BY <2>1, <2>2 DEF SeekInit, SeekInv, StoredIsLet, InFlightIsOwed,
       SubmittedIsInFlight,
                           StoredIsOwed
<1>2. SeekInv => HoldIsOwed
  BY DEF SeekInv, HoldIsOwed, InFlightIsOwed, SubmittedIsInFlight, StoredIsOwed,
     Releasing, Range
<1> QED BY <1>1, <1>2, SeekStep, PTL DEF SeekSpec

-----------------------------------------------------------------------------
(* Lifecycle: what a run changes of the terminal and the process is undone.   *)

Undoable == {"images", "mouse", "cursor", "alternate", "raw", "stderr"}
Starting == {"lock", "stderr", "runtime", "raw", "alternate", "cursor", "mouse", "images"}
TeardownPlaces == {"drop", "join", "outcome", "close", "unlock", "over"}
PastJoin == {"outcome", "close", "unlock", "over"}
HookStates == {"running", "disable", "request", "restore", "over"}
TerminalChanges == [change : {"stderr", "raw", "alternate", "cursor", "mouse"}, step : {1, 2}]

(* A hook of its own: of a thread that panicked, not the pass of teardown.    *)
InHook(t) ==
    /\ hook[t] \in {"disable", "request", "restore"}
    /\ t = "main" => ending = "none"

(* Where the run is. *)
RunInv ==
    /\ altered \subseteq Undoable /\ marked \subseteq Undoable
    /\ making = NoChange \/ making \in TerminalChanges
    /\ making # NoChange => hook["main"] = "running" /\ ending = "none"
    /\ ending \in {"none", "failed", "requested", "worker", "panicked"}
    /\ ending = "none" <=> mainAt \notin TeardownPlaces
    /\ kitty \in BOOLEAN /\ drawn \in BOOLEAN /\ lateDraw \in BOOLEAN

(* Where each thread is in its restoration. *)
HooksInv ==
    /\ hook \in [RunThreads -> HookStates]
    /\ next \in [RunThreads -> 1 .. 7] /\ owes \in [RunThreads -> BOOLEAN]
    /\ inJob \in [RunThreads -> BOOLEAN]
    /\ renderingDisabled \in BOOLEAN
    /\ \A t \in RunThreads : owes[t] => hook[t] = "restore" /\ next[t] <= 6
    /\ \A t \in RunThreads :
         InHook(t) /\ hook[t] # "disable" => renderingDisabled
    /\ hook["main"] # "over"
    /\ ending # "none" /\ hook["main"] # "running" => mainAt = "outcome" /\ hook["main"] = "restore"
    /\ mainAt \in PastJoin =>
        /\ \A t \in Joined : hook[t] = "over"
        /\ hook["main"] = "running" => next["main"] = 7
        /\ \A k \in 1 .. 6 : k < next["main"] => RestoreOrder[k] \notin marked
        /\ owes["main"] => RestoreOrder[next["main"]] \notin marked

(* Somebody is still to undo every change. *)
Owing(c) == \E t \in RunThreads : owes[t] /\ RestoreOrder[next[t]] = c
Covered(c) ==
    \/ c \in marked \/ Owing(c)
    \/ making = [change |-> c, step |-> 2]
    \/ c = "cursor" /\ drawn /\ (mainAt \notin TeardownPlaces \/ mainAt = "drop")
    \/ c = "images" /\ lateDraw

ChangesInv ==
    /\ \A c \in altered : Covered(c)
    /\ mainAt = "unmark" => "mouse" \notin altered /\ making = NoChange
    /\ kitty => "images" \in marked \/ renderingDisabled \/ mainAt \in TeardownPlaces
    /\ mainAt \in Starting => ~kitty

(* Why it ends. *)
EndInv ==
    /\ stopRequested \in BOOLEAN /\ fatalRequested \in BOOLEAN /\ quitPressed \in BOOLEAN
    /\ firstSignal \in Nat /\ caught \in Nat
    /\ listener \in {<<>>, <<"record", "request", "wake">>, <<"request", "wake">>, <<"wake">>}
    /\ listener # <<>> => caught # NoSignal
    /\ listener \in {<<"request", "wake">>, <<"wake">>} => firstSignal # NoSignal
    /\ stopRequested => quitPressed \/ firstSignal # NoSignal
    /\ ending = "requested" => stopRequested
    /\ \A t \in RunThreads : InHook(t) => t \in fatal
    /\ fatalRequested => fatal # {}
    /\ "main" \in fatal => InHook("main") \/ ending = "panicked"
    /\ ending = "panicked" => "main" \in fatal
    /\ ending = "worker" => fatal \ {"main"} # {}
    /\ outcome = "signalled" => firstSignal # NoSignal
    /\ mainAt # "over" => outcome \in {"none", "completed", "signalled"}
    /\ mainAt \in {"close", "unlock"} /\ ending = "requested" /\ ~quitPressed => outcome = "signalled"
    /\ mainAt \in {"close", "unlock", "over"} => outcome # "none"
    /\ mainAt = "over" => ExitIsTrue

LifeInv == RunInv /\ HooksInv /\ ChangesInv /\ EndInv


(* The stage after a stage is one. *)
LEMMA AfterIs ==
  ASSUME NEW stage \in {"lock", "stderr", "runtime", "raw", "alternate", "cursor", "mouse",
                          "images"}
  PROVE  After(stage) \in {"stderr", "runtime", "raw", "alternate", "cursor", "mouse",
                           "images", "loop"}
<1>1. Len(Startup) = 9
  BY DEF Startup
<1>2. \E k \in 1 .. Len(Startup) - 1 : Startup[k] = stage
  BY <1>1 DEF Startup
<1>3. PICK k \in 1 .. 8 : After(stage) = Startup[1 + k] /\ Startup[k] = stage
  BY <1>1, <1>2 DEF After
<1> QED BY <1>3 DEF Startup

(* Everything a run changes is in the order of the restoration. *)
LEMMA OrderIs ==
  /\ Len(RestoreOrder) = 6
  /\ \A k \in 1 .. 6 : RestoreOrder[k] \in Undoable
  /\ \A c \in Undoable : \E k \in 1 .. 6 : RestoreOrder[k] = c
BY DEF RestoreOrder, Undoable

(* The invariant is inductive: every step keeps it.                           *)
LEMMA LifeStep == LifeInv /\ [LifeNext]_LifeVars => LifeInv'
<1> SUFFICES ASSUME LifeInv, [LifeNext]_LifeVars PROVE LifeInv'
  OBVIOUS
<1> USE LifecycleAssumption, OrderIs, AfterIs DEF Main, Picture, KeyState,
    Held, Terminal, RunFlags, Hooks, Listening, LifeVars, MainStep, HookStep,
    EndsAs, LoopTo, InLoop, MainRuns, AtStage, TearsDown, TeardownStep, Advance,
    RunInterrupted, EndsInterrupted, InHook, Undoable, Starting, TeardownPlaces,
    PastJoin, HookStates, TerminalChanges, NoChange, NoSignal, Stages, Entering, Alive,
    Owing, Covered, Startup
<1>0. RunInv /\ HooksInv /\ ChangesInv /\ EndInv
  BY DEF LifeInv
<1>1. CASE StageCheck
  <2> USE <1>1
  <2>1. RunInv'
    BY ZenonT(60), <1>0 DEF StageCheck, RunInv, HooksInv, RunThreads, After
  <2>2. HooksInv'
    BY SMTT(60), <1>0 DEF StageCheck, RunInv, HooksInv, RunThreads, After
  <2>3. ChangesInv'
    <3>1. CASE EndsInterrupted
      BY <1>0, <3>1 DEF StageCheck, RunInv, HooksInv, ChangesInv, RunThreads
    <3>2. CASE ~RunInterrupted
      <4>1. /\ UNCHANGED <<altered, marked, owes, next, making, drawn, lateDraw, kitty,
                          renderingDisabled, ending>>
            /\ making = NoChange /\ mainAt \in Stages /\ mainAt' = IF mainAt = "loop" THEN "input" ELSE mainAt
        BY <3>2 DEF StageCheck
      <4>2. \A c \in altered : Covered(c) => Covered(c)'
        BY <4>1
      <4> QED BY <1>0, <4>1, <4>2 DEF ChangesInv
    <3> QED BY <3>1, <3>2 DEF StageCheck
  <2>4. EndInv'
    <3>1. CASE EndsInterrupted /\ fatalRequested
      BY <1>0, <3>1 DEF StageCheck, RunInv, HooksInv, EndInv, RunThreads
    <3>2. CASE EndsInterrupted /\ ~fatalRequested
      BY <1>0, <3>2 DEF StageCheck, RunInv, HooksInv, EndInv, RunThreads
    <3>3. CASE ~RunInterrupted
      <4>1. mainAt \notin {"close", "unlock", "over"} /\ mainAt' \notin {"close", "unlock", "over"}
        BY <1>0, <3>3 DEF StageCheck
      <4> QED BY <1>0, <3>3, <4>1 DEF StageCheck, EndInv
    <3> QED BY <3>1, <3>2, <3>3 DEF StageCheck
  <2> QED BY <2>1, <2>2, <2>3, <2>4 DEF LifeInv
<1>2. CASE StageFails
  <2> USE <1>2
  <2>1. RunInv'
    BY <1>0 DEF StageFails, RunInv, HooksInv, RunThreads, After
  <2>2. HooksInv'
    BY <1>0 DEF StageFails, RunInv, HooksInv, RunThreads, After
  <2>3. ChangesInv'
    BY SMTT(60), <1>0 DEF StageFails, RunInv, HooksInv, ChangesInv, RunThreads, After
  <2>4. EndInv'
    BY <1>0 DEF StageFails, RunInv, HooksInv, EndInv, RunThreads, After
  <2> QED BY <2>1, <2>2, <2>3, <2>4 DEF LifeInv
<1>3. CASE AcquireLock
  <2> USE <1>3
  <2>1. RunInv'
    BY <1>0 DEF AcquireLock, RunInv, HooksInv, RunThreads, After
  <2>2. HooksInv'
    BY <1>0 DEF AcquireLock, RunInv, HooksInv, RunThreads, After
  <2>3. ChangesInv'
    BY SMTT(60), <1>0 DEF AcquireLock, RunInv, HooksInv, ChangesInv, RunThreads, After
  <2>4. EndInv'
    BY ZenonT(60), <1>0 DEF AcquireLock, RunInv, HooksInv, EndInv, RunThreads, After
  <2> QED BY <2>1, <2>2, <2>3, <2>4 DEF LifeInv
<1>4. CASE StartRuntime
  <2> USE <1>4
  <2>1. RunInv'
    BY <1>0 DEF StartRuntime, RunInv, HooksInv, RunThreads, After
  <2>2. HooksInv'
    BY SMTT(60), <1>0 DEF StartRuntime, RunInv, HooksInv, RunThreads, After
  <2>3. ChangesInv'
    BY SMTT(60), <1>0 DEF StartRuntime, RunInv, HooksInv, ChangesInv, RunThreads, After
  <2>4. EndInv'
    BY ZenonT(60), <1>0 DEF StartRuntime, RunInv, HooksInv, EndInv, RunThreads, After
  <2> QED BY <2>1, <2>2, <2>3, <2>4 DEF LifeInv
<1>5. CASE StartChange
  <2> USE <1>5
  <2>1. RunInv'
    BY SMTT(60), <1>0 DEF StartChange, RunInv, HooksInv, RunThreads, After
  <2>2. HooksInv'
    BY SMTT(60), <1>0 DEF StartChange, RunInv, HooksInv, RunThreads, After
  <2>3. ChangesInv'
    BY SMTT(60), <1>0 DEF StartChange, RunInv, HooksInv, ChangesInv, RunThreads, After
  <2>4. EndInv'
    <3>1. mainAt \notin {"close", "unlock", "over"} /\ mainAt' \notin {"close", "unlock", "over"}
      BY DEF StartChange
    <3> QED BY <1>0, <3>1 DEF StartChange, EndInv
  <2> QED BY <2>1, <2>2, <2>3, <2>4 DEF LifeInv
<1>6. CASE SkipMouse
  <2> USE <1>6
  <2>1. RunInv'
    BY <1>0 DEF SkipMouse, RunInv, HooksInv, RunThreads, After
  <2>2. HooksInv'
    BY <1>0 DEF SkipMouse, RunInv, HooksInv, RunThreads, After
  <2>3. ChangesInv'
    BY SMTT(60), <1>0 DEF SkipMouse, RunInv, HooksInv, ChangesInv, RunThreads, After
  <2>4. EndInv'
    BY SMTT(60), <1>0 DEF SkipMouse, RunInv, HooksInv, EndInv, RunThreads, After
  <2> QED BY <2>1, <2>2, <2>3, <2>4 DEF LifeInv
<1>7. CASE FindProtocol
  <2> USE <1>7
  <2>1. RunInv'
    BY <1>0 DEF FindProtocol, RunInv, HooksInv, RunThreads, After
  <2>2. HooksInv'
    BY <1>0 DEF FindProtocol, RunInv, HooksInv, RunThreads, After
  <2>3. ChangesInv'
    BY <1>0 DEF FindProtocol, RunInv, HooksInv, ChangesInv, RunThreads, After
  <2>4. EndInv'
    BY <1>0 DEF FindProtocol, RunInv, HooksInv, EndInv, RunThreads, After
  <2> QED BY <2>1, <2>2, <2>3, <2>4 DEF LifeInv
<1>8. CASE MakeChange
  <2> USE <1>8
  <2>1. RunInv'
    BY SMTT(60), <1>0 DEF MakeChange, RunInv, HooksInv, RunThreads, After
  <2>2. HooksInv'
    BY <1>0 DEF MakeChange, RunInv, HooksInv, RunThreads, After
  <2>3. ChangesInv'
    BY <1>0 DEF MakeChange, RunInv, HooksInv, ChangesInv, RunThreads, After
  <2>4. EndInv'
    BY <1>0 DEF MakeChange, RunInv, HooksInv, EndInv, RunThreads, After
  <2> QED BY <2>1, <2>2, <2>3, <2>4 DEF LifeInv
<1>9. CASE NoInput
  <2> USE <1>9
  <2>1. RunInv'
    BY <1>0 DEF NoInput, RunInv, HooksInv, RunThreads, After
  <2>2. HooksInv'
    BY <1>0 DEF NoInput, RunInv, HooksInv, RunThreads, After
  <2>3. ChangesInv'
    BY <1>0 DEF NoInput, RunInv, HooksInv, ChangesInv, RunThreads, After
  <2>4. EndInv'
    BY <1>0 DEF NoInput, RunInv, HooksInv, EndInv, RunThreads, After
  <2> QED BY <2>1, <2>2, <2>3, <2>4 DEF LifeInv
<1>10. CASE QuitKey
  <2> USE <1>10
  <2>1. RunInv'
    BY <1>0 DEF QuitKey, RunInv, HooksInv, RunThreads, After
  <2>2. HooksInv'
    BY <1>0 DEF QuitKey, RunInv, HooksInv, RunThreads, After
  <2>3. ChangesInv'
    BY <1>0 DEF QuitKey, RunInv, HooksInv, ChangesInv, RunThreads, After
  <2>4. EndInv'
    BY <1>0 DEF QuitKey, RunInv, HooksInv, EndInv, RunThreads, After
  <2> QED BY <2>1, <2>2, <2>3, <2>4 DEF LifeInv
<1>11. CASE EnableMouse
  <2> USE <1>11
  <2>1. RunInv'
    BY <1>0 DEF EnableMouse, RunInv, HooksInv, RunThreads, After
  <2>2. HooksInv'
    BY <1>0 DEF EnableMouse, RunInv, HooksInv, RunThreads, After
  <2>3. ChangesInv'
    BY <1>0 DEF EnableMouse, RunInv, HooksInv, ChangesInv, RunThreads, After
  <2>4. EndInv'
    BY <1>0 DEF EnableMouse, RunInv, HooksInv, EndInv, RunThreads, After
  <2> QED BY <2>1, <2>2, <2>3, <2>4 DEF LifeInv
<1>12. CASE DisableMouse
  <2> USE <1>12
  <2>1. RunInv'
    BY <1>0 DEF DisableMouse, RunInv, HooksInv, RunThreads, After
  <2>2. HooksInv'
    BY <1>0 DEF DisableMouse, RunInv, HooksInv, RunThreads, After
  <2>3. ChangesInv'
    BY <1>0 DEF DisableMouse, RunInv, HooksInv, ChangesInv, RunThreads, After
  <2>4. EndInv'
    BY <1>0 DEF DisableMouse, RunInv, HooksInv, EndInv, RunThreads, After
  <2> QED BY <2>1, <2>2, <2>3, <2>4 DEF LifeInv
<1>13. CASE UnmarkMouse
  <2> USE <1>13
  <2>1. RunInv'
    BY <1>0 DEF UnmarkMouse, RunInv, HooksInv, RunThreads, After
  <2>2. HooksInv'
    BY <1>0 DEF UnmarkMouse, RunInv, HooksInv, RunThreads, After
  <2>3. ChangesInv'
    BY <1>0 DEF UnmarkMouse, RunInv, HooksInv, ChangesInv, RunThreads, After
  <2>4. EndInv'
    BY <1>0 DEF UnmarkMouse, RunInv, HooksInv, EndInv, RunThreads, After
  <2> QED BY <2>1, <2>2, <2>3, <2>4 DEF LifeInv
<1>14. CASE LoopInterrupted
  <2> USE <1>14
  <2>1. RunInv'
    BY <1>0 DEF LoopInterrupted, RunInv, HooksInv, RunThreads, After
  <2>2. HooksInv'
    BY <1>0 DEF LoopInterrupted, RunInv, HooksInv, RunThreads, After
  <2>3. ChangesInv'
    BY <1>0 DEF LoopInterrupted, RunInv, HooksInv, ChangesInv, RunThreads, After
  <2>4. EndInv'
    BY <1>0 DEF LoopInterrupted, RunInv, HooksInv, EndInv, RunThreads, After
  <2> QED BY <2>1, <2>2, <2>3, <2>4 DEF LifeInv
<1>15. CASE LoopContinues
  <2> USE <1>15
  <2>1. RunInv'
    BY <1>0 DEF LoopContinues, RunInv, HooksInv, RunThreads, After
  <2>2. HooksInv'
    BY <1>0 DEF LoopContinues, RunInv, HooksInv, RunThreads, After
  <2>3. ChangesInv'
    BY <1>0 DEF LoopContinues, RunInv, HooksInv, ChangesInv, RunThreads, After
  <2>4. EndInv'
    BY <1>0 DEF LoopContinues, RunInv, HooksInv, EndInv, RunThreads, After
  <2> QED BY <2>1, <2>2, <2>3, <2>4 DEF LifeInv
<1>16. CASE ClearPlacement
  <2> USE <1>16
  <2>1. RunInv'
    BY <1>0 DEF ClearPlacement, RunInv, HooksInv, RunThreads, After
  <2>2. HooksInv'
    BY <1>0 DEF ClearPlacement, RunInv, HooksInv, RunThreads, After
  <2>3. ChangesInv'
    BY <1>0 DEF ClearPlacement, RunInv, HooksInv, ChangesInv, RunThreads, After
  <2>4. EndInv'
    BY SMTT(60), <1>0 DEF ClearPlacement, RunInv, HooksInv, EndInv, RunThreads, After
  <2> QED BY <2>1, <2>2, <2>3, <2>4 DEF LifeInv
<1>17. CASE LastLook
  <2> USE <1>17
  <2>1. RunInv'
    BY <1>0 DEF LastLook, RunInv, HooksInv, RunThreads, After
  <2>2. HooksInv'
    BY <1>0 DEF LastLook, RunInv, HooksInv, RunThreads, After
  <2>3. ChangesInv'
    BY <1>0 DEF LastLook, RunInv, HooksInv, ChangesInv, RunThreads, After
  <2>4. EndInv'
    BY <1>0 DEF LastLook, RunInv, HooksInv, EndInv, RunThreads, After
  <2> QED BY <2>1, <2>2, <2>3, <2>4 DEF LifeInv
<1>18. CASE Draw
  <2> USE <1>18
  <2>1. RunInv'
    BY <1>0 DEF Draw, RunInv, HooksInv, RunThreads, After
  <2>2. HooksInv'
    BY <1>0 DEF Draw, RunInv, HooksInv, RunThreads, After
  <2>3. ChangesInv'
    BY <1>0 DEF Draw, RunInv, HooksInv, ChangesInv, RunThreads, After
  <2>4. EndInv'
    BY <1>0 DEF Draw, RunInv, HooksInv, EndInv, RunThreads, After
  <2> QED BY <2>1, <2>2, <2>3, <2>4 DEF LifeInv
<1>19. CASE LoopFails
  <2> USE <1>19
  <2>1. RunInv'
    BY <1>0 DEF LoopFails, RunInv, HooksInv, RunThreads, After
  <2>2. HooksInv'
    BY <1>0 DEF LoopFails, RunInv, HooksInv, RunThreads, After
  <2>3. ChangesInv'
    BY <1>0 DEF LoopFails, RunInv, HooksInv, ChangesInv, RunThreads, After
  <2>4. EndInv'
    BY ZenonT(60), <1>0 DEF LoopFails, RunInv, HooksInv, EndInv, RunThreads, After
  <2> QED BY <2>1, <2>2, <2>3, <2>4 DEF LifeInv
<1>20. CASE DropTerminal
  <2> USE <1>20
  <2>1. RunInv'
    BY <1>0 DEF DropTerminal, RunInv, HooksInv, RunThreads, After
  <2>2. HooksInv'
    BY <1>0 DEF DropTerminal, RunInv, HooksInv, RunThreads, After
  <2>3. ChangesInv'
    BY <1>0 DEF DropTerminal, RunInv, HooksInv, ChangesInv, RunThreads, After
  <2>4. EndInv'
    BY <1>0 DEF DropTerminal, RunInv, HooksInv, EndInv, RunThreads, After
  <2> QED BY <2>1, <2>2, <2>3, <2>4 DEF LifeInv
<1>21. CASE ShutDownRuntime
  <2> USE <1>21
  <2>1. RunInv'
    BY <1>0 DEF ShutDownRuntime, RunInv, HooksInv, RunThreads, After
  <2>2. HooksInv'
    BY <1>0 DEF ShutDownRuntime, RunInv, HooksInv, RunThreads, After
  <2>3. ChangesInv'
    BY <1>0 DEF ShutDownRuntime, RunInv, HooksInv, ChangesInv, RunThreads, After
  <2>4. EndInv'
    BY <1>0 DEF ShutDownRuntime, RunInv, HooksInv, EndInv, RunThreads, After
  <2> QED BY <2>1, <2>2, <2>3, <2>4 DEF LifeInv
<1>22. CASE ReadOutcome
  <2> USE <1>22
  <2>1. RunInv'
    BY <1>0 DEF ReadOutcome, RunInv, HooksInv, RunThreads, After
  <2>2. HooksInv'
    BY <1>0 DEF ReadOutcome, RunInv, HooksInv, RunThreads, After
  <2>3. ChangesInv'
    BY <1>0 DEF ReadOutcome, RunInv, HooksInv, ChangesInv, RunThreads, After
  <2>4. EndInv'
    BY <1>0 DEF ReadOutcome, RunInv, HooksInv, EndInv, RunThreads, After
  <2> QED BY <2>1, <2>2, <2>3, <2>4 DEF LifeInv
<1>23. CASE CloseSignals
  <2> USE <1>23
  <2>1. RunInv'
    BY <1>0 DEF CloseSignals, RunInv, HooksInv, RunThreads, After
  <2>2. HooksInv'
    BY <1>0 DEF CloseSignals, RunInv, HooksInv, RunThreads, After
  <2>3. ChangesInv'
    BY <1>0 DEF CloseSignals, RunInv, HooksInv, ChangesInv, RunThreads, After
  <2>4. EndInv'
    BY <1>0 DEF CloseSignals, RunInv, HooksInv, EndInv, RunThreads, After
  <2> QED BY <2>1, <2>2, <2>3, <2>4 DEF LifeInv
<1>24. CASE Unlock
  <2> USE <1>24
  <2>1. RunInv'
    BY <1>0 DEF Unlock, RunInv, HooksInv, RunThreads, After
  <2>2. HooksInv'
    BY <1>0 DEF Unlock, RunInv, HooksInv, RunThreads, After
  <2>3. ChangesInv'
    BY <1>0 DEF Unlock, RunInv, HooksInv, ChangesInv, RunThreads, After
  <2>4. EndInv'
    <3>1. /\ mainAt = "unlock" /\ mainAt' = "over" /\ hook["main"] = "running"
          /\ UNCHANGED <<ending, quitPressed, firstSignal, caught, listener, stopRequested,
                        fatalRequested, fatal, hook>>
      BY DEF Unlock
    <3>2. /\ outcome \in {"completed", "signalled"}
          /\ ending \in {"failed", "requested", "worker", "panicked"}
      BY <1>0, <3>1 DEF RunInv, EndInv
    <3>3. CASE ending = "panicked"
      <4>1. outcome' = "panicked"
        BY <3>3 DEF Unlock
      <4> QED BY <1>0, <3>1, <3>2, <3>3, <4>1 DEF EndInv, ExitIsTrue
    <3>4. CASE ending = "worker"
      <4>1. outcome' = "workerPanicked"
        BY <3>4 DEF Unlock
      <4> QED BY <1>0, <3>1, <3>2, <3>4, <4>1 DEF EndInv, ExitIsTrue
    <3>5. CASE ending = "failed"
      <4>1. outcome' = IF outcome = "completed" THEN "error" ELSE outcome
        BY <3>5 DEF Unlock
      <4> QED BY <1>0, <3>1, <3>2, <3>5, <4>1 DEF EndInv, ExitIsTrue
    <3>6. CASE ending = "requested"
      <4>1. outcome' = outcome
        BY <3>6 DEF Unlock
      <4> QED BY <1>0, <3>1, <3>2, <3>6, <4>1 DEF EndInv, ExitIsTrue
    <3> QED BY <3>2, <3>3, <3>4, <3>5, <3>6
  <2> QED BY <2>1, <2>2, <2>3, <2>4 DEF LifeInv
<1>25. ASSUME NEW t \in RunThreads, EnterJob(t) PROVE LifeInv'
  <2> USE <1>25
  <2>1. RunInv'
    BY <1>0 DEF EnterJob, RunInv, HooksInv, RunThreads, After
  <2>2. HooksInv'
    BY <1>0 DEF EnterJob, RunInv, HooksInv, RunThreads, After
  <2>3. ChangesInv'
    BY <1>0 DEF EnterJob, RunInv, HooksInv, ChangesInv, RunThreads, After
  <2>4. EndInv'
    BY <1>0 DEF EnterJob, RunInv, HooksInv, EndInv, RunThreads, After
  <2> QED BY <2>1, <2>2, <2>3, <2>4 DEF LifeInv
<1>26. ASSUME NEW t \in RunThreads, LeaveJob(t) PROVE LifeInv'
  <2> USE <1>26
  <2>1. RunInv'
    BY <1>0 DEF LeaveJob, RunInv, HooksInv, RunThreads, After
  <2>2. HooksInv'
    BY <1>0 DEF LeaveJob, RunInv, HooksInv, RunThreads, After
  <2>3. ChangesInv'
    BY <1>0 DEF LeaveJob, RunInv, HooksInv, ChangesInv, RunThreads, After
  <2>4. EndInv'
    BY <1>0 DEF LeaveJob, RunInv, HooksInv, EndInv, RunThreads, After
  <2> QED BY <2>1, <2>2, <2>3, <2>4 DEF LifeInv
<1>27. ASSUME NEW t \in RunThreads, ThreadPanics(t) PROVE LifeInv'
  <2> USE <1>27
  <2>1. RunInv'
    BY <1>0 DEF ThreadPanics, RunInv, HooksInv, RunThreads, After
  <2>2. HooksInv'
    <3>1. CASE inJob[t]
      <4>1. /\ inJob' = [inJob EXCEPT ![t] = FALSE]
            /\ UNCHANGED <<hook, mainAt, ending, next, owes, renderingDisabled, marked>>
        BY <3>1 DEF ThreadPanics
      <4>2. inJob' \in [RunThreads -> BOOLEAN]
        BY <1>0, <4>1 DEF HooksInv
      <4> QED BY <1>0, <4>1, <4>2 DEF HooksInv
    <3>2. CASE ~inJob[t]
      <4>1. hook' = [hook EXCEPT ![t] = "disable"] /\ hook[t] = "running" /\ UNCHANGED <<mainAt, ending, next, owes, inJob, renderingDisabled, marked>>
        BY <3>2 DEF ThreadPanics
      <4>2. t = "main" => ending = "none"
        BY DEF ThreadPanics
      <4>3. t \in Joined => mainAt \notin PastJoin
        BY <1>0, <4>1 DEF RunInv, HooksInv
      <4> QED BY <1>0, <4>1, <4>2, <4>3 DEF RunInv, HooksInv, RunThreads
    <3> QED BY <3>1, <3>2
  <2>3. ChangesInv'
    BY <1>0 DEF ThreadPanics, RunInv, HooksInv, ChangesInv, RunThreads, After
  <2>4. EndInv'
    BY <1>0 DEF ThreadPanics, RunInv, HooksInv, EndInv, RunThreads, After
  <2> QED BY <2>1, <2>2, <2>3, <2>4 DEF LifeInv
<1>28. ASSUME NEW t \in RunThreads, DisableRendering(t) PROVE LifeInv'
  <2> USE <1>28
  <2>1. RunInv'
    BY <1>0 DEF DisableRendering, RunInv, HooksInv, RunThreads, After
  <2>2. HooksInv'
    BY <1>0 DEF DisableRendering, RunInv, HooksInv, RunThreads, After
  <2>3. ChangesInv'
    BY <1>0 DEF DisableRendering, RunInv, HooksInv, ChangesInv, RunThreads, After
  <2>4. EndInv'
    BY <1>0 DEF DisableRendering, RunInv, HooksInv, EndInv, RunThreads, After
  <2> QED BY <2>1, <2>2, <2>3, <2>4 DEF LifeInv
<1>29. ASSUME NEW t \in RunThreads, RequestFatal(t) PROVE LifeInv'
  <2> USE <1>29
  <2>1. RunInv'
    BY <1>0 DEF RequestFatal, RunInv, HooksInv, RunThreads, After
  <2>2. HooksInv'
    BY <1>0 DEF RequestFatal, RunInv, HooksInv, RunThreads, After
  <2>3. ChangesInv'
    BY <1>0 DEF RequestFatal, RunInv, HooksInv, ChangesInv, RunThreads, After
  <2>4. EndInv'
    BY <1>0 DEF RequestFatal, RunInv, HooksInv, EndInv, RunThreads, After
  <2> QED BY <2>1, <2>2, <2>3, <2>4 DEF LifeInv
<1>30. ASSUME NEW t \in RunThreads, TakeMark(t) PROVE LifeInv'
  <2> USE <1>30
  <2>1. RunInv'
    <3>1. /\ hook[t] = "restore" /\ next[t] \in 1 .. 6 /\ ~owes[t] /\ t \in RunThreads
          /\ RestoreOrder[next[t]] \in Undoable
          /\ UNCHANGED <<mainAt, ending, making, altered, kitty, drawn, lateDraw,
                         renderingDisabled, hook, inJob>>
      BY <1>0, OrderIs DEF TakeMark, HooksInv
    <3>2. CASE RestoreOrder[next[t]] \in marked
      <4>1. /\ marked' = marked \ {RestoreOrder[next[t]]}
            /\ owes' = [owes EXCEPT ![t] = TRUE] /\ next' = next
        BY <3>2 DEF TakeMark
      <4> QED BY ZenonT(60), <1>0, <3>1, <3>2, <4>1 DEF RunInv, HooksInv, RunThreads
    <3>3. CASE RestoreOrder[next[t]] \notin marked
      <4>1. /\ marked' = marked /\ owes' = owes
            /\ next' = [next EXCEPT ![t] = @ + 1]
        BY <3>3 DEF TakeMark
      <4> QED BY <1>0, <3>1, <3>3, <4>1 DEF RunInv, HooksInv, RunThreads
    <3> QED BY <3>2, <3>3
  <2>2. HooksInv'
    <3>1. /\ hook[t] = "restore" /\ next[t] \in 1 .. 6 /\ ~owes[t] /\ t \in RunThreads
          /\ RestoreOrder[next[t]] \in Undoable
          /\ UNCHANGED <<mainAt, ending, making, altered, kitty, drawn, lateDraw,
                         renderingDisabled, hook, inJob>>
      BY <1>0, OrderIs DEF TakeMark, HooksInv
    <3>2. CASE RestoreOrder[next[t]] \in marked
      <4>1. /\ marked' = marked \ {RestoreOrder[next[t]]}
            /\ owes' = [owes EXCEPT ![t] = TRUE] /\ next' = next
        BY <3>2 DEF TakeMark
      <4> QED BY <1>0, <3>1, <3>2, <4>1 DEF RunInv, HooksInv, RunThreads
    <3>3. CASE RestoreOrder[next[t]] \notin marked
      <4>1. /\ marked' = marked /\ owes' = owes
            /\ next' = [next EXCEPT ![t] = @ + 1]
        BY <3>3 DEF TakeMark
      <4> QED BY <1>0, <3>1, <3>3, <4>1 DEF RunInv, HooksInv, RunThreads
    <3> QED BY <3>2, <3>3
  <2>3. ChangesInv'
    BY <1>0 DEF TakeMark, RunInv, HooksInv, ChangesInv, RunThreads, After
  <2>4. EndInv'
    BY <1>0 DEF TakeMark, RunInv, HooksInv, EndInv, RunThreads, After
  <2> QED BY <2>1, <2>2, <2>3, <2>4 DEF LifeInv
<1>31. ASSUME NEW t \in RunThreads, Undo(t) PROVE LifeInv'
  <2> USE <1>31
  <2>1. RunInv'
    BY ZenonT(60), <1>0 DEF Undo, RunInv, HooksInv, RunThreads, After
  <2>2. HooksInv'
    BY <1>0 DEF Undo, RunInv, HooksInv, RunThreads, After
  <2>3. ChangesInv'
    BY <1>0 DEF Undo, RunInv, HooksInv, ChangesInv, RunThreads, After
  <2>4. EndInv'
    BY <1>0 DEF Undo, RunInv, HooksInv, EndInv, RunThreads, After
  <2> QED BY <2>1, <2>2, <2>3, <2>4 DEF LifeInv
<1>32. ASSUME NEW t \in RunThreads, Restored(t) PROVE LifeInv'
  <2> USE <1>32
  <2>1. RunInv'
    BY <1>0 DEF Restored, RunInv, HooksInv, RunThreads, After
  <2>2. HooksInv'
    BY SMTT(60), <1>0 DEF Restored, RunInv, HooksInv, RunThreads, After
  <2>3. ChangesInv'
    BY <1>0 DEF Restored, RunInv, HooksInv, ChangesInv, RunThreads, After
  <2>4. EndInv'
    BY <1>0 DEF Restored, RunInv, HooksInv, EndInv, RunThreads, After
  <2> QED BY <2>1, <2>2, <2>3, <2>4 DEF LifeInv
<1>33. CASE SignalArrives
  <2> USE <1>33
  <2>1. RunInv'
    BY <1>0 DEF SignalArrives, RunInv, HooksInv, RunThreads, After
  <2>2. HooksInv'
    BY <1>0 DEF SignalArrives, RunInv, HooksInv, RunThreads, After
  <2>3. ChangesInv'
    BY <1>0 DEF SignalArrives, RunInv, HooksInv, ChangesInv, RunThreads, After
  <2>4. EndInv'
    <3>1. caught' \in Nat /\ caught' # 0 /\ listener' = <<"record", "request", "wake">>
      BY DEF SignalArrives, ListenerSteps
    <3>2. UNCHANGED <<mainAt, ending, outcome, stopRequested, fatalRequested, quitPressed,
                      firstSignal, hook, fatal>>
      BY DEF SignalArrives
    <3> QED BY <1>0, <3>1, <3>2 DEF EndInv, ExitIsTrue
  <2> QED BY <2>1, <2>2, <2>3, <2>4 DEF LifeInv
<1>34. CASE ListenerStep
  <2> USE <1>34
  <2>1. RunInv'
    BY SMTT(60), <1>0 DEF ListenerStep, RunInv, HooksInv, RunThreads, After
  <2>2. HooksInv'
    BY <1>0 DEF ListenerStep, RunInv, HooksInv, RunThreads, After
  <2>3. ChangesInv'
    BY <1>0 DEF ListenerStep, RunInv, HooksInv, ChangesInv, RunThreads, After
  <2>4. EndInv'
    <3>1. UNCHANGED <<mainAt, ending, outcome, fatalRequested, quitPressed, caught, hook,
                      fatal>>
      BY DEF ListenerStep
    <3>2. /\ listener # <<>> /\ listener' = Tail(listener)
          /\ firstSignal' = IF Head(listener) = "record" /\ firstSignal = 0
                              THEN caught ELSE firstSignal
          /\ stopRequested' = (stopRequested \/ Head(listener) = "request")
      BY DEF ListenerStep
    <3>3. CASE listener = <<"record", "request", "wake">>
      <4>1. Head(listener) = "record" /\ Tail(listener) = <<"request", "wake">>
        BY <3>3
      <4> QED BY <1>0, <3>1, <3>2, <4>1 DEF EndInv, ExitIsTrue
    <3>4. CASE listener = <<"request", "wake">>
      <4>1. Head(listener) = "request" /\ Tail(listener) = <<"wake">>
        BY <3>4
      <4> QED BY <1>0, <3>1, <3>2, <3>4, <4>1 DEF EndInv, ExitIsTrue
    <3>5. CASE listener = <<"wake">>
      <4>1. Head(listener) = "wake" /\ Tail(listener) = <<>>
        BY <3>5
      <4> QED BY <1>0, <3>1, <3>2, <3>5, <4>1 DEF EndInv, ExitIsTrue
    <3> QED BY <1>0, <3>2, <3>3, <3>4, <3>5 DEF EndInv
  <2> QED BY <2>1, <2>2, <2>3, <2>4 DEF LifeInv
<1>35. CASE UNCHANGED LifeVars
  BY <1>0, <1>35 DEF LifeInv, RunInv, HooksInv, ChangesInv, EndInv, ExitIsTrue
<1> QED
  BY <1>1, <1>2, <1>3, <1>4, <1>5, <1>6, <1>7, <1>8, <1>9, <1>10, <1>11, <1>12,
      <1>13, <1>14, <1>15, <1>16, <1>17, <1>18, <1>19, <1>20, <1>21, <1>22,
      <1>23, <1>24, <1>25, <1>26, <1>27, <1>28, <1>29, <1>30, <1>31, <1>32,
      <1>33, <1>34, <1>35 DEF LifeNext

(* It holds before anything was changed. *)
LEMMA LifeStart == LifeInit => LifeInv
<1> SUFFICES ASSUME LifeInit PROVE LifeInv
  OBVIOUS
<1> USE LifecycleAssumption DEF LifeInit, RunThreads
<1>1. RunInv
  BY DEF RunInv, Undoable, NoChange, TeardownPlaces
<1>2. HooksInv
  <2>1. /\ hook \in [RunThreads -> HookStates] /\ next \in [RunThreads -> 1 .. 7]
        /\ owes \in [RunThreads -> BOOLEAN] /\ inJob \in [RunThreads -> BOOLEAN]
    BY DEF HookStates
  <2>2. \A t \in RunThreads : hook[t] = "running" /\ owes[t] = FALSE
    OBVIOUS
  <2>3. mainAt = "lock" /\ ending = "none" /\ "main" \in RunThreads /\ renderingDisabled \in BOOLEAN
    OBVIOUS
  <2> QED BY <2>1, <2>2, <2>3 DEF HooksInv, InHook, PastJoin
<1>3. ChangesInv
  BY DEF ChangesInv, Starting
<1>4. EndInv
  BY DEF EndInv, InHook, NoSignal
<1> QED BY <1>1, <1>2, <1>3, <1>4 DEF LifeInv

(* It holds in every reachable state. *)
LEMMA LifeInvariant == LifeSpec => []LifeInv
BY LifeStart, LifeStep, PTL DEF LifeSpec

(* Whatever fails, panics or is asked for, and whenever: a run that is over   *)
(* has put back what it changed, but for what a thread nothing waits for died *)
(* holding or a frame drawn after a panic left, and it reports how it went.   *)
THEOREM RunLeavesAsFound == LifeSpec => []LeavesAsFound
<1>1. LifeInv => LeavesAsFound
  <2> SUFFICES ASSUME LifeInv, mainAt = "over" PROVE LeavesAsFound
    BY DEF LeavesAsFound, TerminalReturned, ExitIsTrue
  <2>1. marked = {} /\ making = NoChange /\ mainAt \in PastJoin /\ hook["main"] = "running"
    BY LifecycleAssumption, OrderIs DEF LifeInv, RunInv, HooksInv, PastJoin,
        TeardownPlaces, RunThreads
  <2>2. \A t \in RunThreads : owes[t] => t \in Detached
    BY <2>1, LifecycleAssumption DEF LifeInv, HooksInv, RunThreads
  <2>3. TerminalReturned
    <3>1. ASSUME NEW c \in altered
          PROVE  \/ c = "images" /\ lateDraw
                 \/ \E t \in Detached : owes[t] /\ RestoreOrder[next[t]] = c
      <4>1. Covered(c)
        BY <3>1 DEF LifeInv, ChangesInv
      <4>2. making # [change |-> c, step |-> 2]
        BY <2>1 DEF NoChange
      <4>3. Owing(c) => \E t \in Detached : owes[t] /\ RestoreOrder[next[t]] = c
        BY <2>2 DEF Owing
      <4> QED BY <2>1, <4>1, <4>2, <4>3 DEF Covered, TeardownPlaces
    <3> QED BY <3>1 DEF TerminalReturned
  <2> QED BY <2>3 DEF LifeInv, EndInv, LeavesAsFound
<1> QED BY <1>1, LifeInvariant, PTL

-----------------------------------------------------------------------------
(* MediaControls: the desktop is shown the player. *)

(* What the service last showed, and whether the desktop wrote the volume     *)
(* since.                                                                     *)
IsPublished(p) ==
    /\ p = [last |-> p.last, seq |-> p.seq, volumeWritten |-> p.volumeWritten,
            coverSeq |-> p.coverSeq, coverTaken |-> p.coverTaken, art |-> p.art]
    /\ p.volumeWritten \in BOOLEAN
    /\ p.coverTaken = LastOf(p).cover

(* What the desktop believes once the message under way has reached it. *)
Told(key) == IF bus = "tells" /\ key \in DOMAIN message THEN message[key] ELSE shell[key]

(* The one cover file there is, of the image last taken. *)
CoverInvOfDesk ==
    /\ covers = {previous} \ {NoFile}
    /\ bus \in {"waits", "tells", "gone"} /\ (bus = "gone" => covers = {})
    /\ previous # NoFile => previous.image = published.coverTaken

(* What the player is, was handed over, or its pass is due. *)
SlotInvOfDesk ==
    /\ snapshotSlot = [snapshot |-> snapshotSlot.snapshot, unread |-> snapshotSlot.unread]
    /\ snapshotSlot.unread \in BOOLEAN
    /\ passDue \in BOOLEAN
    /\ passDue \/ deskRequests # <<>> \/ seen = <<desk>>
    /\ IF snapshotSlot.unread THEN seen = <<snapshotSlot.snapshot>> ELSE published.last = seen

(* The desktop believes of each property what was last published of it, but   *)
(* for the volume it wrote itself.                                            *)
ToldInv ==
    /\ shell = [key \in DesktopKeys |-> shell[key]] /\ DOMAIN message \subseteq DesktopKeys
    /\ bus # "gone" =>
       /\ published.art = previous
       /\ published.volumeWritten => deskRequests # <<>> \/ snapshotSlot.unread
       /\ \A key \in DesktopKeys : \/ key = "volume" /\ published.volumeWritten
                            \/ Told(key) = Properties(published)[key]

DeskInv == IsPublished(published) /\ CoverInvOfDesk /\ SlotInvOfDesk /\ ToldInv

(* What is published, property by property. *)
LEMMA PropertiesAre ==
  ASSUME NEW p
  PROVE  /\ Properties(p) = [key \in DesktopKeys |-> Properties(p)[key]]
         /\ Properties(p)["metadata"] = [id |-> TrackId(p), track |-> LastOf(p).track,
                                         length |-> LastOf(p).length, art |-> p.art]
         /\ Properties(p)["seekable"] = LastOf(p).length
         /\ Properties(p)["status"] = LastOf(p).status
         /\ Properties(p)["volume"] = LastOf(p).volume
         /\ Properties(p)["shuffle"] = LastOf(p).shuffle
BY DEF Properties, DesktopKeys

(* Every step of the player, the service and the desktop keeps it. *)
LEMMA DeskStep == DeskInv /\ [DeskNext]_DeskVars => DeskInv'
<1> SUFFICES ASSUME DeskInv, [DeskNext]_DeskVars PROVE DeskInv'
  OBVIOUS
<1> USE DEF OfBus, Stirs, Asks
<1>0. IsPublished(published) /\ CoverInvOfDesk /\ SlotInvOfDesk /\ ToldInv
  BY DEF DeskInv
<1>1. CASE TrackChanges
  BY <1>0, <1>1, DeskAssumption DEF TrackChanges, DeskInv, IsPublished,
       CoverInvOfDesk, SlotInvOfDesk, ToldInv, Told
<1>2. CASE Stopped
  BY <1>0, <1>2, DeskAssumption DEF Stopped, DeskInv, IsPublished, CoverInvOfDesk,
       SlotInvOfDesk, ToldInv, Told
<1>3. CASE CoverLands
  BY <1>0, <1>3, DeskAssumption DEF CoverLands, DeskInv, IsPublished, CoverInvOfDesk,
       SlotInvOfDesk, ToldInv, Told
<1>4. CASE VolumeKeys
  BY <1>0, <1>4, DeskAssumption DEF VolumeKeys, DeskInv, IsPublished, CoverInvOfDesk,
       SlotInvOfDesk, ToldInv, Told
<1>5. CASE Pass
  <2>1. IsPublished(published)'
    BY <1>0, <1>5 DEF Pass, IsPublished
  <2>2. CoverInvOfDesk'
    BY <1>0, <1>5 DEF Pass, CoverInvOfDesk
  <2>3. SlotInvOfDesk'
    <3>1. PICK handed : \E moved \in BOOLEAN :
             /\ desk' = handed /\ deskRequests' = <<>> /\ passDue' = FALSE
             /\ IF deskRequests # <<>> \/ seen # <<handed>> \/ moved
                THEN seen' = <<handed>> /\ snapshotSlot' = [snapshot |-> handed, unread |-> TRUE]
                ELSE UNCHANGED <<seen, snapshotSlot>>
      BY <1>5 DEF Pass, WorthPublishing
    <3>2. UNCHANGED published
      BY <1>5 DEF Pass
    <3>3. CASE seen' = <<handed>> /\ snapshotSlot' = [snapshot |-> handed, unread |-> TRUE]
      BY <1>0, <3>1, <3>2, <3>3 DEF SlotInvOfDesk
    <3>4. CASE seen = <<handed>> /\ UNCHANGED <<seen, snapshotSlot>>
      <4>1. seen' = <<desk>>' /\ UNCHANGED <<snapshotSlot, seen>>
        BY <3>1, <3>4
      <4> QED BY <1>0, <3>1, <3>2, <4>1 DEF SlotInvOfDesk
    <3> QED BY <3>1, <3>3, <3>4
  <2>4. ToldInv'
    <3>1. /\ UNCHANGED <<published, previous, shell, bus, message>>
          /\ deskRequests # <<>> \/ snapshotSlot.unread => snapshotSlot'.unread
      <4>1. PICK handed : \E moved \in BOOLEAN :
               IF deskRequests # <<>> \/ seen # <<handed>> \/ moved
               THEN snapshotSlot' = [snapshot |-> handed, unread |-> TRUE]
               ELSE UNCHANGED snapshotSlot
        BY <1>5 DEF Pass, WorthPublishing
      <4>2. UNCHANGED <<published, previous, shell, bus, message>>
        BY <1>5 DEF Pass
      <4> QED BY <4>1, <4>2
    <3> QED BY <1>0, <3>1 DEF ToldInv, Told
  <2> QED BY <2>1, <2>2, <2>3, <2>4 DEF DeskInv
<1>6. CASE TakeSnapshot
  <2> DEFINE handed == snapshotSlot.snapshot
             p == Apply(handed)
  <2>1. /\ bus = "waits" /\ snapshotSlot.unread
        /\ snapshotSlot' = [snapshotSlot EXCEPT !.unread = FALSE]
        /\ IF handed.cover = p.coverTaken
           THEN published' = p /\ UNCHANGED <<previous, covers>>
           ELSE \E ok \in BOOLEAN : WritePendingCover(p, handed.cover, ok)
        /\ message' = [key \in Changed(handed) |-> Properties(published')[key]]
        /\ bus' = IF Changed(handed) = {} THEN "waits" ELSE "tells"
        /\ UNCHANGED <<desk, passDue, deskRequests, seen, shell>>
    BY <1>6 DEF TakeSnapshot
  <2>2. /\ p = [last |-> <<handed>>,
                seq |-> IF handed.track # LastOf(published).track THEN published.seq + 1
                                                               ELSE published.seq,
                volumeWritten |-> FALSE, coverSeq |-> published.coverSeq,
                coverTaken |-> published.coverTaken, art |-> published.art]
    <3> DEFINE seq == IF handed.track # LastOf(published).track THEN published.seq + 1
                      ELSE published.seq
    <3>1. p = [published EXCEPT !.last = <<handed>>, !.seq = seq, !.volumeWritten = FALSE]
      BY DEF Apply
    <3>2. PICK l, n, v, c, t, a : published = [last |-> l, seq |-> n, volumeWritten |-> v,
                                               coverSeq |-> c, coverTaken |-> t, art |-> a]
      BY <1>0 DEF IsPublished
    <3> HIDE DEF seq, p
    <3>3. p = [last |-> <<handed>>, seq |-> seq, volumeWritten |-> FALSE, coverSeq |-> published.coverSeq,
               coverTaken |-> published.coverTaken, art |-> published.art]
      BY <3>1, <3>2
    <3> QED BY <3>3 DEF seq
  <2>3. PICK taken, file :
           /\ published' = [p EXCEPT !.coverSeq = taken, !.coverTaken = handed.cover, !.art = file]
           /\ previous' = IF handed.cover = published.coverTaken THEN previous ELSE file
           /\ covers' = IF handed.cover = published.coverTaken THEN covers
                        ELSE (covers \ {previous}) \union ({file} \ {NoFile})
           /\ handed.cover = published.coverTaken => file = published.art
           /\ handed.cover # published.coverTaken /\ file # NoFile => file.image = handed.cover
    <3>1. p.coverTaken = published.coverTaken /\ p.art = published.art
      BY <2>2
    <3>2. CASE handed.cover = published.coverTaken
      <4>1. published' = [p EXCEPT !.coverSeq = p.coverSeq, !.coverTaken = handed.cover,
                                   !.art = published.art]
        BY <2>1, <2>2, <3>1, <3>2
      <4> QED BY <2>1, <3>1, <3>2, <4>1
    <3>3. CASE handed.cover # published.coverTaken
      <4>1. PICK ok \in BOOLEAN : WritePendingCover(p, handed.cover, ok)
        BY <2>1, <3>1, <3>3
      <4> DEFINE seq == IF handed.cover = NoImage THEN p.coverSeq ELSE p.coverSeq + 1
                 file == IF handed.cover # NoImage /\ ok
                         THEN [seq |-> seq, image |-> handed.cover] ELSE NoFile
      <4>2. /\ published' = [p EXCEPT !.coverSeq = seq, !.coverTaken = handed.cover, !.art = file]
            /\ previous' = file
            /\ covers' = (covers \ {previous}) \union ({file} \ {NoFile})
        BY <4>1 DEF WritePendingCover
      <4>3. file # NoFile => file.image = handed.cover
        OBVIOUS
      <4> HIDE DEF file, seq
      <4> QED BY <3>3, <4>2, <4>3
    <3> QED BY <3>2, <3>3
  <2>4. /\ published' = [last |-> <<handed>>,
                seq |-> IF handed.track # LastOf(published).track THEN published.seq + 1
                                                               ELSE published.seq,
                volumeWritten |-> FALSE, coverSeq |-> taken,
                coverTaken |-> handed.cover, art |-> file]
    <3> DEFINE seq == IF handed.track # LastOf(published).track THEN published.seq + 1
                      ELSE published.seq
    <3> HIDE DEF seq, p
    <3>1. p = [last |-> <<handed>>, seq |-> seq, volumeWritten |-> FALSE,
               coverSeq |-> published.coverSeq, coverTaken |-> published.coverTaken,
               art |-> published.art]
      BY <2>2 DEF seq
    <3>2. published' = [last |-> <<handed>>, seq |-> seq, volumeWritten |-> FALSE,
                        coverSeq |-> taken, coverTaken |-> handed.cover, art |-> file]
      BY <2>3, <3>1
    <3> QED BY <3>2 DEF seq
  <2> HIDE DEF p
  <2>5. LastOf(published') = handed
    BY <2>4 DEF LastOf, NoSnapshot
  <2>6. IsPublished(published)'
    <3>1. IsPublished(published')
      BY <2>4, <2>5 DEF IsPublished
    <3> QED BY <3>1 DEF IsPublished, LastOf
  <2>7. CoverInvOfDesk'
    BY <1>0, <2>1, <2>3, <2>4 DEF CoverInvOfDesk
  <2>8. SlotInvOfDesk'
    BY <1>0, <2>1, <2>4 DEF SlotInvOfDesk
  <2>9. /\ published.art = previous /\ published.coverTaken = LastOf(published).cover
        /\ \A key \in DesktopKeys : \/ key = "volume" /\ published.volumeWritten
                             \/ shell[key] = Properties(published)[key]
    BY <1>0, <2>1 DEF ToldInv, Told, IsPublished
  <2>10. /\ TrackId(published') = IF handed.track = NoTrack THEN 0 ELSE published'.seq
         /\ TrackId(published) = IF LastOf(published).track = NoTrack THEN 0 ELSE published.seq
    BY <2>5 DEF TrackId
  <2> PICK q : q = published'
    OBVIOUS
  <2>14. /\ q.art = file /\ LastOf(q) = handed
         /\ q.seq = IF handed.track # LastOf(published).track THEN published.seq + 1
                                                            ELSE published.seq
         /\ TrackId(q) = IF handed.track = NoTrack THEN 0 ELSE q.seq
    BY <2>4, <2>5, <2>10
  <2>11. ASSUME NEW key \in DesktopKeys, key \notin Changed(handed)
         PROVE  shell[key] = Properties(q)[key]
    <3>1. ~Reports(handed, key)
      BY <2>11 DEF Changed
    <3>2. CASE key = "metadata"
      <4>1. /\ LastOf(published).track = handed.track /\ LastOf(published).length = handed.length
            /\ LastOf(published).cover = handed.cover
        BY <3>1, <3>2 DEF Reports
      <4>2. q.seq = published.seq /\ q.art = published.art
        BY <2>3, <2>9, <2>14, <4>1
      <4>3. Properties(q)["metadata"] = Properties(published)["metadata"]
        BY <2>10, <2>14, <4>1, <4>2 DEF Properties
      <4> QED BY <2>9, <3>2, <4>3
    <3>3. CASE key = "seekable"
      <4>1. LastOf(published).length = handed.length
        BY <3>1, <3>3 DEF Reports
      <4> QED BY <2>9, <2>14, <3>3, <4>1 DEF Properties
    <3>4. CASE key = "volume"
      <4>1. LastOf(published).volume = handed.volume /\ ~published.volumeWritten
        BY <3>1, <3>4 DEF Reports
      <4> QED BY <2>9, <2>14, <3>4, <4>1 DEF Properties
    <3>5. CASE key = "status"
      <4>1. LastOf(published).status = handed.status
        BY <3>1, <3>5 DEF Reports
      <4> QED BY <2>9, <2>14, <3>5, <4>1 DEF Properties
    <3>6. CASE key = "shuffle"
      <4>1. LastOf(published).shuffle = handed.shuffle
        BY <3>1, <3>6 DEF Reports
      <4> QED BY <2>9, <2>14, <3>6, <4>1 DEF Properties
    <3> QED BY <3>2, <3>3, <3>4, <3>5, <3>6 DEF DesktopKeys
  <2>12. \A key \in DesktopKeys : Told(key)' = Properties(q)[key]
    <3>1. DOMAIN message' = Changed(handed)
          /\ \A key \in Changed(handed) : message'[key] = Properties(q)[key]
      BY <2>1
    <3>2. \A key \in DesktopKeys : key \in Changed(handed) => bus' = "tells"
      BY <2>1
    <3> QED BY <2>1, <2>11, <3>1, <3>2 DEF Told
  <2>13. ToldInv'
    <3>1. DOMAIN message' \subseteq DesktopKeys
      BY <2>1 DEF Changed
    <3>2. published'.art = previous' /\ published'.volumeWritten = FALSE
      <4>1. published'.art = file /\ published'.volumeWritten = FALSE
        BY <2>4
      <4>2. previous' = file
        BY <2>3, <2>9
      <4> QED BY <4>1, <4>2
    <3>3. shell' = shell /\ \A key \in DesktopKeys : Told(key)' = Properties(published)'[key]
      BY <2>1, <2>12
    <3> QED BY <1>0, <3>1, <3>2, <3>3 DEF ToldInv
  <2> QED BY <2>6, <2>7, <2>8, <2>13 DEF DeskInv
<1>7. CASE PropertiesChanged
  <2>1. IsPublished(published)'
    BY <1>0, <1>7 DEF PropertiesChanged, IsPublished
  <2>2. CoverInvOfDesk'
    BY <1>0, <1>7 DEF PropertiesChanged, CoverInvOfDesk
  <2>3. SlotInvOfDesk'
    BY <1>0, <1>7 DEF PropertiesChanged, SlotInvOfDesk
  <2>4. ToldInv'
    <3>1. /\ bus = "tells" /\ bus' = "waits" /\ UNCHANGED <<published, previous,
                                                            deskRequests, snapshotSlot, message>>
          /\ shell' = [key \in DesktopKeys |-> IF key \in DOMAIN message THEN message[key] ELSE shell[key]]
      BY <1>7 DEF PropertiesChanged
    <3>2. shell' = [key \in DesktopKeys |-> Told(key)]
      BY <1>0, <3>1 DEF ToldInv, Told
    <3>3. \A key \in DesktopKeys : Told(key)' = Told(key)
      BY <3>1, <3>2 DEF Told
    <3>4. DOMAIN shell' = DesktopKeys /\ shell' = [key \in DesktopKeys |-> shell'[key]]
      BY <3>2
    <3> QED BY <1>0, <3>1, <3>3, <3>4 DEF ToldInv
  <2> QED BY <2>1, <2>2, <2>3, <2>4 DEF DeskInv
<1>8. CASE BusGone
  <2>1. IsPublished(published)'
    BY <1>0, <1>8 DEF BusGone, IsPublished
  <2>2. CoverInvOfDesk'
    BY <1>0, <1>8 DEF BusGone, CoverInvOfDesk
  <2>3. SlotInvOfDesk'
    BY <1>0, <1>8 DEF BusGone, SlotInvOfDesk
  <2>4. ToldInv'
    BY <1>0, <1>8 DEF BusGone, SlotInvOfDesk, ToldInv, Told
  <2> QED BY <2>1, <2>2, <2>3, <2>4 DEF DeskInv
<1>9. CASE AskPlayPause
  BY <1>0, <1>9, DeskAssumption DEF AskPlayPause, Queued, DeskInv, IsPublished,
       CoverInvOfDesk, SlotInvOfDesk, ToldInv, Told
<1>10. CASE AskShuffle
  BY <1>0, <1>10, DeskAssumption DEF AskShuffle, Queued, DeskInv, IsPublished,
       CoverInvOfDesk, SlotInvOfDesk, ToldInv, Told
<1>11. CASE WriteVolume
  <2>1. PICK to \in 0 .. TopVolume + 1 :
           /\ Queued([kind |-> "SetVolume", to |-> to])
           /\ shell' = [shell EXCEPT !.volume = to]
    BY <1>11 DEF WriteVolume
  <2>2. /\ published' = [published EXCEPT !.volumeWritten = TRUE] /\ bus # "gone"
        /\ UNCHANGED <<desk, passDue, seen, snapshotSlot, bus, message, previous, covers>>
    BY <1>11 DEF WriteVolume
  <2>3. deskRequests' # <<>>
    <3>1. CASE Len(deskRequests) < RequestBacklog
      BY <2>1, <3>1 DEF Queued
    <3>2. CASE ~(Len(deskRequests) < RequestBacklog)
      <4>1. Len(<<>>) = 0
        OBVIOUS
      <4> QED BY <2>1, <3>2, <4>1, DeskAssumption DEF Queued
    <3> QED BY <3>1, <3>2
  <2>4. published' = [last |-> published.last, seq |-> published.seq, volumeWritten |-> TRUE,
                      coverSeq |-> published.coverSeq, coverTaken |-> published.coverTaken,
                      art |-> published.art]
    BY <1>0, <2>2 DEF IsPublished
  <2>5. LastOf(published') = LastOf(published)
    BY <2>4 DEF LastOf
  <2>6. IsPublished(published)'
    <3>1. IsPublished(published')
      BY <1>0, <2>4, <2>5 DEF IsPublished
    <3> QED BY <3>1 DEF IsPublished, LastOf
  <2>7. CoverInvOfDesk' /\ SlotInvOfDesk'
    BY <1>0, <2>2, <2>3, <2>4 DEF CoverInvOfDesk, SlotInvOfDesk
  <2>8. \A key \in DesktopKeys : Properties(published')[key] = Properties(published)[key]
    <3> PICK q : q = published'
      OBVIOUS
    <3>1. /\ TrackId(q) = TrackId(published) /\ q.art = published.art
          /\ LastOf(q) = LastOf(published)
      BY <2>4, <2>5 DEF TrackId
    <3>2. Properties(q) = Properties(published)
      BY <3>1 DEF Properties
    <3> QED BY <3>2
  <2>9. \A key \in DesktopKeys : key # "volume" => Told(key)' = Told(key)
    BY <1>0, <2>1, <2>2 DEF ToldInv, Told
  <2>10. shell' = [key \in DesktopKeys |-> shell'[key]]
    <3>1. DOMAIN shell = DesktopKeys
      BY <1>0 DEF ToldInv
    <3> QED BY <1>0, <2>1, <3>1 DEF ToldInv, DesktopKeys
  <2>11. ToldInv'
    <3>1. \A key \in DesktopKeys : \/ key = "volume" /\ published'.volumeWritten
                            \/ Told(key)' = Properties(published)'[key]
      BY <1>0, <2>2, <2>4, <2>8, <2>9 DEF ToldInv
    <3> QED BY <1>0, <2>2, <2>3, <2>4, <2>10, <3>1 DEF ToldInv
  <2> QED BY <2>6, <2>7, <2>11 DEF DeskInv
<1>12. CASE ReadAll
  <2>1. IsPublished(published)'
    BY <1>0, <1>12 DEF ReadAll, IsPublished
  <2>2. CoverInvOfDesk'
    BY <1>0, <1>12 DEF ReadAll, CoverInvOfDesk
  <2>3. SlotInvOfDesk'
    BY <1>0, <1>12 DEF ReadAll, SlotInvOfDesk
  <2>4. ToldInv'
    <3>1. shell' = Properties(published) /\ UNCHANGED <<published, message, bus,
                                                        previous, deskRequests, snapshotSlot>>
      BY <1>12 DEF ReadAll
    <3>2. shell' = [key \in DesktopKeys |-> shell'[key]]
      BY <3>1, PropertiesAre
    <3>3. \A key \in DesktopKeys : Told(key)' = Told(key) \/ Told(key)' = Properties(published)[key]
      BY <3>1 DEF Told
    <3> QED BY <1>0, <3>1, <3>2, <3>3 DEF ToldInv
  <2> QED BY <2>1, <2>2, <2>3, <2>4 DEF DeskInv
<1>13. CASE UNCHANGED DeskVars
  BY <1>0, <1>13 DEF DeskVars, DeskInv, IsPublished, CoverInvOfDesk, SlotInvOfDesk,
       ToldInv, Told
<1> QED BY <1>1, <1>2, <1>3, <1>4, <1>5, <1>6, <1>7, <1>8, <1>9, <1>10, <1>11, <1>12,
     <1>13 DEF DeskNext

(* It holds before anything is published. *)
LEMMA DeskStart == DeskInit => DeskInv
<1> SUFFICES ASSUME DeskInit PROVE DeskInv
  OBVIOUS
<1> USE DEF DeskInit
<1>1. IsPublished(published) /\ CoverInvOfDesk
  BY DEF IsPublished, CoverInvOfDesk, LastOf, Silent, DeskSnapshot, NoSnapshot
<1>2. SlotInvOfDesk
  BY DEF SlotInvOfDesk, NoSnapshot
<1>3. ToldInv
  <2>1. \A key \in DesktopKeys : Told(key) = Properties(published)[key]
    BY DEF Told
  <2>2. DOMAIN message = {}
    OBVIOUS
  <2>3. shell = [key \in DesktopKeys |-> shell[key]]
    BY PropertiesAre
  <2> QED BY <2>1, <2>2, <2>3 DEF ToldInv
<1> QED BY <1>1, <1>2, <1>3 DEF DeskInv

(* When nothing is under way the desktop shows the player as it is: its       *)
(* track, status, volume and modes, and a cover only of what plays and only   *)
(* from a file that is there.                                                 *)
THEOREM DesktopIsShownThePlayer == DeskSpec => []DesktopShowsThePlayer
<1>1. DeskInv => DesktopShowsThePlayer
  <2> SUFFICES ASSUME DeskInv PROVE DesktopShowsThePlayer
    OBVIOUS
  <2>1. OneCoverFile
    BY DEF DeskInv, CoverInvOfDesk, OneCoverFile
  <2>2. ASSUME DeskAtRest
        PROVE  LET told == Properties([published EXCEPT !.last = <<desk>>])
               IN  /\ \A key \in DesktopKeys \ {"metadata"} : shell[key] = told[key]
                   /\ [shell.metadata EXCEPT !.art = NoFile] = [told.metadata EXCEPT !.art = NoFile]
                   /\ shell.metadata.art # NoFile =>
                        shell.metadata.art.image = desk.cover /\ shell.metadata.art \in covers
    <3>1. published.last = <<desk>> /\ ~published.volumeWritten /\ bus = "waits"
      BY <2>2 DEF DeskAtRest, DeskInv, SlotInvOfDesk, ToldInv
    <3>2. [published EXCEPT !.last = <<desk>>] = published
      BY <3>1 DEF DeskInv, IsPublished
    <3>3. \A key \in DesktopKeys : shell[key] = Properties(published)[key]
      BY <3>1 DEF DeskInv, ToldInv, Told
    <3>4. LastOf(published) = desk /\ published.art = previous /\ published.coverTaken = desk.cover
      BY <3>1 DEF DeskInv, ToldInv, IsPublished, LastOf, NoSnapshot
    <3>5. shell.metadata = Properties(published).metadata /\ shell.metadata.art = published.art
      <4>1. shell["metadata"] = Properties(published)["metadata"]
        BY <3>3 DEF DesktopKeys
      <4>2. Properties(published).metadata.art = published.art
        BY DEF Properties
      <4> QED BY <4>1, <4>2
    <3> QED BY <3>2, <3>3, <3>4, <3>5 DEF DeskInv, CoverInvOfDesk
  <2> QED BY <2>1, <2>2 DEF DesktopShowsThePlayer
<1> QED BY <1>1, DeskStart, DeskStep, PTL DEF DeskSpec

-----------------------------------------------------------------------------
(* Library: the feeds, their caches and the reports. *)

Slugged == (Titles \X Nat) \union {NoSlug}
SomeFeeds == [id : FeedIds \union {NoOne}, slug : Slugged,
              title : Titles \union {NoSlug}, url : Urls \union {NoUrl}]
Changing == {"subscribe", "unsubscribe", "refresh"}
FeedJobs ==
         [at : {"idle", "fetch", "cache", "list", "remove", "done", "read", "probe", "stations"},
          op : Changing \union {"none", "feeds", "episodes", "again", "reprobe", "add", "remove"},
          snap : Seq(Feeds), todo : Seq(Nat), feed : SomeFeeds,
          got : Caches, known : BOOLEAN, complete : BOOLEAN]

(* The list: its feeds are told apart by their ids. *)
UniqueIds(list) == \A i, j \in DOMAIN list : list[i].id = list[j].id => i = j
Listed(list, id) == \E i \in DOMAIN list : list[i].id = id
Holds(list, feed) == \E i \in DOMAIN list : list[i] = feed

(* An operation that holds the lock works on the list as it is. *)
LockOK(job, holds, list) ==
    /\ job.at \in {"fetch", "cache", "list", "remove"} => holds /\ job.op \in Changing
    /\ job.at \in {"fetch", "cache", "list"} => job.snap = list
    /\ job.at \in {"read", "probe", "stations"} => job.op \notin Changing

(* What it has found so far. *)
WorkOK(job, list, cs) ==
    /\ job.at = "fetch" => job.op # "unsubscribe"
    /\ job.at \in {"fetch", "cache"} /\ job.op = "subscribe" => job.feed.url \in Urls
    /\ job.at = "fetch" /\ job.op = "subscribe" => job.feed.id = NoOne
    /\ job.at \in {"fetch", "cache", "list"} /\ job.op = "refresh" =>
         job.todo # <<>> /\ \A i \in DOMAIN job.todo : job.todo[i] \in DOMAIN list
    /\ job.at \in {"cache", "list"} /\ job.op \in {"subscribe", "refresh"} =>
         job.feed \in Feeds /\ job.got.kind = "good"
    /\ job.at = "cache" => job.op # "unsubscribe"
    /\ job.at \in {"cache", "list"} /\ job.op = "subscribe" => ~Listed(list, job.feed.id)
    /\ job.at \in {"cache", "list"} /\ job.op = "refresh" =>
         job.feed.id = list[Head(job.todo)].id /\ job.feed.title = job.got.title
    /\ job.at = "list" /\ job.op # "unsubscribe" => cs[job.feed.id] = job.got
    /\ job.at = "list" /\ job.op = "unsubscribe" => job.feed \in Feeds
    /\ job.at = "remove" => /\ job.op = "unsubscribe" /\ job.feed \in Feeds
                            /\ ~Listed(list, job.feed.id)

(* What it reports. *)
ReportOK(job, holds, list, cs) ==
    job.at = "done" =>
      /\ job.op = "subscribe" /\ job.complete =>
           holds /\ Holds(list, job.feed) /\ cs[job.feed.id] = job.got
      /\ job.op = "subscribe" /\ ~job.complete =>
           (holds \/ job.feed.id = NoOne) /\ ~Listed(list, job.feed.id)
      /\ job.op = "unsubscribe" /\ job.complete =>
           holds /\ ~Listed(list, job.feed.id) /\ cs[job.feed.id] = NoCache
      /\ job.op = "refresh" /\ job.complete =>
           /\ holds
           /\ job.feed # NoFeed => Holds(list, job.feed) /\ cs[job.feed.id].title = job.feed.title

JobOK(job, holds, list, cs) ==
    LockOK(job, holds, list) /\ WorkOK(job, list, cs) /\ ReportOK(job, holds, list, cs)

FilesOK(list, cs) ==
    /\ list \in Seq(Feeds) /\ cs \in [FeedIds -> Caches] /\ UniqueIds(list)
    /\ \A i \in DOMAIN list : cs[list[i].id] # NoCache

LibraryInv ==
    /\ FilesOK(subs, caches) /\ ledger = subs
    /\ jobs \in [Procs -> FeedJobs]
    /\ \A p \in Procs : JobOK(jobs[p], lock = p, subs, caches)

(* The saved stations are known by URLs. *)
StationsOK == DOMAIN stations \subseteq Urls \union {NoUrl}

(* No subscription has the id of none. *)
LEMMA NoOneIsListed == ASSUME NEW list \in Seq(Feeds) PROVE ~Listed(list, NoOne)
<1>1. \A i \in DOMAIN list : list[i] \in Feeds
  OBVIOUS
<1> QED BY <1>1, LibraryAssumption DEF Listed, Feeds

(* A list without the feed of one id has the others. *)
LEMMA WithoutIs ==
  ASSUME NEW list \in Seq(Feeds), UniqueIds(list), NEW id
  PROVE  LET rest == Without(list, id) IN
         /\ rest \in Seq(Feeds) /\ UniqueIds(rest) /\ ~Listed(rest, id)
         /\ \A i \in DOMAIN rest : \E k \in DOMAIN list : rest[i] = list[k]
<1> DEFINE own == {i \in DOMAIN list : list[i].id = id}
<1>1. CASE own = {}
  BY <1>1 DEF Without, Listed
<1>2. CASE own # {}
  <2> DEFINE k == CHOOSE i \in own : TRUE
             rest == RemoveAt(list, k)
  <2>1. k \in own
    BY <1>2
  <2>2. Without(list, id) = rest
    BY <1>2 DEF Without
  <2> HIDE DEF k
  <2>3. k \in 1 .. Len(list) /\ list[k].id = id /\ Len(list) \in Nat /\ DOMAIN list = 1 .. Len(list)
    BY SMTT(60), <2>1
  <2>4. /\ rest \in Seq(Feeds) /\ Len(rest) = Len(list) - 1 /\ DOMAIN rest = 1 .. Len(list) - 1
        /\ \A i \in 1 .. Len(list) - 1 : rest[i] = IF i < k THEN list[i] ELSE list[i + 1]
    BY <2>3, RemovedIs
  <2> HIDE DEF rest
  <2> DEFINE from(i) == IF i < k THEN i ELSE i + 1
  <2>5. \A i \in DOMAIN rest : from(i) \in DOMAIN list /\ rest[i] = list[from(i)] /\ from(i) # k
    BY <2>3, <2>4
  <2>6. \A i, j \in DOMAIN rest : from(i) = from(j) => i = j
    BY <2>3, <2>4
  <2> HIDE DEF from
  <2>7. UniqueIds(rest)
    BY <2>5, <2>6 DEF UniqueIds
  <2>8. ~Listed(rest, id)
    BY <2>3, <2>5 DEF UniqueIds, Listed
  <2> QED BY <2>2, <2>4, <2>5, <2>7, <2>8
<1> QED BY <1>1, <1>2

(* A list with a feed in the place of the one of its id. *)
LEMMA ReplacingIs ==
  ASSUME NEW list \in Seq(Feeds), UniqueIds(list), NEW feed \in Feeds, Listed(list, feed.id)
  PROVE  LET new == Replacing(list, feed) IN
         /\ new \in Seq(Feeds) /\ UniqueIds(new) /\ Holds(new, feed)
         /\ DOMAIN new = DOMAIN list /\ \A i \in DOMAIN list : new[i].id = list[i].id
<1> DEFINE new == Replacing(list, feed)
<1>1. /\ DOMAIN list = 1 .. Len(list) /\ Len(list) \in Nat
      /\ \A i \in 1 .. Len(list) : list[i] \in Feeds
  OBVIOUS
<1>2. new = [i \in 1 .. Len(list) |-> IF list[i].id = feed.id THEN feed ELSE list[i]]
  BY <1>1 DEF Replacing
<1>3. new \in [1 .. Len(list) -> Feeds]
  BY <1>1, <1>2
<1>4. new \in Seq(Feeds) /\ DOMAIN new = DOMAIN list
  BY <1>1, <1>3, SeqDef
<1>5. \A i \in DOMAIN list : new[i].id = list[i].id
  BY <1>1, <1>2
<1>6. Holds(new, feed)
  BY <1>1, <1>2, <1>4 DEF Listed, Holds
<1> HIDE DEF new
<1>7. UniqueIds(new)
  BY <1>4, <1>5 DEF UniqueIds
<1> QED BY <1>4, <1>5, <1>6, <1>7 DEF new

(* A list with a new feed place its end. *)
LEMMA AppendedIs ==
  ASSUME NEW list \in Seq(Feeds), UniqueIds(list), NEW feed \in Feeds, ~Listed(list, feed.id)
  PROVE  LET new == Append(list, feed) IN
         /\ new \in Seq(Feeds) /\ UniqueIds(new) /\ Holds(new, feed)
         /\ \A i \in DOMAIN new : new[i] = feed \/ \E k \in DOMAIN list : new[i] = list[k]
<1> DEFINE new == Append(list, feed)
<1>1. /\ new \in Seq(Feeds) /\ Len(new) = Len(list) + 1 /\ Len(list) \in Nat
      /\ DOMAIN new = 1 .. Len(list) + 1 /\ DOMAIN list = 1 .. Len(list)
      /\ new[Len(list) + 1] = feed /\ \A i \in 1 .. Len(list) : new[i] = list[i]
  BY AppendProperties
<1> HIDE DEF new
<1>2. Holds(new, feed)
  BY <1>1 DEF Holds
<1>2a. \A n \in Nat : \A i \in 1 .. n + 1 : i = n + 1 \/ i \in 1 .. n
  OBVIOUS
<1>2b. \A i \in 1 .. Len(list) + 1 : i = Len(list) + 1 \/ i \in 1 .. Len(list)
  BY <1>1, <1>2a
<1>3. \A i \in DOMAIN new : i = Len(list) + 1 \/ (i \in DOMAIN list /\ new[i] = list[i])
  BY <1>1, <1>2b
<1>4. UniqueIds(new)
  BY <1>1, <1>3 DEF UniqueIds, Listed
<1> QED BY <1>1, <1>2, <1>3, <1>4 DEF new

(* The feed under way and those after it are among the feeds to refresh. *)
LEMMA TodoIs ==
  ASSUME NEW todo \in Seq(Nat), todo # <<>>
  PROVE  /\ Tail(todo) \in Seq(Nat) /\ 1 \in DOMAIN todo /\ Head(todo) = todo[1]
         /\ \A i \in DOMAIN Tail(todo) : i + 1 \in DOMAIN todo /\ Tail(todo)[i] = todo[i + 1]
<1>1. /\ Tail(todo) \in Seq(Nat) /\ Len(todo) \in Nat /\ Len(todo) # 0 /\ Head(todo) = todo[1]
      /\ DOMAIN todo = 1 .. Len(todo) /\ DOMAIN Tail(todo) = 1 .. Len(todo) - 1
      /\ \A i \in 1 .. Len(todo) - 1 : Tail(todo)[i] = todo[i + 1]
  BY HeadTailProperties, EmptySeq, LenProperties
<1>2. \A n \in Nat : n # 0 => 1 \in 1 .. n /\ \A i \in 1 .. n - 1 : i + 1 \in 1 .. n
  OBVIOUS
<1>3. 1 \in 1 .. Len(todo) /\ \A i \in 1 .. Len(todo) - 1 : i + 1 \in 1 .. Len(todo)
  BY <1>1, <1>2
<1>4. 1 \in DOMAIN todo /\ \A i \in DOMAIN Tail(todo) : i + 1 \in DOMAIN todo
  BY <1>1, <1>3
<1> QED BY <1>1, <1>4

(* There is a free suffix among one more than the slugs there are. *)
LEMMA SlugIs ==
  ASSUME NEW list \in Seq(Feeds), NEW title \in Titles, NEW explicit \in Slugged
  PROVE  ChooseSlug(title, explicit, SlugsOf(list)) \in Titles \X Nat
<1>1. CASE explicit # NoSlug
  BY <1>1 DEF ChooseSlug, Slugged
<1>2. CASE explicit = NoSlug
  <2> DEFINE occupied == SlugsOf(list)
             c == Cardinality(occupied)
             free == {n \in 1 .. c + 1 : <<title, n>> \notin occupied}
  <2>1. IsFiniteSet(occupied) /\ c \in Nat
    <3>1. DOMAIN list = 1 .. Len(list) /\ Len(list) \in Nat
      OBVIOUS
    <3>2. IsFiniteSet(DOMAIN list)
      BY <3>1, FS_Interval
    <3> DEFINE f == [i \in DOMAIN list |-> list[i].slug]
    <3>3a. f \in [DOMAIN list -> {list[i].slug : i \in DOMAIN list}]
      OBVIOUS
    <3>3b. f \in Surjection(DOMAIN list, {list[i].slug : i \in DOMAIN list})
      BY <3>3a DEF Surjection
    <3> HIDE DEF f
    <3>3. IsFiniteSet({list[i].slug : i \in DOMAIN list})
      BY <3>2, <3>3b, FS_Surjection
    <3> QED BY <3>3, FS_CardinalityType DEF SlugsOf
  <2>2. free # {}
    <3> SUFFICES ASSUME free = {} PROVE FALSE
      OBVIOUS
    <3> DEFINE g == [n \in 1 .. c + 1 |-> <<title, n>>]
    <3>1. g \in [1 .. c + 1 -> occupied]
      OBVIOUS
    <3>2. \A m, n \in 1 .. c + 1 : g[m] = g[n] => m = n
      OBVIOUS
    <3>3. g \in Injection(1 .. c + 1, occupied)
      BY <3>1, <3>2 DEF Injection, IsInjective
    <3> HIDE DEF g
    <3>4. Cardinality(1 .. c + 1) <= Cardinality(occupied)
      BY <2>1, <3>3, FS_Injection
    <3>5. Cardinality(1 .. c + 1) = c + 1
      BY <2>1, FS_Interval
    <3> QED BY <2>1, <3>4, <3>5
  <2>3. free \in SUBSET Nat
    OBVIOUS
  <2>4. \E x \in free : \A y \in free : x <= y
    BY <2>2, <2>3, LeastOfNat
  <2>5. Min(free) \in free
    BY <2>4 DEF Min
  <2>6. ChooseSlug(title, explicit, SlugsOf(list)) = <<title, Min(free)>>
    BY <1>2 DEF ChooseSlug
  <2> QED BY <2>3, <2>5, <2>6
<1> QED BY <1>1, <1>2

(* One process moves, and only the holder of the lock changes the files. *)
LEMMA OneMoves ==
  ASSUME LibraryInv, NEW p \in Procs, NEW j \in FeedJobs, jobs' = [jobs EXCEPT ![p] = j],
         FilesOK(subs', caches'), ledger' = subs',
         lock = p \/ UNCHANGED <<subs, caches>>,
         \A q \in Procs : q # p /\ lock = q => lock' = q,
         JobOK(j, lock' = p, subs', caches')
  PROVE  LibraryInv'
<1>1. jobs' \in [Procs -> FeedJobs] /\ jobs'[p] = j /\ \A q \in Procs : q # p => jobs'[q] = jobs[q]
  BY DEF LibraryInv
<1>2. ~Listed(subs', NoOne)
  BY NoOneIsListed DEF FilesOK
<1>3. ASSUME NEW q \in Procs, q # p PROVE JobOK(jobs'[q], lock' = q, subs', caches')
  <2>1. JobOK(jobs[q], lock = q, subs, caches) /\ jobs'[q] = jobs[q] /\ jobs[q] \in FeedJobs
    BY <1>1, <1>3 DEF LibraryInv
  <2>2. CASE lock = p
    <3>1. lock # q
      BY <1>3, <2>2
    <3>2. jobs[q].at \notin {"fetch", "cache", "list", "remove"}
      BY <2>1, <3>1 DEF JobOK, LockOK
    <3>3. ReportOK(jobs[q], lock' = q, subs', caches')
      BY <1>2, <2>1, <3>1 DEF JobOK, ReportOK
    <3> QED BY <2>1, <3>2, <3>3 DEF JobOK, LockOK, WorkOK
  <2>3. CASE UNCHANGED <<subs, caches>>
    <3>1. lock = q => lock' = q
      BY <1>3
    <3>2. LockOK(jobs[q], lock' = q, subs)
      BY <2>1, <3>1 DEF JobOK, LockOK
    <3>3. ReportOK(jobs[q], lock' = q, subs, caches)
      BY <2>1, <3>1 DEF JobOK, ReportOK
    <3> QED BY <2>1, <2>3, <3>2, <3>3 DEF JobOK
  <2> QED BY <2>2, <2>3
<1>4. \A q \in Procs : JobOK(jobs'[q], lock' = q, subs', caches')
  BY SMTT(60), <1>1, <1>3
<1>5. \A q \in Procs : JobOK(jobs[q], lock = q, subs, caches)'
  BY <1>4 DEF JobOK, LockOK, WorkOK, ReportOK
<1>6. FilesOK(subs, caches)'
  BY DEF FilesOK
<1> QED BY <1>1, <1>5, <1>6 DEF LibraryInv


(* A slug that is taken is found. *)
LEMMA FindIs ==
  ASSUME NEW list, NEW slug \in SlugsOf(list)
  PROVE  Find(list, slug) \in DOMAIN list
BY DEF SlugsOf, Find

(* A subscription is something an operation may hold. *)
LEMMA FeedsAre == Feeds \subseteq SomeFeeds /\ NoFeed \in SomeFeeds
BY DEF Feeds, SomeFeeds, Slugged, NoFeed, Feed

(* A process without an operation. *)
LEMMA IdleIs == Idle \in FeedJobs /\ Idle.at = "idle" /\ Idle.feed = NoFeed /\ Idle.feed.id = NoOne
<1>1. NoFeed \in SomeFeeds /\ NoFeed.id = NoOne
  BY FeedsAre DEF NoFeed, Feed
<1>2. NoCache \in Caches
  BY DEF Caches
<1>3. <<>> \in Seq(Feeds) /\ <<>> \in Seq(Nat)
  OBVIOUS
<1> HIDE DEF NoFeed, NoCache
<1> QED BY <1>1, <1>2, <1>3 DEF Idle, FeedJobs, Changing

(* A move that leaves the files alone and works on no list. *)
LEMMA MovesLightly ==
  ASSUME LibraryInv, NEW p \in Procs, NEW j \in FeedJobs, jobs' = [jobs EXCEPT ![p] = j],
         UNCHANGED <<subs, caches, ledger>>,
         lock' = lock \/ Freed(p),
         j.at \notin {"fetch", "cache", "list", "remove"},
         j.at \in {"read", "probe", "stations"} => j.op \notin Changing,
         j.at = "done" => j.op \notin Changing \/ (~j.complete /\ j.feed.id = NoOne)
  PROVE  LibraryInv'
<1>1. ~Listed(subs, NoOne)
  BY NoOneIsListed DEF LibraryInv, FilesOK
<1>2. FilesOK(subs', caches') /\ ledger' = subs'
  BY DEF LibraryInv
<1>3. \A q \in Procs : q # p /\ lock = q => lock' = q
  BY DEF Freed
<1>4. LockOK(j, lock' = p, subs') /\ WorkOK(j, subs', caches')
  BY DEF LockOK, WorkOK
<1>5. ReportOK(j, lock' = p, subs', caches')
  BY <1>1 DEF ReportOK, Changing, LibraryInv, FilesOK
<1>6. JobOK(j, lock' = p, subs', caches')
  BY <1>4, <1>5 DEF JobOK
<1> QED BY <1>2, <1>3, <1>6, OneMoves

(* An operation begins on the list as it is, and holds the lock. *)
LEMMA BeginsOn ==
  ASSUME LibraryInv, NEW p \in Procs, NEW j \in FeedJobs, jobs' = [jobs EXCEPT ![p] = j],
         UNCHANGED <<subs, caches, ledger>>, CommandAdmitted(p),
         JobOK(j, TRUE, subs, caches)
  PROVE  LibraryInv'
<1>1. \A q \in Procs : q # p /\ lock = q => lock' = q
  BY LibraryAssumption DEF CommandAdmitted
<1>2. FilesOK(subs', caches') /\ ledger' = subs'
  BY DEF LibraryInv
<1>3. lock' = p
  BY DEF CommandAdmitted
<1>4. JobOK(j, lock' = p, subs', caches')
  BY <1>3 DEF JobOK, LockOK, WorkOK, ReportOK
<1> QED BY <1>1, <1>2, <1>4, OneMoves

(* An operation that holds the lock goes on, and may change the files. *)
LEMMA GoesOn ==
  ASSUME LibraryInv, NEW p \in Procs, NEW j \in FeedJobs, jobs' = [jobs EXCEPT ![p] = j],
         jobs[p].at \in {"fetch", "cache", "list", "remove"}, UNCHANGED lock,
         FilesOK(subs', caches'), ledger' = subs',
         JobOK(j, TRUE, subs', caches')
  PROVE  LibraryInv'
<1>1. lock = p
  BY DEF LibraryInv, JobOK, LockOK
<1>2. lock' = p
  BY <1>1
<1>3. JobOK(j, lock' = p, subs', caches')
  BY <1>2 DEF JobOK, LockOK, WorkOK, ReportOK
<1>4. \A q \in Procs : q # p /\ lock = q => lock' = q
  OBVIOUS
<1> QED BY <1>1, <1>3, <1>4, OneMoves

(* On to the next feed of the batch. *)
LEMMA NextFeedIs ==
  ASSUME LibraryInv, NEW p \in Procs, NEW fine \in BOOLEAN, NEW snap,
         NextFeed(p, fine, snap), snap = subs', UNCHANGED lock,
         jobs[p].at \in {"fetch", "cache", "list"}, jobs[p].op = "refresh",
         FilesOK(subs', caches'), ledger' = subs', DOMAIN subs' = DOMAIN subs,
         fine => Holds(subs', jobs[p].feed) /\ caches'[jobs[p].feed.id].title = jobs[p].feed.title
  PROVE  LibraryInv'
<1> DEFINE job == jobs[p]
           rest == Tail(job.todo)
           j == [job EXCEPT !.at = IF rest = <<>> THEN "done" ELSE "fetch",
                            !.todo = rest, !.snap = snap, !.complete = @ /\ fine]
<1>1. job \in FeedJobs /\ job.todo # <<>> /\ job.todo \in Seq(Nat)
      /\ \A i \in DOMAIN job.todo : job.todo[i] \in DOMAIN subs
  BY DEF LibraryInv, JobOK, WorkOK, FeedJobs
<1>2. rest \in Seq(Nat) /\ \A i \in DOMAIN rest : rest[i] \in DOMAIN subs
  BY <1>1, TodoIs
<1>3. snap \in Seq(Feeds)
  BY DEF FilesOK
<1> HIDE DEF rest
<1>4. /\ j \in FeedJobs /\ j.op = "refresh" /\ j.at = (IF rest = <<>> THEN "done" ELSE "fetch")
      /\ j.todo = rest /\ j.snap = subs' /\ j.feed = job.feed /\ (j.complete => fine)
  <2>1. \A b \in BOOLEAN : (b /\ fine) \in BOOLEAN
    OBVIOUS
  <2>2. (job.complete /\ fine) \in BOOLEAN
    BY <1>1, <2>1 DEF FeedJobs
  <2> QED BY <1>1, <1>2, <1>3, <2>2 DEF FeedJobs
<1>5. jobs' = [jobs EXCEPT ![p] = j]
  BY DEF NextFeed, On, rest
<1> HIDE DEF j
<1>6. LockOK(j, TRUE, subs')
  BY <1>4 DEF LockOK, Changing
<1>7. WorkOK(j, subs', caches')
  BY <1>2, <1>4 DEF WorkOK
<1>8. ReportOK(j, TRUE, subs', caches')
  BY <1>4 DEF ReportOK
<1>9. JobOK(j, TRUE, subs', caches')
  BY <1>6, <1>7, <1>8 DEF JobOK
<1> QED BY <1>4, <1>5, <1>9, GoesOn

(* Readers, stations, refusals and ends. *)
LEMMA LightSteps ==
  ASSUME LibraryInv, StationsOK, NEW p \in Procs,
         \/ Refuse(p) \/ ListFeeds(p) \/ ListEpisodes(p) \/ ReadCaches(p)
         \/ Probe(p) \/ ProbeAnswers(p) \/ ProbeFails(p)
         \/ SaveStation(p) \/ SaveStationFails(p) \/ RemoveStation(p) \/ Return(p) \/ Die(p)
  PROVE LibraryInv'
<1> DEFINE job == jobs[p]
           Light(j) == /\ jobs' = [jobs EXCEPT ![p] = j]
                       /\ j.at \notin {"fetch", "cache", "list", "remove"}
                       /\ j.at \in {"read", "probe", "stations"} => j.op \notin Changing
                       /\ j.at = "done" => j.op \notin Changing
                                           \/ (~j.complete /\ j.feed.id = NoOne)
<1>1. /\ job \in FeedJobs /\ subs \in Seq(Feeds)
      /\ \A i \in DOMAIN subs : subs[i] \in Feeds
      /\ job.at \in {"read", "probe", "stations"} => job.op \notin Changing
  BY SMTT(60) DEF LibraryInv, FilesOK, JobOK, LockOK
<1>2. UNCHANGED <<subs, caches, ledger>> /\ (lock' = lock \/ Freed(p))
  BY DEF Refuse, Refused, ListFeeds, ListEpisodes, ReadCaches, Probe, ProbeAnswers,
     ProbeFails,
         SaveStation, SaveStationFails, RemoveStation, Return, Die
<1> SUFFICES \E j \in FeedJobs : Light(j)
  BY <1>2, MovesLightly
<1>3. CASE Refuse(p)
  <2>1. PICK op \in {"subscribe", "unsubscribe", "refresh"} : Refused(p, op)
    BY <1>3 DEF Refuse
  <2> DEFINE j == [Idle EXCEPT !.at = "done", !.op = op, !.complete = FALSE]
  <2>2. j \in FeedJobs /\ j.at = "done" /\ ~j.complete /\ j.feed.id = NoOne
    BY IdleIs DEF FeedJobs, Changing
  <2>3. jobs' = [jobs EXCEPT ![p] = j]
    BY <2>1 DEF Refused, On
  <2> HIDE DEF j
  <2> QED BY <2>2, <2>3
<1>4. CASE ListFeeds(p)
  <2> DEFINE j == [Idle EXCEPT !.at = "read", !.op = "feeds", !.snap = subs]
  <2>1. j \in FeedJobs /\ j.at = "read" /\ j.op \notin Changing
    BY <1>1, IdleIs DEF FeedJobs, Changing
  <2>2. jobs' = [jobs EXCEPT ![p] = j]
    BY <1>4 DEF ListFeeds, On
  <2> HIDE DEF j
  <2> QED BY <2>1, <2>2
<1>5. CASE ListEpisodes(p)
  <2>1. PICK i \in DOMAIN subs :
               On(p, [Idle EXCEPT !.at = "read", !.op = "episodes", !.snap = subs,
                                  !.feed = subs[i]])
    BY <1>5 DEF ListEpisodes
  <2> DEFINE j == [Idle EXCEPT !.at = "read", !.op = "episodes", !.snap = subs, !.feed = subs[i]]
  <2>2. subs[i] \in SomeFeeds
    BY <1>1, FeedsAre
  <2>3. j \in FeedJobs /\ j.at = "read" /\ j.op \notin Changing
    BY <1>1, <2>2, IdleIs DEF FeedJobs, Changing
  <2>4. jobs' = [jobs EXCEPT ![p] = j]
    BY <2>1 DEF On
  <2> HIDE DEF j
  <2> QED BY <2>3, <2>4
<1>6. CASE ReadCaches(p)
  <2>1. PICK complete \in BOOLEAN : Ends(p, complete)
    <3>1. (\A id \in IdsOf(job.snap) : Usable(caches[id]) \/ caches[id] = NoCache) \in BOOLEAN
      OBVIOUS
    <3>2. Usable(caches[job.feed.id]) \in BOOLEAN
      BY DEF Usable
    <3> QED BY <1>6, <3>1, <3>2 DEF ReadCaches
  <2> DEFINE j == [job EXCEPT !.at = "done", !.complete = complete]
  <2>2. job.known \in BOOLEAN /\ job.at = "read"
    BY <1>1, <1>6 DEF FeedJobs, ReadCaches
  <2>3. j \in FeedJobs /\ j.at = "done" /\ j.op = job.op
    BY <1>1 DEF FeedJobs
  <2>5. jobs' = [jobs EXCEPT ![p] = j]
    BY <2>1 DEF Ends, On
  <2> HIDE DEF j
  <2> QED BY <1>1, <2>2, <2>3, <2>5
<1>7. CASE Probe(p)
  <2>1. PICK url \in Urls, op \in {"again", "reprobe", "add"} :
               On(p, [Idle EXCEPT !.at = "probe", !.op = op, !.feed.url = url])
    BY <1>7 DEF Probe
  <2> DEFINE j == [Idle EXCEPT !.at = "probe", !.op = op, !.feed.url = url]
  <2>2. [Idle.feed EXCEPT !.url = url] \in SomeFeeds
    BY IdleIs, FeedsAre DEF SomeFeeds
  <2>3. j \in FeedJobs /\ j.at = "probe" /\ j.op \notin Changing
    BY <2>2, IdleIs DEF FeedJobs, Changing
  <2>4. jobs' = [jobs EXCEPT ![p] = j]
    BY <2>1 DEF On
  <2> HIDE DEF j
  <2> QED BY <2>3, <2>4
<1>8. CASE ProbeAnswers(p)
  <2>1. PICK live \in BOOLEAN : On(p, [job EXCEPT !.at = "stations", !.known = live])
    BY <1>8 DEF ProbeAnswers
  <2> DEFINE j == [job EXCEPT !.at = "stations", !.known = live]
  <2>2. j \in FeedJobs /\ j.at = "stations" /\ j.op = job.op /\ job.at = "probe"
    BY <1>1, <1>8 DEF FeedJobs, ProbeAnswers
  <2>3. jobs' = [jobs EXCEPT ![p] = j]
    BY <2>1 DEF On
  <2> HIDE DEF j
  <2> QED BY <1>1, <2>2, <2>3
<1>9. CASE ProbeFails(p) \/ SaveStationFails(p) \/ SaveStation(p)
  <2>1. /\ job.at \in {"probe", "stations"}
        /\ \E complete \in BOOLEAN : Ends(p, complete)
    BY <1>9 DEF ProbeFails, SaveStationFails, SaveStation
  <2>2. PICK complete \in BOOLEAN : Ends(p, complete)
    BY <2>1
  <2> DEFINE j == [job EXCEPT !.at = "done", !.complete = complete]
  <2>3. j \in FeedJobs /\ j.at = "done" /\ j.op = job.op
    BY <1>1 DEF FeedJobs
  <2>4. jobs' = [jobs EXCEPT ![p] = j]
    BY <2>2 DEF Ends, On
  <2> HIDE DEF j
  <2> QED BY <1>1, <2>1, <2>3, <2>4
<1>12. CASE RemoveStation(p)
  <2>1. PICK url \in Urls \union {NoUrl} :
               On(p, [Idle EXCEPT !.at = "done", !.op = "remove", !.feed.url = url])
    BY <1>12 DEF RemoveStation, StationsOK
  <2> DEFINE j == [Idle EXCEPT !.at = "done", !.op = "remove", !.feed.url = url]
  <2>2. [Idle.feed EXCEPT !.url = url] \in SomeFeeds
    BY IdleIs, FeedsAre DEF SomeFeeds
  <2>3. j \in FeedJobs /\ j.at = "done" /\ j.op = "remove"
    BY <2>2, IdleIs DEF FeedJobs
  <2>4. jobs' = [jobs EXCEPT ![p] = j]
    BY <2>1 DEF On
  <2> HIDE DEF j
  <2> QED BY <2>3, <2>4 DEF Changing
<1>13. CASE Return(p) \/ Die(p)
  <2>1. jobs' = [jobs EXCEPT ![p] = Idle]
    BY <1>13 DEF Return, Die, On
  <2> QED BY <2>1, IdleIs
<1> QED BY <1>3, <1>4, <1>5, <1>6, <1>7, <1>8, <1>9, <1>12, <1>13

(* The beginnings of the changes. *)
LEMMA BeginSteps ==
  ASSUME LibraryInv, NEW p \in Procs, Subscribe(p) \/ Unsubscribe(p) \/ Refresh(p)
  PROVE  LibraryInv'
<1>0. subs \in Seq(Feeds)
  BY DEF LibraryInv, FilesOK
<1>1. /\ subs \in Seq(Feeds) /\ \A i \in DOMAIN subs : subs[i] \in Feeds /\ i \in Nat
      /\ UNCHANGED <<subs, caches, ledger>>
  <2>1. DOMAIN subs = 1 .. Len(subs) /\ Len(subs) \in Nat /\ \A i \in 1 .. Len(subs) : subs[i] \in Feeds
    BY <1>0
  <2>2. \A n \in Nat : \A i \in 1 .. n : i \in Nat
    OBVIOUS
  <2>3. UNCHANGED <<subs, caches, ledger>>
    BY DEF Subscribe, Unsubscribe, Refresh
  <2> QED BY <1>0, <2>1, <2>2, <2>3
<1>2. CASE Subscribe(p)
  <2>1. PICK url \in Urls, explicit \in {NoSlug} \union (Titles \X {1}) :
               \/ lock = NoOne /\ Refused(p, "subscribe")
               \/ /\ CommandAdmitted(p)
                  /\ On(p, [Idle EXCEPT !.at = "fetch", !.op = "subscribe", !.snap = subs,
                                        !.feed = Feed(NoOne, explicit, NoSlug, url)])
    BY <1>2 DEF Subscribe
  <2>2. CASE lock = NoOne /\ Refused(p, "subscribe")
    <3> DEFINE j == [Idle EXCEPT !.at = "done", !.op = "subscribe", !.complete = FALSE]
    <3>1. j \in FeedJobs /\ j.at = "done" /\ ~j.complete /\ j.feed.id = NoOne
      BY IdleIs DEF FeedJobs, Changing
    <3>2. jobs' = [jobs EXCEPT ![p] = j] /\ lock' = lock
      BY <2>2 DEF Refused, On
    <3> HIDE DEF j
    <3> QED BY <1>1, <3>1, <3>2, MovesLightly
  <2>3. CASE /\ CommandAdmitted(p)
             /\ On(p, [Idle EXCEPT !.at = "fetch", !.op = "subscribe", !.snap = subs,
                                   !.feed = Feed(NoOne, explicit, NoSlug, url)])
    <3> DEFINE feed == Feed(NoOne, explicit, NoSlug, url)
               j == [Idle EXCEPT !.at = "fetch", !.op = "subscribe", !.snap = subs, !.feed = feed]
    <3>1. feed \in SomeFeeds /\ feed.id = NoOne /\ feed.url \in Urls
      BY DEF Feed, SomeFeeds, Slugged
    <3> HIDE DEF feed
    <3>2. j \in FeedJobs /\ j.at = "fetch" /\ j.op = "subscribe" /\ j.snap = subs /\ j.feed = feed
      BY <1>1, <3>1, IdleIs DEF FeedJobs, Changing
    <3>3. jobs' = [jobs EXCEPT ![p] = j]
      BY <2>3 DEF On, feed
    <3> HIDE DEF j
    <3>4. JobOK(j, TRUE, subs, caches)
      BY <3>1, <3>2 DEF JobOK, LockOK, WorkOK, ReportOK, Changing
    <3> QED BY <1>1, <2>3, <3>2, <3>3, <3>4, BeginsOn
  <2> QED BY <2>1, <2>2, <2>3
<1>3. CASE Unsubscribe(p)
  <2>1. PICK slug \in SlugsOf(subs) :
               On(p, [Idle EXCEPT !.at = "list", !.op = "unsubscribe", !.snap = subs,
                                  !.feed = subs[Find(subs, slug)]])
    BY <1>3 DEF Unsubscribe
  <2> DEFINE feed == subs[Find(subs, slug)]
             j == [Idle EXCEPT !.at = "list", !.op = "unsubscribe", !.snap = subs, !.feed = feed]
  <2>2. feed \in Feeds /\ feed \in SomeFeeds
    BY <1>1, FindIs, FeedsAre
  <2> HIDE DEF feed
  <2>3. j \in FeedJobs /\ j.at = "list" /\ j.op = "unsubscribe" /\ j.snap = subs /\ j.feed = feed
    BY <1>1, <2>2, IdleIs DEF FeedJobs, Changing
  <2>4. jobs' = [jobs EXCEPT ![p] = j]
    BY <2>1 DEF On, feed
  <2> HIDE DEF j
  <2>5. JobOK(j, TRUE, subs, caches)
    BY <2>2, <2>3 DEF JobOK, LockOK, WorkOK, ReportOK, Changing
  <2> QED BY <1>1, <1>3, <2>3, <2>4, <2>5, BeginsOn DEF Unsubscribe
<1>4. CASE Refresh(p)
  <2>1. PICK todo \in {<<Find(subs, slug)>> : slug \in SlugsOf(subs)}
                        \union {[i \in DOMAIN subs |-> i]} :
               On(p, [Idle EXCEPT !.at = IF todo = <<>> THEN "done" ELSE "fetch",
                                  !.op = "refresh", !.snap = subs, !.todo = todo])
    BY <1>4 DEF Refresh
  <2>2. todo \in Seq(Nat) /\ \A i \in DOMAIN todo : todo[i] \in DOMAIN subs
    <3>1. ASSUME NEW slug \in SlugsOf(subs), todo = <<Find(subs, slug)>>
          PROVE  todo \in Seq(Nat) /\ \A i \in DOMAIN todo : todo[i] \in DOMAIN subs
      <4>1. Find(subs, slug) \in DOMAIN subs /\ Find(subs, slug) \in Nat
        BY <1>1, FindIs
      <4> HIDE DEF Find
      <4> QED BY <3>1, <4>1
    <3>2. ASSUME todo = [i \in DOMAIN subs |-> i]
          PROVE  todo \in Seq(Nat) /\ \A i \in DOMAIN todo : todo[i] \in DOMAIN subs
      <4>1. DOMAIN subs = 1 .. Len(subs) /\ Len(subs) \in Nat
        BY <1>1
      <4>2. todo \in [1 .. Len(subs) -> Nat]
        BY <1>1, <3>2, <4>1
      <4> QED BY <3>2, <4>1, <4>2, SeqDef
    <3> QED BY <2>1, <3>1, <3>2
  <2> DEFINE j == [Idle EXCEPT !.at = IF todo = <<>> THEN "done" ELSE "fetch",
                               !.op = "refresh", !.snap = subs, !.todo = todo]
  <2>3. /\ j \in FeedJobs /\ j.at = (IF todo = <<>> THEN "done" ELSE "fetch")
        /\ j.op = "refresh" /\ j.snap = subs /\ j.todo = todo /\ j.feed = NoFeed
    BY <1>1, <2>2, IdleIs DEF FeedJobs, Changing
  <2>4. jobs' = [jobs EXCEPT ![p] = j]
    BY <2>1 DEF On
  <2> HIDE DEF j
  <2>5. JobOK(j, TRUE, subs, caches)
    BY <2>2, <2>3 DEF JobOK, LockOK, WorkOK, ReportOK, Changing
  <2> QED BY <1>1, <1>4, <2>3, <2>4, <2>5, BeginsOn DEF Refresh
<1> QED BY <1>2, <1>3, <1>4

(* The network answers, or not. *)
LEMMA FetchSteps ==
  ASSUME LibraryInv, NEW p \in Procs, FetchFails(p) \/ FetchNew(p) \/ FetchAgain(p)
  PROVE  LibraryInv'
<1> DEFINE job == jobs[p]
<1>0. subs \in Seq(Feeds) /\ FilesOK(subs, caches) /\ ledger = subs
  BY DEF LibraryInv, FilesOK
<1>1. /\ subs \in Seq(Feeds) /\ \A i \in DOMAIN subs : subs[i] \in Feeds /\ i \in Nat
      /\ UNCHANGED <<subs, caches, ledger, lock>> /\ FilesOK(subs, caches) /\ ledger = subs
  <2>1. DOMAIN subs = 1 .. Len(subs) /\ Len(subs) \in Nat /\ \A i \in 1 .. Len(subs) : subs[i] \in Feeds
    BY SMTT(60), <1>0
  <2>2. \A n \in Nat : \A i \in 1 .. n : i \in Nat
    OBVIOUS
  <2>3. UNCHANGED <<subs, caches, ledger, lock>>
    BY ZenonT(60) DEF FetchFails, FetchNew, FetchAgain
  <2> QED BY <1>0, <2>1, <2>2, <2>3
<1>2. /\ job \in FeedJobs /\ job.at = "fetch" /\ job.op \in {"subscribe", "refresh"}
      /\ job.snap = subs
      /\ job.op = "subscribe" => job.feed.url \in Urls /\ job.feed.id = NoOne
      /\ job.op = "refresh" =>
           job.todo # <<>> /\ \A i \in DOMAIN job.todo : job.todo[i] \in DOMAIN subs
  BY DEF LibraryInv, JobOK, LockOK, WorkOK, Changing, FetchFails, FetchNew, FetchAgain
<1>3. job.todo \in Seq(Nat) /\ job.feed \in SomeFeeds /\ job.known \in BOOLEAN
      /\ job.complete \in BOOLEAN /\ FilesOK(subs', caches') /\ ledger' = subs'
  BY <1>1, <1>2 DEF FeedJobs
<1>4. CASE FetchFails(p) /\ job.op = "subscribe"
  <2> DEFINE j == [job EXCEPT !.at = "done", !.complete = FALSE]
  <2>1. j \in FeedJobs /\ j.at = "done" /\ ~j.complete /\ j.feed = job.feed
    BY <1>2 DEF FeedJobs
  <2>2. jobs' = [jobs EXCEPT ![p] = j]
    BY <1>4 DEF FetchFails, Ends, On
  <2> HIDE DEF j
  <2> QED BY <1>1, <1>2, <1>4, <2>1, <2>2, MovesLightly
<1>5. CASE FetchFails(p) /\ job.op = "refresh"
  <2>1. NextFeed(p, FALSE, job.snap)
    BY <1>5 DEF FetchFails
  <2> QED BY <1>1, <1>2, <1>3, <1>5, <2>1, NextFeedIs
<1>6. CASE FetchNew(p)
  <2>1. PICK title \in Titles, moved \in {NoUrl} \union Urls, id \in FeedIds \ IdsOf(subs) :
          LET slug == ChooseSlug(title, job.feed.slug, SlugsOf(subs)) IN
          On(p, [job EXCEPT
                  !.at = "cache", !.got = Cache(title, "good"),
                  !.feed = Feed(id, slug, title, IF moved = NoUrl THEN job.feed.url ELSE moved)])
    BY <1>2, <1>6 DEF FetchNew
  <2> DEFINE slug == ChooseSlug(title, job.feed.slug, SlugsOf(subs))
             feed == Feed(id, slug, title, IF moved = NoUrl THEN job.feed.url ELSE moved)
             got == Cache(title, "good")
             j == [job EXCEPT !.at = "cache", !.got = got, !.feed = feed]
  <2>2. job.feed.slug \in Slugged
    BY <1>3 DEF SomeFeeds
  <2>3. slug \in Titles \X Nat
    BY <1>1, <2>2, SlugIs
  <2> HIDE DEF slug
  <2>4. feed \in Feeds /\ feed.id = id
    BY <1>2, <1>6, <2>3 DEF Feed, Feeds, FetchNew
  <2>5. got \in Caches /\ got.kind = "good"
    BY DEF Cache, Caches
  <2>6. ~Listed(subs, feed.id)
    BY <2>4 DEF Listed, IdsOf
  <2> HIDE DEF feed, got
  <2>7. /\ j \in FeedJobs /\ j.at = "cache" /\ j.op = "subscribe" /\ j.snap = subs
        /\ j.feed = feed /\ j.got = got
    BY <1>2, <1>6, <2>4, <2>5, FeedsAre DEF FeedJobs, FetchNew
  <2>8. jobs' = [jobs EXCEPT ![p] = j]
    BY <2>1 DEF On, feed, got, slug
  <2> HIDE DEF j
  <2>9. JobOK(j, TRUE, subs', caches')
    <3>1. feed.url \in Urls
      BY <2>4 DEF Feeds
    <3> QED BY <1>1, <2>4, <2>5, <2>6, <2>7, <3>1 DEF JobOK, LockOK, WorkOK,
         ReportOK, Changing
  <2> QED BY <1>1, <1>2, <1>3, <2>7, <2>8, <2>9, GoesOn
<1>7. CASE FetchAgain(p)
  <2> DEFINE was == subs[Head(job.todo)]
             old == caches[was.id]
  <2>1. PICK got \in {Cache(title, "good") : title \in Titles} \union {c \in {old} : Usable(c)},
             moved \in {NoUrl} \union Urls :
          On(p, [job EXCEPT
                  !.at = "cache", !.got = got,
                  !.feed = [was EXCEPT !.title = got.title,
                                       !.url = IF moved = NoUrl THEN @ ELSE moved]])
    BY ZenonT(60), <1>2, <1>7 DEF FetchAgain
  <2>2. Head(job.todo) \in DOMAIN subs /\ was \in Feeds
    <3>1. 1 \in DOMAIN job.todo /\ Head(job.todo) = job.todo[1]
      BY <1>2, <1>3, <1>7, TodoIs DEF FetchAgain
    <3> QED BY ZenonT(60), <1>1, <1>2, <1>7, <3>1 DEF FetchAgain
  <2>3. old \in Caches
    BY <1>1, <2>2 DEF FilesOK, Feeds
  <2> HIDE DEF was, old
  <2>4. got \in Caches /\ got.kind = "good" /\ got.title \in Titles
    BY <2>3 DEF Caches, Cache, NoCache, Usable
  <2> DEFINE feed == [was EXCEPT !.title = got.title, !.url = IF moved = NoUrl THEN @ ELSE moved]
             j == [job EXCEPT !.at = "cache", !.got = got, !.feed = feed]
  <2>5. feed \in Feeds /\ feed.id = was.id /\ feed.title = got.title
    BY <2>2, <2>4 DEF Feeds
  <2> HIDE DEF feed
  <2>6. /\ j \in FeedJobs /\ j.at = "cache" /\ j.op = "refresh" /\ j.snap = subs
        /\ j.feed = feed /\ j.got = got /\ j.todo = job.todo
    BY <1>2, <1>7, <2>4, <2>5, FeedsAre DEF FeedJobs, FetchAgain
  <2>7. jobs' = [jobs EXCEPT ![p] = j]
    BY <2>1 DEF On, feed
  <2> HIDE DEF j
  <2>8. JobOK(j, TRUE, subs', caches')
    <3>1. LockOK(j, TRUE, subs') /\ ReportOK(j, TRUE, subs', caches')
      BY <1>1, <2>6 DEF LockOK, ReportOK, Changing
    <3>2. j.feed.id = subs'[Head(j.todo)].id /\ j.feed.title = j.got.title
      BY <1>1, <2>5, <2>6 DEF was
    <3>3. j.todo # <<>> /\ \A i \in DOMAIN j.todo : j.todo[i] \in DOMAIN subs'
      BY <1>1, <1>2, <1>7, <2>6 DEF FetchAgain
    <3>4. WorkOK(j, subs', caches')
      BY <2>4, <2>5, <2>6, <3>2, <3>3 DEF WorkOK
    <3> QED BY <3>1, <3>4 DEF JobOK
  <2> QED BY <1>1, <1>2, <1>3, <2>6, <2>7, <2>8, GoesOn
<1> QED BY <1>2, <1>4, <1>5, <1>6, <1>7

(* The two commits, and their failures. *)
LEMMA CommitSteps ==
  ASSUME LibraryInv, NEW p \in Procs,
         \/ SaveCache(p) \/ SaveCacheFails(p)
         \/ SaveListSubscribed(p) \/ SaveListRefreshed(p) \/ SaveListUnsubscribed(p)
         \/ SaveListFails(p) \/ RemoveCache(p) \/ RemoveCacheFails(p)
  PROVE  LibraryInv'
<1> DEFINE job == jobs[p]
<1>0. /\ subs \in Seq(Feeds) /\ FilesOK(subs, caches) /\ UniqueIds(subs) /\ ledger = subs
      /\ caches \in [FeedIds -> Caches]
      /\ job \in FeedJobs /\ JobOK(job, lock = p, subs, caches)
  BY DEF LibraryInv, FilesOK
<1>1. UNCHANGED lock /\ job.at \in {"cache", "list", "remove"}
  BY DEF SaveCache, SaveCacheFails, SaveListSubscribed, SaveListRefreshed,
         SaveListUnsubscribed, SaveListFails, RemoveCache, RemoveCacheFails
<1>2. /\ job.op \in Changing
      /\ job.at \in {"cache", "list"} => job.snap = subs
      /\ job.at = "cache" => job.op # "unsubscribe"
      /\ job.at = "remove" => job.op = "unsubscribe"
  BY <1>0, <1>1 DEF JobOK, LockOK, WorkOK
<1>3. /\ job.at \in {"cache", "list"} /\ job.op \in {"subscribe", "refresh"} =>
           job.feed \in Feeds /\ job.got.kind = "good"
      /\ job.at \in {"cache", "list"} /\ job.op = "subscribe" => ~Listed(subs, job.feed.id)
      /\ job.at \in {"cache", "list"} /\ job.op = "refresh" =>
           job.feed.id = subs[Head(job.todo)].id /\ job.feed.title = job.got.title
      /\ job.at = "list" /\ job.op # "unsubscribe" => caches[job.feed.id] = job.got
      /\ job.at = "list" /\ job.op = "unsubscribe" => job.feed \in Feeds
      /\ job.at = "remove" => job.feed \in Feeds /\ ~Listed(subs, job.feed.id)
  BY <1>0 DEF JobOK, WorkOK
<1>4. job.got \in Caches /\ job.complete \in BOOLEAN /\ job.todo \in Seq(Nat)
  BY <1>0 DEF FeedJobs
<1>5. /\ job.feed.id \in FeedIds
      /\ job.at \in {"cache", "list"} /\ job.op = "refresh" =>
           Head(job.todo) \in DOMAIN subs /\ Listed(subs, job.feed.id)
  <2>1. job.feed \in Feeds
    BY <1>1, <1>2, <1>3 DEF Changing
  <2>2. ASSUME job.at \in {"cache", "list"}, job.op = "refresh"
        PROVE  Head(job.todo) \in DOMAIN subs
    <3>1. job.todo # <<>> /\ \A i \in DOMAIN job.todo : job.todo[i] \in DOMAIN subs
      BY <1>0, <2>2 DEF JobOK, WorkOK
    <3> QED BY <1>4, <3>1, TodoIs
  <2> QED BY <1>3, <2>1, <2>2 DEF Listed, Feeds
<1>5a. \A i \in DOMAIN subs : subs[i] \in Feeds
  BY <1>0
(* The operation ends, or goes on to the list or to the cache. *)
<1> DEFINE Ended(complete) == [job EXCEPT !.at = "done", !.complete = complete]
           Gone(place) == [job EXCEPT !.at = place]
<1>6. \A complete \in BOOLEAN :
        /\ Ended(complete) \in FeedJobs /\ Ended(complete).at = "done"
        /\ Ended(complete).op = job.op /\ Ended(complete).complete = complete
        /\ Ended(complete).feed = job.feed /\ Ended(complete).got = job.got
  BY <1>0 DEF FeedJobs
<1>7. \A place \in {"list", "remove"} :
        /\ Gone(place) \in FeedJobs /\ Gone(place).at = place /\ Gone(place).op = job.op
        /\ Gone(place).snap = job.snap /\ Gone(place).feed = job.feed
        /\ Gone(place).got = job.got /\ Gone(place).todo = job.todo
  BY <1>0 DEF FeedJobs
<1>8. /\ \A complete : Ends(p, complete) => jobs' = [jobs EXCEPT ![p] = Ended(complete)]
      /\ \A place : Goes(p, place) => jobs' = [jobs EXCEPT ![p] = Gone(place)]
  BY DEF Ends, Goes, On
<1> HIDE DEF Ended, Gone
(* A change that is reported and did not touch the files. *)
<1>9. ASSUME UNCHANGED <<subs, caches, ledger>>, Ends(p, FALSE),
             job.op = "subscribe" => ~Listed(subs, job.feed.id)
      PROVE  LibraryInv'
  <2>1. JobOK(Ended(FALSE), TRUE, subs', caches')
    BY <1>6, <1>9 DEF JobOK, LockOK, WorkOK, ReportOK
  <2>2. FilesOK(subs', caches') /\ ledger' = subs'
    BY <1>0, <1>9
  <2> QED BY <1>1, <1>6, <1>8, <1>9, <2>1, <2>2, GoesOn
<1>10. ASSUME UNCHANGED <<subs, caches, ledger>>, job.op = "refresh",
              NextFeed(p, FALSE, job.snap), job.at \in {"cache", "list"}
       PROVE  LibraryInv'
  <2>1. FilesOK(subs', caches') /\ ledger' = subs' /\ DOMAIN subs' = DOMAIN subs
    BY <1>0, <1>10
  <2>2. job.snap = subs'
    BY <1>2, <1>10
  <2> QED BY <1>1, <1>10, <2>1, <2>2, NextFeedIs
<1>11. CASE SaveCache(p)
  <2>1. /\ caches' = [caches EXCEPT ![job.feed.id] = job.got] /\ job.at = "cache"
        /\ IF Unchanged(p) THEN NextFeed(p, TRUE, job.snap) ELSE Goes(p, "list")
        /\ UNCHANGED <<subs, ledger>>
    BY <1>11 DEF SaveCache
  <2>2. /\ caches' \in [FeedIds -> Caches] /\ caches'[job.feed.id] = job.got
        /\ \A id \in FeedIds : id # job.feed.id => caches'[id] = caches[id]
    BY <1>0, <1>4, <1>5, <2>1
  <2>3. job.got # NoCache /\ job.feed \in Feeds /\ job.got.kind = "good"
    BY <1>2, <1>3, <2>1 DEF Changing, NoCache, Cache
  <2>4. FilesOK(subs', caches') /\ ledger' = subs'
    <3>1. \A i \in DOMAIN subs : subs[i].id \in FeedIds /\ caches[subs[i].id] # NoCache
      BY <1>0, <1>5a DEF FilesOK, Feeds
    <3> HIDE DEF NoCache
    <3>2. \A i \in DOMAIN subs : caches'[subs[i].id] # NoCache
      BY SMTT(60), <2>2, <2>3, <3>1
    <3> QED BY <1>0, <2>1, <2>2, <3>2 DEF FilesOK
  <2>5. CASE Unchanged(p)
    <3>1. job.op = "refresh" /\ job.feed = subs[Head(job.todo)] /\ NextFeed(p, TRUE, job.snap)
      BY <1>2, <2>1, <2>5 DEF Unchanged
    <3>2. Holds(subs', job.feed) /\ caches'[job.feed.id].title = job.feed.title
      BY <1>3, <1>5, <2>1, <2>2, <3>1 DEF Holds
    <3>3. job.snap = subs' /\ DOMAIN subs' = DOMAIN subs
      BY <1>2, <2>1
    <3> QED BY <1>1, <2>1, <2>4, <3>1, <3>2, <3>3, NextFeedIs
  <2>6. CASE ~Unchanged(p)
    <3>1. Goes(p, "list")
      BY <2>1, <2>6
    <3>2. LockOK(Gone("list"), TRUE, subs') /\ ReportOK(Gone("list"), TRUE, subs', caches')
      BY <1>2, <1>7, <2>1 DEF LockOK, ReportOK
    <3>3. job.op = "refresh" =>
            job.todo # <<>> /\ \A i \in DOMAIN job.todo : job.todo[i] \in DOMAIN subs
      BY <1>0, <2>1 DEF JobOK, WorkOK
    <3>4. WorkOK(Gone("list"), subs', caches')
      BY <1>2, <1>3, <1>7, <2>1, <2>2, <2>3, <3>3 DEF WorkOK, Changing
    <3>5. JobOK(Gone("list"), TRUE, subs', caches')
      BY <3>2, <3>4 DEF JobOK
    <3> QED BY <1>1, <1>7, <1>8, <2>4, <3>1, <3>5, GoesOn
  <2> QED BY <2>5, <2>6
<1>12. CASE SaveCacheFails(p)
  BY <1>2, <1>3, <1>9, <1>10, <1>12 DEF SaveCacheFails, Changing
<1>13. CASE SaveListSubscribed(p)
  <2>1. /\ subs' = Append(subs, job.feed) /\ ledger' = Append(subs, job.feed)
        /\ Ends(p, TRUE) /\ caches' = caches /\ job.op = "subscribe" /\ job.at = "list"
    BY <1>0, <1>2, <1>13 DEF SaveListSubscribed
  <2>2. job.feed \in Feeds /\ ~Listed(subs, job.feed.id) /\ caches[job.feed.id] = job.got
        /\ job.got.kind = "good"
    BY <1>3, <2>1
  <2>3. /\ subs' \in Seq(Feeds) /\ UniqueIds(subs') /\ Holds(subs', job.feed)
        /\ \A i \in DOMAIN subs' : subs'[i] = job.feed \/ \E k \in DOMAIN subs : subs'[i] = subs[k]
    BY <1>0, <2>1, <2>2, AppendedIs
  <2>4. job.got # NoCache
    BY <2>2 DEF NoCache, Cache
  <2>5. FilesOK(subs', caches') /\ ledger' = subs'
    BY <1>0, <2>1, <2>2, <2>3, <2>4 DEF FilesOK
  <2>6. JobOK(Ended(TRUE), TRUE, subs', caches')
    BY <1>6, <2>1, <2>2, <2>3 DEF JobOK, LockOK, WorkOK, ReportOK
  <2> QED BY <1>1, <1>6, <1>8, <2>1, <2>5, <2>6, GoesOn
<1>14. CASE SaveListRefreshed(p)
  <2>1. /\ subs' = Replacing(subs, job.feed) /\ ledger' = Replacing(subs, job.feed)
        /\ NextFeed(p, TRUE, subs') /\ caches' = caches /\ job.op = "refresh" /\ job.at = "list"
    BY <1>0, <1>2, <1>14 DEF SaveListRefreshed
  <2>2. job.feed \in Feeds /\ Listed(subs, job.feed.id)
        /\ caches'[job.feed.id].title = job.feed.title
    BY <1>3, <1>5, <2>1
  <2>3. /\ subs' \in Seq(Feeds) /\ UniqueIds(subs') /\ Holds(subs', job.feed)
        /\ DOMAIN subs' = DOMAIN subs /\ \A i \in DOMAIN subs : subs'[i].id = subs[i].id
    BY <1>0, <2>1, <2>2, ReplacingIs
  <2>4. FilesOK(subs', caches') /\ ledger' = subs'
    BY <1>0, <2>1, <2>3 DEF FilesOK
  <2> QED BY <1>1, <2>1, <2>2, <2>3, <2>4, NextFeedIs
<1>15. CASE SaveListUnsubscribed(p)
  <2>1. /\ subs' = Without(subs, job.feed.id) /\ ledger' = Without(subs, job.feed.id)
        /\ Goes(p, "remove") /\ caches' = caches /\ job.op = "unsubscribe" /\ job.at = "list"
    BY <1>0, <1>2, <1>15 DEF SaveListUnsubscribed
  <2>2. /\ subs' \in Seq(Feeds) /\ UniqueIds(subs') /\ ~Listed(subs', job.feed.id)
        /\ \A i \in DOMAIN subs' : \E k \in DOMAIN subs : subs'[i] = subs[k]
    BY <1>0, <2>1, WithoutIs
  <2>3. FilesOK(subs', caches') /\ ledger' = subs'
    BY <1>0, <2>1, <2>2 DEF FilesOK
  <2>4. JobOK(Gone("remove"), TRUE, subs', caches')
    BY <1>2, <1>3, <1>7, <2>1, <2>2 DEF JobOK, LockOK, WorkOK, ReportOK
  <2> QED BY <1>1, <1>7, <1>8, <2>1, <2>3, <2>4, GoesOn
<1>16. CASE SaveListFails(p)
  BY <1>2, <1>3, <1>9, <1>10, <1>16 DEF SaveListFails, Changing
<1>17. CASE RemoveCache(p)
  <2>1. /\ caches' = [caches EXCEPT ![job.feed.id] = NoCache] /\ job.at = "remove"
        /\ Ends(p, TRUE) /\ UNCHANGED <<subs, ledger>> /\ job.op = "unsubscribe"
    BY <1>2, <1>17 DEF RemoveCache
  <2>2. NoCache \in Caches
    BY DEF Caches
  <2> HIDE DEF NoCache
  <2>3. /\ caches' \in [FeedIds -> Caches] /\ caches'[job.feed.id] = NoCache
        /\ \A id \in FeedIds : id # job.feed.id => caches'[id] = caches[id]
    BY <1>0, <1>5, <2>1, <2>2
  <2>4. \A i \in DOMAIN subs : /\ subs[i].id \in FeedIds /\ caches[subs[i].id] # NoCache
                               /\ subs[i].id # job.feed.id
    BY <1>0, <1>3, <1>5a, <2>1 DEF FilesOK, Feeds, Listed
  <2>5. FilesOK(subs', caches') /\ ledger' = subs'
    BY <1>0, <2>1, <2>3, <2>4 DEF FilesOK
  <2>6. ~Listed(subs', job.feed.id)
    BY <1>3, <2>1
  <2>7. JobOK(Ended(TRUE), TRUE, subs', caches')
    BY <1>6, <2>1, <2>3, <2>6 DEF JobOK, LockOK, WorkOK, ReportOK
  <2> QED BY <1>1, <1>6, <1>8, <2>1, <2>5, <2>7, GoesOn
<1>18. CASE RemoveCacheFails(p)
  BY <1>2, <1>9, <1>18 DEF RemoveCacheFails
<1> QED BY <1>11, <1>12, <1>13, <1>14, <1>15, <1>16, <1>17, <1>18

(* A saved station is one that was probed. *)
LEMMA StationsKept ==
  ASSUME LibraryInv, StationsOK, NEW p \in Procs, UNCHANGED stations \/ SaveStation(p) \/ RemoveStation(p)
  PROVE  StationsOK'
<1>1. jobs[p].feed.url \in Urls \union {NoUrl}
  BY DEF LibraryInv, FeedJobs, SomeFeeds
<1> QED BY <1>1 DEF StationsOK, SaveStation, RemoveStation, Restrict

(* Every step keeps it. *)
LEMMA LibraryStep ==
  LibraryInv /\ StationsOK /\ [LibraryNext]_LibraryVars => LibraryInv' /\ StationsOK'
<1> SUFFICES ASSUME LibraryInv, StationsOK, [LibraryNext]_LibraryVars
             PROVE  LibraryInv' /\ StationsOK'
  OBVIOUS
<1>1. CASE UNCHANGED LibraryVars
  <2>1. LibraryInv'
    BY <1>1 DEF LibraryVars, LibraryInv, FilesOK, JobOK, LockOK, WorkOK, ReportOK
  <2> QED BY <1>1, <2>1 DEF LibraryVars, StationsOK
<1>2. CASE LibraryNext
  <2>1. PICK p \in Procs :
      \/ Refuse(p) \/ Subscribe(p) \/ Unsubscribe(p) \/ Refresh(p)
      \/ FetchFails(p) \/ FetchNew(p) \/ FetchAgain(p)
      \/ SaveCache(p) \/ SaveCacheFails(p)
      \/ SaveListSubscribed(p) \/ SaveListRefreshed(p) \/ SaveListUnsubscribed(p)
      \/ SaveListFails(p) \/ RemoveCache(p) \/ RemoveCacheFails(p)
      \/ ListFeeds(p) \/ ListEpisodes(p) \/ ReadCaches(p)
      \/ Probe(p) \/ ProbeAnswers(p) \/ ProbeFails(p)
      \/ SaveStation(p) \/ SaveStationFails(p) \/ RemoveStation(p)
      \/ Return(p) \/ Die(p)
    BY <1>2 DEF LibraryNext
  <2>2. LibraryInv'
    BY SMTT(60), <2>1, LightSteps, BeginSteps, FetchSteps, CommitSteps
  <2>3. UNCHANGED stations \/ SaveStation(p) \/ RemoveStation(p)
    BY <2>1 DEF Refuse, Subscribe, Unsubscribe, Refresh, FetchFails, FetchNew,
         FetchAgain,
      SaveCache, SaveCacheFails, SaveListSubscribed, SaveListRefreshed, SaveListUnsubscribed,
      SaveListFails, RemoveCache, RemoveCacheFails, ListFeeds, ListEpisodes, ReadCaches,
      Probe, ProbeAnswers, ProbeFails, SaveStationFails, Return, Die
  <2> QED BY <2>2, <2>3, StationsKept
<1> QED BY <1>1, <1>2

(* It holds of every pair of files that load. *)
LEMMA LibraryStart == LibraryInit => LibraryInv /\ StationsOK
<1> SUFFICES ASSUME LibraryInit PROVE LibraryInv /\ StationsOK
  OBVIOUS
<1>1. PICK d \in Lists : subs = d.subs /\ caches = d.caches
  BY DEF LibraryInit
<1>2. /\ subs \in Seq(Feeds) /\ Storable(subs) /\ caches \in [FeedIds -> Caches]
      /\ \A i \in DOMAIN subs : caches[subs[i].id] # NoCache
  BY <1>1, LibraryAssumption
<1>3. UniqueIds(subs)
  BY <1>2 DEF Storable, IsInjective, UniqueIds
<1>4. jobs \in [Procs -> FeedJobs] /\ \A p \in Procs : jobs[p] = Idle
  BY IdleIs DEF LibraryInit
<1>5. \A p \in Procs : JobOK(jobs[p], lock = p, subs, caches)
  BY <1>4, IdleIs DEF JobOK, LockOK, WorkOK, ReportOK
<1>6. ledger = subs /\ stations = << >>
  BY DEF LibraryInit
<1> QED BY <1>2, <1>3, <1>4, <1>5, <1>6 DEF LibraryInv, FilesOK, StationsOK

(* It holds in every reachable state. *)
LEMMA LibraryInvariant == LibrarySpec => []LibraryInv
<1>1. LibraryInv /\ StationsOK /\ [LibraryNext]_LibraryVars => LibraryInv' /\ StationsOK'
  BY LibraryStep
<1> QED BY <1>1, LibraryStart, PTL DEF LibrarySpec

(* However many processes change the feeds and wherever one dies or a write   *)
(* fails: every committed change is in the list, and nothing else is.         *)
THEOREM CommitsAreKept == LibrarySpec => []NoLostCommit
<1>1. LibraryInv => NoLostCommit
  BY DEF LibraryInv, NoLostCommit
<1> QED BY <1>1, LibraryInvariant, PTL

(* Nor is there ever a subscription without its episode cache. *)
THEOREM FeedsHaveCaches == LibrarySpec => []EveryFeedHasItsCache
<1>1. LibraryInv => EveryFeedHasItsCache
  BY DEF LibraryInv, FilesOK, EveryFeedHasItsCache, IdsOf
<1> QED BY <1>1, LibraryInvariant, PTL

(* And whatever a process reports, the files say the same until it let go of  *)
(* the lock.                                                                  *)
THEOREM ReportsAreTrue == LibrarySpec => []ReportIsTrue
<1>1. LibraryInv => ReportIsTrue
  <2> SUFFICES ASSUME LibraryInv, NEW p \in Procs, jobs[p].at = "done"
               PROVE  LET job == jobs[p] IN
        CASE job.op = "subscribe" ->
               IF job.complete
                 THEN job.feed \in Range(subs) /\ caches[job.feed.id] = job.got
                 ELSE job.feed.id \notin IdsOf(subs)
          [] job.op = "unsubscribe" ->
               job.complete => /\ job.feed.id \notin IdsOf(subs)
                               /\ caches[job.feed.id] = NoCache
          [] job.op = "refresh" ->
               job.complete /\ job.feed # NoFeed =>
                 /\ job.feed \in Range(subs)
                 /\ caches[job.feed.id].title = job.feed.title
          [] OTHER -> TRUE
    BY DEF ReportIsTrue
  <2>1. ReportOK(jobs[p], lock = p, subs, caches)
    BY DEF LibraryInv, JobOK
  <2>2. \A feed : Holds(subs, feed) => feed \in Range(subs)
    BY DEF Holds, Range
  <2>3. \A id : ~Listed(subs, id) => id \notin IdsOf(subs)
    BY DEF Listed, IdsOf
  <2> QED BY <2>1, <2>2, <2>3 DEF ReportOK
<1> QED BY <1>1, LibraryInvariant, PTL
=============================================================================
