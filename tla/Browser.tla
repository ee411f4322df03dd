-------------------------------- MODULE Browser --------------------------------
(* tui/browser.rs, application/browse.rs and the Browsing of tui/mod.rs: the  *)
(* browser over the player, the worker thread that reads and changes for it   *)
(* one request at a time, and the answers that arrive after the view, the     *)
(* lists or the browser itself have changed.                                  *)
(*                                                                            *)
(* A list is the request it answers and the moment the worker read it; rows,  *)
(* cursor, ticks and wording are left out.  A mark stands for the rows the    *)
(* listener marked.  An operation is its name and the place it was asked in.  *)
EXTENDS Naturals, Sequences, SequencesExt

CONSTANTS Slugs,        \* feeds and stations one can point at
          MaxRequests   \* bound: requests handed to the worker

(* "feeds" is the list of feeds itself, where the slug of one could stand. *)
ASSUME BrowserAssumption == MaxRequests \in Nat /\ "feeds" \notin Slugs

VARIABLES
    browser,   \* BrowserState, or Closed
    requests,  \* the channel to the worker
    answers,   \* the channel back
    served,    \* requests the worker has answered
    sent       \* requests handed over

BrowserVars == <<browser, requests, answers, served, sent>>

Ask(what, arg) == [what |-> what, arg |-> arg]
Rows(of, at) == [of |-> of, at |-> at]
NoAsk == Ask("nothing", "nothing")
NoRows == Rows(NoAsk, 0)

(* Two directories, one inside the other. *)
Parent(dir) == "home"

Closed == [open |-> FALSE]
Opened(cwd) ==
    [open |-> TRUE, tab |-> "files", cwd |-> cwd, view |-> "feeds",
     entries |-> NoRows, feeds |-> NoRows, episodes |-> NoRows, stations |-> NoRows,
     loading |-> TRUE, marked |-> NoRows, prompt |-> FALSE, confirm |-> NoAsk,
     pending |-> NoAsk,
     known |-> 0]  \* history: when the last change it was told of was made

BrowserInit ==
    /\ browser = Closed
    /\ requests = <<>> /\ answers = <<>>
    /\ served = 0 /\ sent = 0

-----------------------------------------------------------------------------
(* What is looked at. *)

(* The request whose answer belongs on the screen. *)
Place(b) ==
    CASE b.tab = "files" -> Ask("dir", b.cwd)
      [] b.tab = "radio" -> Ask("stations", "all")
      [] b.tab = "podcasts" /\ b.view = "feeds" -> Ask("feeds", "all")
      [] b.tab = "podcasts" /\ b.view # "feeds" -> Ask("episodes", b.view)

Shown(b) ==
    CASE b.tab = "files" -> b.entries
      [] b.tab = "radio" -> b.stations
      [] b.tab = "podcasts" /\ b.view = "feeds" -> b.feeds
      [] b.tab = "podcasts" /\ b.view # "feeds" -> b.episodes

Showing(b, rows) ==
    CASE b.tab = "files" -> [b EXCEPT !.entries = rows]
      [] b.tab = "radio" -> [b EXCEPT !.stations = rows]
      [] b.tab = "podcasts" /\ b.view = "feeds" -> [b EXCEPT !.feeds = rows]
      [] b.tab = "podcasts" /\ b.view # "feeds" -> [b EXCEPT !.episodes = rows]

CanManage(b) == b.tab # "files" /\ ~b.loading /\ b.pending = NoAsk

ListingLoads(b) == [b EXCEPT !.loading = TRUE, !.marked = NoRows]
LeaveEpisodes(b) ==
    IF b.view = "feeds" THEN b
    ELSE [b EXCEPT !.view = "feeds", !.episodes = NoRows, !.marked = NoRows, !.loading = FALSE]

Request(ask) ==
    /\ sent < MaxRequests /\ sent' = sent + 1
    /\ requests' = Append(requests, ask)

(* The keys of the browser go to it unless a prompt or a question is open. *)
Keys == browser.open /\ ~browser.prompt /\ browser.confirm = NoAsk
Quiet == UNCHANGED <<requests, sent>>
Theirs == UNCHANGED <<answers, served>>

-----------------------------------------------------------------------------
(* Browsing. *)

BrowserOpen ==
    /\ ~browser.open
    /\ browser' = Opened("home") /\ Request(Ask("dir", "home"))
    /\ Theirs

(* What is pending goes on, and its answer finds nobody. *)
BrowserClose ==
    /\ Keys
    /\ browser' = Closed /\ Quiet /\ Theirs

-----------------------------------------------------------------------------
(* handle_key. *)

SwitchTab ==
    /\ Keys
    /\ LET b == ListingLoads(browser)
           next == CASE b.tab = "files" -> [b EXCEPT !.tab = "podcasts", !.view = "feeds",
                                                     !.episodes = NoRows, !.feeds = NoRows]
                     [] b.tab = "podcasts" -> [b EXCEPT !.tab = "radio", !.view = "feeds",
                                                        !.episodes = NoRows, !.stations = NoRows]
                     [] OTHER -> [b EXCEPT !.tab = "files", !.entries = NoRows] IN
       browser' = next /\ Request(Place(next))
    /\ Theirs

OpenDirectory(dir) ==
    /\ browser' = [ListingLoads(browser) EXCEPT !.cwd = dir, !.entries = NoRows]
    /\ Request(Ask("dir", dir))

(* Enter on a directory or on a feed. *)
Enter ==
    /\ Keys /\ Shown(browser) # NoRows
    /\ \/ browser.tab = "files" /\ browser.cwd = "home" /\ OpenDirectory("music")
       \/ /\ browser.tab = "podcasts" /\ browser.view = "feeds"
          /\ \E slug \in Slugs :
               /\ browser' = [ListingLoads(browser) EXCEPT !.view = slug, !.episodes = NoRows]
               /\ Request(Ask("episodes", slug))
    /\ Theirs

Back ==
    /\ Keys
    /\ \/ browser.tab = "files" /\ browser.cwd # "home" /\ OpenDirectory(Parent(browser.cwd))
       \/ /\ browser.tab = "podcasts" /\ browser.view # "feeds"
          /\ browser' = LeaveEpisodes(browser) /\ Request(Ask("feeds", "all"))
    /\ Theirs

Markable(b) == Shown(b) # NoRows /\ Place(b) # Ask("feeds", "all")

(* A mark is the index of a row: it means the rows shown when it was set. *)
Mark ==
    /\ Keys /\ Markable(browser)
    /\ browser' = [browser EXCEPT !.marked = Shown(browser)]
    /\ Quiet /\ Theirs

(* The marked rows go to the destination captured when the browser opened;    *)
(* folders are walked by the worker first.                                    *)
AddSelection ==
    /\ Keys /\ Markable(browser)
    /\ browser' = [browser EXCEPT !.marked = NoRows]
    /\ Quiet \/ (browser.tab = "files" /\ Request(Ask("tree", browser.cwd)))
    /\ Theirs

Submit(b, op) ==
    /\ browser' = [b EXCEPT !.pending = op]
    /\ Request(op)
    /\ Theirs

OpenPrompt ==
    /\ Keys /\ CanManage(browser)
    /\ browser' = [browser EXCEPT !.prompt = TRUE]
    /\ Quiet /\ Theirs

(* Escape, or an empty line; or a URL. *)
ClosePrompt ==
    /\ browser.open /\ browser.prompt
    /\ browser' = [browser EXCEPT !.prompt = FALSE]
    /\ Quiet /\ Theirs

EnterUrl ==
    /\ browser.open /\ browser.prompt
    /\ Submit([browser EXCEPT !.prompt = FALSE], Ask("add", browser.tab))

TargetSlugs(b) == IF b.tab = "podcasts" /\ b.view # "feeds" THEN {b.view}
                  ELSE IF Shown(b) = NoRows THEN {} ELSE Slugs

(* Refresh or re-probe, of one or of all. *)
RefreshKey ==
    /\ Keys /\ CanManage(browser)
    /\ \E slug \in TargetSlugs(browser) \union {"all"} :
         /\ slug = "all" => browser.tab = "podcasts" /\ browser.feeds # NoRows
         /\ Submit(browser, Ask(IF browser.tab = "radio" THEN "probe" ELSE "refresh", slug))

(* A subscription, or a station. *)
Removing(b) == IF b.tab = "radio" THEN "drop" ELSE "remove"

AskRemoval ==
    /\ Keys /\ CanManage(browser)
    /\ \E slug \in TargetSlugs(browser) : 
         browser' = [browser EXCEPT !.confirm = Ask(Removing(browser), slug)]
    /\ Quiet /\ Theirs

ConfirmRemoval ==
    /\ browser.open /\ browser.confirm # NoAsk
    /\ Submit([browser EXCEPT !.confirm = NoAsk], browser.confirm)

DeclineRemoval ==
    /\ browser.open /\ browser.confirm # NoAsk
    /\ browser' = [browser EXCEPT !.confirm = NoAsk]
    /\ Quiet /\ Theirs

-----------------------------------------------------------------------------
(* serve: one request at a time, each answered once. *)

Serve ==
    /\ requests # <<>>
    /\ served' = served + 1
    /\ requests' = Tail(requests)
    /\ answers' = Append(answers, Rows(Head(requests), served'))
    /\ UNCHANGED <<browser, sent>>

-----------------------------------------------------------------------------
(* Browsing::poll and BrowserState::apply. *)

IsList(ask) == ask.what \in {"dir", "feeds", "episodes", "stations"}

(* Mutant: whatever is listed is shown. *)
AppliesAny(b, answer) == IsList(answer.of)

Applies(b, answer) == answer.of = Place(b)

(* A list is replaced, by nothing if it could not be read. *)
Settled(b, rows) == Showing([b EXCEPT !.loading = FALSE, !.marked = NoRows], rows)

ApplyList ==
    /\ answers # <<>> /\ IsList(Head(answers).of)
    /\ answers' = Tail(answers)
    /\ IF browser.open /\ Applies(browser, Head(answers))
         THEN \E rows \in {Head(answers), NoRows} : browser' = Settled(browser, rows)
         ELSE UNCHANGED browser
    /\ UNCHANGED served /\ Quiet

IsChange(ask) == ask.what \in {"add", "refresh", "probe", "remove", "drop"}

ReRead(b) == Append(requests, Place(b))

(* What is shown is read again after a change. *)
ApplyChange ==
    /\ answers # <<>> /\ IsChange(Head(answers).of)
    /\ answers' = Tail(answers)
    /\ LET answer == Head(answers)
           told == [browser EXCEPT !.pending = NoAsk, !.known = answer.at]
           gone == answer.of = Ask("remove", told.view)
           left == IF gone THEN LeaveEpisodes(told) ELSE told IN
       IF ~browser.open \/ browser.pending # answer.of
         THEN UNCHANGED browser /\ Quiet
         ELSE IF left.tab = "files"
                THEN browser' = left /\ Quiet
                ELSE /\ browser' = [left EXCEPT !.loading = TRUE]
                     /\ requests' = ReRead(left) /\ UNCHANGED sent
    /\ UNCHANGED served

(* A finished walk is the application's, whatever the browser does now. *)
TakeTree ==
    /\ answers # <<>> /\ Head(answers).of.what = "tree"
    /\ answers' = Tail(answers)
    /\ UNCHANGED <<browser, served>> /\ Quiet

BrowserNext ==
    \/ BrowserOpen \/ BrowserClose
    \/ SwitchTab \/ Enter \/ Back \/ Mark \/ AddSelection
    \/ OpenPrompt \/ ClosePrompt \/ EnterUrl \/ RefreshKey
    \/ AskRemoval \/ ConfirmRemoval \/ DeclineRemoval
    \/ Serve \/ ApplyList \/ ApplyChange \/ TakeTree

BrowserSpec == BrowserInit /\ [][BrowserNext]_BrowserVars

-----------------------------------------------------------------------------
(* Properties *)

Owed == Range(requests) \union {a.of : a \in Range(answers)}

(* What is on the screen is of the place the browser is at, and the marks are *)
(* of what is on the screen: no late answer changes what a mark or a key      *)
(* means.                                                                     *)
ShownIsMeant ==
    browser.open =>
        /\ Shown(browser) # NoRows => Shown(browser).of = Place(browser)
        /\ browser.marked # NoRows => browser.marked = Shown(browser)

(* The browser never waits for what will not come: a pending change, a list   *)
(* being loaded and a list older than the last change it was told of each     *)
(* have their answer on the way.                                              *)
AnswersAreOwed ==
    browser.open =>
        /\ browser.pending # NoAsk => browser.pending \in Owed
        /\ browser.loading => Place(browser) \in Owed
        /\ browser.tab # "files" /\ Shown(browser) # NoRows
             /\ Shown(browser).at < browser.known => Place(browser) \in Owed
=============================================================================
