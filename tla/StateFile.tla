-------------------------------- MODULE StateFile --------------------------------
(* One session of a player over state.json: the profile lock, the load, the   *)
(* writer thread of StateWriter with StateStore as its sink, the end of the   *)
(* session, and what may befall it - the process or the machine dies at any   *)
(* step, and another player of the same profile starts, loads, saves and      *)
(* leaves.  Every step is a step of StateWriter or leaves it alone.           *)
EXTENDS StateWriter, DurableFile

CONSTANTS Directories  \* what state.json may hold when the player starts, and
                       \* what earlier sessions may have left aside

(* What a version can be, and who can have written it. *)
FileKinds == {"none", "good", "future", "malformed", "repairable", "torn"}
Writers == {"nobody", "before", "earlier", "us", "them"}
Contents == [kind : FileKinds, by : Writers, n : Nat]

(* Nothing shows a part of a version before the player starts either. *)
ASSUME DirectoriesAssumption ==
    \A d \in Directories :
        /\ d.main \in Contents /\ d.main.kind # "torn"
        /\ d.aside \in [AsideNames -> Contents]

VARIABLES
    us,          \* start, refused, locked, running, returned (lock dropped), exited
    persisting,  \* OpenedState.persisting: StateStore is the sink, not DisabledSink
    found,       \* history: what our load read
    lock,        \* who holds state.lock
    them,        \* the other player: absent, holding, loaded, gone
    theirs,      \* what it last read or wrote
    cut,         \* the power failed once
    precious     \* history: what was there and is not ours to lose

player == <<us, persisting, found>>
others == <<them, theirs>>
worldVars == <<player, lock, others, cut, precious>>
StateFileVars == <<vars, FileVars, worldVars>>

Snapshot(n) == File("good", "us", n)
Usable == {"none", "good"}

StateFileInit ==
    /\ Init
    /\ FileInit(Directories)
    /\ us = "start" /\ persisting = FALSE /\ found = NoFile
    /\ lock = "free" /\ them = "absent" /\ theirs = NoFile /\ cut = FALSE
    /\ precious = {c \in {main} \union Range(aside) : c.kind \notin Usable}

-----------------------------------------------------------------------------
(* The player's main thread. *)

(* ProfileLock::acquire, before the file is opened at all. *)
Acquire ==
    /\ us = "start"
    /\ IF lock = "free" THEN lock' = "us" /\ us' = "locked"
                        ELSE us' = "refused" /\ UNCHANGED lock
    /\ UNCHANGED <<vars, FileVars, persisting, found, others, cut, precious>>

(* StateStore::load, then open_state. *)
Open ==
    /\ us = "locked"
    /\ \E writable \in BOOLEAN : FileLoad(writable) /\ persisting' = writable
    /\ us' = "running" /\ found' = main
    /\ UNCHANGED <<vars, lock, others, cut, precious>>

(* Submissions, shutdown and the drop of the handle. *)
MainThread ==
    /\ us = "running" /\ FrontEnd
    /\ UNCHANGED <<FileVars, worldVars>>

(* run_resolved returns: the lock goes, main has still to exit. *)
Return ==
    /\ us = "running" /\ handle \in Outcomes \union {"dropped"}
    /\ us' = "returned" /\ lock' = "free"
    /\ UNCHANGED <<vars, FileVars, persisting, found, others, cut, precious>>

-----------------------------------------------------------------------------
(* The writer thread lives until the process ends, detached or not. *)
Alive == us \in {"running", "returned"}

WriterIdles ==
    /\ Alive /\ (LoadClosing \/ Take \/ TakeNothing \/ Tick)
    /\ UNCHANGED <<FileVars, worldVars>>

(* Mutant: the sink is the file whatever the load said. *)
SavingAnyway == Alive /\ wpc = "write"

Saving == Alive /\ wpc = "write" /\ persisting
Meanwhile == UNCHANGED <<vars, worldVars>>

SaveCreated == Saving /\ FileCreate /\ Meanwhile
SaveSynced == Saving /\ FileSync(Snapshot(held)) /\ Meanwhile
SaveRenamed == Saving /\ FileRename /\ Meanwhile

(* StateStore::write returns, and the thread goes on with its answer. *)
SaveDone ==
    /\ Saving /\ \E synced \in BOOLEAN : FileReplaced(synced)
    /\ WriteOk
    /\ UNCHANGED worldVars

SaveFailed == Saving /\ FileFails /\ WriteErr /\ UNCHANGED worldVars

(* DisabledSink::write answers Ok and writes nothing. *)
SaveDisabled ==
    /\ Alive /\ wpc = "write" /\ ~persisting
    /\ WriteOk
    /\ UNCHANGED <<FileVars, worldVars>>

-----------------------------------------------------------------------------
(* The end of the process, whichever way: the system frees its lock. *)
Exit ==
    /\ us \in {"locked", "running", "returned"}
    /\ us' = "exited" /\ FileCrash
    /\ lock' = IF lock = "us" THEN "free" ELSE lock
    /\ UNCHANGED <<vars, persisting, found, others, cut, precious>>

PowerCut ==
    /\ ~cut /\ cut' = TRUE
    /\ FilePowerCut
    /\ us' = "exited" /\ lock' = "free" /\ them' = "absent" /\ theirs' = NoFile
    /\ UNCHANGED <<vars, persisting, found, precious>>

(* Another player of the profile, over a file it can use. *)
TheyAcquire ==
    /\ them = "absent" /\ lock = "free"
    /\ them' = "holding" /\ lock' = "them"
    /\ UNCHANGED <<vars, FileVars, player, theirs, cut, precious>>

TheyLoad ==
    /\ them = "holding" /\ main.kind \in Usable
    /\ them' = "loaded" /\ theirs' = main
    /\ UNCHANGED <<vars, FileVars, player, lock, cut, precious>>

TheySave ==
    /\ them = "loaded" /\ theirs.by # "them"
    /\ main' = File("good", "them", 1) /\ theirs' = main'
    /\ past' = past \union {Directory}
    /\ UNCHANGED <<vars, aside, temp, stage, player, lock, them, cut, precious>>

TheyLeave ==
    /\ them \in {"holding", "loaded"}
    /\ them' = "gone" /\ lock' = "free"
    /\ UNCHANGED <<vars, FileVars, player, theirs, cut, precious>>

StateFileNext ==
    \/ Acquire \/ Open \/ MainThread \/ Return
    \/ WriterIdles \/ SaveCreated \/ SaveSynced \/ SaveRenamed
    \/ SaveDone \/ SaveFailed \/ SaveDisabled
    \/ Exit \/ PowerCut \/ TheyAcquire \/ TheyLoad \/ TheySave \/ TheyLeave

StateFileSafe == StateFileInit /\ [][StateFileNext]_StateFileVars

(* The thread runs while the process does, time passes, a drawn number        *)
(* reaches the slot, and the steps of a replacement tried for ever succeed.   *)
StateFileSpec ==
    /\ StateFileSafe
    /\ WF_StateFileVars(Alive /\ (LoadClosing \/ Take \/ TakeNothing) /\ WriterIdles)
    /\ WF_StateFileVars(Alive /\ Tick /\ WriterIdles)
    /\ WF_StateFileVars(SaveCreated \/ SaveFailed)
    /\ SF_StateFileVars(SaveCreated)
    /\ SF_StateFileVars(SaveSynced)
    /\ SF_StateFileVars(SaveRenamed)
    /\ WF_StateFileVars(SaveDone)
    /\ WF_StateFileVars(SaveDisabled)
    /\ \A p \in Producers :
         WF_StateFileVars(MainThread /\ SubmitCommit(p, "Ordinary"))

-----------------------------------------------------------------------------
(* Properties *)

(* Whoever reads state.json, at whatever moment and after whatever crash or   *)
(* power cut, reads all of one version: replace_bytes never shows a part.     *)
WholeFile == main.kind # "torn"

(* What this build cannot use in full - a malformed file, a newer build's, a  *)
(* queue it had to reset - and what was put aside before is still there, in   *)
(* place or aside, whatever the session wrote and whenever the power failed.  *)
NothingLost ==
    \A c \in precious : main = c \/ \E n \in AsideNames : aside[n] = c

(* The final report is true of the disk: with persistence on, Written means   *)
(* the newest snapshot is in state.json; with it off the file is untouched.   *)
FlushIsTrue ==
    us = "running" =>
        /\ handle = "Written" /\ persisting /\ newest > 0 => main = Snapshot(newest)
        /\ ~persisting => main = found

(* The writer may outlive the session that dropped it or gave up on it. *)
MayOutlive == handle \in {"Unconfirmed", "dropped"}

(* The lock keeps two players apart: what a player loaded is replaced by no   *)
(* one else while it holds the profile - unless it is a writer detached by a  *)
(* session that had already released the lock.                                *)
Undisturbed ==
    /\ them = "loaded" /\ ~MayOutlive => main = theirs
    /\ us = "running" /\ main.by = "them" => main = found

(* The three together: state.json survives crashes, recovery and neighbours.  *)
FileSurvives == WholeFile /\ NothingLost /\ Undisturbed

(* While the session lasts, every snapshot reaches state.json in the end,     *)
(* itself or superseded, through any number of failed replacements.           *)
EventuallyOnDisk ==
    (newest > 0 /\ persisting)
        ~> (main = Snapshot(newest) \/ Closing \/ wpc = "absent" \/ us = "exited")
=============================================================================
