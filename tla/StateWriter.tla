------------------------------ MODULE StateWriter ------------------------------
(* persistence/writer.rs: a one-place keep-latest slot filled by the front    *)
(* end, and the thread that coalesces, writes, retries and acknowledges.      *)
(*                                                                            *)
(* A snapshot is its sequence number.  A deadline is the number of clock      *)
(* ticks left before it passes, so time itself needs no bound.  The slot lock *)
(* makes Slot::submit, take and reinsert_failed one step each; the sequence   *)
(* number is drawn before the lock, the closing flag is read before the take, *)
(* and the write happens between them with the lock released.  A pass that    *)
(* finds nothing due changes nothing, which is also what a pass does whose    *)
(* clock sample is older than a deadline that has since passed.               *)
EXTENDS Naturals, FiniteSets

CONSTANTS Producers,   \* threads that may call WriterHandle::submit
          MaxSeq,      \* bound: snapshots submitted in one run
          Window       \* COALESCE_WINDOW, in ticks

ASSUME WriterAssumption == MaxSeq \in Nat /\ Window \in Nat

VARIABLES
    nextSeq,      \* WriterHandle.next_seq
    inflight,     \* per producer: a number drawn but not yet in the slot, or 0
    slot,         \* Slot.pending, Empty when None
    lastWritten,  \* Slot.last_written
    failing,      \* Shared.failing
    wpc,          \* where the tenuto-state thread is
    sawClosing,   \* its local `closing` of this pass
    held,         \* its local `pending`, outside the slot during the I/O
    disk,         \* the snapshot the sink last wrote
    ack,          \* the one-place acknowledgement channel
    handle,       \* WriterHandle: open, in shutdown(), resolved, or dropped
    newest,       \* history: the newest snapshot Slot::submit was given
    age           \* history: ticks since the slot was last filled from empty

vars == <<nextSeq, inflight, slot, lastWritten, failing, wpc, sawClosing,
          held, disk, ack, handle, newest, age>>

Empty == [seq |-> 0, left |-> 0]
Urgency == {"Ordinary", "Forced"}
Outcomes == {"Written", "Failed", "Unconfirmed"}

(* Shared.closing: stored by shutdown() and by Drop, never cleared. *)
Closing == handle # "open"

Newer(a, b) == IF a >= b THEN a ELSE b

Init ==
    /\ nextSeq = 1
    /\ inflight = [p \in Producers |-> 0]
    /\ slot = Empty
    /\ lastWritten = 0
    /\ wpc \in {"loop", "absent"}       \* Builder::spawn may fail
    /\ failing = (wpc = "absent")
    /\ sawClosing = FALSE
    /\ held = 0
    /\ disk = 0
    /\ ack = "none"
    /\ handle = "open"
    /\ newest = 0
    /\ age = 0

-----------------------------------------------------------------------------
(* The front end's side. *)

(* submit, up to fetch_add: the closing check and the number. *)
SubmitBegin(p) ==
    /\ ~Closing
    /\ inflight[p] = 0
    /\ nextSeq <= MaxSeq
    /\ inflight' = [inflight EXCEPT ![p] = nextSeq]
    /\ nextSeq' = nextSeq + 1
    /\ UNCHANGED <<slot, lastWritten, failing, wpc, sawClosing, held, disk,
                   ack, handle, newest, age>>

(* Mutant: every ordinary submit restarts the window. *)
DeadlineExtended(urgency) == IF urgency = "Forced" THEN 0 ELSE Window

(* Replacing never extends a deadline; a forced snapshot is due at once. *)
Deadline(urgency) ==
    CASE urgency = "Forced" -> 0
      [] urgency = "Ordinary" /\ slot # Empty -> slot.left
      [] urgency = "Ordinary" /\ slot = Empty -> Window

(* Slot::submit under the lock. *)
SubmitCommit(p, urgency) ==
    /\ inflight[p] # 0
    /\ IF slot # Empty /\ slot.seq > inflight[p]
       THEN UNCHANGED <<slot, age>>
       ELSE /\ slot' = [seq |-> inflight[p], left |-> Deadline(urgency)]
            /\ age' = IF slot = Empty THEN 0 ELSE age
    /\ newest' = Newer(newest, inflight[p])
    /\ inflight' = [inflight EXCEPT ![p] = 0]
    /\ UNCHANGED <<nextSeq, lastWritten, failing, wpc, sawClosing, held, disk,
                   ack, handle>>

(* shutdown and Drop own the handle, so no submit is in flight. *)
NoSubmitInFlight == \A p \in Producers : inflight[p] = 0

Shutdown ==
    /\ handle = "open"
    /\ NoSubmitInFlight
    /\ handle' = IF wpc = "absent" THEN "Unconfirmed" ELSE "waiting"
    /\ UNCHANGED <<nextSeq, inflight, slot, lastWritten, failing, wpc,
                   sawClosing, held, disk, ack, newest, age>>

(* recv_timeout answered; the thread is joined. *)
ShutdownAnswered ==
    /\ handle = "waiting"
    /\ ack # "none"
    /\ handle' = IF ack = "ok" THEN "Written" ELSE "Failed"
    /\ ack' = "none"
    /\ UNCHANGED <<nextSeq, inflight, slot, lastWritten, failing, wpc,
                   sawClosing, held, disk, newest, age>>

(* ACK_TIMEOUT passed first; the thread is detached and keeps running. *)
ShutdownTimeout ==
    /\ handle = "waiting"
    /\ ack = "none"
    /\ handle' = "Unconfirmed"
    /\ UNCHANGED <<nextSeq, inflight, slot, lastWritten, failing, wpc,
                   sawClosing, held, disk, ack, newest, age>>

DropHandle ==
    /\ handle = "open"
    /\ NoSubmitInFlight
    /\ handle' = "dropped"
    /\ UNCHANGED <<nextSeq, inflight, slot, lastWritten, failing, wpc,
                   sawClosing, held, disk, ack, newest, age>>

-----------------------------------------------------------------------------
(* The tenuto-state thread. *)

(* The head of a pass: `closing` is sampled before the slot is looked at. *)
LoadClosing ==
    /\ wpc = "loop"
    /\ sawClosing' = Closing
    /\ wpc' = "take"
    /\ UNCHANGED <<nextSeq, inflight, slot, lastWritten, failing, held, disk,
                   ack, handle, newest, age>>

(* Mutant: a closing pass still waits the window out. *)
TakeableDueOnly == slot # Empty /\ slot.left = 0

Takeable == slot # Empty /\ (sawClosing \/ slot.left = 0)

(* Mutant: off by one. *)
IsStaleOffByOne(seq) == seq <= lastWritten + 1

IsStale(seq) == seq <= lastWritten

(* take_pending or take_due, then the stale guard. *)
Take ==
    /\ wpc = "take"
    /\ Takeable
    /\ slot' = Empty
    /\ age' = 0
    /\ IF IsStale(slot.seq)
       THEN held' = 0 /\ wpc' = "loop"
       ELSE held' = slot.seq /\ wpc' = "write"
    /\ UNCHANGED <<nextSeq, inflight, lastWritten, failing, sawClosing, disk,
                   ack, handle, newest>>

(* Nothing to take: go round again after the wait, or finish when closing. *)
TakeNothing ==
    /\ wpc = "take"
    /\ ~Takeable
    /\ wpc' = IF sawClosing THEN "done" ELSE "loop"
    /\ ack' = IF sawClosing THEN "ok" ELSE ack
    /\ UNCHANGED <<nextSeq, inflight, slot, lastWritten, failing, sawClosing,
                   held, disk, handle, newest, age>>

(* Mutant: writes what the slot holds by now, not what was taken. *)
WriteOkFromSlot ==
    /\ wpc = "write"
    /\ disk' = slot.seq
    /\ failing' = FALSE
    /\ lastWritten' = Newer(lastWritten, held)
    /\ held' = 0
    /\ wpc' = IF sawClosing THEN "done" ELSE "loop"
    /\ ack' = IF sawClosing THEN "ok" ELSE ack
    /\ UNCHANGED <<nextSeq, inflight, slot, sawClosing, handle, newest, age>>

WriteOk ==
    /\ wpc = "write"
    /\ disk' = held
    /\ failing' = FALSE
    /\ lastWritten' = Newer(lastWritten, held)
    /\ held' = 0
    /\ wpc' = IF sawClosing THEN "done" ELSE "loop"
    /\ ack' = IF sawClosing THEN "ok" ELSE ack
    /\ UNCHANGED <<nextSeq, inflight, slot, sawClosing, handle, newest, age>>

(* reinsert_failed: back into the slot only if nothing newer arrived. *)
Reinserted ==
    IF slot = Empty THEN [seq |-> held, left |-> Window] ELSE slot

(* Mutant: the thread gives up after one failure. *)
WriteErrSelfDisabling ==
    /\ wpc = "write"
    /\ failing' = TRUE
    /\ held' = 0
    /\ slot' = Reinserted
    /\ wpc' = "done"
    /\ UNCHANGED <<nextSeq, inflight, lastWritten, sawClosing, disk, ack,
                   handle, newest, age>>

WriteErr ==
    /\ wpc = "write"
    /\ failing' = TRUE
    /\ held' = 0
    /\ IF sawClosing
       THEN /\ ack' = "err"
            /\ wpc' = "done"
            /\ UNCHANGED slot
       ELSE /\ slot' = Reinserted
            /\ wpc' = "loop"
            /\ UNCHANGED ack
    /\ UNCHANGED <<nextSeq, inflight, lastWritten, sawClosing, disk, handle,
                   newest, age>>

(* The clock.  It is of interest only while a deadline is still ahead. *)
Tick ==
    /\ slot # Empty
    /\ slot.left > 0
    /\ slot' = [slot EXCEPT !.left = @ - 1]
    /\ age' = age + 1
    /\ UNCHANGED <<nextSeq, inflight, lastWritten, failing, wpc, sawClosing,
                   held, disk, ack, handle, newest>>

WriterStep == LoadClosing \/ Take \/ TakeNothing \/ WriteOk \/ WriteErr

FrontEnd ==
    \/ \E p \in Producers : SubmitBegin(p)
    \/ \E p \in Producers, u \in Urgency : SubmitCommit(p, u)
    \/ Shutdown \/ ShutdownAnswered \/ ShutdownTimeout \/ DropHandle

Next == FrontEnd \/ WriterStep \/ Tick

Spec == Init /\ [][Next]_vars

-----------------------------------------------------------------------------
(* Properties. *)

Slots == {Empty} \cup [seq : Nat \ {0}, left : 0 .. Window]

(* The values every variable ranges over. *)
TypeOK ==
    /\ nextSeq \in Nat \ {0}
    /\ inflight \in [Producers -> Nat]
    /\ slot \in Slots
    /\ lastWritten \in Nat
    /\ failing \in BOOLEAN
    /\ wpc \in {"loop", "take", "write", "done", "absent"}
    /\ sawClosing \in BOOLEAN
    /\ held \in Nat
    /\ disk \in Nat
    /\ ack \in {"none", "ok", "err"}
    /\ handle \in {"open", "waiting", "dropped"} \cup Outcomes
    /\ newest \in Nat
    /\ age \in Nat

(* The newest snapshot handed over is on disk, in the thread's hand or in the *)
(* slot at every moment, until the last write of a closing session fails:     *)
(* "the newest snapshot wins" (writer.rs, Slot).                              *)
NewestAlive ==
    newest \in {slot.seq, held, disk} \/ (wpc = "done" /\ failing)

(* A front end that shows no saving failure is right: with nothing waiting    *)
(* and is_failing() false, the newest snapshot is the one on disk.            *)
SavedWhenQuiet ==
    (slot = Empty /\ held = 0 /\ ~failing) => disk = newest

(* ShutdownOutcome::Written is only reported when the newest snapshot the     *)
(* session ever submitted is on disk.                                         *)
WrittenMeansSaved == handle = "Written" => disk = newest

(* Coalescing is a maximum age, not a minimum spacing: however often the      *)
(* pending snapshot is replaced, the slot is due at most Window ticks after   *)
(* it was filled.                                                             *)
CoalesceBound == slot # Empty => age + slot.left <= Window

(* The stale branch of the loop, "unreachable as the program stands", is: the *)
(* slot never holds a snapshot at or below the last one written.              *)
NoStaleDrop == slot # Empty => ~IsStale(slot.seq)

(* The writer implements a register that follows the newest snapshot. *)
Register == INSTANCE KeepLatest WITH accepted <- newest, saved <- disk
RegisterSpec == Register!Spec
=============================================================================
