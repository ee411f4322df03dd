---------------------------- MODULE StateFileProofs ----------------------------
(* Proofs about StateWriter and StateFile, for every directory the player may *)
(* find, every number of names to put things aside under, every set of        *)
(* producers, every bound and every window.                                   *)
EXTENDS StateFile, TLAPS

(* The writer over any sink. *)

(* What ties the thread's program counter, its held snapshot and the disk.    *)
ThreadInv ==
    /\ disk = lastWritten
    /\ wpc = "write" => held > lastWritten
    /\ wpc # "write" => held = 0
    /\ wpc = "absent" => failing

(* Nothing anywhere is newer than the newest snapshot handed over. *)
BoundInv ==
    /\ slot.seq <= newest
    /\ held <= newest
    /\ disk <= newest

Safe == TypeOK /\ ThreadInv /\ BoundInv

(* What the thread holds, the slot and the disk are ordered, always. *)
THEOREM SafeInvariant == Spec => []Safe
<1> USE DEF Safe, TypeOK, ThreadInv, BoundInv, Slots, Empty, Outcomes
<1>1. Init => Safe
  <2> SUFFICES ASSUME Init PROVE Safe
    OBVIOUS
  <2>1. failing \in BOOLEAN /\ sawClosing \in BOOLEAN
    BY Zenon DEF Init
  <2>2. wpc = "absent" => failing
    BY Zenon DEF Init
  <2>3. inflight \in [Producers -> Nat]
    BY DEF Init
  <2>4. /\ wpc \in {"loop", "absent"} /\ ack = "none" /\ handle = "open"
        /\ held = 0 /\ disk = 0 /\ lastWritten = 0 /\ newest = 0 /\ age = 0
        /\ nextSeq = 1 /\ slot = Empty
    BY DEF Init
  <2>5. TypeOK
    BY <2>1, <2>3, <2>4, WriterAssumption
  <2>6. ThreadInv /\ BoundInv
    BY <2>2, <2>4
  <2> QED BY <2>5, <2>6
<1>2. Safe /\ [Next]_vars => Safe'
  <2> SUFFICES ASSUME Safe, [Next]_vars PROVE Safe'
    OBVIOUS
  <2>1. ASSUME NEW p \in Producers, SubmitBegin(p) PROVE Safe'
    BY <2>1 DEF SubmitBegin
  <2>2. ASSUME NEW p \in Producers, NEW u \in Urgency, SubmitCommit(p, u)
        PROVE Safe'
    <3>1. Deadline(u) \in 0 .. Window
      BY WriterAssumption DEF Deadline, Urgency
    <3>2. inflight[p] \in Nat \ {0}
      BY <2>2 DEF SubmitCommit
    <3> QED BY <2>2, <3>1, <3>2 DEF SubmitCommit, Newer
  <2>3. CASE Shutdown
    BY <2>3 DEF Shutdown
  <2>4. CASE ShutdownAnswered
    BY <2>4 DEF ShutdownAnswered
  <2>5. CASE ShutdownTimeout
    BY <2>5 DEF ShutdownTimeout
  <2>6. CASE DropHandle
    BY <2>6 DEF DropHandle
  <2>7. CASE LoadClosing
    BY <2>7 DEF LoadClosing, Closing
  <2>8. CASE Take
    <3>1. slot.seq \in Nat \ {0} /\ slot.seq <= newest
      BY <2>8 DEF Take, Takeable
    <3>2. CASE IsStale(slot.seq)
      BY <2>8, <3>1, <3>2 DEF Take
    <3>3. CASE ~IsStale(slot.seq)
      BY <2>8, <3>1, <3>3 DEF Take, IsStale
    <3> QED BY <3>2, <3>3
  <2>9. CASE TakeNothing
    BY <2>9 DEF TakeNothing
  <2>10. CASE WriteOk
    <3>1. held \in Nat \ {0} /\ held <= newest /\ held > lastWritten
      BY <2>10 DEF WriteOk
    <3>2. wpc' \in {"done", "loop"} /\ ack' \in {"none", "ok", "err"}
      BY <2>10 DEF WriteOk
    <3>3. /\ lastWritten' = held /\ disk' = held /\ held' = 0
          /\ failing' = FALSE
          /\ UNCHANGED <<nextSeq, inflight, slot, sawClosing, handle, newest, age>>
      BY <2>10, <3>1 DEF WriteOk, Newer
    <3>4. TypeOK'
      BY <3>1, <3>2, <3>3
    <3>5. ThreadInv'
      BY <3>1, <3>2, <3>3
    <3>6. BoundInv'
      BY <3>1, <3>3
    <3> QED BY <3>4, <3>5, <3>6
  <2>11. CASE WriteErr
    <3>1. held \in Nat \ {0}
      BY <2>11 DEF WriteErr
    <3>2. Reinserted \in Slots /\ Reinserted.seq <= newest
      BY <3>1, WriterAssumption DEF Reinserted
    <3> QED BY <2>11, <3>2 DEF WriteErr
  <2>12. CASE Tick
    BY <2>12, WriterAssumption DEF Tick
  <2>13. CASE UNCHANGED vars
    BY <2>13 DEF vars
  <2> QED
    BY <2>1, <2>2, <2>3, <2>4, <2>5, <2>6, <2>7, <2>8, <2>9, <2>10, <2>11,
       <2>12, <2>13 DEF Next, FrontEnd, WriterStep
<1> QED BY <1>1, <1>2, PTL DEF Spec

(* Every variable keeps its type. *)
THEOREM TypeCorrect == Spec => []TypeOK
BY SafeInvariant, PTL DEF Safe

-----------------------------------------------------------------------------
(* The disk implements a register that follows the newest snapshot: it only   *)
(* ever moves forward, and only to a snapshot that was handed over.  It holds *)
(* for any number of producers.                                               *)
THEOREM WriterImplementsRegister == Spec => RegisterSpec
<1>1. Init => Register!Init
  BY DEF Init, Register!Init
<1>2. Safe /\ [Next]_vars => [Register!Next]_(Register!vars)
  <2> SUFFICES ASSUME Safe, [Next]_vars PROVE [Register!Next]_(Register!vars)
    OBVIOUS
  <2> USE DEF Register!Next, Register!vars
  <2>1. ASSUME NEW p \in Producers, NEW u \in Urgency, SubmitCommit(p, u)
        PROVE Register!Accept \/ UNCHANGED <<newest, disk>>
    <3>1. newest \in Nat /\ inflight[p] \in Nat
      BY <2>1 DEF Safe, TypeOK
    <3> QED BY <2>1, <3>1 DEF SubmitCommit, Newer, Register!Accept
  <2>2. CASE WriteOk
    BY <2>2 DEF WriteOk, Safe, TypeOK, ThreadInv, BoundInv, Register!Save
  <2>3. CASE UNCHANGED <<newest, disk>>
    BY <2>3
  <2> QED
    BY <2>1, <2>2, <2>3
    DEF Next, FrontEnd, WriterStep, SubmitBegin, Shutdown, ShutdownAnswered,
        ShutdownTimeout, DropHandle, LoadClosing, Take, TakeNothing, WriteErr,
        Tick, vars
<1> QED BY <1>1, <1>2, SafeInvariant, PTL DEF Spec, RegisterSpec, Register!Spec

-----------------------------------------------------------------------------
(* The age counter restarts whenever the slot is filled from empty. *)
AgeInv == CoalesceBound /\ (slot = Empty => age = 0)

(* However often the pending snapshot is replaced, it is due within Window    *)
(* ticks of the moment the slot was filled (COALESCE_WINDOW).                 *)
THEOREM CoalesceIsBounded == Spec => []CoalesceBound
<1>1. Init => AgeInv
  BY DEF Init, AgeInv, CoalesceBound
<1>2. Safe /\ AgeInv /\ [Next]_vars => AgeInv'
  <2> SUFFICES ASSUME Safe, AgeInv, [Next]_vars PROVE AgeInv'
    OBVIOUS
  <2> USE WriterAssumption DEF AgeInv, CoalesceBound, Safe, TypeOK, Slots, Empty
  <2>1. ASSUME NEW p \in Producers, NEW u \in Urgency, SubmitCommit(p, u)
        PROVE AgeInv'
    <3>1. inflight[p] \in Nat \ {0}
      BY <2>1 DEF SubmitCommit
    <3>2. Deadline(u) \in 0 .. Window
      BY DEF Deadline, Urgency
    <3>3. slot # Empty => Deadline(u) <= slot.left
      BY DEF Deadline, Urgency
    <3> QED BY <2>1, <3>1, <3>2, <3>3 DEF SubmitCommit
  <2>2. CASE Take
    BY <2>2 DEF Take
  <2>3. CASE WriteErr
    BY <2>3 DEF WriteErr, Reinserted, ThreadInv
  <2>4. CASE Tick
    BY <2>4 DEF Tick
  <2>5. CASE UNCHANGED <<slot, age>>
    BY <2>5
  <2> QED
    BY <2>1, <2>2, <2>3, <2>4, <2>5
    DEF Next, FrontEnd, WriterStep, SubmitBegin, Shutdown, ShutdownAnswered,
        ShutdownTimeout, DropHandle, LoadClosing, TakeNothing, WriteOk, vars
<1> QED BY <1>1, <1>2, SafeInvariant, PTL DEF Spec, AgeInv

-----------------------------------------------------------------------------
(* The program has one producer: the runtime owns the only WriterHandle. *)
SingleProducer == \A p, q \in Producers : p = q

(* A drawn number is newer than every snapshot the slot has been given. *)
DrawnInv ==
    /\ newest < nextSeq
    /\ \A p \in Producers :
          inflight[p] < nextSeq /\ (inflight[p] # 0 => inflight[p] > newest)

(* What waits is the newest snapshot, newer than any the thread has had. *)
SlotInv ==
    slot # Empty => slot.seq = newest /\ newest > held /\ newest > lastWritten

(* The order of a shutdown: no submit overlaps it, and a pass that saw it     *)
(* empties the slot before its last write.                                    *)
ClosingInv ==
    /\ Closing => NoSubmitInFlight
    /\ sawClosing => Closing
    /\ wpc = "done" => sawClosing
    /\ wpc \in {"write", "done"} /\ sawClosing => slot = Empty

AckInv == ack = "ok" \/ handle = "Written" => wpc = "done" /\ disk = newest

Kept == DrawnInv /\ SlotInv /\ NewestAlive /\ ClosingInv /\ AckInv

(* With one producer the newest snapshot is in the slot, in hand or on disk. *)
LEMMA KeptInvariant == SingleProducer => (Spec => []Kept)
<1> SUFFICES ASSUME SingleProducer PROVE Spec => []Kept
  OBVIOUS
<1> USE DEF Kept, DrawnInv, SlotInv, NewestAlive, ClosingInv, AckInv,
            NoSubmitInFlight, Closing, Empty
<1>1. Init => Kept
  <2> SUFFICES ASSUME Init PROVE Kept
    OBVIOUS
  <2>1. ~sawClosing
    BY Zenon DEF Init
  <2>2. /\ nextSeq = 1 /\ inflight = [p \in Producers |-> 0] /\ slot = Empty
        /\ wpc # "done" /\ newest = 0 /\ ack = "none" /\ handle = "open"
    BY DEF Init
  <2> QED BY <2>1, <2>2
<1>2. Safe /\ Kept /\ [Next]_vars => Kept'
  <2> SUFFICES ASSUME Safe, Kept, [Next]_vars PROVE Kept'
    OBVIOUS
  <2> USE DEF Safe, TypeOK, ThreadInv, BoundInv, Slots, Outcomes
  <2>1. ASSUME NEW p \in Producers, SubmitBegin(p) PROVE Kept'
    BY <2>1 DEF SubmitBegin
  <2>2. ASSUME NEW p \in Producers, NEW u \in Urgency, SubmitCommit(p, u)
        PROVE Kept'
    <3>1. /\ inflight[p] > newest /\ handle = "open"
          /\ inflight' = [inflight EXCEPT ![p] = 0]
          /\ inflight[p] < nextSeq /\ inflight[p] \in Nat \ {0}
      BY <2>2 DEF SubmitCommit
    <3>2. slot'.seq = inflight[p] /\ newest' = inflight[p]
      BY <2>2, <3>1 DEF SubmitCommit, Newer
    <3>3. \A q \in Producers : q = p
      BY SingleProducer DEF SingleProducer
    <3> QED BY <2>2, <3>1, <3>2, <3>3 DEF SubmitCommit
  <2>3. CASE Shutdown
    BY <2>3 DEF Shutdown
  <2>4. CASE ShutdownAnswered
    BY <2>4 DEF ShutdownAnswered
  <2>5. CASE ShutdownTimeout
    BY <2>5 DEF ShutdownTimeout
  <2>6. CASE DropHandle
    BY <2>6 DEF DropHandle
  <2>7. CASE LoadClosing
    BY <2>7 DEF LoadClosing
  <2>8. CASE Take
    <3>1. ~IsStale(slot.seq) /\ slot.seq = newest
      BY <2>8 DEF Take, Takeable, IsStale
    <3> QED BY <2>8, <3>1 DEF Take
  <2>9. CASE TakeNothing
    BY <2>9 DEF TakeNothing, Takeable
  <2>10. CASE WriteOk
    <3>1. /\ held \in Nat \ {0} /\ held > lastWritten /\ held <= newest
          /\ wpc = "write" /\ lastWritten' = held /\ disk' = held /\ held' = 0
          /\ UNCHANGED <<nextSeq, inflight, slot, sawClosing, handle, newest>>
      BY <2>10 DEF WriteOk, Newer
    <3>2. wpc' = IF sawClosing THEN "done" ELSE "loop"
      BY <2>10 DEF WriteOk
    <3>3. ack' = IF sawClosing THEN "ok" ELSE ack
      BY <2>10 DEF WriteOk
    <3>4. DrawnInv' /\ SlotInv' /\ ClosingInv'
      BY <3>1, <3>2
    <3>5. NewestAlive'
      BY <3>1
    <3>6. AckInv'
      BY <3>1, <3>2, <3>3
    <3> QED BY <3>4, <3>5, <3>6
  <2>11. CASE WriteErr
    BY <2>11 DEF WriteErr, Reinserted
  <2>12. CASE Tick
    BY <2>12 DEF Tick
  <2>13. CASE UNCHANGED vars
    BY <2>13 DEF vars
  <2> QED
    BY <2>1, <2>2, <2>3, <2>4, <2>5, <2>6, <2>7, <2>8, <2>9, <2>10, <2>11,
       <2>12, <2>13 DEF Next, FrontEnd, WriterStep
<1> QED BY <1>1, <1>2, SafeInvariant, PTL DEF Spec

(* With the program's one producer the newest snapshot is never lost: it is   *)
(* in the slot, in the thread's hand or on disk until a closing write fails.  *)
THEOREM NewestSurvives == SingleProducer => (Spec => []NewestAlive)
BY KeptInvariant, PTL DEF Kept

(* The stale branch of the loop is unreachable, as its comment says. *)
THEOREM StaleBranchUnreachable == SingleProducer => (Spec => []NoStaleDrop)
<1>1. Safe /\ Kept => NoStaleDrop
  BY DEF Safe, TypeOK, Slots, Empty, Kept, SlotInv, NoStaleDrop, IsStale
<1> QED BY <1>1, SafeInvariant, KeptInvariant, PTL

(* A shutdown that reports Written leaves the newest snapshot on disk. *)
THEOREM WrittenIsSaved == SingleProducer => (Spec => []WrittenMeansSaved)
<1>1. Kept => WrittenMeansSaved
  BY DEF Kept, AckInv, WrittenMeansSaved
<1> QED BY <1>1, KeptInvariant, PTL

(* When nothing waits and no failure is shown, the disk is up to date. *)
THEOREM QuietIsSaved == SingleProducer => (Spec => []SavedWhenQuiet)
<1>1. Safe /\ Kept => SavedWhenQuiet
  BY DEF Safe, TypeOK, BoundInv, Empty, Kept, NewestAlive, SavedWhenQuiet
<1> QED BY <1>1, SafeInvariant, KeptInvariant, PTL

-----------------------------------------------------------------------------
(* The writer over the file. *)

(* A directory that lost nothing, and one that could lose its file. *)
Holds(d, c) == d.main = c \/ \E n \in AsideNames : d.aside[n] = c
IsAside(c) == \E n \in AsideNames : aside[n] = c

DirectoryInv(d) ==
    /\ d.main \in Contents /\ d.main.kind # "torn"
    /\ d.aside \in [AsideNames -> Contents]
    /\ \A c \in precious : Holds(d, c)

(* Every directory a reader or a power cut may come upon is whole, and what   *)
(* is not a player's to lose is aside before that player may save.            *)
DirectoriesInv ==
    /\ DirectoryInv(Directory)
    /\ \A d \in past : DirectoryInv(d)
    /\ \A c \in precious : c.kind \notin Usable
    /\ (Alive /\ persisting) \/ them = "loaded" => \A c \in precious : IsAside(c)

(* The replacement under way is the writer thread's, of what it holds. *)
StageInv ==
    /\ stage \in {"idle", "created", "synced", "renamed"}
    /\ stage # "idle" => Alive /\ persisting /\ wpc = "write"
    /\ stage = "synced" => temp = Snapshot(held)
    /\ stage = "renamed" /\ us = "running" => main = Snapshot(held)

(* The lock: it is ours until the session returns, theirs until they leave.   *)
LockInv ==
    /\ us \in {"start", "refused", "locked", "running", "returned", "exited"}
    /\ persisting \in BOOLEAN
    /\ us \in {"locked", "running"} => lock = "us"
    /\ them \in {"absent", "holding", "loaded", "gone"}
    /\ them \in {"holding", "loaded"} => lock = "them"
    /\ us = "returned" => handle \in Outcomes \union {"dropped"}

(* The writer's own view of the disk is the file's, while the session lasts. *)
SessionInv ==
    /\ us \in {"start", "refused", "locked"} => disk = 0 /\ newest = 0 /\ handle = "open"
    /\ us = "running" =>
        /\ persisting /\ disk > 0 /\ stage # "renamed" => main = Snapshot(disk)
        /\ ~persisting => main = found

(* An answer is the thread's last word. *)
AnsweredInv ==
    ack # "none" \/ handle \in {"Written", "Failed"} => wpc = "done"

-----------------------------------------------------------------------------
(* Every step over the file is a step of the writer's, or none of its doing.  *)
LEMMA StepRefines == [StateFileNext]_StateFileVars => [Next]_vars
<1> SUFFICES ASSUME [StateFileNext]_StateFileVars PROVE [Next]_vars
  OBVIOUS
<1> USE DEF Next
<1>1. CASE MainThread
  BY <1>1 DEF MainThread
<1>2. CASE WriterIdles
  BY <1>2 DEF WriterIdles, WriterStep
<1>3. CASE SaveDone \/ SaveDisabled
  BY <1>3 DEF SaveDone, SaveDisabled, WriterStep
<1>4. CASE SaveFailed
  BY <1>4 DEF SaveFailed, WriterStep
<1>5. CASE UNCHANGED vars
  BY <1>5
<1>6. CASE UNCHANGED StateFileVars
  BY <1>6 DEF StateFileVars
<1> QED
  BY <1>1, <1>2, <1>3, <1>4, <1>5, <1>6
  DEF StateFileNext, Acquire, Open, Return, SaveCreated, SaveSynced,
      SaveRenamed, Meanwhile, Exit, PowerCut, TheyAcquire, TheyLoad, TheySave,
      TheyLeave

(* With StateStore as its sink, its lock, crashes, power cuts and neighbours  *)
(* around it, the writer still behaves as StateWriter says: what is proved of *)
(* the writer holds of every session over the file.                           *)
THEOREM FileImplementsWriter == StateFileSafe => Spec
<1>1. StateFileInit => Init
  BY DEF StateFileInit
<1> QED BY <1>1, StepRefines, PTL DEF StateFileSafe, Spec

(* The specification without its fairness. *)
LEMMA SpecIsSafe == StateFileSpec => StateFileSafe
BY PTL DEF StateFileSpec

-----------------------------------------------------------------------------
(* An acknowledgement is the last thing the thread does. *)
LEMMA AnsweredInvariant == Spec => []AnsweredInv
<1>1. Init => AnsweredInv
  BY DEF Init, AnsweredInv
<1>2. AnsweredInv /\ [Next]_vars => AnsweredInv'
  BY DEF AnsweredInv, Next, FrontEnd, WriterStep, SubmitBegin, SubmitCommit,
         Shutdown, ShutdownAnswered, ShutdownTimeout, DropHandle, LoadClosing,
         Take, TakeNothing, WriteOk, WriteErr, Tick, vars
<1> QED BY <1>1, <1>2, PTL DEF Spec

(* The lock is held by whom the session says, in every reachable state. *)
LEMMA LockInvariant == StateFileSafe => []LockInv
<1> USE DEF LockInv
<1>1. StateFileInit => LockInv
  BY Zenon DEF StateFileInit
<1>2. LockInv /\ [StateFileNext]_StateFileVars => LockInv'
  <2> SUFFICES ASSUME LockInv, [StateFileNext]_StateFileVars PROVE LockInv'
    OBVIOUS
  <2>1. CASE Acquire
    BY <2>1 DEF Acquire, vars, others
  <2>2. CASE Open
    BY <2>2 DEF Open, vars, others
  <2>3. CASE MainThread
    BY <2>3 DEF MainThread, worldVars, player, others
  <2>4. CASE Return
    BY <2>4 DEF Return, vars, others
  <2>5. ASSUME WriterIdles \/ SaveDone \/ SaveFailed \/ SaveDisabled PROVE LockInv'
    <3>1. UNCHANGED <<us, persisting, lock, them, handle>>
      BY <2>5 DEF WriterIdles, SaveDone, SaveFailed, SaveDisabled, worldVars,
           player, others, LoadClosing, Take, TakeNothing, WriteOk, WriteErr, Tick
    <3> QED BY <3>1
  <2>6. CASE SaveCreated \/ SaveSynced \/ SaveRenamed
    BY <2>6 DEF SaveCreated, SaveSynced, SaveRenamed, Meanwhile, worldVars,
         player, others, vars
  <2>7. CASE Exit
    BY <2>7 DEF Exit, vars, others
  <2>8. CASE PowerCut
    BY <2>8 DEF PowerCut, vars
  <2>9. CASE TheyAcquire \/ TheyLoad \/ TheySave \/ TheyLeave
    BY <2>9 DEF TheyAcquire, TheyLoad, TheySave, TheyLeave, vars, player
  <2>10. CASE UNCHANGED StateFileVars
    BY <2>10 DEF StateFileVars, worldVars, player, others, vars
  <2> QED
    BY <2>1, <2>2, <2>3, <2>4, <2>5, <2>6, <2>7, <2>8, <2>9, <2>10
    DEF StateFileNext
<1> QED BY <1>1, <1>2, PTL DEF StateFileSafe

(* The replacement under way is of what the thread holds, always. *)
LEMMA StageInvariant == StateFileSafe => []StageInv
<1>1. StateFileInit => StageInv
  BY DEF StateFileInit, FileInit, StageInv
<1>2. LockInv /\ StageInv /\ [StateFileNext]_StateFileVars => StageInv'
  <2> SUFFICES ASSUME LockInv, StageInv, [StateFileNext]_StateFileVars
               PROVE StageInv'
    OBVIOUS
  <2> USE DEF LockInv, StageInv, Alive, Snapshot
  <2>1. CASE Acquire
    BY <2>1 DEF Acquire, vars, FileVars
  <2>2. CASE Open
    <3>1. stage = "idle" /\ stage' = stage
      BY <2>2 DEF Open, FileLoad
    <3> QED BY <3>1
  <2>3. CASE MainThread
    <3>1. UNCHANGED <<main, temp, stage, us, persisting, wpc, held>>
      BY <2>3 DEF MainThread, FrontEnd, SubmitBegin, SubmitCommit, Shutdown,
           ShutdownAnswered, ShutdownTimeout, DropHandle, FileVars, worldVars, player
    <3> QED BY <3>1
  <2>4. CASE Return
    BY <2>4 DEF Return, vars, FileVars
  <2>5. CASE WriterIdles
    <3>1. /\ UNCHANGED <<main, temp, stage, us, persisting>>
          /\ wpc = "write" => UNCHANGED <<wpc, held>>
      BY <2>5 DEF WriterIdles, LoadClosing, Take, TakeNothing, Tick, FileVars,
           worldVars, player
    <3> QED BY <3>1
  <2>6. CASE SaveCreated
    BY <2>6 DEF SaveCreated, FileCreate, Saving, Meanwhile, vars, worldVars, player
  <2>7. CASE SaveSynced
    BY <2>7 DEF SaveSynced, FileSync, Saving, Meanwhile, vars, worldVars, player
  <2>8. CASE SaveRenamed
    BY <2>8 DEF SaveRenamed, FileRename, Saving, Meanwhile, vars, worldVars, player
  <2>9. CASE SaveDone
    <3>1. stage' = "idle"
      BY <2>9 DEF SaveDone, FileReplaced
    <3> QED BY <3>1
  <2>10. CASE SaveFailed
    <3>1. stage' = "idle"
      BY <2>10 DEF SaveFailed, FileFails
    <3> QED BY <3>1
  <2>11. CASE SaveDisabled
    <3>1. stage = "idle" /\ stage' = "idle"
      BY <2>11 DEF SaveDisabled, FileVars
    <3> QED BY <3>1
  <2>12. CASE Exit \/ PowerCut
    <3>1. stage' = "idle"
      BY <2>12 DEF Exit, FileCrash, PowerCut, FilePowerCut
    <3> QED BY <3>1
  <2>13. CASE TheyAcquire \/ TheyLoad \/ TheyLeave
    BY <2>13 DEF TheyAcquire, TheyLoad, TheyLeave, vars, FileVars, player
  <2>14. CASE TheySave
    BY <2>14 DEF TheySave, vars, player
  <2>15. CASE UNCHANGED StateFileVars
    BY <2>15 DEF StateFileVars, vars, FileVars, worldVars, player
  <2> QED
    BY <2>1, <2>2, <2>3, <2>4, <2>5, <2>6, <2>7, <2>8, <2>9, <2>10, <2>11,
       <2>12, <2>13, <2>14, <2>15 DEF StateFileNext
<1> QED BY <1>1, <1>2, LockInvariant, PTL DEF StateFileSafe

(* During a session the file is what the writer believes it is, always. *)
LEMMA SessionInvariant == StateFileSafe => []SessionInv
<1>1. StateFileInit => SessionInv
  BY DEF StateFileInit, Init, SessionInv
<1>2. Safe /\ LockInv /\ StageInv /\ SessionInv /\ [StateFileNext]_StateFileVars
        => SessionInv'
  <2> SUFFICES ASSUME Safe, LockInv, StageInv, SessionInv,
                      [StateFileNext]_StateFileVars
               PROVE SessionInv'
    OBVIOUS
  <2> USE DEF LockInv, StageInv, SessionInv, Snapshot
  <2>1. CASE Acquire
    BY <2>1 DEF Acquire, vars, FileVars
  <2>2. CASE Open
    <3>1. /\ us' = "running" /\ disk' = 0 /\ found' = main
          /\ stage = "idle" /\ stage' = "idle"
      BY <2>2 DEF Open, FileLoad, vars, Alive
    <3>2. ~persisting' => main' = main
      BY <2>2 DEF Open, FileLoad, LoadMissing, LoadGood, LoadMalformed,
           LoadRepaired, KeepCopy, WritableUnkept
    <3> QED BY <3>1, <3>2
  <2>3. CASE MainThread
    <3>1. UNCHANGED <<main, stage, us, persisting, found, disk>>
      BY <2>3 DEF MainThread, FrontEnd, SubmitBegin, SubmitCommit, Shutdown,
           ShutdownAnswered, ShutdownTimeout, DropHandle, FileVars, worldVars, player
    <3>2. us = "running"
      BY <2>3 DEF MainThread
    <3> QED BY <3>1, <3>2
  <2>4. CASE Return
    BY <2>4 DEF Return, vars, FileVars
  <2>5. CASE WriterIdles
    <3>1. UNCHANGED <<main, stage, us, persisting, found, disk, newest, handle>>
      BY <2>5 DEF WriterIdles, LoadClosing, Take, TakeNothing, Tick, FileVars,
           worldVars, player
    <3> QED BY <3>1
  <2>6. CASE SaveCreated \/ SaveSynced
    <3>1. UNCHANGED <<main, us, persisting, found, disk, newest, handle>>
      BY <2>6 DEF SaveCreated, SaveSynced, FileCreate, FileSync, Meanwhile,
           vars, worldVars, player
    <3>2. stage # "renamed" /\ persisting
      BY <2>6 DEF SaveCreated, SaveSynced, FileCreate, FileSync, Saving
    <3> QED BY <3>1, <3>2
  <2>7. CASE SaveRenamed
    <3>1. UNCHANGED <<us, persisting, found, disk, newest, handle>>
      BY <2>7 DEF SaveRenamed, Meanwhile, vars, worldVars, player
    <3>2. stage' = "renamed" /\ persisting
      BY <2>7 DEF SaveRenamed, FileRename, Saving
    <3> QED BY <3>1, <3>2
  <2>8. CASE SaveDone
    <3>1. /\ us \in {"running", "returned"} /\ persisting
          /\ stage = "renamed" /\ UNCHANGED <<main, us, persisting>>
          /\ disk' = held
      BY <2>8 DEF SaveDone, FileReplaced, Saving, Alive, WriteOk, worldVars, player
    <3> QED BY <3>1
  <2>9. CASE SaveFailed
    <3>1. /\ UNCHANGED <<main, us, persisting, found, disk, newest, handle>>
          /\ stage # "renamed"
      BY <2>9 DEF SaveFailed, FileFails, WriteErr, worldVars, player
    <3> QED BY <3>1
  <2>10. CASE SaveDisabled
    <3>1. /\ us \in {"running", "returned"} /\ ~persisting
          /\ UNCHANGED <<main, us, persisting, found>>
      BY <2>10 DEF SaveDisabled, Alive, FileVars, worldVars, player
    <3> QED BY <3>1
  <2>11. CASE Exit \/ PowerCut
    <3>1. us' = "exited"
      BY <2>11 DEF Exit, PowerCut
    <3> QED BY <3>1
  <2>12. CASE TheyAcquire \/ TheyLoad \/ TheyLeave
    BY <2>12 DEF TheyAcquire, TheyLoad, TheyLeave, vars, FileVars, player
  <2>13. CASE TheySave
    BY <2>13 DEF TheySave, vars, player
  <2>14. CASE UNCHANGED StateFileVars
    BY <2>14 DEF StateFileVars, vars, FileVars, worldVars, player
  <2> QED
    BY <2>1, <2>2, <2>3, <2>4, <2>5, <2>6, <2>7, <2>8, <2>9, <2>10, <2>11,
       <2>12, <2>13, <2>14 DEF StateFileNext
<1> QED
  BY <1>1, <1>2, LockInvariant, StageInvariant, FileImplementsWriter,
     SafeInvariant, PTL DEF StateFileSafe

(* With the program's one producer, the report of a shutdown is true of the   *)
(* disk: with persistence on, Written means that the newest snapshot is in    *)
(* state.json, and with it off the session never touched the file.            *)
THEOREM FlushReportIsTrue == SingleProducer => (StateFileSpec => []FlushIsTrue)
<1> SUFFICES ASSUME SingleProducer PROVE StateFileSpec => []FlushIsTrue
  OBVIOUS
<1>1. Kept /\ StageInv /\ SessionInv => FlushIsTrue
  <2> SUFFICES ASSUME Kept, StageInv, SessionInv, us = "running"
               PROVE /\ handle = "Written" /\ persisting /\ newest > 0
                           => main = Snapshot(newest)
                     /\ ~persisting => main = found
    BY DEF FlushIsTrue
  <2>1. handle = "Written" => wpc = "done" /\ disk = newest
    BY DEF Kept, AckInv
  <2>2. handle = "Written" => stage # "renamed"
    BY <2>1 DEF StageInv
  <2> QED BY <2>1, <2>2 DEF SessionInv
<1>2. Spec => []Kept
  BY KeptInvariant
<1> QED
  BY <1>1, <1>2, SpecIsSafe, FileImplementsWriter, StageInvariant,
     SessionInvariant, PTL

-----------------------------------------------------------------------------
(* A snapshot is a whole file. *)
LEMMA SnapshotIsWhole ==
  ASSUME NEW n \in Nat
  PROVE  Snapshot(n) \in Contents /\ Snapshot(n).kind = "good"
BY DEF Snapshot, File, Contents, FileKinds, Writers

(* Putting the file aside, or a copy of it, under a free name loses nothing,  *)
(* and makes a precious file one that is aside.                               *)
LEMMA PutAsideKeeps ==
  ASSUME DirectoryInv(Directory), UNCHANGED precious,
         \A c \in precious : c.kind \notin Usable,
         NEW name \in AsideNames, aside[name] = NoFile,
         NEW content \in Contents, aside' = [aside EXCEPT ![name] = content],
         main' \in Contents, main'.kind # "torn", main' = main \/ content = main
  PROVE  /\ DirectoryInv(Directory)'
         /\ content = main => \A c \in precious : IsAside(c)'
<1> USE DEF DirectoryInv, Directory, IsAside
<1>1. \A n \in AsideNames : aside'[n] = IF n = name THEN content ELSE aside[n]
  OBVIOUS
<1>2. aside' \in [AsideNames -> Contents]
  OBVIOUS
<1>3. NoFile \notin precious
  BY DEF NoFile, File, Usable
<1>4. \A c \in precious, n \in AsideNames : aside[n] = c => aside'[n] = c
  BY <1>1, <1>3
<1>5. ASSUME NEW c \in precious PROVE main = c \/ \E n \in AsideNames : aside[n] = c
  BY <1>5 DEF Holds
<1>6. ASSUME content = main, NEW c \in precious
      PROVE  \E n \in AsideNames : aside'[n] = c
  BY <1>1, <1>4, <1>5, <1>6
<1>7. ASSUME NEW c \in precious
      PROVE  main' = c \/ \E n \in AsideNames : aside'[n] = c
  BY <1>4, <1>5, <1>6
<1> QED BY <1>2, <1>6, <1>7 DEF Holds

(* Loading the file loses nothing precious, and puts it aside before a save. *)
LEMMA LoadKeeps ==
  ASSUME DirectoriesInv, UNCHANGED precious, NEW writable \in BOOLEAN,
         FileLoad(writable)
  PROVE  /\ DirectoryInv(Directory)'
         /\ past' \subseteq past \union {Directory}
         /\ writable => \A c \in precious : IsAside(c)'
<1> USE DEF DirectoriesInv
<1>1. NoFile \in Contents /\ Torn \in Contents /\ NoFile.kind # "torn"
  BY DEF NoFile, Torn, File, Contents, FileKinds, Writers
<1>2. main \in Contents /\ main.kind # "torn"
  BY DEF DirectoryInv, Directory
<1>3. ASSUME UNCHANGED <<main, aside, past>>, main.kind \in Usable \/ ~writable
      PROVE  /\ DirectoryInv(Directory)' /\ past' \subseteq past
             /\ writable => \A c \in precious : IsAside(c)'
  <2>1. DirectoryInv(Directory)'
    BY <1>3 DEF DirectoryInv, Directory, Holds
  <2>2. main.kind \in Usable => \A c \in precious : IsAside(c)
    BY DEF DirectoryInv, Directory, Holds, IsAside
  <2> QED BY <1>3, <2>1, <2>2 DEF IsAside
<1>4. CASE LoadMalformed(writable)
  <2>1. ASSUME NEW name \in AsideNames, Quarantine(name)
        PROVE  /\ DirectoryInv(Directory)' /\ past' = past \union {Directory}
               /\ \A c \in precious : IsAside(c)'
    <3>1. /\ aside[name] = NoFile /\ aside' = [aside EXCEPT ![name] = main]
          /\ main' = NoFile /\ past' = past \union {Directory}
      BY <2>1 DEF Quarantine, FreeNames
    <3> QED BY <1>1, <1>2, <3>1, PutAsideKeeps
  <2>2. CASE writable = WritableUnkept /\ UNCHANGED <<main, aside, past>>
    BY <1>3, <2>2 DEF WritableUnkept
  <2> QED BY <1>4, <2>1, <2>2 DEF LoadMalformed
<1>5. CASE LoadRepaired(writable)
  <2>1. ASSUME NEW name \in AsideNames, NEW content \in {main, Torn},
               KeepCopy(name, content)
        PROVE  /\ DirectoryInv(Directory)' /\ past' \subseteq past \union {Directory}
               /\ content = main => \A c \in precious : IsAside(c)'
    <3>1. /\ aside[name] = NoFile /\ aside' = [aside EXCEPT ![name] = content]
          /\ main' = main /\ past' \subseteq past \union {Directory}
      BY <2>1 DEF KeepCopy, FreeNames
    <3> QED BY <1>1, <1>2, <3>1, PutAsideKeeps
  <2>2. CASE writable = WritableUnkept /\ UNCHANGED <<main, aside, past>>
    BY <1>3, <2>2 DEF WritableUnkept
  <2> QED BY <1>5, <2>1, <2>2 DEF LoadRepaired, WritableUnkept
<1> QED
  BY <1>3, <1>4, <1>5
  DEF FileLoad, LoadMissing, LoadUnreadable, LoadGood, LoadUnsupported, Usable

(* No directory a reader or a power cut comes upon has lost anything. *)
LEMMA DirectoriesInvariant == StateFileSafe => []DirectoriesInv
<1>1. StateFileInit => DirectoriesInv
  <2> SUFFICES ASSUME StateFileInit PROVE DirectoriesInv
    OBVIOUS
  <2>1. PICK d \in Directories : main = d.main /\ aside = d.aside
    BY DEF StateFileInit, FileInit
  <2>2. /\ past = {} /\ us = "start" /\ them = "absent"
        /\ precious = {c \in {main} \union Range(aside) : c.kind \notin Usable}
    BY DEF StateFileInit, FileInit
  <2>3. aside \in [AsideNames -> Contents]
    BY <2>1, DirectoriesAssumption
  <2>4. Range(aside) = {aside[n] : n \in AsideNames}
    BY <2>3 DEF Range
  <2>5. DirectoryInv(Directory)
    BY <2>1, <2>2, <2>4, DirectoriesAssumption DEF DirectoryInv, Directory, Holds
  <2> QED BY <2>2, <2>5 DEF DirectoriesInv, Alive
<1>2. Safe /\ LockInv /\ StageInv /\ DirectoriesInv /\ [StateFileNext]_StateFileVars
        => DirectoriesInv'
  <2> SUFFICES ASSUME Safe, LockInv, StageInv, DirectoriesInv,
                      [StateFileNext]_StateFileVars
               PROVE DirectoriesInv'
    OBVIOUS
  <2> DEFINE Covered == \A c \in precious : IsAside(c)
             MaySave == (Alive /\ persisting) \/ them = "loaded"
  <2>1. ASSUME DirectoryInv(Directory)', past' \subseteq past \union {Directory},
               UNCHANGED precious, MaySave' => Covered'
        PROVE DirectoriesInv'
    BY <2>1 DEF DirectoriesInv, DirectoryInv
  <2>2. ASSUME UNCHANGED <<main, aside, past, precious>>, MaySave' => MaySave
        PROVE DirectoriesInv'
    <3>1. DirectoryInv(Directory)'
      BY <2>2 DEF DirectoriesInv, DirectoryInv, Directory, Holds
    <3>2. Covered => Covered'
      BY <2>2 DEF IsAside
    <3> QED BY <2>1, <2>2, <3>1, <3>2 DEF DirectoriesInv
  <2>3. ASSUME main' \in Contents, main'.kind # "torn", MaySave,
               UNCHANGED <<aside, precious, us, persisting, them>>,
               past' = past \union {Directory}
        PROVE DirectoriesInv'
    <3>1. Covered /\ Covered'
      BY <2>3 DEF DirectoriesInv, IsAside
    <3>2. DirectoryInv(Directory)'
      BY <2>3, <3>1 DEF DirectoriesInv, DirectoryInv, Directory, Holds, IsAside
    <3> QED BY <2>1, <2>3, <3>1, <3>2
  <2>4. CASE Acquire
    BY <2>4, <2>2 DEF Acquire, FileVars, others, Alive
  <2>5. CASE Open
    <3>1. PICK writable \in BOOLEAN : FileLoad(writable) /\ persisting' = writable
      BY <2>5 DEF Open
    <3>2. UNCHANGED <<precious, them>> /\ them # "loaded"
      BY <2>5 DEF Open, others, LockInv
    <3> QED BY <2>1, <3>1, <3>2, LoadKeeps
  <2>6. CASE MainThread \/ WriterIdles \/ SaveFailed \/ SaveDisabled
    BY <2>6, <2>2 DEF MainThread, WriterIdles, SaveFailed, FileFails,
       SaveDisabled, FileVars, worldVars, player, others, Alive
  <2>7. CASE Return
    BY <2>7, <2>2 DEF Return, FileVars, others, Alive
  <2>8. CASE SaveCreated \/ SaveSynced
    BY <2>8, <2>2 DEF SaveCreated, SaveSynced, FileCreate, FileSync, Meanwhile,
       worldVars, player, others, Alive
  <2>9. CASE SaveRenamed
    <3>1. main' = Snapshot(held) /\ held \in Nat
      BY <2>9 DEF SaveRenamed, FileRename, StageInv, Safe, TypeOK
    <3>2. /\ MaySave /\ past' = past \union {Directory}
          /\ UNCHANGED <<aside, precious, us, persisting, them>>
      BY <2>9 DEF SaveRenamed, FileRename, Saving, Meanwhile, worldVars, player, others
    <3> QED BY <2>3, <3>1, <3>2, SnapshotIsWhole
  <2>10. CASE SaveDone
    <3>1. /\ UNCHANGED <<main, aside, precious, us, persisting, them>>
          /\ past' \subseteq past
      BY <2>10 DEF SaveDone, FileReplaced, worldVars, player, others
    <3>2. DirectoryInv(Directory)'
      BY <3>1 DEF DirectoriesInv, DirectoryInv, Directory, Holds
    <3>3. MaySave' => Covered'
      BY <3>1 DEF DirectoriesInv, IsAside, Alive
    <3> QED BY <2>1, <3>1, <3>2, <3>3
  <2>11. CASE Exit
    BY <2>11, <2>2 DEF Exit, FileCrash, others, Alive
  <2>12. CASE PowerCut
    <3>1. PICK d \in past \union {Directory} : main' = d.main /\ aside' = d.aside
      BY <2>12 DEF PowerCut, FilePowerCut
    <3>2. /\ past' = {} /\ us' = "exited" /\ them' = "absent"
          /\ UNCHANGED precious
      BY <2>12 DEF PowerCut, FilePowerCut
    <3>3. DirectoryInv(d)
      BY DEF DirectoriesInv
    <3>4. DirectoryInv(Directory)'
      BY <3>1, <3>2, <3>3 DEF DirectoryInv, Directory, Holds
    <3> QED BY <2>1, <3>2, <3>4 DEF Alive
  <2>13. CASE TheyAcquire \/ TheyLeave
    BY <2>13, <2>2 DEF TheyAcquire, TheyLeave, FileVars, player, Alive
  <2>14. CASE TheyLoad
    <3>1. UNCHANGED <<main, aside, past, precious, us, persisting>>
      BY <2>14 DEF TheyLoad, FileVars, player
    <3>2. main.kind \in Usable
      BY <2>14 DEF TheyLoad
    <3>3. DirectoryInv(Directory)'
      BY <3>1 DEF DirectoriesInv, DirectoryInv, Directory, Holds
    <3>4. Covered
      BY <3>2 DEF DirectoriesInv, DirectoryInv, Directory, Holds, IsAside
    <3>5. Covered'
      BY <3>1, <3>4 DEF IsAside
    <3> QED BY <2>1, <3>1, <3>3, <3>5
  <2>15. CASE TheySave
    <3>1. main' = File("good", "them", 1)
      BY <2>15 DEF TheySave
    <3>2. main' \in Contents /\ main'.kind # "torn"
      BY <3>1 DEF File, Contents, FileKinds, Writers
    <3> QED BY <2>3, <2>15, <3>2 DEF TheySave, player
  <2>16. CASE UNCHANGED StateFileVars
    BY <2>16, <2>2 DEF StateFileVars, FileVars, worldVars, player, others, Alive
  <2> QED
    BY <2>4, <2>5, <2>6, <2>7, <2>8, <2>9, <2>10, <2>11, <2>12, <2>13, <2>14,
       <2>15, <2>16 DEF StateFileNext
<1> QED
  BY <1>1, <1>2, LockInvariant, StageInvariant, FileImplementsWriter,
     SafeInvariant, PTL DEF StateFileSafe

(* Neither player writes over what the other holds, in every reachable        *)
(* state.                                                                     *)
LEMMA UndisturbedInvariant == StateFileSafe => []Undisturbed
<1>1. StateFileInit => Undisturbed
  BY DEF StateFileInit, Undisturbed
<1>2. /\ LockInv /\ StageInv /\ AnsweredInv /\ Undisturbed
      /\ [StateFileNext]_StateFileVars
      => Undisturbed'
  <2> SUFFICES ASSUME LockInv, StageInv, AnsweredInv, Undisturbed,
                      [StateFileNext]_StateFileVars
               PROVE Undisturbed'
    BY Zenon
  <2> USE DEF Undisturbed
  (* A session that has not returned keeps them out, and one that has waits   *)
  (* for no answer any more.                                                  *)
  <2>1. Saving => us = "running" \/ MayOutlive
    BY DEF Saving, Alive, LockInv, AnsweredInv, Outcomes, MayOutlive
  <2>2. us = "running" => them \notin {"holding", "loaded"}
    BY DEF LockInv
  <2>3. ASSUME UNCHANGED <<main, found, us, them, theirs>>, MayOutlive => MayOutlive'
        PROVE Undisturbed'
    BY <2>3
  <2>4. CASE Acquire
    BY <2>4 DEF Acquire, vars, FileVars, others, MayOutlive
  <2>5. CASE Open
    <3>1. them # "loaded" /\ UNCHANGED them
      BY <2>5 DEF Open, LockInv, others
    <3>2. found' = main /\ (main' = main \/ main' = NoFile)
      BY <2>5 DEF Open, FileLoad, LoadMalformed, Quarantine, LoadRepaired, KeepCopy
    <3> QED BY <3>1, <3>2 DEF NoFile, File
  <2>6. CASE MainThread
    <3>1. UNCHANGED <<main, found, us, them, theirs>> /\ us = "running"
      BY <2>6 DEF MainThread, FileVars, worldVars, player, others
    <3> QED BY <2>2, <3>1
  <2>7. CASE Return
    <3>1. UNCHANGED <<main, them, theirs, handle>> /\ us' = "returned"
      BY <2>7 DEF Return, vars, FileVars, others
    <3> QED BY <3>1 DEF MayOutlive
  <2>8. CASE WriterIdles
    BY <2>3, <2>8 DEF WriterIdles, FileVars, worldVars, player, others,
       LoadClosing, Take, TakeNothing, Tick, MayOutlive
  <2>9. CASE SaveCreated \/ SaveSynced
    BY <2>3, <2>9 DEF SaveCreated, SaveSynced, FileCreate, FileSync, Meanwhile,
       vars, worldVars, player, others, MayOutlive
  <2>10. CASE SaveRenamed
    <3>1. /\ Saving /\ main' = Snapshot(held)
          /\ UNCHANGED <<us, found, them, handle>>
      BY <2>10 DEF SaveRenamed, FileRename, StageInv, Meanwhile, vars,
         worldVars, player, others
    <3>2. main'.by # "them"
      BY <3>1 DEF Snapshot, File
    <3> QED BY <2>1, <2>2, <3>1, <3>2 DEF MayOutlive
  <2>11. CASE SaveDone \/ SaveFailed \/ SaveDisabled
    BY <2>3, <2>11 DEF SaveDone, SaveFailed, SaveDisabled, FileReplaced,
       FileFails, WriteOk, WriteErr, FileVars, worldVars, player, others, MayOutlive
  <2>12. CASE Exit
    <3>1. UNCHANGED <<main, them, theirs, handle>> /\ us' = "exited"
      BY <2>12 DEF Exit, FileCrash, vars, others
    <3> QED BY <3>1 DEF MayOutlive
  <2>13. CASE PowerCut
    BY <2>13 DEF PowerCut
  <2>14. CASE TheyAcquire \/ TheyLeave
    BY <2>14 DEF TheyAcquire, TheyLeave, FileVars, player
  <2>15. CASE TheyLoad
    BY <2>15 DEF TheyLoad, FileVars, player
  <2>16. CASE TheySave
    <3>1. main' = theirs' /\ us # "running" /\ UNCHANGED us
      BY <2>2, <2>16 DEF TheySave, player
    <3> QED BY <3>1
  <2>17. CASE UNCHANGED StateFileVars
    BY <2>3, <2>17 DEF StateFileVars, vars, FileVars, worldVars, player, others,
       MayOutlive
  <2> QED
    BY <2>4, <2>5, <2>6, <2>7, <2>8, <2>9, <2>10, <2>11, <2>12, <2>13, <2>14,
       <2>15, <2>16, <2>17 DEF StateFileNext
<1> QED
  BY <1>1, <1>2, LockInvariant, StageInvariant, FileImplementsWriter,
     AnsweredInvariant, PTL DEF StateFileSafe

(* Whatever is found, whatever fails and whenever the process or the machine  *)
(* dies: state.json is always one whole version, what this build cannot use   *)
(* in full is kept in place or aside, and neither player writes over what the *)
(* other holds - but for a writer its session had already let go.             *)
THEOREM FileAlwaysSurvives == StateFileSpec => []FileSurvives
<1>1. DirectoriesInv /\ Undisturbed => FileSurvives
  BY DEF DirectoriesInv, DirectoryInv, Directory, Holds, FileSurvives, WholeFile,
     NothingLost
<1> QED BY <1>1, SpecIsSafe, DirectoriesInvariant, UndisturbedInvariant, PTL

(* What was proved of the writer over any sink holds over the file.           *)
THEOREM RegisterOverTheFile == StateFileSpec => RegisterSpec
BY SpecIsSafe, FileImplementsWriter, WriterImplementsRegister

(* The newest snapshot survives every failed replacement.                     *)
THEOREM NewestOverTheFile == SingleProducer => (StateFileSpec => []NewestAlive)
BY SpecIsSafe, FileImplementsWriter, NewestSurvives

(* A report of Written is never premature, and no snapshot waits longer than  *)
(* the window, over the file as over the abstract sink.                       *)
THEOREM WriterOverTheFile ==
  StateFileSpec => []CoalesceBound /\ (SingleProducer => []WrittenMeansSaved)
<1>1. Spec => []CoalesceBound
  BY CoalesceIsBounded
<1>2. SingleProducer => (Spec => []WrittenMeansSaved)
  BY WrittenIsSaved
<1> QED BY <1>1, <1>2, SpecIsSafe, FileImplementsWriter
=============================================================================
