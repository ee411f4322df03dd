------------------------------ MODULE DurableFile ------------------------------
(* persistence/atomic.rs, json_file.rs and store.rs: one versioned file, how  *)
(* it is loaded, and how it is replaced.  Definitions carry the prefix File,  *)
(* so that a module composing this one can extend others beside it.           *)
(*                                                                            *)
(* A file's contents are its kind and who wrote it.  The directory holds the  *)
(* file and what was put aside from it.  The names a thing can be put aside   *)
(* under are AsideNames, in the order they are tried; -rejected- and          *)
(* -queue-recovery- names are not told apart, which only makes more of them   *)
(* taken.  External: the operating system renames atomically, and after a     *)
(* power cut the directory is as it was after some step not older than the    *)
(* last successful fsync of it.                                               *)
EXTENDS Naturals, FiniteSets, FiniteSetsExt

CONSTANTS AsideNames    \* 1 .. MAX_QUARANTINE_CANDIDATES, or a prefix of it

ASSUME FileAssumption == AsideNames \subseteq Nat /\ IsFiniteSet(AsideNames)

VARIABLES
    main,    \* what the path holds
    aside,   \* per name: what was moved or copied there
    past,    \* directories a power cut may bring back
    temp,    \* the temporary file of the replacement under way
    stage    \* how far replace_bytes has come

FileVars == <<main, aside, past, temp, stage>>

File(kind, by, n) == [kind |-> kind, by |-> by, n |-> n]
NoFile == File("none", "nobody", 0)
Torn == File("torn", "nobody", 0)

Directory == [main |-> main, aside |-> aside]

FileInit(directories) ==
    /\ \E d \in directories : main = d.main /\ aside = d.aside
    /\ past = {}
    /\ temp = NoFile
    /\ stage = "idle"

-----------------------------------------------------------------------------
(* replace_bytes. *)

(* prepare_directory, then create-new: from here until the fsync the          *)
(* temporary file may hold any prefix of the bytes.                           *)
FileCreate ==
    /\ stage = "idle"
    /\ stage' = "created"
    /\ temp' = Torn
    /\ UNCHANGED <<main, aside, past>>

FileSync(content) ==
    /\ stage = "created"
    /\ stage' = "synced"
    /\ temp' = content
    /\ UNCHANGED <<main, aside, past>>

(* Mutant: the rename does not wait for the fsync. *)
FileRenameUnsynced ==
    /\ stage \in {"created", "synced"}
    /\ stage' = "renamed"
    /\ main' = temp
    /\ past' = past \union {Directory}
    /\ temp' = NoFile
    /\ UNCHANGED aside

FileRename ==
    /\ stage = "synced"
    /\ stage' = "renamed"
    /\ main' = temp
    /\ past' = past \union {Directory}
    /\ temp' = NoFile
    /\ UNCHANGED aside

(* sync_parent_best_effort: Ok is returned whether or not it worked. *)
FileReplaced(synced) ==
    /\ stage = "renamed"
    /\ stage' = "idle"
    /\ past' = IF synced THEN {} ELSE past
    /\ UNCHANGED <<main, aside, temp>>

(* Any step up to the rename can fail: the temporary file goes, Err returns.  *)
FileFails ==
    /\ stage \in {"idle", "created", "synced"}
    /\ stage' = "idle"
    /\ temp' = NoFile
    /\ UNCHANGED <<main, aside, past>>

-----------------------------------------------------------------------------
(* JsonFile::load and StateStore::load. *)

FreeNames == {n \in AsideNames : aside[n] = NoFile}

(* quarantine: renamed to the first name not taken. *)
Quarantine(name) ==
    /\ name \in FreeNames /\ name = Min(FreeNames)
    /\ aside' = [aside EXCEPT ![name] = main]
    /\ main' = NoFile
    /\ past' = past \union {Directory}

(* keep_copy: a create-new copy under the first name not taken, fsynced, and  *)
(* so is the directory if it can be; a failed write leaves what it wrote.     *)
KeepCopy(name, content) ==
    /\ name \in FreeNames /\ name = Min(FreeNames)
    /\ aside' = [aside EXCEPT ![name] = content]
    /\ past' \in {{}, past \union {Directory}}
    /\ UNCHANGED main

(* Whether writing stays on when the original could not be put aside. *)
WritableUnkept == FALSE

(* How a load ends: whether the file may be written this session. *)
LoadMissing(writable) == main.kind = "none" /\ writable = TRUE

LoadUnreadable(writable) == main.kind # "none" /\ writable = FALSE

LoadGood(writable) == main.kind = "good" /\ writable = TRUE

LoadUnsupported(writable) == main.kind = "future" /\ writable = FALSE

LoadMalformed(writable) ==
    /\ main.kind = "malformed"
    /\ \/ writable = TRUE /\ \E name \in AsideNames : Quarantine(name)
       \/ writable = WritableUnkept /\ UNCHANGED <<main, aside, past>>

(* Queue data that had to be reset: the exact bytes are kept first. *)
LoadRepaired(writable) ==
    /\ main.kind = "repairable"
    /\ \/ writable = TRUE /\ \E name \in AsideNames : KeepCopy(name, main)
       \/ writable = WritableUnkept
          /\ \/ \E name \in AsideNames : KeepCopy(name, Torn)
             \/ UNCHANGED <<main, aside, past>>

FileLoad(writable) ==
    /\ UNCHANGED <<temp, stage>>
    /\ \/ /\ \/ LoadMissing(writable) \/ LoadUnreadable(writable)
             \/ LoadGood(writable) \/ LoadUnsupported(writable)
          /\ UNCHANGED <<main, aside, past>>
       \/ LoadMalformed(writable)
       \/ LoadRepaired(writable)

-----------------------------------------------------------------------------
(* What can befall it. *)

(* The process dies: a replacement under way leaves only its temporary file,  *)
(* which nothing reads.                                                       *)
FileCrash ==
    /\ temp' = NoFile
    /\ stage' = "idle"
    /\ UNCHANGED <<main, aside, past>>

(* The machine dies: renames that were not fsynced may be undone. *)
FilePowerCut ==
    /\ \E d \in past \union {Directory} : main' = d.main /\ aside' = d.aside
    /\ past' = {}
    /\ temp' = NoFile
    /\ stage' = "idle"
=============================================================================
