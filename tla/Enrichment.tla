------------------------------- MODULE Enrichment -------------------------------
(* application/enrich.rs with request_enrichment, apply_enrichment and vacate *)
(* of application/runtime.rs: worker threads read the tags of queued files,   *)
(* and clearing or deleting a playlist cancels every job there is and asks    *)
(* again for the entries that remain.                                         *)
(*                                                                            *)
(* An entry is its media; duplicates and the text of a tag are left out.      *)
EXTENDS Naturals, Sequences, FiniteSets, FiniteSetsExt, SequencesExt

CONSTANTS Files,       \* the local files that can be queued
          Threads,     \* the metadata workers
          ListCap,     \* MAX_PLAYLIST_ENTRIES, and REQUEST_CAPACITY with it
          ResultCap,   \* RESULT_CAPACITY, and MAX_ENRICHMENT_PER_PUMP with it
          MaxListEdits \* bound: edits of the playlists

(* "none" is no file: it stands for the job a free worker does not have. *)
ASSUME EnrichAssumption ==
    /\ {ListCap, ResultCap, MaxListEdits} \subseteq Nat
    /\ IsFiniteSet(Files) /\ "none" \notin Files

VARIABLES
    listed,      \* the queued files
    untitled,    \* those of them without a title
    generation,  \* MetadataWorkers::generation
    backlog, hands, found,   \* jobs queued, jobs in hand, results
    hopeless,    \* history: files whose probe failed or was dropped
    listEdits    \* how many edits there were

EnrichVars == <<listed, untitled, generation, backlog, hands, found, hopeless, listEdits>>

Job(file, gen) == [file |-> file, generation |-> gen, checked |-> FALSE]
NoJob == Job("none", 0)
Found(job, tagged) == [file |-> job.file, generation |-> job.generation, tagged |-> tagged]

EnrichInit ==
    /\ listed \in SUBSET Files /\ Cardinality(listed) <= ListCap
    /\ untitled = listed
    /\ generation = 0
    /\ backlog = SetToSeq({Job(f, 0) : f \in listed})
    /\ hands = [t \in Threads |-> NoJob] /\ found = <<>>
    /\ hopeless = {} /\ listEdits = 0

Edit == listEdits < MaxListEdits /\ listEdits' = listEdits + 1

(* request_enrichment on a backlog that holds `queued`: what does not fit is  *)
(* dropped, and its entry keeps the name it has.                              *)
Fitting(queued, files) ==
    SubSeq(SetToSeq(files), 1, Min({Cardinality(files), ListCap - Len(queued)}))
Requested(queued, files, gen) ==
    queued \o [i \in DOMAIN Fitting(queued, files) |-> Job(Fitting(queued, files)[i], gen)]
DroppedOf(queued, files) == files \ Range(Fitting(queued, files))

-----------------------------------------------------------------------------
(* The runtime. *)

AddFiles ==
    /\ Edit
    /\ \E files \in SUBSET (Files \ listed) :
         /\ files # {} /\ Cardinality(listed \union files) <= ListCap
         /\ listed' = listed \union files /\ untitled' = untitled \union files
         /\ backlog' = Requested(backlog, files, generation)
         /\ hopeless' = (hopeless \ files) \union DroppedOf(backlog, files)
    /\ UNCHANGED <<generation, hands, found>>

(* One entry goes; its job, if there is one, runs for nobody. *)
RemoveFile ==
    /\ Edit
    /\ \E file \in listed : listed' = listed \ {file} /\ untitled' = untitled \ {file}
    /\ UNCHANGED <<generation, backlog, hands, found, hopeless>>

(* Mutant: the other playlists' entries are not asked for again. *)
ReOfferedNone(left) == {}

ReOffered(left) == left

(* vacate: a playlist is cleared or deleted. *)
VacateListSlot ==
    /\ Edit
    /\ \E gone \in SUBSET listed :
         /\ listed' = listed \ gone /\ untitled' = untitled \ gone
         /\ generation' = generation + 1
         /\ backlog' = Requested(<<>>, ReOffered(untitled'), generation')
    /\ hopeless' = {}
    /\ UNCHANGED <<hands, found>>

(* Results from before the last cancellation are skipped, the others name     *)
(* every entry of their file that is still queued.                            *)
ApplyEnrichment ==
    /\ found # <<>>
    /\ found' = <<>>
    /\ LET current == {r \in Range(found) : r.generation = generation} IN
       /\ untitled' = untitled \ {r.file : r \in {c \in current : c.tagged}}
       /\ hopeless' = hopeless \union {r.file : r \in {c \in current : ~c.tagged}}
    /\ UNCHANGED <<listed, generation, backlog, hands, listEdits>>

-----------------------------------------------------------------------------
(* A worker: it takes a job, looks whether it was cancelled, probes.          *)

Hold(t, job) == hands' = [hands EXCEPT ![t] = job]

Receive(t) ==
    /\ hands[t] = NoJob /\ backlog # <<>>
    /\ Hold(t, Head(backlog)) /\ backlog' = Tail(backlog)
    /\ UNCHANGED <<listed, untitled, generation, found, hopeless, listEdits>>

CheckGeneration(t) ==
    /\ hands[t] # NoJob /\ ~hands[t].checked
    /\ Hold(t, IF hands[t].generation = generation
                 THEN [hands[t] EXCEPT !.checked = TRUE] ELSE NoJob)
    /\ UNCHANGED <<listed, untitled, generation, backlog, found, hopeless, listEdits>>

(* The tags, an error or a contained panic; a full result channel blocks.     *)
FinishProbe(t) ==
    /\ hands[t].checked /\ Len(found) < ResultCap
    /\ \E tagged \in BOOLEAN : found' = Append(found, Found(hands[t], tagged))
    /\ Hold(t, NoJob)
    /\ UNCHANGED <<listed, untitled, generation, backlog, hopeless, listEdits>>

EnrichNext ==
    \/ AddFiles \/ RemoveFile \/ VacateListSlot \/ ApplyEnrichment
    \/ \E t \in Threads : Receive(t) \/ CheckGeneration(t) \/ FinishProbe(t)

EnrichSpec == EnrichInit /\ [][EnrichNext]_EnrichVars

-----------------------------------------------------------------------------
(* Properties *)

(* No entry is forgotten: one without a title, whose probe neither failed nor *)
(* found the backlog full since the last cancellation, has a job or a result  *)
(* that no cancellation has overtaken.                                        *)
EveryFileIsProbed ==
    \A file \in untitled \ hopeless :
        \E job \in Range(backlog) \union {hands[t] : t \in Threads} \union Range(found) :
            job.file = file /\ job.generation = generation
=============================================================================
