------------------------------ MODULE OrderedEvents ------------------------------
(* What playback/outbox.rs promises of the engine's events: they arrive in   *)
(* the order they were emitted, and a terminal or protected one is never     *)
(* lost.  An ordinary one may be, on its own or to make room for a terminal. *)
EXTENDS Naturals, Sequences, SequencesExt

VARIABLES emitted,  \* events emitted so far; an event is numbered by it
          owed,     \* of those, the terminal and protected ones
          q         \* emitted, neither lost nor taken by the application yet

ordered == <<emitted, owed, q>>

Event == [kind : {"ordinary", "terminal", "protected"}, n : Nat]
Privileged(e) == e.kind # "ordinary"

Init == emitted = 0 /\ owed = 0 /\ q = <<>>

Numbered(kind) == [kind |-> kind, n |-> emitted + 1]

EmitOrdinary ==
    /\ emitted' = emitted + 1 /\ UNCHANGED owed
    /\ q' \in {q, Append(q, Numbered("ordinary"))}

EmitPrivileged ==
    /\ emitted' = emitted + 1 /\ owed' = owed + 1
    /\ \E kind \in {"terminal", "protected"} :
          \/ q' = Append(q, Numbered(kind))
          \/ \E i \in DOMAIN q : /\ ~Privileged(q[i])
                                 /\ q' = Append(RemoveAt(q, i), Numbered(kind))

Take == q # <<>> /\ q' = Tail(q) /\ UNCHANGED <<emitted, owed>>

Next == EmitOrdinary \/ EmitPrivileged \/ Take

Spec == Init /\ [][Next]_ordered
=============================================================================
