---------------------------- MODULE MCPlayerRuntime ----------------------------
(* Small instances of PlayerRuntime: a local file and an episode in a       *)
(* playlist each, and a station.                                             *)
EXTENDS PlayerRuntime

CONSTANTS file, episode, station

Entry(id, media) == [id |-> id, media |-> media]
List(id, cursor, entries) == [id |-> id, cursor |-> cursor, entries |-> entries]

TwoLists ==
    {[lists |-> <<List(1, 1, <<Entry(1, file)>>), List(2, 2, <<Entry(2, episode)>>)>>,
      playing |-> 1]}

(* What is stored for the episode: nothing, a position, an estimate, or that *)
(* it was heard to the end.                                                  *)
At(kind) == [of |-> episode, kind |-> kind, n |-> 1]
Stores ==
    {[m \in {episode} |-> entry] : entry \in
        {NoEntry,
         [NoEntry EXCEPT !.pos = At("sure")],
         [NoEntry EXCEPT !.pos = At("sure"), !.est = At("guess")],
         [NoEntry EXCEPT !.pos = At("sure"), !.done = TRUE]}}
Fresh == {[m \in {episode} |-> NoEntry]}

Plan(kinds, commands, breaks, queue, entries) ==
    [inputs |-> kinds, maxInputs |-> commands, maxFaults |-> breaks,
     queueCap |-> queue, stored |-> entries]
(* Every command and a fault, over every kind of checkpoint; and longer       *)
(* sequences of the commands that race the engine, without a fault.           *)
AllPlans ==
    {Plan({"Enter", "Toggle", "Seek", "Restart", "Stop", "Remove", "Clear",
           "Delete", "Detached"}, 2, 1, 2, Stores),
     Plan({"Enter", "Toggle", "Stop", "Remove", "Delete"}, 3, 0, 3, Fresh)}
(* Loads of an episode with whatever is stored for it. *)
LoadsOnly == {Plan({"Enter"}, 2, 0, 2, Stores)}
=============================================================================
