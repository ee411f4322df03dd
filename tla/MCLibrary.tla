------------------------------- MODULE MCLibrary -------------------------------
(* A small instance of Library: a command beside the player; no feed yet, one *)
(* feed whose cache this build can or cannot use, two feeds, a damaged list.  *)
EXTENDS Library

CONSTANTS u, v, first, second, third

One == Feed(first, <<"news", 1>>, "news", u)
Two == Feed(second, <<"news", 2>>, "news", v)

Holding(listed, feeds, kind) ==
    [listing |-> listed, subs |-> feeds,
     caches |-> [id \in FeedIds |-> IF id \in IdsOf(feeds) THEN Cache("news", kind) ELSE NoCache]]

SomeLists ==
    {Holding("usable", <<One>>, "good"), Holding("usable", <<One>>, "unusable"),
     Holding("usable", <<One, Two>>, "good"), Holding("malformed", <<>>, "good")}
=============================================================================
