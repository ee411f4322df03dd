------------------------------ MODULE MCStateFile ------------------------------
(* A small instance of StateFile: every kind of file, and an aside directory  *)
(* in which no name, the first name or every name is taken.                   *)
EXTENDS StateFile

Before(kind) == File(kind, "before", 0)
Kept(n) == File("malformed", "earlier", n)
TakenUpTo(k) == [n \in AsideNames |-> IF n <= k THEN Kept(n) ELSE NoFile]

Plain == {NoFile, Before("good"), Before("future")}
Rejected == {Before("malformed"), Before("repairable")}

AnyDirectory ==
    [main : Plain, aside : {TakenUpTo(0)}]
        \union [main : Rejected, aside : {TakenUpTo(k) : k \in {0} \union AsideNames}]
=============================================================================
