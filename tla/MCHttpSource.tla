------------------------------ MODULE MCHttpSource ------------------------------
(* A small instance of HttpSource: an object that is replaced by another one   *)
(* of the same length.                                                         *)
EXTENDS HttpSource

EvenSizes == <<2, 2>>
=============================================================================
