------------------------------ MODULE LibraryJob ------------------------------
(* A job is one call of a part of the library on one input; out is what the *)
(* caller gets from it.                                                     *)
VARIABLES job, out

NoAnswer == [kind |-> "none"]
=============================================================================
