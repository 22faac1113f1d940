---------------------------- MODULE MCMiddleware ----------------------------
(***************************************************************************)
(* Instances of Middleware for TLC: small numbers of threads, files,       *)
(* blocks and flushes.  Threads are interchangeable.                       *)
(***************************************************************************)
EXTENDS Middleware, TLC

ThreadSymmetry == Permutations(Threads)

=============================================================================
