---------------------------- MODULE MCJobService ----------------------------
(***************************************************************************)
(* Small instances of JobService for TLC: one or two workers, at most two  *)
(* requests, a few pollers, faults, crashes and shutdowns.  The .cfg files *)
(* give the constants their values; what a bound leaves out is discussed   *)
(* in the README.                                                          *)
(***************************************************************************)
EXTENDS JobService, TLC

\* Requests can be exchanged: no definition tells one from another.  (Workers and
\* pollers cannot, AnyWorker and FreePoller choose among them.)
RequestSymmetry == Permutations(Requests)
=============================================================================
