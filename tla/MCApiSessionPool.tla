-------------------------- MODULE MCApiSessionPool --------------------------
(***************************************************************************)
(* Small instances of the session pool for TLC.                            *)
(***************************************************************************)
EXTENDS ApiSessionPool, TLC

\* Workers and connections are interchangeable; used where only safety is
\* checked.
Symmetry == Permutations(Worker) \cup Permutations(Session)

=============================================================================
