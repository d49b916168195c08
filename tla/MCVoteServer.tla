---------------------------- MODULE MCVoteServer ----------------------------
(* VoteServer for TLC.                                                     *)
EXTENDS VoteServer, TLC

Symmetry == Permutations(Threads)
=============================================================================
