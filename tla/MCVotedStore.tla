---------------------------- MODULE MCVotedStore ----------------------------
(* VotedStore for TLC, with quorums that are sound.                        *)
EXTENDS VotedStore
ASSUME SoundAssumption == Sound
=============================================================================
