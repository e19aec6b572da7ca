-------------------------- MODULE MCWatchCoverage --------------------------
(* WatchCoverage for TLC: two directories, one in the other, to start with. *)
EXTENDS WatchCoverage

CONSTANTS a, b

MCInitial == {<<a>>, <<a, a>>}
============================================================================
