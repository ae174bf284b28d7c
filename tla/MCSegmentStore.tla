---------------------------- MODULE MCSegmentStore ----------------------------
(* Instances of SegmentStore for TLC.                                          *)
EXTENDS SegmentStore, TLC

CONSTANTS k1, k2

(* One session with two targets: a flush seals two files.                      *)
OneSession == {{k1, k2}}

(* Two sessions with one target each: a flush leaves the other one open.       *)
TwoSessions == {{k1}, {k2}}

Symmetry == Permutations({k1, k2})
=============================================================================
