--------------------------- MODULE MCSegmentLog ---------------------------
(* Small instances of SegmentLog for TLC.                                  *)
EXTENDS SegmentLog, TLC

PublisherSymmetry == Permutations(Publishers)
============================================================================
