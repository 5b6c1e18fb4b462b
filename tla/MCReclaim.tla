----------------------------- MODULE MCReclaim -----------------------------
(* BlobStore for TLC: one upload, of one of two admins, over a longer time. *)
EXTENDS BlobStore, FiniteSetsExt, TLC

CONSTANTS u1, u2, b1

MCOwner == b1 :> u1

MCSize == b1 :> 1

MCBytes(lines) == MapThenSumSet(LAMBDA l : l[2], lines)
=============================================================================
