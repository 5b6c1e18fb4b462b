---------------------------- MODULE MCBlobStore ----------------------------
(* BlobStore for TLC: two uploads of one member and Bytes as the sum it is. *)
EXTENDS BlobStore, FiniteSetsExt, TLC

CONSTANTS u1, b1, b2

MCOwner == (b1 :> u1) @@ (b2 :> u1)

MCSize == (b1 :> 2) @@ (b2 :> 1)

MCBytes(lines) == MapThenSumSet(LAMBDA l : l[2], lines)
=============================================================================
