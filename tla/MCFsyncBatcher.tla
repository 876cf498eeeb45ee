--------------------------- MODULE MCFsyncBatcher ---------------------------
(* Small instances of FsyncBatcher for TLC.                                *)
EXTENDS FsyncBatcher, TLC

CONSTANTS w1, w2, w3, w4

\* Three windows of one file and another file, at most two files per batch:
\* windows of the split file share a batch, or sync in concurrent batches.
MCWindows == {w1, w2, w3, w4}
MCFile == w1 :> "f" @@ w2 :> "f" @@ w3 :> "f" @@ w4 :> "g"
MCSize == w1 :> 1 @@ w2 :> 3 @@ w3 :> 3 @@ w4 :> 2

\* Three of them, for the liveness properties.
LiveWindows == {w1, w2, w4}
LiveFile == w1 :> "f" @@ w2 :> "f" @@ w4 :> "g"
LiveSize == w1 :> 1 @@ w2 :> 3 @@ w4 :> 2
=============================================================================
