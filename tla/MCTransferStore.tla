--------------------------- MODULE MCTransferStore ---------------------------
(* Small instances of TransferStore for TLC.                               *)
EXTENDS TransferStore, TLC, Functions

CONSTANTS h1, h2

MCHandlers == {h1, h2}
Symmetry == Permutations(MCHandlers)
MCTokens == {"a", "b"}

item(i, off, size) == [file |-> i, off |-> off, size |-> size]
ack(i, bytes) == [file |-> i, bytes |-> bytes, token |-> "a"]

\* Ledger: the root, a file of two units, an empty file and a directory, and
\* the file of two units truncated at the source after the walk.
LedgerEntryType == 0 :> "dir" @@ 1 :> "file" @@ 2 :> "file" @@ 3 :> "dir"
LedgerFileSize == 0 :> 0 @@ 1 :> 2 @@ 2 :> 0 @@ 3 :> 0
LedgerSourceSizes == {LedgerFileSize, [LedgerFileSize EXCEPT ![1] = 1]}
LedgerSendRequests ==
  {<<item(1, 0, 1)>>, <<item(1, 1, 1), item(2, 0, 0)>>,
   <<item(3, 0, 0), item(1, 0, 2)>>}
LedgerAckRequests ==
  {<<ack(1, 1)>>, <<ack(1, 2), ack(2, 0)>>, <<ack(1, -1)>>,
   <<ack(2, -1), ack(3, -1)>>}

\* Expiry: one file of two units and a running clock.
ExpiryEntryType == 0 :> "dir" @@ 1 :> "file"
ExpiryFileSize == 0 :> 0 @@ 1 :> 2
ExpirySourceSizes == {ExpiryFileSize}
ExpirySendRequests == {<<item(1, 0, 2)>>}
ExpiryAckRequests == {<<ack(1, 2)>>, <<ack(1, -1)>>}

\* The byte totals a STATUS reports are the sums over the files: DoneSize of
\* the acknowledged bytes, TotalSize of the registered sizes.
BytesExact ==
  /\ DoneSize = SumFunction(AckedSize)
  /\ TotalSize = SumFunctionOnSet(FileSize, 0..(len - 1))
=============================================================================
