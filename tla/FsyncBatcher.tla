---------------------------- MODULE FsyncBatcher ----------------------------
(***************************************************************************)
(* The background fdatasync batcher of the client (internal/fsync): writer *)
(* goroutines hand dup'd descriptors to one reader, which forms batches    *)
(* and starts a worker goroutine per batch; stop closes the queue and      *)
(* waits for the drain.  A window is one output segment of a file, written *)
(* through a descriptor of its own.                                        *)
(*                                                                         *)
(* The kernel is modelled as the code relies on it: fdatasync of one       *)
(* descriptor covers every window of the file written before it, and one   *)
(* that fails may have dropped the dirty pages of any of them.             *)
(***************************************************************************)
EXTENDS AdaptiveThreshold, Sequences, FiniteSets, FiniteSetsExt

CONSTANTS
  Windows,        \* the output segments written
  File,           \* [Windows -> file IDs]
  Size,           \* [Windows -> Nat], the bytes written to each
  baseThreshold,  \* --fsync-interval
  mem,            \* system memory, 0 when it is unknown
  fallbackCap,    \* backgroundSyncFallbackCapBytes
  maxBatchFiles,  \* backgroundSyncMaxBatchFiles
  ChanCap         \* capacity of ch

maxThreshold == maxAdaptiveThresholdForMemory(baseThreshold, mem, fallbackCap)

ASSUME BatcherAssumption ==
  /\ Size \in [Windows -> Nat] /\ IsFiniteSet(Windows)
  /\ baseThreshold \in Nat \ {0} /\ mem \in Nat /\ fallbackCap \in Nat
  /\ maxBatchFiles \in Nat \ {0} /\ ChanCap \in Nat \ {0}

VARIABLES
  \* struct backgroundSyncer
  ch, closed, pendingBytes, pendingFiles, synced, syncedFiles, failed,
  \* the writers, the reader's locals and the batch workers
  writer, reader, batch, batchBytes, workers,
  \* stop's result, and the kernel: dirty and durable windows, dup'd fds
  result, dirty, durable, open

counterVars == <<pendingBytes, pendingFiles, synced, syncedFiles>>
kernelVars == <<dirty, durable>>
vars == <<ch, closed, counterVars, failed, writer, reader, batch, batchBytes,
          workers, result, kernelVars, open>>

-----------------------------------------------------------------------------
\* fdatasync of a descriptor of file f: every dirty window of f reaches the
\* disk, or the call fails, some do, and some of the others are dropped.
Fdatasync(f, ok) ==
  LET mine == {w \in dirty : File[w] = f}
  IN  \E kept \in SUBSET mine, left \in SUBSET mine :
        /\ IF ok THEN kept = mine ELSE TRUE
        /\ kept \cap left = {}
        /\ durable' = durable \cup kept
        /\ dirty' = (dirty \ mine) \cup left

\* A window's data is written through its own descriptor.
Write(w) ==
  /\ writer[w] = "write"
  /\ dirty' = dirty \cup {w}
  /\ writer' = [writer EXCEPT ![w] = "sync"]
  /\ UNCHANGED <<ch, closed, counterVars, failed, reader, batch, batchBytes,
                 workers, result, durable, open>>

\* Mutant: the request is queued without being counted.
SyncOutputUncounted(w) ==
  /\ writer[w] = "sync"
  /\ open' = open \cup {w}
  /\ writer' = [writer EXCEPT ![w] = "send"]
  /\ UNCHANGED <<ch, closed, counterVars, failed, reader, batch, batchBytes,
                 workers, result, kernelVars>>

\* The sync callback: dup and count, then enqueue; or, when dup fails, an
\* inline fdatasync whose error the callback returns.
SyncOutputDup(w) ==
  /\ writer[w] = "sync"
  /\ open' = open \cup {w}
  /\ pendingBytes' = pendingBytes + Size[w]
  /\ pendingFiles' = pendingFiles + 1
  /\ writer' = [writer EXCEPT ![w] = "send"]
  /\ UNCHANGED <<ch, closed, synced, syncedFiles, failed, reader, batch,
                 batchBytes, workers, result, kernelVars>>

SyncOutputInline(w) ==
  /\ writer[w] = "sync"
  /\ \E ok \in BOOLEAN :
       /\ Fdatasync(File[w], ok)
       /\ writer' = [writer EXCEPT ![w] = IF ok THEN "ok" ELSE "error"]
  /\ UNCHANGED <<ch, closed, counterVars, failed, reader, batch, batchBytes,
                 workers, result, open>>

\* The channel send that ends enqueue.
enqueue(w) ==
  /\ writer[w] = "send" /\ Len(ch) < ChanCap
  /\ ch' = Append(ch, w)
  /\ writer' = [writer EXCEPT ![w] = "ok"]
  /\ UNCHANGED <<closed, counterVars, failed, reader, batch, batchBytes,
                 workers, result, kernelVars, open>>

-----------------------------------------------------------------------------
(* run: the reader.                                                        *)


batchFull(b, bytes) ==
  \/ bytes >= adaptiveThreshold(baseThreshold, pendingBytes, maxThreshold)
  \/ Len(b) >= maxBatchFiles

\* A worker goroutine takes the batch; it starts with nothing seen.
dispatch(b) ==
  workers' = Append(workers, [todo |-> b, seen |-> {}, at |-> "sync", ok |-> TRUE])

Receive ==
  LET b == Append(batch, Head(ch))
      bytes == batchBytes + Size[Head(ch)]
  IN  /\ reader = "range" /\ ch # << >>
      /\ ch' = Tail(ch)
      /\ IF batchFull(b, bytes)
         THEN dispatch(b) /\ batch' = << >> /\ batchBytes' = 0
         ELSE batch' = b /\ batchBytes' = bytes /\ UNCHANGED workers
      /\ UNCHANGED <<closed, counterVars, failed, writer, reader, result,
                     kernelVars, open>>

\* Mutant: the last, partial batch is forgotten.
RangeEndsForgetful ==
  /\ reader = "range" /\ closed /\ ch = << >>
  /\ batch' = << >> /\ reader' = "wait"
  /\ UNCHANGED <<ch, closed, counterVars, failed, writer, batchBytes, workers,
                 result, kernelVars, open>>

\* The channel is closed and empty: the last, partial batch is dispatched.
RangeEnds ==
  /\ reader = "range" /\ closed /\ ch = << >>
  /\ IF batch # << >> THEN dispatch(batch) ELSE UNCHANGED workers
  /\ batch' = << >> /\ reader' = "wait"
  /\ UNCHANGED <<ch, closed, counterVars, failed, writer, batchBytes, result,
                 kernelVars, open>>

\* wg.Wait returns and done is closed.
WorkersDone ==
  /\ reader = "wait" /\ \A n \in DOMAIN workers : workers[n].todo = << >>
  /\ reader' = "done"
  /\ UNCHANGED <<ch, closed, counterVars, failed, writer, batch, batchBytes,
                 workers, result, kernelVars, open>>

-----------------------------------------------------------------------------
(* syncBatch: one worker, one request at a time.                           *)


\* The file was synced by an earlier request of the same batch.
skips(n, w) == File[w] \in workers[n].seen

\* fstat, which may fail, and then the fdatasync unless the file was seen.
SyncFile(n) ==
  LET w == Head(workers[n].todo)
  IN  /\ workers[n].todo # << >> /\ workers[n].at = "sync"
      /\ \E statOK \in BOOLEAN, ok \in BOOLEAN :
           /\ IF statOK /\ skips(n, w)
              THEN ok /\ UNCHANGED kernelVars
              ELSE Fdatasync(File[w], ok)
           /\ workers' = [workers EXCEPT
                ![n].at = "account", ![n].ok = ok,
                ![n].seen = IF statOK THEN @ \cup {File[w]} ELSE @]
      /\ UNCHANGED <<ch, closed, counterVars, failed, writer, reader, batch,
                     batchBytes, result, open>>

\* Mutant: a failed sync returns early, with its counts left pending.
AccountFailsEarly(n) ==
  LET w == Head(workers[n].todo)
      size == IF workers[n].ok THEN Size[w] ELSE 0
  IN  /\ workers[n].at = "account"
      /\ failed' = IF workers[n].ok THEN failed ELSE failed \cup {File[w]}
      /\ open' = open \ {w}
      /\ pendingBytes' = pendingBytes - size
      /\ pendingFiles' = pendingFiles - 1
      /\ synced' = synced + size
      /\ syncedFiles' = syncedFiles + 1
      /\ workers' = [workers EXCEPT ![n].todo = Tail(@), ![n].at = "sync"]
      /\ UNCHANGED <<ch, closed, writer, reader, batch, batchBytes, result,
                     kernelVars>>

\* recordFailure, the close of the descriptor and the counters.
Account(n) ==
  LET w == Head(workers[n].todo)
  IN  /\ workers[n].at = "account"
      /\ failed' = IF workers[n].ok THEN failed ELSE failed \cup {File[w]}
      /\ open' = open \ {w}
      /\ pendingBytes' = pendingBytes - Size[w]
      /\ pendingFiles' = pendingFiles - 1
      /\ synced' = synced + Size[w]
      /\ syncedFiles' = syncedFiles + 1
      /\ workers' = [workers EXCEPT ![n].todo = Tail(@), ![n].at = "sync"]
      /\ UNCHANGED <<ch, closed, writer, reader, batch, batchBytes, result,
                     kernelVars>>

-----------------------------------------------------------------------------
(* stop.  Its callers have waited for every writer they started, and start *)
(* none after it.                                                          *)

StopCloses ==
  /\ ~closed /\ \A w \in Windows : writer[w] \in {"write", "ok", "error"}
  /\ closed' = TRUE
  /\ writer' = [w \in Windows |-> IF writer[w] = "write" THEN "never" ELSE writer[w]]
  /\ UNCHANGED <<ch, counterVars, failed, reader, batch, batchBytes, workers,
                 result, kernelVars, open>>

\* The drain finished: failedErr is the result.
StopDrained ==
  /\ closed /\ result = "none" /\ reader = "done"
  /\ result' = IF failed = {} THEN "nil" ELSE "ErrSyncFailed"
  /\ UNCHANGED <<ch, closed, counterVars, failed, writer, reader, batch,
                 batchBytes, workers, kernelVars, open>>

\* ctx ended first.
StopCutShort ==
  /\ closed /\ result = "none"
  /\ result' = "ErrDrainIncomplete"
  /\ UNCHANGED <<ch, closed, counterVars, failed, writer, reader, batch,
                 batchBytes, workers, kernelVars, open>>

-----------------------------------------------------------------------------
Init ==
  /\ ch = << >> /\ closed = FALSE /\ failed = {}
  /\ pendingBytes = 0 /\ pendingFiles = 0 /\ synced = 0 /\ syncedFiles = 0
  /\ writer = [w \in Windows |-> "write"]
  /\ reader = "range" /\ batch = << >> /\ batchBytes = 0 /\ workers = << >>
  /\ result = "none" /\ dirty = {} /\ durable = {} /\ open = {}

WriterStep(w) == Write(w) \/ SyncOutputDup(w) \/ SyncOutputInline(w) \/ enqueue(w)
ReaderStep == Receive \/ RangeEnds \/ WorkersDone
WorkerStep(n) == SyncFile(n) \/ Account(n)
StopStep == StopCloses \/ StopDrained \/ StopCutShort

\* Everything has run: the program goes on without the batcher.
Finished == result # "none" /\ reader = "done" /\ UNCHANGED vars

Next ==
  \/ \E w \in Windows : WriterStep(w)
  \/ ReaderStep
  \/ \E n \in DOMAIN workers : WorkerStep(n)
  \/ StopStep
  \/ Finished

Spec == Init /\ [][Next]_vars

\* The reader, the workers and the callbacks under way are goroutines that run;
\* fdatasync returns; the caller defers stop.  Its context need not end.
Fairness ==
  /\ \A w \in Windows : WF_vars(writer[w] # "write" /\ WriterStep(w))
  /\ WF_vars(ReaderStep)
  /\ \A n \in 1..Cardinality(Windows) : WF_vars(n \in DOMAIN workers /\ WorkerStep(n))
  /\ WF_vars(StopCloses) /\ WF_vars(StopDrained)

LiveSpec == Spec /\ Fairness

-----------------------------------------------------------------------------
(* Properties.                                                             *)

Worker == [todo : Seq(Windows), seen : SUBSET {File[w] : w \in Windows},
           at : {"sync", "account"}, ok : BOOLEAN]

\* The types of the syncer's fields, of its goroutines and of the kernel.
TypeOK ==
  /\ ch \in Seq(Windows) /\ Len(ch) <= ChanCap /\ closed \in BOOLEAN
  /\ pendingBytes \in Nat /\ pendingFiles \in Nat
  /\ synced \in Nat /\ syncedFiles \in Nat
  /\ failed \subseteq {File[w] : w \in Windows}
  /\ writer \in [Windows -> {"write", "sync", "send", "ok", "error", "never"}]
  /\ reader \in {"range", "wait", "done"}
  /\ batch \in Seq(Windows) /\ batchBytes \in Nat
  /\ workers \in Seq(Worker)
  /\ result \in {"none", "nil", "ErrSyncFailed", "ErrDrainIncomplete"}
  /\ dirty \subseteq Windows /\ durable \subseteq Windows /\ open \subseteq Windows

\* Files for which a callback reported its own error: the caller does not
\* acknowledge that window.
Refused == {File[w] : w \in {v \in Windows : writer[v] = "error"}}


Elements(s) == {s[n] : n \in DOMAIN s}
InFlight == UNION {Elements(workers[n].todo) : n \in DOMAIN workers}

\* pendingBytes, which drives the threshold and the drain's progress, is the
\* total of the windows some stage still holds, each with one open descriptor:
\* none is dropped between the stages or closed twice.
PendingExact ==
  LET sending == {w \in Windows : writer[w] = "send"}
      holders == sending \cup Elements(ch) \cup Elements(batch) \cup InFlight
  IN  /\ open = holders
      /\ pendingFiles = Cardinality(holders)
      /\ pendingBytes = MapThenSumSet(LAMBDA w : Size[w], holders)


\* Once stop has closed the queue the drain ends by itself, cut short or not,
\* with every dup'd descriptor closed: the reader, blocked writers and the
\* workers never wait on one another in a circle (run, enqueue, stop).
DrainFinishes == closed ~> reader = "done" /\ open = {}

\* What StartSyncWorker's comment says of a positive interval, "batch every N
\* bytes": a batch that has reached N bytes is not held back when there is no
\* backlog, that is when nothing else is pending.
BatchEveryInterval ==
  reader = "range" /\ batchBytes >= baseThreshold => pendingBytes > batchBytes

\* What backgroundSyncer's comment says of the file-count cap, "bounds the
\* number of outstanding dup'd descriptors": the batch, the queue and the
\* callbacks under way hold them all.
DescriptorsBounded ==
  Cardinality(open) <= maxBatchFiles + ChanCap
                       + Cardinality({w \in Windows : writer[w] = "send"})
=============================================================================
