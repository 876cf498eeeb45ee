--------------------------- MODULE TransferStore ---------------------------
(***************************************************************************)
(* One transfer of the server's store (internal/filexfer/store/store.go)   *)
(* and the request handlers that share it: the TXFER or SYNC handler that  *)
(* creates it, concurrent SEND and ACK handlers, and the reaper goroutine. *)
(*                                                                         *)
(* A store call looks the transfer up in a concurrent map and then takes   *)
(* the transfer's own lock, so the two are separate steps here (Lookup and *)
(* the call itself).  A call that applies several records under one lock   *)
(* takes one step per record with mu held, so no other call can see the    *)
(* transfer half-way.                                                      *)
(***************************************************************************)
EXTENDS Integers, Sequences, FiniteSets

CONSTANTS
  Last,          \* the greatest file ID of the manifest
  EntryType,     \* [0..Last -> {"file", "dir"}], as the walk registers it
  FileSize,      \* [0..Last -> Nat], as the walk registers it
  BatchSize,     \* entries registered under one lock acquisition (1000)
  Handlers,      \* connections serving SEND and ACK requests
  Walk,          \* the connection that serves the TXFER or SYNC request
  NoProc,        \* mu is free
  Tokens,        \* window hash values (what a window of the source hashes to)
  SourceSizes,   \* sizes the source files may have when a SEND reads them
  SendRequests,  \* SEND bodies: sequences of [file, off, size]
  AckRequests,   \* ACK bodies: sequences of [file, bytes, token], -1 = missing
  MaxRequests,   \* bound on the requests of a behaviour
  TTL,           \* the store's ttl, in clock ticks
  MaxClock       \* bound on the clock

IDs == 0..Last
Procs == Handlers \cup {Walk}

ASSUME ConstantsAssumption ==
  /\ Last \in Nat /\ BatchSize \in Nat \ {0} /\ TTL \in Nat \ {0}
  /\ MaxClock \in Nat /\ MaxRequests \in Nat
  /\ EntryType \in [IDs -> {"file", "dir"}]
  /\ FileSize \in [IDs -> Nat]
  /\ Walk \notin Handlers /\ NoProc \notin Procs
  /\ \A s \in SourceSizes : s \in [IDs -> Nat]
  /\ \A r \in SendRequests :
       r \in Seq([file : IDs, off : Nat, size : Nat]) /\ r # << >>
  /\ \A r \in AckRequests :
       r \in Seq([file : IDs, bytes : Nat \cup {-1}, token : Tokens]) /\ r # << >>

TransferStateStarted == 1
TransferStateRunning == 2
TransferStateDone == 3
TransferStateMissing == 4
States == TransferStateStarted..TransferStateMissing

isRegularFileEntryType(i) == EntryType[i] = "file"
RegularFiles == {i \in IDs : isRegularFileEntryType(i)}

VARIABLES
  \* struct Transfer
  len, State, AckedSize, StateCounts, NumEntries, NumFiles, TotalSize,
  Done, DoneSize, CompleteLogged, ExpiresAt,
  \* struct managedTransfer and the store's map
  windowHashes, deleted, mu, inMap,
  \* the reaper goroutine and the wall clock
  reaper, clock,
  \* the handlers: next step, whether the call's lookup found the transfer,
  \* the request, the next record of it, what a SEND streamed, the reply
  pc, held, req, k, sent, reply,
  \* the TXFER or SYNC request: how far the walk gets, the files SYNC matched
  walkLen, isSync, matched,
  \* history: windows a SEND ever recorded, completions ever logged, the
  \* time of the last progress, requests still to come
  streamed, completions, lastProgress, budget

transferVars == <<len, State, AckedSize, StateCounts, NumEntries, NumFiles,
                  TotalSize, Done, DoneSize>>
ackVars == <<State, AckedSize, StateCounts, Done, DoneSize, ExpiresAt,
             windowHashes>>
managedVars == <<transferVars, CompleteLogged, ExpiresAt, windowHashes, mu,
                 streamed, completions>>
mapVars == <<inMap, deleted>>
timeVars == <<reaper, clock>>
handlerVars == <<pc, held, req, k, sent, reply, budget>>
walkVars == <<walkLen, isSync, matched>>
vars == <<managedVars, mapVars, timeVars, handlerVars, walkVars, lastProgress>>

-----------------------------------------------------------------------------
(* Locked operations on the transfer.                                      *)

\* Mutant: the order of the states is not looked at.
advanceAlways(current, next) == TRUE

shouldAdvanceState(current, next) == next >= current

\* Mutant: progress does not renew the transfer.
touchNothing == UNCHANGED ExpiresAt

touchLocked == ExpiresAt' = clock + TTL

\* Mutant: the old state's count is left as it was.
RecountForgets(i, state) ==
  IF isRegularFileEntryType(i) THEN [StateCounts EXCEPT ![state] = @ + 1]
                               ELSE StateCounts

\* setState of one entry: counts, of the regular files, follow the state.
Recount(i, state) ==
  IF isRegularFileEntryType(i)
  THEN [StateCounts EXCEPT ![State[i]] = @ - 1, ![state] = @ + 1]
  ELSE StateCounts

\* Mutant: the slices grow one entry too far.
registerEntryTooLong(i) ==
  /\ len' = i + 2
  /\ NumFiles' = NumFiles + (IF isRegularFileEntryType(i) THEN 1 ELSE 0)
  /\ UNCHANGED <<State, AckedSize, StateCounts, NumEntries, TotalSize, Done,
                 DoneSize, CompleteLogged, windowHashes>>

\* One update of RegisterTransferFileStates: the walk numbers its entries in
\* order, so each one grows the slices by one.
registerEntry(i) ==
  /\ len' = i + 1
  /\ State' = [State EXCEPT ![i] = TransferStateStarted]
  /\ NumEntries' = NumEntries + (IF i # 0 THEN 1 ELSE 0)
  /\ NumFiles' = NumFiles + (IF isRegularFileEntryType(i) THEN 1 ELSE 0)
  /\ StateCounts' = IF isRegularFileEntryType(i)
                    THEN [StateCounts EXCEPT ![TransferStateStarted] = @ + 1]
                    ELSE StateCounts
  /\ TotalSize' = TotalSize + FileSize[i]
  /\ UNCHANGED <<AckedSize, Done, DoneSize, CompleteLogged, windowHashes>>

\* SetTransferFilesState: every file still below state moves to it.
setFilesState(files, state) ==
  LET moved == {i \in files : /\ shouldAdvanceState(State[i], state)
                              /\ State[i] # state}
      from(s) == Cardinality({i \in moved \cap RegularFiles : State[i] = s})
  IN  /\ State' = [i \in IDs |-> IF i \in moved THEN state ELSE State[i]]
      /\ StateCounts' = [s \in States |->
           StateCounts[s] - from(s)
             + (IF s = state THEN Cardinality(moved \cap RegularFiles) ELSE 0)]
      /\ IF moved # {} THEN touchLocked
                       ELSE UNCHANGED ExpiresAt

\* acknowledgeFileLocked, by the record's ackBytes.  A missing file stays
\* missing, and nothing else, for a second -1 and for a directory.
ackIgnored(i, ackBytes) ==
  /\ State[i] = TransferStateMissing
  /\ ackBytes = -1 \/ ~isRegularFileEntryType(i)
  /\ UNCHANGED ackVars

\* Mutant: a file reported missing loses its bytes but not its share of DoneSize.
ackMissingDropsBytes(i, ackBytes) ==
  /\ ackBytes = -1 /\ State[i] # TransferStateMissing
  /\ State' = [State EXCEPT ![i] = TransferStateMissing]
  /\ AckedSize' = [AckedSize EXCEPT ![i] = 0]
  /\ UNCHANGED <<StateCounts, Done, DoneSize, ExpiresAt, windowHashes>>

ackMissing(i, ackBytes) ==
  /\ ackBytes = -1 /\ State[i] # TransferStateMissing
  /\ State' = [State EXCEPT ![i] = TransferStateMissing]
  /\ StateCounts' = Recount(i, TransferStateMissing)
  /\ IF State[i] # TransferStateDone /\ isRegularFileEntryType(i)
     THEN Done' = Done + 1 /\ touchLocked
     ELSE UNCHANGED <<Done, ExpiresAt>>
  /\ UNCHANGED <<AckedSize, DoneSize, windowHashes>>

\* The byte count an ACK is clamped to, when validated and when applied.
ackTarget(i, ackBytes) ==
  IF ackBytes > FileSize[i] THEN FileSize[i] ELSE ackBytes

ackBytesOf(i, ackBytes) ==
  LET revived == State[i] = TransferStateMissing
      current == IF revived THEN TransferStateRunning ELSE State[i]
      target == ackTarget(i, ackBytes)
      grows == target > AckedSize[i]
      acked == IF grows THEN target ELSE AckedSize[i]
      counts == /\ acked >= FileSize[i]
                /\ current < TransferStateDone
                /\ isRegularFileEntryType(i)
      final == IF counts THEN TransferStateDone ELSE current
      key == <<i, target>>
  IN  /\ ackBytes # -1
      /\ revived => isRegularFileEntryType(i)
      /\ State' = [State EXCEPT ![i] = final]
      /\ StateCounts' = Recount(i, final)
      /\ AckedSize' = [AckedSize EXCEPT ![i] = acked]
      /\ DoneSize' = DoneSize + (acked - AckedSize[i])
      /\ Done' = Done - (IF revived /\ Done > 0 THEN 1 ELSE 0)
                      + (IF counts THEN 1 ELSE 0)
      /\ IF grows \/ counts THEN touchLocked
                            ELSE UNCHANGED ExpiresAt
      /\ windowHashes' = [w \in DOMAIN windowHashes \ {key} |-> windowHashes[w]]

acknowledgeFileLocked(i, ackBytes) ==
  \/ ackIgnored(i, ackBytes)
  \/ ackMissing(i, ackBytes)
  \/ ackBytesOf(i, ackBytes)

-----------------------------------------------------------------------------
(* Store calls.  pc names the call a handler is about to make.             *)

StoreCalls == {"sendRefs", "sendRunning", "sendDone", "sendHashes",
               "ackRefs", "ackVerify", "ackApply", "ackComplete",
               "register", "syncAck", "clip", "syncComplete", "deleteMark"}

\* getManagedTransfer: the lookup that precedes every locked section.
Lookup(p) ==
  /\ pc[p] \in StoreCalls \ {"deleteMark"} /\ ~held[p] /\ inMap
  /\ held' = [held EXCEPT ![p] = TRUE]
  /\ UNCHANGED <<managedVars, mapVars, timeVars, pc, req, k, sent, reply,
                 budget, walkVars>>

\* Mutant: the lock is taken and the deleted mark is not looked at.
EnterAnyway(p, call) ==
  pc[p] = call /\ held[p] /\ mu \in {NoProc, p}

\* p's call holds the lock of a live transfer.
Enter(p, call) ==
  pc[p] = call /\ held[p] /\ mu \in {NoProc, p} /\ ~deleted

\* The call of p returns and p goes on at next, with reply r so far.  An idle
\* handler has dropped its request.
Return(p, next, r) ==
  /\ pc' = [pc EXCEPT ![p] = next]
  /\ held' = [held EXCEPT ![p] = FALSE]
  /\ reply' = [reply EXCEPT ![p] = r]
  /\ req' = [req EXCEPT ![p] = IF next = "idle" THEN << >> ELSE @]
  /\ sent' = [sent EXCEPT ![p] = IF next = "idle" THEN {} ELSE @]

\* Where a handler goes when its call finds the transfer gone, and what its
\* reply becomes.
HasBytes(r) == \E n \in DOMAIN r : r[n].bytes # -1

AfterFailure(p) ==
  CASE pc[p] = "sendRefs" -> <<"idle", "NOT_FOUND">>
    [] pc[p] = "sendRunning" -> <<"sendStream", reply[p]>>
    [] pc[p] = "sendDone" -> <<"sendHashes", reply[p]>>
    [] pc[p] = "sendHashes" ->
         <<"idle", IF reply[p] = "OK" THEN "INTERNAL" ELSE reply[p]>>
    [] pc[p] = "ackRefs" -> <<"idle", "NOT_FOUND">>
    [] pc[p] = "ackVerify" -> IF HasBytes(req[p])
                              THEN <<"idle", "CONFLICT">>
                              ELSE <<"ackApply", reply[p]>>
    [] pc[p] = "ackApply" -> <<"ackComplete", "INTERNAL">>
    [] pc[p] = "ackComplete" -> <<"idle", reply[p]>>
    [] pc[p] = "register" -> <<"walkEnd", reply[p]>>
    [] pc[p] = "syncAck" -> <<"clip", reply[p]>>
    [] pc[p] = "clip" -> <<IF isSync THEN "syncComplete" ELSE "close", reply[p]>>
    [] pc[p] = "syncComplete" -> <<"served", "OK">>

\* Mutants: an ACK whose apply failed keeps the OK of its validation; the early
\* return on a deleted transfer leaves the lock held.
CallFailsSilently(p) ==
  /\ pc[p] \in StoreCalls \ {"deleteMark"}
  /\ (~held[p] /\ ~inMap) \/ (held[p] /\ mu = NoProc /\ deleted)
  /\ Return(p, AfterFailure(p)[1],
            IF pc[p] = "ackApply" THEN reply[p] ELSE AfterFailure(p)[2])
  /\ UNCHANGED <<managedVars, mapVars, timeVars, k, budget, walkVars>>

CallFailsLocked(p) ==
  /\ pc[p] \in StoreCalls \ {"deleteMark"}
  /\ (~held[p] /\ ~inMap) \/ (held[p] /\ mu = NoProc /\ deleted)
  /\ mu' = IF held[p] THEN p ELSE mu
  /\ Return(p, AfterFailure(p)[1], AfterFailure(p)[2])
  /\ UNCHANGED <<transferVars, CompleteLogged, ExpiresAt, windowHashes, streamed,
                 completions, mapVars, timeVars, k, budget, walkVars>>

CallFails(p) ==
  /\ pc[p] \in StoreCalls \ {"deleteMark"}
  /\ \/ ~held[p] /\ ~inMap
     \/ held[p] /\ mu = NoProc /\ deleted
  /\ Return(p, AfterFailure(p)[1], AfterFailure(p)[2])
  /\ UNCHANGED <<managedVars, mapVars, timeVars, k, budget, walkVars>>

-----------------------------------------------------------------------------
(* SEND: handleSENDWithOptions.                                            *)

FilesOf(r) == {r[n].file : n \in DOMAIN r}

SendStart(p) ==
  /\ pc[p] = "idle" /\ pc[Walk] = "served" /\ budget > 0
  /\ \E r \in SendRequests : req' = [req EXCEPT ![p] = r]
  /\ pc' = [pc EXCEPT ![p] = "sendRefs"]
  /\ reply' = [reply EXCEPT ![p] = ""]
  /\ budget' = budget - 1
  /\ UNCHANGED <<managedVars, mapVars, timeVars, held, k, sent, walkVars>>

SendRefs(p) ==
  /\ Enter(p, "sendRefs") /\ mu = NoProc
  /\ Return(p, "sendRunning", reply[p])
  /\ UNCHANGED <<managedVars, mapVars, timeVars, k, budget, walkVars>>

SendRunning(p) ==
  /\ Enter(p, "sendRunning") /\ mu = NoProc
  /\ setFilesState(FilesOf(req[p]), TransferStateRunning)
  /\ Return(p, "sendStream", reply[p])
  /\ UNCHANGED <<len, AckedSize, NumEntries, NumFiles, TotalSize, Done, DoneSize,
                 CompleteLogged, windowHashes, mu, streamed, completions, mapVars,
                 timeVars, k, budget, walkVars>>

\* streamSendItem: where a window really ends, given the source file's size
\* now.  A window left with no bytes is recorded as ending at 0.
sentEnd(item, src) ==
  LET limit == IF src[item.file] < FileSize[item.file]
               THEN src[item.file] ELSE FileSize[item.file]
      end == IF item.size > 0 /\ item.off + item.size < limit
             THEN item.off + item.size ELSE limit
  IN  IF isRegularFileEntryType(item.file) /\ end > item.off THEN end ELSE 0

\* The items stream in order; one that fails (its file is gone, a read or a
\* write fails, its offset is past the end) ends the response with ERR.  The
\* hashes of the items before it are recorded either way.
SendStream(p) ==
  /\ pc[p] = "sendStream"
  /\ \E src \in SourceSizes, token \in Tokens, n \in 0..Len(req[p]) :
       /\ \A m \in 1..n : req[p][m].off <= src[req[p][m].file]
       /\ sent' = [sent EXCEPT ![p] =
            {[file |-> req[p][m].file, end |-> sentEnd(req[p][m], src),
              token |-> token] : m \in 1..n}]
       /\ reply' = [reply EXCEPT ![p] = IF n = Len(req[p]) THEN "OK" ELSE "ERR"]
       /\ pc' = [pc EXCEPT ![p] =
            IF \E m \in 1..n : ~isRegularFileEntryType(req[p][m].file)
            THEN "sendDone" ELSE IF n > 0 THEN "sendHashes" ELSE "idle"]
       /\ req' = [req EXCEPT ![p] = << >>]
  /\ UNCHANGED <<managedVars, mapVars, timeVars, held, k, budget, walkVars>>

SendDone(p) ==
  /\ Enter(p, "sendDone") /\ mu = NoProc
  /\ setFilesState({h.file : h \in sent[p]} \ RegularFiles, TransferStateDone)
  /\ Return(p, "sendHashes", reply[p])
  /\ UNCHANGED <<len, AckedSize, NumEntries, NumFiles, TotalSize, Done, DoneSize,
                 CompleteLogged, windowHashes, mu, streamed, completions, mapVars,
                 timeVars, k, budget, walkVars>>

\* SetTransferFileWindowHashes.  The expiry is stamped between the lookup and
\* the lock, here at the lock.
SendHashes(p) ==
  LET keys == {<<h.file, h.end>> : h \in sent[p]}
      tokenOf(w) == (CHOOSE h \in sent[p] : <<h.file, h.end>> = w).token
  IN  /\ Enter(p, "sendHashes") /\ mu = NoProc
      /\ windowHashes' = [w \in DOMAIN windowHashes \cup keys |->
           IF w \in keys THEN [token |-> tokenOf(w), expiresAt |-> clock + TTL]
                         ELSE windowHashes[w]]
      /\ streamed' = streamed \cup keys
      /\ Return(p, "idle", reply[p])
      /\ UNCHANGED <<transferVars, CompleteLogged, ExpiresAt, mu, completions,
                     mapVars, timeVars, k, budget, walkVars>>

-----------------------------------------------------------------------------
(* ACK: handleACKWithInput.                                                *)

AckStart(p) ==
  /\ pc[p] = "idle" /\ pc[Walk] = "served" /\ budget > 0
  /\ \E r \in AckRequests : req' = [req EXCEPT ![p] = r]
  /\ pc' = [pc EXCEPT ![p] = "ackRefs"]
  /\ k' = [k EXCEPT ![p] = 1]
  /\ reply' = [reply EXCEPT ![p] = ""]
  /\ budget' = budget - 1
  /\ UNCHANGED <<managedVars, mapVars, timeVars, held, sent, walkVars>>

AckRefs(p) ==
  /\ Enter(p, "ackRefs") /\ mu = NoProc
  /\ Return(p, "ackVerify", reply[p])
  /\ UNCHANGED <<managedVars, mapVars, timeVars, k, budget, walkVars>>

\* Mutant: any window of the file vouches for the ACK.
verifiedByFile(r) ==
  \E w \in DOMAIN windowHashes :
    w[1] = r.file /\ windowHashes[w].token = r.token

\* VerifyTransferFileWindowHashes, for the record r.
verified(r) ==
  LET key == <<r.file, ackTarget(r.file, r.bytes)>>
  IN  key \in DOMAIN windowHashes /\ windowHashes[key].token = r.token

\* validateACKRecords: one stale or unknown hash refuses the whole request.
AckVerify(p) ==
  /\ Enter(p, "ackVerify") /\ mu = NoProc
  /\ IF \A n \in DOMAIN req[p] : req[p][n].bytes = -1 \/ verified(req[p][n])
     THEN Return(p, "ackApply", "OK")
     ELSE Return(p, "idle", "CONFLICT")
  /\ UNCHANGED <<managedVars, mapVars, timeVars, k, budget, walkVars>>

\* AcknowledgeTransferFiles: one record per step, under one lock.
AckApply(p) ==
  LET r == req[p][k[p]]
      isLast == k[p] = Len(req[p])
  IN  /\ Enter(p, "ackApply")
      /\ acknowledgeFileLocked(r.file, r.bytes)
      /\ mu' = IF isLast THEN NoProc ELSE p
      /\ k' = [k EXCEPT ![p] = IF isLast THEN 0 ELSE @ + 1]
      /\ IF isLast THEN Return(p, "ackComplete", "OK")
                   ELSE UNCHANGED <<pc, held, reply, req, sent>>
      /\ UNCHANGED <<len, NumEntries, NumFiles, TotalSize, CompleteLogged,
                     streamed, completions, mapVars, timeVars, 
                     budget, walkVars>>


\* MaybeLogTransferComplete under the lock.
maybeLogTransferComplete ==
  IF ~CompleteLogged /\ NumFiles > 0 /\ Done = NumFiles
  THEN CompleteLogged' = TRUE /\ completions' = completions + 1
  ELSE UNCHANGED <<CompleteLogged, completions>>

AckComplete(p) ==
  /\ Enter(p, "ackComplete") /\ mu = NoProc
  /\ maybeLogTransferComplete
  /\ Return(p, "idle", reply[p])
  /\ UNCHANGED <<transferVars, ExpiresAt, windowHashes, mu, streamed,
                 mapVars, timeVars, k, budget, walkVars>>

-----------------------------------------------------------------------------
(* TXFER and SYNC: the manifest walk, its registrations and its end.       *)

\* RegisterTransferFileState: full batches as the walk goes, the rest when
\* the walk closes the channel.
Register ==
  LET i == k[Walk]
      batchEnds == i + 1 = walkLen \/ (i + 1) % BatchSize = 0
  IN  /\ Enter(Walk, "register")
      /\ registerEntry(i)
      /\ mu' = IF batchEnds THEN NoProc ELSE Walk
      /\ k' = [k EXCEPT ![Walk] = i + 1]
      /\ IF batchEnds THEN touchLocked ELSE UNCHANGED ExpiresAt
      /\ IF batchEnds
         THEN Return(Walk, IF i + 1 = walkLen THEN "walkEnd" ELSE "register",
                     reply[Walk])
         ELSE UNCHANGED <<pc, held, reply, req, sent>>
      /\ UNCHANGED <<streamed, completions, mapVars, timeVars,  budget,
                     walkVars>>

\* A walk that emitted every entry goes on.  One that failed before the first
\* entry, between two, or writing the line of the last one it registered, is
\* cleaned up, and so is a SYNC whose manifest could not be flushed: SYNC flushes
\* before it acknowledges the matched files, TXFER after Clip.
WalkEnd ==
  /\ pc[Walk] = "walkEnd"
  /\ \/ /\ walkLen = Last + 1
        /\ pc' = [pc EXCEPT ![Walk] =
             IF isSync /\ matched # {} THEN "syncAck" ELSE "clip"]
     \/ pc' = [pc EXCEPT ![Walk] = "deleteUnmap"]
  /\ UNCHANGED <<managedVars, mapVars, timeVars, held, req, k, sent, reply,
                 budget, walkVars>>

\* The auto-acknowledgement of the files the client already has.
SyncAck ==
  \E i \in matched :
    /\ Enter(Walk, "syncAck")
    /\ acknowledgeFileLocked(i, FileSize[i])
    /\ matched' = matched \ {i}
    /\ mu' = IF matched = {i} THEN NoProc ELSE Walk
    /\ IF matched = {i} THEN Return(Walk, "clip", reply[Walk])
                        ELSE UNCHANGED <<pc, held, reply, req, sent>>
    /\ streamed' = streamed \cup {<<i, FileSize[i]>>}
    /\ UNCHANGED <<len, NumEntries, NumFiles, TotalSize, CompleteLogged,
                   completions, mapVars, timeVars, k, budget,
                   walkLen, isSync>>

ClipTransfer ==
  /\ Enter(Walk, "clip") /\ mu = NoProc
  /\ touchLocked
  /\ IF NumFiles = 0
     THEN CompleteLogged' = TRUE /\ completions' = completions + 1
     ELSE UNCHANGED <<CompleteLogged, completions>>
  /\ Return(Walk, IF isSync THEN "syncComplete" ELSE "close", reply[Walk])
  /\ UNCHANGED <<transferVars, windowHashes, mu, streamed, mapVars, timeVars,
                 k, budget, walkVars>>

SyncComplete ==
  /\ Enter(Walk, "syncComplete") /\ mu = NoProc
  /\ maybeLogTransferComplete
  /\ Return(Walk, "served", "OK")
  /\ UNCHANGED <<transferVars, ExpiresAt, windowHashes, mu, streamed,
                 mapVars, timeVars, k, budget, walkVars>>

\* cw.Close of the TXFER handler.
Close ==
  /\ pc[Walk] = "close"
  /\ \E next \in {"served", "deleteUnmap"} : pc' = [pc EXCEPT ![Walk] = next]
  /\ UNCHANGED <<managedVars, mapVars, timeVars, held, req, k, sent, reply,
                 budget, walkVars>>

\* Mutant: the transfer leaves the map and is never marked deleted.
DeleteUnmapOnly ==
  /\ pc[Walk] = "deleteUnmap"
  /\ inMap' = FALSE
  /\ pc' = [pc EXCEPT ![Walk] = "failed"]
  /\ UNCHANGED <<managedVars, deleted, timeVars, held, req, k, sent, reply,
                 budget, walkVars>>

\* DeleteTransfer: out of the map first, marked deleted under the lock after.
DeleteUnmap ==
  /\ pc[Walk] = "deleteUnmap"
  /\ inMap' = FALSE
  /\ pc' = [pc EXCEPT ![Walk] = IF inMap THEN "deleteMark" ELSE "failed"]
  /\ UNCHANGED <<managedVars, deleted, timeVars, held, req, k, sent, reply,
                 budget, walkVars>>

DeleteMark ==
  /\ pc[Walk] = "deleteMark" /\ mu = NoProc
  /\ deleted' = TRUE
  /\ pc' = [pc EXCEPT ![Walk] = "failed"]
  /\ UNCHANGED <<managedVars, inMap, timeVars, held, req, k, sent, reply,
                 budget, walkVars>>

-----------------------------------------------------------------------------
(* reapExpiredLoop and time.                                               *)

ReapTick ==
  /\ reaper.at = "wait"
  /\ reaper' = [at |-> IF inMap THEN "visit" ELSE "wait", now |-> clock]
  /\ UNCHANGED <<managedVars, mapVars, clock, handlerVars, walkVars>>

\* The check and the mark are one critical section.
ReapVisit ==
  /\ reaper.at = "visit" /\ mu = NoProc
  /\ LET expired == ~deleted /\ ExpiresAt <= reaper.now
     IN  /\ deleted' = (deleted \/ expired)
         /\ reaper' = [reaper EXCEPT !.at = IF expired THEN "unmap" ELSE "hashes"]
  /\ UNCHANGED <<managedVars, inMap, clock, handlerVars, walkVars>>

\* Mutant: an expired transfer is marked and stays in the map.
ReapUnmapSkipped ==
  /\ reaper.at = "unmap"
  /\ reaper' = [reaper EXCEPT !.at = "wait"]
  /\ UNCHANGED <<managedVars, mapVars, clock, handlerVars, walkVars>>

ReapUnmap ==
  /\ reaper.at = "unmap"
  /\ inMap' = FALSE
  /\ reaper' = [reaper EXCEPT !.at = "wait"]
  /\ UNCHANGED <<managedVars, deleted, clock, handlerVars, walkVars>>

\* hashMu, which the loop takes here, is otherwise taken only inside mu.
ReapHashes ==
  /\ reaper.at = "hashes"
  /\ windowHashes' =
       [w \in {v \in DOMAIN windowHashes : windowHashes[v].expiresAt > reaper.now}
          |-> windowHashes[w]]
  /\ reaper' = [reaper EXCEPT !.at = "wait"]
  /\ UNCHANGED <<transferVars, CompleteLogged, ExpiresAt, mu, streamed,
                 completions, mapVars, clock, handlerVars, walkVars>>

Tick ==
  /\ clock < MaxClock
  /\ clock' = clock + 1
  /\ UNCHANGED <<managedVars, mapVars, reaper, handlerVars, walkVars>>

-----------------------------------------------------------------------------
\* NewTransfer, as the handlers call it, with no file yet; the walk's fate.
Init ==
  /\ len = 0 /\ NumEntries = 0 /\ NumFiles = 0 /\ TotalSize = 0
  /\ State = [i \in IDs |-> TransferStateStarted]
  /\ AckedSize = [i \in IDs |-> 0]
  /\ StateCounts = [s \in States |-> 0]
  /\ Done = 0 /\ DoneSize = 0 /\ CompleteLogged = FALSE
  /\ clock = 0 /\ ExpiresAt = TTL /\ lastProgress = 0
  /\ windowHashes = << >> /\ streamed = {} /\ completions = 0
  /\ mu = NoProc /\ inMap = TRUE /\ deleted = FALSE
  /\ reaper = [at |-> "wait", now |-> 0]
  /\ walkLen \in 0..(Last + 1) /\ isSync \in BOOLEAN
  /\ pc = [p \in Procs |-> IF p # Walk THEN "idle"
                          ELSE IF walkLen = 0 THEN "walkEnd" ELSE "register"]
  /\ held = [p \in Procs |-> FALSE]
  /\ req = [p \in Procs |-> << >>]
  /\ k = [p \in Procs |-> 0]
  /\ sent = [p \in Procs |-> {}]
  /\ reply = [p \in Procs |-> ""]
  /\ budget = MaxRequests
  /\ matched \in IF isSync THEN SUBSET RegularFiles ELSE {{}}

HandlerStep(p) ==
  \/ SendStart(p) \/ SendRefs(p) \/ SendRunning(p) \/ SendStream(p)
  \/ SendDone(p) \/ SendHashes(p)
  \/ AckStart(p) \/ AckRefs(p) \/ AckVerify(p) \/ AckApply(p) \/ AckComplete(p)

WalkStep ==
  Register \/ WalkEnd \/ SyncAck \/ ClipTransfer \/ SyncComplete \/ Close
  \/ DeleteUnmap \/ DeleteMark

ReaperStep == ReapTick \/ ReapVisit \/ ReapUnmap \/ ReapHashes

\* Progress, as touchLocked's comment names it: the walk registers an entry or
\* finishes, acknowledged bytes grow, a file starts or is counted.
Progress ==
  \/ len' # len
  \/ pc[Walk] = "clip" /\ pc'[Walk] # "clip" /\ ~deleted
  \/ \E i \in IDs : AckedSize'[i] > AckedSize[i]
  \/ \E i \in RegularFiles : /\ State[i] < TransferStateDone
                             /\ State'[i] > State[i]

History == lastProgress' = IF Progress THEN clock ELSE lastProgress

ProcStep(p) == Lookup(p) \/ CallFails(p) \/ (p \in Handlers /\ HandlerStep(p))

Next ==
  /\ \/ \E p \in Procs : ProcStep(p)
     \/ WalkStep
     \/ ReaperStep
     \/ Tick
  /\ History

Spec == Init /\ [][Next]_vars

\* The Go scheduler runs every handler, the walk and the reaper, and time
\* passes; a new request is never forced.
Fairness ==
  /\ \A p \in Procs : WF_vars((Lookup(p) \/ CallFails(p)) /\ History)
  /\ \A p \in Handlers :
       WF_vars(pc[p] # "idle" /\ HandlerStep(p) /\ History)
  /\ WF_vars(WalkStep /\ History)
  /\ WF_vars(ReaperStep /\ History)
  /\ WF_vars(Tick /\ History)

LiveSpec == Spec /\ Fairness

-----------------------------------------------------------------------------
(* Properties.                                                             *)

HashRecord == [token : Tokens, expiresAt : Nat]
Request == Seq([file : IDs, off : Nat, size : Nat])
           \cup Seq([file : IDs, bytes : Nat \cup {-1}, token : Tokens])

HandlerLabels ==
  {"idle", "sendRefs", "sendRunning", "sendStream", "sendDone", "sendHashes",
   "ackRefs", "ackVerify", "ackApply", "ackComplete"}
WalkLabels ==
  {"register", "walkEnd", "syncAck", "clip", "syncComplete", "close",
   "deleteUnmap", "deleteMark", "served", "failed"}

Replies == {"", "OK", "ERR", "NOT_FOUND", "CONFLICT", "INTERNAL"}

TransferTypeOK ==
  /\ len \in 0..(Last + 1) /\ NumEntries \in Int /\ NumFiles \in Int
  /\ TotalSize \in Int /\ Done \in Int /\ DoneSize \in Int
  /\ State \in [IDs -> States] /\ AckedSize \in [IDs -> Nat]
  /\ StateCounts \in [States -> Int]
  /\ CompleteLogged \in BOOLEAN /\ ExpiresAt \in Nat /\ completions \in Nat
  /\ DOMAIN windowHashes \subseteq IDs \X Nat
  /\ \A w \in DOMAIN windowHashes : windowHashes[w] \in HashRecord
  /\ streamed \subseteq IDs \X Nat

SharedTypeOK ==
  /\ deleted \in BOOLEAN /\ inMap \in BOOLEAN /\ mu \in Procs \cup {NoProc}
  /\ reaper \in [at : {"wait", "visit", "unmap", "hashes"}, now : Nat]
  /\ clock \in Nat /\ lastProgress \in Nat /\ budget \in Nat
  /\ walkLen \in 0..(Last + 1) /\ isSync \in BOOLEAN
  /\ matched \subseteq RegularFiles

HandlerTypeOK ==
  /\ pc \in [Procs -> HandlerLabels \cup WalkLabels]
  /\ held \in [Procs -> BOOLEAN] /\ req \in [Procs -> Request]
  /\ k \in [Procs -> Nat] /\ reply \in [Procs -> Replies]
  /\ sent \in [Procs -> SUBSET [file : IDs, end : Nat, token : Tokens]]

\* The types of the transfer's fields, of the lock and of the handlers.
TypeOK == TransferTypeOK /\ SharedTypeOK /\ HandlerTypeOK

\* The windows an ACK request acknowledges.
Windows(r) == {<<r[n].file, ackTarget(r[n].file, r[n].bytes)>> :
                 n \in {m \in DOMAIN r : r[m].bytes # -1}}

HandlerAgrees(p) ==
  /\ pc[p] \in HandlerLabels
  /\ pc[p] # "idle" => pc[Walk] = "served"
  /\ pc[p] \in {"sendRefs", "sendRunning", "sendStream"} => req[p] \in SendRequests
  /\ pc[p] \in {"ackRefs", "ackVerify", "ackApply", "ackComplete"} =>
       req[p] \in AckRequests
  /\ pc[p] \in {"ackRefs", "ackVerify", "ackApply"} => k[p] \in 1..Len(req[p])
  /\ pc[p] = "ackApply" => Windows(req[p]) \subseteq streamed

WalkAgrees ==
  /\ pc[Walk] \in WalkLabels
  /\ pc[Walk] = "register" => k[Walk] = len /\ len < walkLen
  /\ pc[Walk] = "walkEnd" => len = walkLen \/ deleted
  /\ pc[Walk] \in {"syncAck", "clip", "syncComplete", "close", "served"} =>
       len = Last + 1 \/ deleted
  /\ ~inMap => deleted \/ pc[Walk] = "deleteMark"
  /\ reaper.at = "unmap" => deleted

\* What the handlers rely on between two store calls: a handler runs only once
\* the manifest was served, with every entry registered unless the transfer was
\* deleted under the walk; an ACK that passed validation holds only windows
\* that were streamed; a transfer out of the map is deleted or about to be.
HandlersAgree ==
  /\ \A p \in Handlers : HandlerAgrees(p)
  /\ WalkAgrees
  /\ DOMAIN windowHashes \subseteq streamed
  /\ \A i \in IDs : i >= len => State[i] = TransferStateStarted

\* The regular files the walk has registered, and those of them that are Done
\* or Missing.
Registered == {i \in RegularFiles : i < len}
Counted == {i \in RegularFiles : State[i] >= TransferStateDone}

\* The counters a STATUS or the completion test reads always agree with the
\* per-file states: Done counts exactly the files Done or Missing, through
\* repeated, late and missing ACKs and the revival of a missing file
\* (acknowledgeFileLocked), and StateCounts and NumFiles the registered ones.
CountersExact ==
  /\ Done = Cardinality(Counted)
  /\ NumFiles = Cardinality(Registered)
  /\ \A s \in States :
       StateCounts[s] = Cardinality({i \in Registered : State[i] = s})

\* Bytes are acknowledged, and a file is marked Done, only for a window that a
\* SEND streamed and recorded (or a file SYNC found the client to have), even
\* though the hash is checked in one critical section and the ACK applied in a
\* later one (validateACKRecords, acknowledgeFileLocked).
CountedWasStreamed ==
  \A i \in RegularFiles :
    /\ AckedSize[i] <= FileSize[i]
    /\ AckedSize[i] > 0 => <<i, AckedSize[i]>> \in streamed
    /\ State[i] = TransferStateDone =>
         AckedSize[i] = FileSize[i] /\ <<i, FileSize[i]>> \in streamed

\* An ACK about to answer OK has its bytes in the ledger: the transfer was not
\* deleted under it between the validation and the apply.
AckOkMeansApplied ==
  \A p \in Handlers : pc[p] = "ackComplete" /\ reply[p] = "OK" =>
    \A n \in DOMAIN req[p] : req[p][n].bytes # -1 =>
      AckedSize[req[p][n].file] >= ackTarget(req[p][n].file, req[p][n].bytes)

\* Acknowledged bytes never shrink, and a file's state goes back only from
\* Missing, when it is delivered after all.
LedgerMonotone ==
  [][\A i \in IDs :
       /\ AckedSize'[i] >= AckedSize[i]
       /\ State'[i] < State[i] => State[i] = TransferStateMissing]_vars

\* Once marked deleted, a transfer changes no more, whatever handlers that
\* looked it up before still do to it.
DeletedIsFrozen ==
  [][deleted => /\ UNCHANGED <<transferVars, CompleteLogged, ExpiresAt>>
                /\ DOMAIN windowHashes' \subseteq DOMAIN windowHashes]_vars


\* The reaper deletes a transfer only when it made no progress for a whole TTL:
\* a renewal between the reaper's tick and its visit is not lost.
RenewalNotLost ==
  [][~deleted /\ deleted' /\ pc[Walk] # "deleteMark" =>
       lastProgress + TTL <= clock]_vars

\* Every request is answered: no handler waits for the transfer's lock forever.
EveryRequestAnswered ==
  \A p \in Handlers : pc[p] # "idle" ~> pc[p] = "idle"

\* A transfer nobody advances is reaped (up to the bound on the clock).
UnattendedIsReaped ==
  ExpiresAt <= MaxClock ~> (deleted /\ ~inMap) \/ ExpiresAt > MaxClock

\* What MaybeLogTransferComplete's comment says it returns: whether the transfer
\* is complete.  It returns what CompleteLogged is after the call.
ReportsWhetherComplete ==
  [][\A p \in Handlers :
       pc[p] = "ackComplete" /\ held[p] /\ ~deleted /\ pc'[p] = "idle" =>
         (CompleteLogged' <=> Counted = RegularFiles)]_vars

=============================================================================
