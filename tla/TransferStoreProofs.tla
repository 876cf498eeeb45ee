------------------------ MODULE TransferStoreProofs ------------------------
(* Proofs about TransferStore, for every manifest, request set and bound.  *)
EXTENDS TransferStore, TLAPS, FiniteSetTheorems

Inv == TypeOK /\ HandlersAgree
Labels == HandlerLabels \cup WalkLabels

\* What is assumed of the constants other than the requests and the sources.
LEMMA Scalars ==
  /\ Last \in Nat /\ TTL \in Nat /\ MaxClock \in Nat /\ MaxRequests \in Nat
  /\ EntryType \in [IDs -> {"file", "dir"}] /\ FileSize \in [IDs -> Nat]
  /\ Walk \notin Handlers /\ NoProc \notin Procs
BY ConstantsAssumption

\* The recorded time of progress is a time, as the clock is.
LEMMA HistoryType == ASSUME SharedTypeOK, History PROVE lastProgress' \in Nat
BY DEF SharedTypeOK, History

\* No request, a SEND body and an ACK body are all requests (a handler's req).
LEMMA RequestTypes ==
  /\ << >> \in Request
  /\ \A r \in SendRequests : r \in Request
  /\ \A r \in AckRequests : r \in Request
<1>1. << >> \in Seq([file : IDs, off : Nat, size : Nat])
  OBVIOUS
<1> QED BY <1>1, ConstantsAssumption DEF Request

\* The elements of a sequence over S are in S.
LEMMA SeqElement ==
  ASSUME NEW S, NEW r \in Seq(S)
  PROVE  DOMAIN r = 1..Len(r) /\ \A n \in DOMAIN r : r[n] \in S
OBVIOUS

\* An item of a SEND body names a manifest ID, an offset and a size.
LEMMA SendItemType ==
  ASSUME NEW r \in SendRequests
  PROVE  /\ DOMAIN r = 1..Len(r)
         /\ \A n \in DOMAIN r : r[n] \in [file : IDs, off : Nat, size : Nat]
<1>1. r \in Seq([file : IDs, off : Nat, size : Nat])
  BY ConstantsAssumption
<1> QED BY <1>1, SeqElement

\* A record of an ACK body names a manifest ID, a byte count or -1, and a hash.
LEMMA AckRecordType ==
  ASSUME NEW r \in AckRequests
  PROVE  /\ DOMAIN r = 1..Len(r)
         /\ \A n \in DOMAIN r :
              r[n] \in [file : IDs, bytes : Nat \cup {-1}, token : Tokens]
<1>1. r \in Seq([file : IDs, bytes : Nat \cup {-1}, token : Tokens])
  BY ConstantsAssumption
<1> QED BY <1>1, SeqElement

\* A request body has at least one record (the parsers refuse an empty one).
LEMMA RequestLen == \A r \in AckRequests \cup SendRequests : Len(r) \in Nat /\ 1 \in 1..Len(r)
<1>1. ASSUME NEW r \in AckRequests PROVE Len(r) \in Nat /\ 1 \in 1..Len(r)
  BY ConstantsAssumption
<1>2. ASSUME NEW r \in SendRequests PROVE Len(r) \in Nat /\ 1 \in 1..Len(r)
  BY ConstantsAssumption
<1> QED BY <1>1, <1>2

\* A request that starts takes one from a positive budget.
LEMMA StartBudget ==
  ASSUME NEW p, SharedTypeOK, SendStart(p) \/ AckStart(p) PROVE budget' \in Nat
<1>1. budget \in Nat /\ budget > 0 /\ budget' = budget - 1
  BY DEF SharedTypeOK, SendStart, AckStart
<1> QED BY <1>1

\* A handler whose store call returns stays well typed.
LEMMA ReturnType ==
  ASSUME HandlerTypeOK, NEW p \in Procs, NEW next \in Labels, NEW r \in Replies,
         Return(p, next, r), k' \in [Procs -> Nat]
  PROVE  HandlerTypeOK'
<1>1. req' \in [Procs -> Request]
  BY RequestTypes DEF HandlerTypeOK, Return
<1>2. sent' \in [Procs -> SUBSET [file : IDs, end : Nat, token : Tokens]]
  BY DEF HandlerTypeOK, Return
<1> QED BY <1>1, <1>2 DEF HandlerTypeOK, Return, Labels

\* A step that leaves the ledger alone keeps the transfer well typed.
LEMMA TransferTypeSame ==
  ASSUME TransferTypeOK, UNCHANGED <<transferVars, windowHashes, streamed>>,
         CompleteLogged' \in BOOLEAN, completions' \in Nat, ExpiresAt' \in Nat
  PROVE  TransferTypeOK'
BY DEF TransferTypeOK, transferVars

\* Where a failed store call leads: handlers stay handlers, the walk the walk,
\* only a failed SetTransferFilesState goes on to stream, and only an ACK of
\* missing files to apply.
LEMMA AfterFailureCases ==
  ASSUME NEW p \in Procs, HandlerTypeOK, pc[p] \in StoreCalls \ {"deleteMark"}
  PROVE  /\ AfterFailure(p)[1] \in Labels
         /\ AfterFailure(p)[2] \in Replies
         /\ pc[p] \in HandlerLabels =>
              /\ AfterFailure(p)[1] \in HandlerLabels
              /\ AfterFailure(p)[1] \notin {"sendRefs", "sendRunning", "ackRefs", "ackVerify"}
              /\ AfterFailure(p)[1] = "sendStream" => pc[p] = "sendRunning"
              /\ AfterFailure(p)[1] = "ackApply" =>
                   pc[p] = "ackVerify" /\ ~HasBytes(req[p])
              /\ AfterFailure(p)[1] = "ackComplete" => pc[p] = "ackApply"
         /\ pc[p] \in WalkLabels =>
              AfterFailure(p)[1] \in WalkLabels \ {"register", "deleteMark"}
<1> USE DEF AfterFailure, Labels, HandlerLabels, WalkLabels, HandlerTypeOK, Replies
<1>1. CASE pc[p] = "sendRefs"
  BY <1>1
<1>2. CASE pc[p] = "sendRunning"
  BY <1>2
<1>3. CASE pc[p] = "sendDone"
  BY <1>3
<1>4. CASE pc[p] = "sendHashes"
  BY <1>4
<1>5. CASE pc[p] = "ackRefs"
  BY <1>5
<1>6. CASE pc[p] = "ackVerify"
  BY <1>6
<1>7. CASE pc[p] = "ackApply"
  BY <1>7
<1>8. CASE pc[p] = "ackComplete"
  BY <1>8
<1>9. CASE pc[p] = "register"
  BY <1>9
<1>10. CASE pc[p] = "syncAck"
  BY <1>10
<1>11. CASE pc[p] = "clip"
  BY <1>11
<1>12. CASE pc[p] = "syncComplete"
  BY <1>12
<1> QED BY <1>1, <1>2, <1>3, <1>4, <1>5, <1>6, <1>7, <1>8, <1>9, <1>10, <1>11, <1>12 DEF StoreCalls

\* MaybeLogTransferComplete keeps its flag and the completion count well typed.
LEMMA CompleteType ==
  ASSUME TransferTypeOK, maybeLogTransferComplete
  PROVE  CompleteLogged' \in BOOLEAN /\ completions' \in Nat
<1>1. CompleteLogged \in BOOLEAN /\ completions \in Nat
  BY DEF TransferTypeOK
<1>2. CASE ~CompleteLogged /\ NumFiles > 0 /\ Done = NumFiles
  BY <1>1, <1>2 DEF maybeLogTransferComplete
<1>3. CASE ~(~CompleteLogged /\ NumFiles > 0 /\ Done = NumFiles)
  BY <1>1, <1>3 DEF maybeLogTransferComplete
<1> QED BY <1>2, <1>3

\* getManagedTransfer's lookup preserves the invariant.
LEMMA LookupInv == ASSUME NEW p \in Procs, Inv, Lookup(p), History PROVE Inv'
<1> USE DEF Inv, TypeOK, Lookup
<1>1. TransferTypeOK'
  BY DEF TransferTypeOK, managedVars, transferVars
<1>2. SharedTypeOK'
  BY HistoryType DEF SharedTypeOK, managedVars, mapVars, timeVars, walkVars, handlerVars
<1>3. HandlerTypeOK'
  BY DEF HandlerTypeOK, HandlerLabels, WalkLabels, handlerVars, Procs
<1>4. HandlersAgree'
  BY Scalars
  DEF HandlersAgree, HandlerAgrees, WalkAgrees, HandlerLabels, WalkLabels,
      managedVars, mapVars, timeVars, handlerVars, walkVars, transferVars,
      HandlerTypeOK, SharedTypeOK, TransferTypeOK, Procs
<1> QED BY <1>1, <1>2, <1>3, <1>4

\* A store call that finds the transfer gone preserves the invariant.
LEMMA CallFailsInv == ASSUME NEW p \in Procs, Inv, CallFails(p), History PROVE Inv'
<1> USE DEF Inv, TypeOK, CallFails
<1>1. TransferTypeOK'
  BY DEF TransferTypeOK, managedVars, transferVars
<1>2. SharedTypeOK'
  BY HistoryType DEF SharedTypeOK, managedVars, mapVars, timeVars, walkVars, handlerVars
<1>3. HandlerTypeOK'
  BY ReturnType, AfterFailureCases DEF HandlerTypeOK
<1>4. HandlersAgree'
  <2>1. ASSUME NEW q \in Handlers PROVE HandlerAgrees(q)'
    <3>1. CASE q = p
      <4>1. /\ HandlerAgrees(p)
            /\ pc'[p] = AfterFailure(p)[1] /\ pc' = [pc EXCEPT ![p] = pc'[p]]
            /\ pc'[p] # "idle" => req'[p] = req[p]
            /\ k' = k /\ streamed' = streamed /\ pc'[Walk] = pc[Walk]
        BY <3>1, Scalars
        DEF HandlersAgree, Return, HandlerTypeOK, managedVars, Procs
      <4>2. /\ pc'[p] \in HandlerLabels
            /\ pc'[p] \notin {"sendRefs", "sendRunning", "ackRefs", "ackVerify"}
            /\ pc'[p] = "sendStream" => pc[p] = "sendRunning"
            /\ pc'[p] = "ackApply" => pc[p] = "ackVerify" /\ Windows(req[p]) = {}
            /\ pc'[p] = "ackComplete" => pc[p] = "ackApply"
        <5>1. pc[p] \in HandlerLabels
          BY <4>1 DEF HandlerAgrees
        <5>2. ~HasBytes(req[p]) => Windows(req[p]) = {}
          BY DEF HasBytes, Windows
        <5> QED BY <4>1, <5>1, <5>2, AfterFailureCases
      <4>3. pc[p] # "idle"
        BY DEF StoreCalls
      <4> QED BY <3>1, <4>1, <4>2, <4>3 DEF HandlerAgrees
    <3>2. CASE q # p
      <4>1. /\ HandlerAgrees(q)
            /\ pc'[q] = pc[q] /\ req'[q] = req[q] /\ k' = k /\ streamed' = streamed
        BY <3>2 DEF HandlersAgree, Return, HandlerTypeOK, managedVars, Procs
      <4>2. pc[Walk] = "served" => pc'[Walk] = "served"
        BY Scalars DEF HandlersAgree, WalkAgrees, Return, HandlerTypeOK, Procs, StoreCalls
      <4> QED BY <4>1, <4>2 DEF HandlerAgrees
    <3> QED BY <3>1, <3>2
  <2>2. WalkAgrees'
    BY AfterFailureCases, Scalars
    DEF HandlersAgree, HandlerAgrees, WalkAgrees, Return, HandlerLabels, WalkLabels, HandlerTypeOK,
        managedVars, mapVars, timeVars, walkVars, transferVars, Procs
  <2> QED BY <2>1, <2>2 DEF HandlersAgree, managedVars, transferVars
<1> QED BY <1>1, <1>2, <1>3, <1>4

\* A SEND request that starts preserves the invariant.
LEMMA SendStartInv == ASSUME NEW p \in Handlers, Inv, SendStart(p), History PROVE Inv'
<1> USE DEF Inv, TypeOK, SendStart
<1>1. TransferTypeOK'
  BY DEF TransferTypeOK, managedVars, transferVars
<1>2. SharedTypeOK'
  BY StartBudget, HistoryType DEF SharedTypeOK, managedVars, mapVars, timeVars, walkVars
<1>3. HandlerTypeOK'
  <2>1. PICK r \in Request : req' = [req EXCEPT ![p] = r]
    BY RequestTypes
  <2> QED BY <2>1 DEF HandlerTypeOK, HandlerLabels, WalkLabels, Procs, Replies
<1>4. HandlersAgree'
  BY Scalars
  DEF HandlersAgree, HandlerAgrees, WalkAgrees, HandlerLabels, WalkLabels,
      managedVars, mapVars, timeVars, handlerVars, walkVars, transferVars,
      HandlerTypeOK, SharedTypeOK, TransferTypeOK, Procs
<1> QED BY <1>1, <1>2, <1>3, <1>4

\* SEND's GetFileRefs preserves the invariant.
LEMMA SendRefsInv == ASSUME NEW p \in Handlers, Inv, SendRefs(p), History PROVE Inv'
<1> USE DEF Inv, TypeOK, SendRefs, Return, Enter
<1>1. TransferTypeOK'
  BY DEF TransferTypeOK, managedVars, transferVars
<1>2. SharedTypeOK'
  BY HistoryType DEF SharedTypeOK, managedVars, mapVars, timeVars, walkVars, handlerVars
<1>3. HandlerTypeOK'
  BY ReturnType DEF HandlerTypeOK, Labels, HandlerLabels, WalkLabels, Procs, Replies
<1>4. HandlersAgree'
  BY Scalars
  DEF HandlersAgree, HandlerAgrees, WalkAgrees, HandlerLabels, WalkLabels,
      managedVars, mapVars, timeVars, handlerVars, walkVars, transferVars,
      HandlerTypeOK, SharedTypeOK, TransferTypeOK, Procs
<1> QED BY <1>1, <1>2, <1>3, <1>4

\* An ACK request that starts preserves the invariant.
LEMMA AckStartInv == ASSUME NEW p \in Handlers, Inv, AckStart(p), History PROVE Inv'
<1> USE DEF Inv, TypeOK, AckStart
<1>1. TransferTypeOK'
  BY DEF TransferTypeOK, managedVars, transferVars
<1>2. SharedTypeOK'
  BY StartBudget, HistoryType DEF SharedTypeOK, managedVars, mapVars, timeVars, walkVars
<1>3. HandlerTypeOK'
  <2>1. PICK r \in Request : req' = [req EXCEPT ![p] = r]
    BY RequestTypes
  <2> QED BY <2>1 DEF HandlerTypeOK, HandlerLabels, WalkLabels, Procs, Replies
<1>4. HandlersAgree'
  <2>1. PICK r \in AckRequests : req' = [req EXCEPT ![p] = r]
    OBVIOUS
  <2>2. 1 \in 1..Len(r)
    BY RequestLen
  <2>3. ASSUME NEW q \in Handlers PROVE HandlerAgrees(q)'
    BY <2>1, <2>2, Scalars
    DEF HandlersAgree, HandlerAgrees, HandlerLabels, HandlerTypeOK, managedVars, Procs
  <2>4. WalkAgrees'
    BY Scalars
    DEF HandlersAgree, WalkAgrees, HandlerTypeOK, managedVars, mapVars, timeVars, walkVars,
        transferVars, Procs
  <2> QED BY <2>3, <2>4 DEF HandlersAgree, managedVars, transferVars
<1> QED BY <1>1, <1>2, <1>3, <1>4

\* ACK's GetFileRefs preserves the invariant.
LEMMA AckRefsInv == ASSUME NEW p \in Handlers, Inv, AckRefs(p), History PROVE Inv'
<1> USE DEF Inv, TypeOK, AckRefs, Return, Enter
<1>1. TransferTypeOK'
  BY DEF TransferTypeOK, managedVars, transferVars
<1>2. SharedTypeOK'
  BY HistoryType DEF SharedTypeOK, managedVars, mapVars, timeVars, walkVars, handlerVars
<1>3. HandlerTypeOK'
  BY ReturnType DEF HandlerTypeOK, Labels, HandlerLabels, WalkLabels, Procs, Replies
<1>4. HandlersAgree'
  BY Scalars
  DEF HandlersAgree, HandlerAgrees, WalkAgrees, HandlerLabels, WalkLabels,
      managedVars, mapVars, timeVars, handlerVars, walkVars, transferVars,
      HandlerTypeOK, SharedTypeOK, TransferTypeOK, Procs
<1> QED BY <1>1, <1>2, <1>3, <1>4

\* validateACKRecords preserves the invariant: the windows of a request that
\* passes have hashes, and hashes are only kept for streamed windows.
LEMMA AckVerifyInv == ASSUME NEW p \in Handlers, Inv, AckVerify(p), History PROVE Inv'
<1> USE DEF Inv, TypeOK, AckVerify, Enter
<1>1. TransferTypeOK'
  BY DEF TransferTypeOK, managedVars, transferVars
<1>2. SharedTypeOK'
  BY HistoryType DEF SharedTypeOK, managedVars, mapVars, timeVars, walkVars, handlerVars
<1>3. HandlerTypeOK'
  BY ReturnType DEF HandlerTypeOK, Labels, HandlerLabels, WalkLabels, Procs, Replies
<1>4. HandlersAgree'
  <2>1. /\ pc'[p] \in {"ackApply", "idle"}
        /\ pc'[p] = "ackApply" =>
             \A n \in DOMAIN req[p] : req[p][n].bytes = -1 \/ verified(req[p][n])
        /\ pc'[p] = "ackApply" => req'[p] = req[p]
        /\ \A q \in Procs \ {p} : pc'[q] = pc[q] /\ req'[q] = req[q]
        /\ k' = k /\ streamed' = streamed /\ windowHashes' = windowHashes
    BY DEF HandlerTypeOK, Procs, Return, managedVars
  <2>2. pc'[p] = "ackApply" => Windows(req[p]) \subseteq streamed
    BY <2>1 DEF Windows, verified, HandlersAgree
  <2>3. ASSUME NEW q \in Handlers PROVE HandlerAgrees(q)'
    BY <2>1, <2>2, Scalars DEF HandlersAgree, HandlerAgrees, HandlerLabels, Procs
  <2>4. WalkAgrees'
    BY <2>1, Scalars
    DEF HandlersAgree, WalkAgrees, managedVars, mapVars, timeVars, walkVars, transferVars, Procs
  <2> QED BY <2>1, <2>3, <2>4 DEF HandlersAgree, managedVars, transferVars
<1> QED BY <1>1, <1>2, <1>3, <1>4

\* ACK's MaybeLogTransferComplete preserves the invariant.
LEMMA AckCompleteInv == ASSUME NEW p \in Handlers, Inv, AckComplete(p), History PROVE Inv'
<1> USE DEF Inv, TypeOK, AckComplete, Enter
<1>1. TransferTypeOK'
  BY TransferTypeSame, CompleteType DEF TransferTypeOK, managedVars, transferVars
<1>2. SharedTypeOK'
  BY HistoryType DEF SharedTypeOK, managedVars, mapVars, timeVars, walkVars, handlerVars
<1>3. HandlerTypeOK'
  <2>1. p \in Procs /\ reply[p] \in Replies /\ "idle" \in Labels /\ k' \in [Procs -> Nat]
    BY DEF HandlerTypeOK, Labels, HandlerLabels, Procs
  <2>2. Return(p, "idle", reply[p])
    OBVIOUS
  <2> QED BY <2>1, <2>2, ReturnType
<1>4. HandlersAgree'
  BY Scalars
  DEF HandlersAgree, HandlerAgrees, WalkAgrees, HandlerLabels, WalkLabels,
      managedVars, mapVars, timeVars, handlerVars, walkVars, transferVars,
      HandlerTypeOK, SharedTypeOK, TransferTypeOK, Procs, Return
<1> QED BY <1>1, <1>2, <1>3, <1>4

\* The end of the walk preserves the invariant: it goes on to Clip only whole.
LEMMA WalkEndInv == ASSUME Inv, WalkEnd, History PROVE Inv'
<1> USE DEF Inv, TypeOK, WalkEnd
<1>1. TransferTypeOK'
  BY DEF TransferTypeOK, managedVars, transferVars
<1>2. SharedTypeOK'
  BY HistoryType DEF SharedTypeOK, managedVars, mapVars, timeVars, walkVars, handlerVars
<1>3. HandlerTypeOK'
  BY DEF HandlerTypeOK, HandlerLabels, WalkLabels, handlerVars, Procs
<1>4. HandlersAgree'
  <2>1. /\ pc'[Walk] \in {"syncAck", "clip", "deleteUnmap"}
        /\ pc'[Walk] # "deleteUnmap" => walkLen = Last + 1
        /\ \A q \in Handlers : pc'[q] = pc[q]
    BY Scalars DEF HandlerTypeOK, Procs
  <2>2. \A q \in Handlers : HandlerAgrees(q)'
    <3>1. ASSUME NEW q \in Handlers PROVE pc'[q] = "idle"
      BY <2>1 DEF HandlersAgree, HandlerAgrees
    <3> QED BY <3>1 DEF HandlerAgrees, HandlerLabels
  <2>3. WalkAgrees'
    BY <2>1 DEF HandlersAgree, WalkAgrees, WalkLabels, managedVars, transferVars,
                mapVars, timeVars, walkVars
  <2> QED BY <2>2, <2>3 DEF HandlersAgree, managedVars, transferVars
<1> QED BY <1>1, <1>2, <1>3, <1>4

\* ClipTransfer preserves the invariant.
LEMMA ClipTransferInv == ASSUME Inv, ClipTransfer, History PROVE Inv'
<1> USE DEF Inv, TypeOK, ClipTransfer, Enter, touchLocked
<1>1. TransferTypeOK'
  <2>1. CompleteLogged' \in BOOLEAN /\ completions' \in Nat
    <3>1. CompleteLogged \in BOOLEAN /\ completions \in Nat
      BY DEF TransferTypeOK
    <3>2. CASE NumFiles = 0
      BY <3>1, <3>2
    <3>3. CASE NumFiles # 0
      BY <3>1, <3>3
    <3> QED BY <3>2, <3>3
  <2>2. ExpiresAt' \in Nat
    BY Scalars DEF SharedTypeOK
  <2> QED BY <2>1, <2>2, TransferTypeSame DEF managedVars
<1>2. SharedTypeOK'
  BY HistoryType DEF SharedTypeOK, managedVars, mapVars, timeVars, walkVars, handlerVars
<1>3. HandlerTypeOK'
  <2>1. Walk \in Procs /\ reply[Walk] \in Replies /\ k' \in [Procs -> Nat]
    BY DEF HandlerTypeOK, Procs
  <2>2. /\ (IF isSync THEN "syncComplete" ELSE "close") \in Labels
        /\ Return(Walk, IF isSync THEN "syncComplete" ELSE "close", reply[Walk])
    BY DEF Labels, WalkLabels
  <2> QED BY <2>1, <2>2, ReturnType
<1>4. HandlersAgree'
  BY Scalars
  DEF HandlersAgree, HandlerAgrees, WalkAgrees, HandlerLabels, WalkLabels,
      managedVars, mapVars, timeVars, handlerVars, walkVars, transferVars,
      HandlerTypeOK, SharedTypeOK, TransferTypeOK, Procs, Return
<1> QED BY <1>1, <1>2, <1>3, <1>4

\* SYNC's MaybeLogTransferComplete preserves the invariant.
LEMMA SyncCompleteInv == ASSUME Inv, SyncComplete, History PROVE Inv'
<1> USE DEF Inv, TypeOK, SyncComplete, Enter
<1>1. TransferTypeOK'
  BY TransferTypeSame, CompleteType DEF TransferTypeOK, managedVars, transferVars
<1>2. SharedTypeOK'
  BY HistoryType DEF SharedTypeOK, managedVars, mapVars, timeVars, walkVars, handlerVars
<1>3. HandlerTypeOK'
  BY ReturnType DEF HandlerTypeOK, Labels, HandlerLabels, WalkLabels, Procs, Replies
<1>4. HandlersAgree'
  BY Scalars
  DEF HandlersAgree, HandlerAgrees, WalkAgrees, HandlerLabels, WalkLabels,
      managedVars, mapVars, timeVars, handlerVars, walkVars, transferVars,
      HandlerTypeOK, SharedTypeOK, TransferTypeOK, Procs, Return
<1> QED BY <1>1, <1>2, <1>3, <1>4

\* The TXFER handler's flush preserves the invariant.
LEMMA CloseInv == ASSUME Inv, Close, History PROVE Inv'
<1> USE DEF Inv, TypeOK, Close
<1>1. TransferTypeOK'
  BY DEF TransferTypeOK, managedVars, transferVars
<1>2. SharedTypeOK'
  BY HistoryType DEF SharedTypeOK, managedVars, mapVars, timeVars, walkVars, handlerVars
<1>3. HandlerTypeOK'
  BY DEF HandlerTypeOK, HandlerLabels, WalkLabels, handlerVars, Procs
<1>4. HandlersAgree'
  BY Scalars
  DEF HandlersAgree, HandlerAgrees, WalkAgrees, HandlerLabels, WalkLabels,
      managedVars, mapVars, timeVars, handlerVars, walkVars, transferVars,
      HandlerTypeOK, SharedTypeOK, TransferTypeOK, Procs
<1> QED BY <1>1, <1>2, <1>3, <1>4

\* DeleteTransfer's removal from the map preserves the invariant.
LEMMA DeleteUnmapInv == ASSUME Inv, DeleteUnmap, History PROVE Inv'
<1> USE DEF Inv, TypeOK, DeleteUnmap
<1>1. TransferTypeOK'
  BY DEF TransferTypeOK, managedVars, transferVars
<1>2. SharedTypeOK'
  BY HistoryType DEF SharedTypeOK, managedVars, mapVars, timeVars, walkVars, handlerVars
<1>3. HandlerTypeOK'
  BY DEF HandlerTypeOK, HandlerLabels, WalkLabels, handlerVars, Procs
<1>4. HandlersAgree'
  BY Scalars
  DEF HandlersAgree, HandlerAgrees, WalkAgrees, HandlerLabels, WalkLabels,
      managedVars, mapVars, timeVars, handlerVars, walkVars, transferVars,
      HandlerTypeOK, SharedTypeOK, TransferTypeOK, Procs
<1> QED BY <1>1, <1>2, <1>3, <1>4

\* DeleteTransfer's mark under the lock preserves the invariant.
LEMMA DeleteMarkInv == ASSUME Inv, DeleteMark, History PROVE Inv'
<1> USE DEF Inv, TypeOK, DeleteMark
<1>1. TransferTypeOK'
  BY DEF TransferTypeOK, managedVars, transferVars
<1>2. SharedTypeOK'
  BY HistoryType DEF SharedTypeOK, managedVars, mapVars, timeVars, walkVars, handlerVars
<1>3. HandlerTypeOK'
  BY DEF HandlerTypeOK, HandlerLabels, WalkLabels, handlerVars, Procs
<1>4. HandlersAgree'
  BY Scalars
  DEF HandlersAgree, HandlerAgrees, WalkAgrees, HandlerLabels, WalkLabels,
      managedVars, mapVars, timeVars, handlerVars, walkVars, transferVars,
      HandlerTypeOK, SharedTypeOK, TransferTypeOK, Procs
<1> QED BY <1>1, <1>2, <1>3, <1>4

\* A tick of reapExpiredLoop preserves the invariant.
LEMMA ReapTickInv == ASSUME Inv, ReapTick, History PROVE Inv'
<1> USE DEF Inv, TypeOK, ReapTick
<1>1. TransferTypeOK'
  BY DEF TransferTypeOK, managedVars, transferVars
<1>2. SharedTypeOK'
  BY HistoryType DEF SharedTypeOK, managedVars, mapVars, timeVars, walkVars, handlerVars
<1>3. HandlerTypeOK'
  BY DEF HandlerTypeOK, HandlerLabels, WalkLabels, handlerVars, Procs
<1>4. HandlersAgree'
  BY Scalars
  DEF HandlersAgree, HandlerAgrees, WalkAgrees, HandlerLabels, WalkLabels,
      managedVars, mapVars, timeVars, handlerVars, walkVars, transferVars,
      HandlerTypeOK, SharedTypeOK, TransferTypeOK, Procs
<1> QED BY <1>1, <1>2, <1>3, <1>4

\* The reaper's check-and-mark preserves the invariant.
LEMMA ReapVisitInv == ASSUME Inv, ReapVisit, History PROVE Inv'
<1> USE DEF Inv, TypeOK, ReapVisit
<1>1. TransferTypeOK'
  BY DEF TransferTypeOK, managedVars, transferVars
<1>2. SharedTypeOK'
  BY HistoryType DEF SharedTypeOK, managedVars, mapVars, timeVars, walkVars, handlerVars
<1>3. HandlerTypeOK'
  BY DEF HandlerTypeOK, HandlerLabels, WalkLabels, handlerVars, Procs
<1>4. HandlersAgree'
  BY Scalars
  DEF HandlersAgree, HandlerAgrees, WalkAgrees, HandlerLabels, WalkLabels,
      managedVars, mapVars, timeVars, handlerVars, walkVars, transferVars,
      HandlerTypeOK, SharedTypeOK, TransferTypeOK, Procs
<1> QED BY <1>1, <1>2, <1>3, <1>4

\* The reaper's removal from the map preserves the invariant.
LEMMA ReapUnmapInv == ASSUME Inv, ReapUnmap, History PROVE Inv'
<1> USE DEF Inv, TypeOK, ReapUnmap
<1>1. TransferTypeOK'
  BY DEF TransferTypeOK, managedVars, transferVars
<1>2. SharedTypeOK'
  BY HistoryType DEF SharedTypeOK, managedVars, mapVars, timeVars, walkVars, handlerVars
<1>3. HandlerTypeOK'
  BY DEF HandlerTypeOK, HandlerLabels, WalkLabels, handlerVars, Procs
<1>4. HandlersAgree'
  BY Scalars
  DEF HandlersAgree, HandlerAgrees, WalkAgrees, HandlerLabels, WalkLabels,
      managedVars, mapVars, timeVars, handlerVars, walkVars, transferVars,
      HandlerTypeOK, SharedTypeOK, TransferTypeOK, Procs
<1> QED BY <1>1, <1>2, <1>3, <1>4

\* The reaper's sweep of the window hashes preserves the invariant.
LEMMA ReapHashesInv == ASSUME Inv, ReapHashes, History PROVE Inv'
<1> USE DEF Inv, TypeOK, ReapHashes
<1>1. TransferTypeOK'
  BY DEF TransferTypeOK, managedVars, transferVars
<1>2. SharedTypeOK'
  BY HistoryType DEF SharedTypeOK, managedVars, mapVars, timeVars, walkVars, handlerVars
<1>3. HandlerTypeOK'
  BY DEF HandlerTypeOK, HandlerLabels, WalkLabels, handlerVars, Procs
<1>4. HandlersAgree'
  BY Scalars
  DEF HandlersAgree, HandlerAgrees, WalkAgrees, HandlerLabels, WalkLabels,
      managedVars, mapVars, timeVars, handlerVars, walkVars, transferVars,
      HandlerTypeOK, SharedTypeOK, TransferTypeOK, Procs
<1> QED BY <1>1, <1>2, <1>3, <1>4

\* The passing of time preserves the invariant.
LEMMA TickInv == ASSUME Inv, Tick, History PROVE Inv'
<1> USE DEF Inv, TypeOK, Tick
<1>1. TransferTypeOK'
  BY DEF TransferTypeOK, managedVars, transferVars
<1>2. SharedTypeOK'
  BY HistoryType DEF SharedTypeOK, managedVars, mapVars, timeVars, walkVars, handlerVars
<1>3. HandlerTypeOK'
  BY DEF HandlerTypeOK, HandlerLabels, WalkLabels, handlerVars, Procs
<1>4. HandlersAgree'
  BY Scalars
  DEF HandlersAgree, HandlerAgrees, WalkAgrees, HandlerLabels, WalkLabels,
      managedVars, mapVars, timeVars, handlerVars, walkVars, transferVars,
      HandlerTypeOK, SharedTypeOK, TransferTypeOK, Procs
<1> QED BY <1>1, <1>2, <1>3, <1>4

-----------------------------------------------------------------------------
(* The steps that change the transfer.                                     *)

\* Sets of manifest IDs are finite.
LEMMA FiniteIDs == \A S : S \subseteq IDs => IsFiniteSet(S) /\ Cardinality(S) \in Nat
<1>1. IsFiniteSet(IDs)
  BY FS_Interval, Scalars DEF IDs
<1> QED BY <1>1, FS_Subset, FS_CardinalityType

\* An ACK record keeps the types of the ledger.
LEMMA AckFileType ==
  ASSUME TransferTypeOK, clock \in Nat, NEW i \in IDs, NEW b \in Nat \cup {-1},
         acknowledgeFileLocked(i, b)
  PROVE  /\ State' \in [IDs -> States] /\ AckedSize' \in [IDs -> Nat]
         /\ StateCounts' \in [States -> Int]
         /\ Done' \in Int /\ DoneSize' \in Int /\ ExpiresAt' \in Nat
         /\ DOMAIN windowHashes' \subseteq DOMAIN windowHashes
         /\ \A w \in DOMAIN windowHashes' : windowHashes'[w] \in HashRecord
         /\ \A j \in IDs : j # i => State'[j] = State[j] /\ AckedSize'[j] = AckedSize[j]
<1>0. /\ State \in [IDs -> States] /\ AckedSize \in [IDs -> Nat]
      /\ StateCounts \in [States -> Int] /\ Done \in Int /\ DoneSize \in Int
      /\ ExpiresAt \in Nat /\ clock + TTL \in Nat
      /\ \A w \in DOMAIN windowHashes : windowHashes[w] \in HashRecord
  <2>1. clock + TTL \in Nat
    BY Scalars
  <2> QED BY <2>1 DEF TransferTypeOK
<1>1. ASSUME NEW st \in States PROVE Recount(i, st) \in [States -> Int]
  <2>1. State[i] \in States
    BY <1>0
  <2> QED BY <1>0, <2>1 DEF Recount
<1>5. TransferStateMissing \in States
  BY DEF States, TransferStateStarted, TransferStateMissing
<1>2. CASE ackIgnored(i, b)
  BY <1>0, <1>2 DEF ackIgnored, ackVars
<1>3. CASE ackMissing(i, b)
  <2>1. /\ State' = [State EXCEPT ![i] = TransferStateMissing]
        /\ StateCounts' = Recount(i, TransferStateMissing)
        /\ Done' \in {Done, Done + 1} /\ ExpiresAt' \in {ExpiresAt, clock + TTL}
        /\ UNCHANGED <<AckedSize, DoneSize, windowHashes>>
    BY <1>3 DEF ackMissing, touchLocked
  <2>2. StateCounts' \in [States -> Int]
    BY <1>1, <1>5, <2>1
  <2>3. Done' \in Int /\ ExpiresAt' \in Nat
    BY <1>0, <2>1
  <2>4. State' \in [IDs -> States] /\ \A j \in IDs : j # i => State'[j] = State[j]
    BY <1>0, <1>5, <2>1
  <2> QED BY <1>0, <2>1, <2>2, <2>3, <2>4
<1>4. CASE ackBytesOf(i, b)
  <2> DEFINE revived == State[i] = TransferStateMissing
             current == IF revived THEN TransferStateRunning ELSE State[i]
             target == ackTarget(i, b)
             acked == IF target > AckedSize[i] THEN target ELSE AckedSize[i]
             counts == /\ acked >= FileSize[i]
                       /\ current < TransferStateDone
                       /\ isRegularFileEntryType(i)
             final == IF counts THEN TransferStateDone ELSE current
  <2>1. target \in Nat /\ acked \in Nat /\ final \in States /\ AckedSize[i] \in Nat
    <3>1. b \in Nat /\ FileSize[i] \in Nat /\ AckedSize[i] \in Nat /\ State[i] \in States
      BY <1>0, <1>4, Scalars DEF ackBytesOf
    <3>2. target \in Nat
      BY <3>1 DEF ackTarget
    <3>3. acked \in Nat
      BY <3>1, <3>2
    <3>4. final \in States
      BY <3>1 DEF States, TransferStateStarted, TransferStateRunning,
                  TransferStateDone, TransferStateMissing
    <3> QED BY <3>1, <3>2, <3>3, <3>4
  <2>2. /\ State' = [State EXCEPT ![i] = final] /\ StateCounts' = Recount(i, final)
        /\ AckedSize' = [AckedSize EXCEPT ![i] = acked]
        /\ DoneSize' = DoneSize + (acked - AckedSize[i])
        /\ Done' = Done - (IF revived /\ Done > 0 THEN 1 ELSE 0) + (IF counts THEN 1 ELSE 0)
        /\ ExpiresAt' \in {ExpiresAt, clock + TTL}
        /\ windowHashes' = [w \in DOMAIN windowHashes \ {<<i, target>>} |-> windowHashes[w]]
    BY <1>4 DEF ackBytesOf, touchLocked
  <2> HIDE DEF revived, current, target, acked, counts, final
  <2>3. State' \in [IDs -> States] /\ \A j \in IDs : j # i => State'[j] = State[j]
    BY <1>0, <2>1, <2>2
  <2>4. AckedSize' \in [IDs -> Nat] /\ \A j \in IDs : j # i => AckedSize'[j] = AckedSize[j]
    BY <1>0, <2>1, <2>2
  <2>5. DoneSize' \in Int
    BY <1>0, <2>1, <2>2
  <2>6. Done' \in Int
    BY <1>0, <2>2
  <2>7. ExpiresAt' \in Nat
    BY <1>0, <2>2
  <2>8. StateCounts' \in [States -> Int]
    BY <1>1, <2>1, <2>2
  <2>9. /\ DOMAIN windowHashes' \subseteq DOMAIN windowHashes
        /\ \A w \in DOMAIN windowHashes' : windowHashes'[w] \in HashRecord
    BY <1>0, <2>2
  <2> QED BY <2>3, <2>4, <2>5, <2>6, <2>7, <2>8, <2>9
<1> QED BY <1>2, <1>3, <1>4 DEF acknowledgeFileLocked

\* The whole transfer keeps its types when a call applies an ACK record.
LEMMA AckTransferType ==
  ASSUME TransferTypeOK, clock \in Nat, NEW i \in IDs, NEW b \in Nat \cup {-1},
         acknowledgeFileLocked(i, b),
         UNCHANGED <<len, NumEntries, NumFiles, TotalSize, CompleteLogged, completions>>,
         streamed' \subseteq IDs \X Nat
  PROVE  TransferTypeOK'
<1>1. /\ State' \in [IDs -> States] /\ AckedSize' \in [IDs -> Nat]
      /\ StateCounts' \in [States -> Int]
      /\ Done' \in Int /\ DoneSize' \in Int /\ ExpiresAt' \in Nat
      /\ DOMAIN windowHashes' \subseteq DOMAIN windowHashes
      /\ \A w \in DOMAIN windowHashes' : windowHashes'[w] \in HashRecord
  BY AckFileType
<1>2. /\ len' \in 0..(Last + 1) /\ NumEntries' \in Int /\ NumFiles' \in Int
      /\ TotalSize' \in Int /\ CompleteLogged' \in BOOLEAN /\ completions' \in Nat
      /\ DOMAIN windowHashes \subseteq IDs \X Nat
  BY DEF TransferTypeOK
<1>3. DOMAIN windowHashes' \subseteq IDs \X Nat
  BY <1>1, <1>2
<1> QED BY <1>1, <1>2, <1>3 DEF TransferTypeOK

\* So does a change of several files' states.
LEMMA SetFilesType ==
  ASSUME TransferTypeOK, clock \in Nat, NEW F \in SUBSET IDs, NEW st \in States,
         setFilesState(F, st)
  PROVE  /\ State' \in [IDs -> States] /\ StateCounts' \in [States -> Int]
         /\ ExpiresAt' \in Nat
         /\ \A j \in IDs : j \notin F => State'[j] = State[j]
<1> DEFINE moved == {i \in F : shouldAdvanceState(State[i], st) /\ State[i] # st}
           from(s) == Cardinality({i \in moved \cap RegularFiles : State[i] = s})
<1>1. /\ State' = [i \in IDs |-> IF i \in moved THEN st ELSE State[i]]
      /\ StateCounts' = [s \in States |->
           StateCounts[s] - from(s)
             + (IF s = st THEN Cardinality(moved \cap RegularFiles) ELSE 0)]
      /\ ExpiresAt' \in {ExpiresAt, clock + TTL}
  BY DEF setFilesState, touchLocked
<1>2. /\ \A s \in States : from(s) \in Nat
      /\ Cardinality(moved \cap RegularFiles) \in Nat
  BY FiniteIDs
<1>3. moved \subseteq F
  OBVIOUS
<1> HIDE DEF moved, from
<1>4. StateCounts' \in [States -> Int]
  <2>1. ASSUME NEW s \in States
        PROVE  StateCounts[s] - from(s)
                 + (IF s = st THEN Cardinality(moved \cap RegularFiles) ELSE 0) \in Int
    <3>1. StateCounts[s] \in Int /\ from(s) \in Nat
      BY <1>2 DEF TransferTypeOK
    <3> QED BY <3>1, <1>2
  <2> QED BY <1>1, <2>1
<1>5. ExpiresAt' \in Nat
  BY <1>1, Scalars DEF TransferTypeOK
<1> QED BY <1>1, <1>3, <1>4, <1>5 DEF TransferTypeOK

\* A handler that does not move stays in agreement while streamed windows only
\* grow and the manifest stays served.
LEMMA OtherHandler ==
  ASSUME NEW q \in Handlers, HandlerAgrees(q), pc'[q] = pc[q], req'[q] = req[q],
         k'[q] = k[q], streamed \subseteq streamed',
         pc[Walk] = "served" => pc'[Walk] = "served"
  PROVE  HandlerAgrees(q)'
BY DEF HandlerAgrees, Windows, ackTarget

\* A handler that made p's step sees the others, and the walk, as they were.
LEMMA StepAgrees ==
  ASSUME NEW p \in Handlers, Inv, HandlerAgrees(p)',
         \A q \in Procs \ {p} : pc'[q] = pc[q] /\ req'[q] = req[q] /\ k'[q] = k[q],
         UNCHANGED <<len, mapVars, timeVars, walkVars>>,
         streamed \subseteq streamed', DOMAIN windowHashes' \subseteq streamed',
         \A i \in IDs : i >= len => State'[i] = State[i]
  PROVE  HandlersAgree'
<1>1. Walk \in Procs \ {p}
  BY Scalars DEF Procs
<1>2. ASSUME NEW q \in Handlers, q # p PROVE HandlerAgrees(q)'
  <2>1. HandlerAgrees(q) /\ q \in Procs \ {p}
    BY <1>2 DEF Inv, HandlersAgree, Procs
  <2> QED BY <1>1, <2>1, OtherHandler
<1>3. WalkAgrees'
  BY <1>1 DEF Inv, HandlersAgree, WalkAgrees, mapVars, timeVars, walkVars
<1> QED BY <1>2, <1>3 DEF Inv, HandlersAgree

\* A SEND body names manifest IDs.
LEMMA FilesOfType ==
  ASSUME NEW r \in SendRequests PROVE FilesOf(r) \subseteq IDs
BY SendItemType DEF FilesOf

\* SEND's two SetTransferFilesState calls preserve the invariant.
LEMMA SendStateInv ==
  ASSUME NEW p \in Handlers, Inv, SendRunning(p) \/ SendDone(p), History
  PROVE  Inv'
<1> DEFINE F == IF pc[p] = "sendRunning" THEN FilesOf(req[p])
                ELSE {h.file : h \in sent[p]} \ RegularFiles
           st == IF pc[p] = "sendRunning" THEN TransferStateRunning ELSE TransferStateDone
           next == IF pc[p] = "sendRunning" THEN "sendStream" ELSE "sendHashes"
<1>1. /\ pc[p] \in {"sendRunning", "sendDone"} /\ ~deleted
      /\ setFilesState(F, st) /\ Return(p, next, reply[p])
      /\ UNCHANGED <<len, AckedSize, NumEntries, NumFiles, TotalSize, Done, DoneSize,
                     CompleteLogged, windowHashes, mu, streamed, completions, mapVars,
                     timeVars, k, budget, walkVars>>
  BY DEF SendRunning, SendDone, Enter
<1>2. HandlerAgrees(p) /\ HandlerTypeOK /\ TransferTypeOK /\ SharedTypeOK /\ p \in Procs
  BY DEF Inv, TypeOK, HandlersAgree, Procs
<1>3. F \in SUBSET IDs /\ st \in States /\ next \in Labels /\ reply[p] \in Replies
  BY <1>1, <1>2, FilesOfType
  DEF HandlerAgrees, HandlerTypeOK, States, TransferStateStarted, TransferStateRunning,
      TransferStateDone, TransferStateMissing, Labels, HandlerLabels
<1>4. pc'[p] = next /\ (next = "sendStream" => req'[p] = req[p])
      /\ \A q \in Procs \ {p} : pc'[q] = pc[q] /\ req'[q] = req[q]
  BY <1>1, <1>2 DEF Return, HandlerTypeOK
<1>5. next \in {"sendStream", "sendHashes"} /\ (next = "sendStream" => pc[p] = "sendRunning")
  OBVIOUS
<1> HIDE DEF F, st, next
<1>6. TransferTypeOK'
  BY <1>1, <1>2, <1>3, SetFilesType DEF TransferTypeOK, SharedTypeOK
<1>7. SharedTypeOK'
  BY <1>1, <1>2, HistoryType DEF SharedTypeOK, mapVars, timeVars, walkVars
<1>8. HandlerTypeOK'
  BY <1>1, <1>2, <1>3, ReturnType DEF HandlerTypeOK
<1>9. HandlerAgrees(p)'
  <2>1. pc'[Walk] = pc[Walk]
    BY <1>4, Scalars DEF Procs
  <2> QED BY <1>1, <1>2, <1>4, <1>5, <2>1 DEF HandlerAgrees, HandlerLabels
<1>10. len = Last + 1
  BY <1>1, <1>2 DEF Inv, HandlersAgree, HandlerAgrees, WalkAgrees
<1>11. \A i \in IDs : ~(i >= len)
  BY <1>10, Scalars DEF IDs
<1>12. DOMAIN windowHashes' \subseteq streamed'
  BY <1>1 DEF Inv, HandlersAgree
<1> QED BY <1>1, <1>4, <1>6, <1>7, <1>8, <1>9, <1>11, <1>12, StepAgrees DEF Inv, TypeOK

\* A streamed window ends at a byte offset.
LEMMA SentEndType ==
  ASSUME NEW r \in SendRequests, NEW m \in 1..Len(r), NEW src \in SourceSizes
  PROVE  r[m].file \in IDs /\ sentEnd(r[m], src) \in Nat
<1>1. r[m] \in [file : IDs, off : Nat, size : Nat]
  BY SendItemType
<1>2. r[m].file \in IDs /\ r[m].off \in Nat /\ r[m].size \in Nat
  BY <1>1
<1>3. src[r[m].file] \in Nat /\ FileSize[r[m].file] \in Nat
  BY <1>2, ConstantsAssumption
<1> DEFINE limit == IF src[r[m].file] < FileSize[r[m].file]
                    THEN src[r[m].file] ELSE FileSize[r[m].file]
           end == IF r[m].size > 0 /\ r[m].off + r[m].size < limit
                  THEN r[m].off + r[m].size ELSE limit
<1>4. limit \in Nat
  BY <1>3
<1> HIDE DEF limit
<1>5. end \in Nat
  BY <1>2, <1>4
<1>6. sentEnd(r[m], src) = end \/ sentEnd(r[m], src) = 0
  BY DEF sentEnd, limit
<1>7. 0 \in Nat
  OBVIOUS
<1> HIDE DEF end
<1>8. sentEnd(r[m], src) \in Nat
  BY <1>5, <1>6, <1>7, Zenon
<1> QED BY <1>2, <1>8, Zenon

\* streamSendItem over the items preserves the invariant.
LEMMA SendStreamInv == ASSUME NEW p \in Handlers, Inv, SendStream(p), History PROVE Inv'
<1>1. HandlerAgrees(p) /\ HandlerTypeOK /\ TransferTypeOK /\ SharedTypeOK /\ p \in Procs
  BY DEF Inv, TypeOK, HandlersAgree, Procs
<1>2. req[p] \in SendRequests /\ pc[p] = "sendStream"
  BY <1>1 DEF HandlerAgrees, SendStream
<1>3. PICK src \in SourceSizes, token \in Tokens, n \in 0..Len(req[p]) :
        /\ sent' = [sent EXCEPT ![p] =
             {[file |-> req[p][m].file, end |-> sentEnd(req[p][m], src),
               token |-> token] : m \in 1..n}]
        /\ reply' = [reply EXCEPT ![p] = IF n = Len(req[p]) THEN "OK" ELSE "ERR"]
        /\ pc' = [pc EXCEPT ![p] =
             IF \E m \in 1..n : ~isRegularFileEntryType(req[p][m].file)
             THEN "sendDone" ELSE IF n > 0 THEN "sendHashes" ELSE "idle"]
        /\ req' = [req EXCEPT ![p] = << >>]
  BY DEF SendStream
<1>4. UNCHANGED <<managedVars, mapVars, timeVars, held, k, budget, walkVars>>
  BY DEF SendStream
<1>5. {[file |-> req[p][m].file, end |-> sentEnd(req[p][m], src), token |-> token]
         : m \in 1..n} \subseteq [file : IDs, end : Nat, token : Tokens]
  <2>1. ASSUME NEW m \in 1..n
        PROVE  req[p][m].file \in IDs /\ sentEnd(req[p][m], src) \in Nat
    <3>1. m \in 1..Len(req[p])
      BY <1>2, RequestLen
    <3> QED BY <1>2, <3>1, SentEndType
  <2>2. ASSUME NEW m \in 1..n
        PROVE  [file |-> req[p][m].file, end |-> sentEnd(req[p][m], src),
                token |-> token] \in [file : IDs, end : Nat, token : Tokens]
    BY <2>1
  <2> QED BY <2>2, Zenon
<1>6. HandlerTypeOK'
  <2>1. pc' \in [Procs -> HandlerLabels \cup WalkLabels]
    BY <1>1, <1>3 DEF HandlerTypeOK, HandlerLabels
  <2>2. sent' \in [Procs -> SUBSET [file : IDs, end : Nat, token : Tokens]]
    BY <1>1, <1>3, <1>5 DEF HandlerTypeOK
  <2>3. reply' \in [Procs -> Replies] /\ req' \in [Procs -> Request]
    BY <1>1, <1>3, RequestTypes DEF HandlerTypeOK, Replies
  <2> QED BY <1>1, <1>4, <2>1, <2>2, <2>3 DEF HandlerTypeOK
<1>7. TransferTypeOK'
  BY <1>1, <1>4 DEF TransferTypeOK, managedVars, transferVars
<1>8. SharedTypeOK'
  BY <1>1, <1>4, HistoryType DEF SharedTypeOK, managedVars, mapVars, timeVars, walkVars
<1>9. pc'[p] \in {"sendDone", "sendHashes", "idle"}
      /\ \A q \in Procs \ {p} : pc'[q] = pc[q] /\ req'[q] = req[q] /\ k'[q] = k[q]
  BY <1>1, <1>3, <1>4 DEF HandlerTypeOK
<1>10. HandlerAgrees(p)'
  <2>1. pc'[Walk] = pc[Walk]
    BY <1>9, Scalars DEF Procs
  <2> QED BY <1>1, <1>2, <1>9, <2>1 DEF HandlerAgrees, HandlerLabels
<1> QED BY <1>4, <1>6, <1>7, <1>8, <1>9, <1>10, StepAgrees
     DEF Inv, TypeOK, HandlersAgree, managedVars, transferVars

\* What SetTransferFileWindowHashes stores of a window is a hash record.
LEMMA HashRecordType ==
  ASSUME NEW t \in Tokens, NEW e \in Nat
  PROVE  [token |-> t, expiresAt |-> e] \in HashRecord
BY DEF HashRecord

\* SetTransferFileWindowHashes preserves the invariant: every hash it keeps is
\* of a window it adds to the streamed ones.
LEMMA SendHashesInv == ASSUME NEW p \in Handlers, Inv, SendHashes(p), History PROVE Inv'
<1> DEFINE keys == {<<h.file, h.end>> : h \in sent[p]}
           tokenOf(w) == (CHOOSE h \in sent[p] : <<h.file, h.end>> = w).token
<1>1. HandlerAgrees(p) /\ HandlerTypeOK /\ TransferTypeOK /\ SharedTypeOK /\ p \in Procs
  BY DEF Inv, TypeOK, HandlersAgree, Procs
<1>2. /\ pc[p] = "sendHashes" /\ Return(p, "idle", reply[p])
      /\ windowHashes' = [w \in DOMAIN windowHashes \cup keys |->
           IF w \in keys THEN [token |-> tokenOf(w), expiresAt |-> clock + TTL]
                         ELSE windowHashes[w]]
      /\ streamed' = streamed \cup keys
      /\ UNCHANGED <<transferVars, CompleteLogged, ExpiresAt, mu, completions,
                     mapVars, timeVars, k, budget, walkVars>>
  BY DEF SendHashes, Enter
<1>3. sent[p] \subseteq [file : IDs, end : Nat, token : Tokens]
  BY <1>1 DEF HandlerTypeOK
<1>4. keys \subseteq IDs \X Nat
  <2>1. ASSUME NEW h \in sent[p] PROVE <<h.file, h.end>> \in IDs \X Nat
    <3>1. h.file \in IDs /\ h.end \in Nat
      BY <1>3
    <3> QED BY <3>1
  <2> QED BY <2>1, Zenon
<1>5. ASSUME NEW w \in keys PROVE tokenOf(w) \in Tokens
  <2>1. PICK h \in sent[p] : <<h.file, h.end>> = w
    OBVIOUS
  <2>2. (CHOOSE g \in sent[p] : <<g.file, g.end>> = w) \in sent[p]
    BY <2>1
  <2> QED BY <2>2, <1>3
<1> HIDE DEF keys, tokenOf
<1>6. TransferTypeOK'
  <2>1. ASSUME NEW w \in DOMAIN windowHashes' PROVE windowHashes'[w] \in HashRecord
    <3>1. CASE w \in keys
      <4>1. windowHashes'[w] = [token |-> tokenOf(w), expiresAt |-> clock + TTL]
        BY <1>2, <3>1
      <4>2. clock + TTL \in Nat
        BY <1>1, Scalars DEF SharedTypeOK
      <4>3. tokenOf(w) \in Tokens
        BY <1>5, <3>1
      <4>4. [token |-> tokenOf(w), expiresAt |-> clock + TTL] \in HashRecord
        BY <4>2, <4>3, HashRecordType
      <4> QED BY <4>1, <4>4, Zenon
    <3>2. CASE w \notin keys
      BY <1>1, <1>2, <3>2 DEF TransferTypeOK
    <3> QED BY <3>1, <3>2
  <2>2. DOMAIN windowHashes' \subseteq IDs \X Nat /\ streamed' \subseteq IDs \X Nat
    BY <1>1, <1>2, <1>4 DEF TransferTypeOK
  <2> QED BY <1>1, <1>2, <2>1, <2>2 DEF TransferTypeOK, transferVars
<1>7. SharedTypeOK'
  BY <1>1, <1>2, HistoryType DEF SharedTypeOK, mapVars, timeVars, walkVars
<1>8. HandlerTypeOK'
  BY <1>1, <1>2, ReturnType DEF HandlerTypeOK, Labels, HandlerLabels
<1>9. pc'[p] = "idle"
      /\ \A q \in Procs \ {p} : pc'[q] = pc[q] /\ req'[q] = req[q] /\ k'[q] = k[q]
  BY <1>1, <1>2 DEF HandlerTypeOK, Return
<1>10. HandlerAgrees(p)'
  BY <1>9 DEF HandlerAgrees, HandlerLabels
<1>11. DOMAIN windowHashes' \subseteq streamed' /\ streamed \subseteq streamed'
  BY <1>2 DEF Inv, HandlersAgree
<1> QED BY <1>2, <1>6, <1>7, <1>8, <1>9, <1>10, <1>11, StepAgrees
     DEF Inv, TypeOK, transferVars

\* The next record of a request that has more is one of its records.
LEMMA NextIndex ==
  ASSUME NEW n \in Nat, NEW x \in 1..n, x # n
  PROVE  x + 1 \in 1..n
OBVIOUS

\* A record of AcknowledgeTransferFiles preserves the invariant.
LEMMA AckApplyInv == ASSUME NEW p \in Handlers, Inv, AckApply(p), History PROVE Inv'
<1> DEFINE r == req[p][k[p]]
<1>1. HandlerAgrees(p) /\ HandlerTypeOK /\ TransferTypeOK /\ SharedTypeOK /\ p \in Procs
  BY DEF Inv, TypeOK, HandlersAgree, Procs
<1>2. /\ pc[p] = "ackApply" /\ ~deleted /\ acknowledgeFileLocked(r.file, r.bytes)
      /\ mu' = (IF k[p] = Len(req[p]) THEN NoProc ELSE p)
      /\ k' = [k EXCEPT ![p] = IF k[p] = Len(req[p]) THEN 0 ELSE k[p] + 1]
      /\ IF k[p] = Len(req[p]) THEN Return(p, "ackComplete", "OK")
                               ELSE UNCHANGED <<pc, held, reply, req, sent>>
      /\ UNCHANGED <<len, NumEntries, NumFiles, TotalSize, CompleteLogged,
                     streamed, completions, mapVars, timeVars, budget, walkVars>>
  BY <1>1 DEF AckApply, Enter, HandlerTypeOK
<1>3. req[p] \in AckRequests /\ k[p] \in 1..Len(req[p]) /\ Len(req[p]) \in Nat
  BY <1>1, <1>2, RequestLen DEF HandlerAgrees
<1>4. r.file \in IDs /\ r.bytes \in Nat \cup {-1}
  BY <1>3, AckRecordType
<1> HIDE DEF r
<1>5. TransferTypeOK'
  <2>1. clock \in Nat /\ streamed' \subseteq IDs \X Nat
    BY <1>1, <1>2 DEF TransferTypeOK, SharedTypeOK
  <2>2. UNCHANGED <<len, NumEntries, NumFiles, TotalSize, CompleteLogged, completions>>
    BY <1>2
  <2> QED BY <1>1, <1>2, <1>4, <2>1, <2>2, AckTransferType
<1>6. SharedTypeOK'
  BY <1>1, <1>2, HistoryType DEF SharedTypeOK, mapVars, timeVars, walkVars
<1>7. k' \in [Procs -> Nat]
  BY <1>1, <1>2, <1>3 DEF HandlerTypeOK
<1>8. HandlerTypeOK'
  <2>1. CASE k[p] = Len(req[p])
    BY <1>1, <1>2, <1>7, <2>1, ReturnType DEF Labels, HandlerLabels, Replies
  <2>2. CASE k[p] # Len(req[p])
    BY <1>1, <1>2, <1>7, <2>2 DEF HandlerTypeOK
  <2> QED BY <2>1, <2>2
<1>9. /\ pc'[p] = IF k[p] = Len(req[p]) THEN "ackComplete" ELSE "ackApply"
      /\ req'[p] = req[p] /\ (k[p] # Len(req[p]) => k'[p] = k[p] + 1)
      /\ \A q \in Procs \ {p} : pc'[q] = pc[q] /\ req'[q] = req[q] /\ k'[q] = k[q]
  BY <1>1, <1>2 DEF HandlerTypeOK, Return
<1>10. HandlerAgrees(p)'
  <2>1. pc'[Walk] = pc[Walk]
    BY <1>9, Scalars DEF Procs
  <2>2. k[p] # Len(req[p]) => k'[p] \in 1..Len(req[p])
    <3>1. k[p] # Len(req[p]) => k[p] + 1 \in 1..Len(req[p])
      BY <1>3, NextIndex
    <3>2. k[p] # Len(req[p]) => k'[p] = k[p] + 1
      BY <1>9
    <3> QED BY <3>1, <3>2, Zenon
  <2>3. Windows(req[p]) \subseteq streamed /\ pc[Walk] = "served"
    BY <1>1, <1>2 DEF HandlerAgrees
  <2>4. Windows(req'[p]) \subseteq streamed'
    BY <1>2, <1>9, <2>3
  <2>5. pc'[p] \in {"ackComplete", "ackApply"} /\ req'[p] \in AckRequests
        /\ (pc'[p] = "ackApply" => k'[p] \in 1..Len(req'[p]))
    BY <1>3, <1>9, <2>2
  <2>6. Windows(req[p])' \subseteq streamed'
    BY <2>4 DEF Windows, ackTarget
  <2> QED BY <2>1, <2>3, <2>5, <2>6 DEF HandlerAgrees, HandlerLabels
<1>11. len = Last + 1
  BY <1>1, <1>2 DEF Inv, HandlersAgree, HandlerAgrees, WalkAgrees
<1>12. \A i \in IDs : ~(i >= len)
  BY <1>11, Scalars DEF IDs
<1>13. DOMAIN windowHashes' \subseteq streamed'
  BY <1>1, <1>2, <1>4, AckFileType DEF Inv, HandlersAgree, SharedTypeOK
<1> QED BY <1>2, <1>5, <1>6, <1>8, <1>9, <1>10, <1>12, <1>13, StepAgrees DEF Inv, TypeOK

\* While the walk is not served no handler runs, so a step of the walk keeps
\* the handlers' part of the invariant.
LEMMA WalkStepAgrees ==
  ASSUME Inv, pc[Walk] # "served", \A q \in Handlers : pc'[q] = pc[q]
  PROVE  \A q \in Handlers : HandlerAgrees(q)'
<1> SUFFICES ASSUME NEW q \in Handlers PROVE HandlerAgrees(q)'
  OBVIOUS
<1>1. pc'[q] = "idle"
  BY DEF Inv, HandlersAgree, HandlerAgrees
<1> QED BY <1>1 DEF HandlerAgrees, HandlerLabels

\* An entry of RegisterTransferFileStates preserves the invariant.
LEMMA RegisterInv == ASSUME Inv, Register, History PROVE Inv'
<1> DEFINE i == k[Walk]
           ends == i + 1 = walkLen \/ (i + 1) % BatchSize = 0
           next == IF i + 1 = walkLen THEN "walkEnd" ELSE "register"
<1>1. HandlerTypeOK /\ TransferTypeOK /\ SharedTypeOK /\ WalkAgrees /\ Walk \in Procs
  BY DEF Inv, TypeOK, HandlersAgree, Procs
<1>2. /\ pc[Walk] = "register" /\ ~deleted /\ registerEntry(i)
      /\ mu' \in {NoProc, Walk} /\ k' = [k EXCEPT ![Walk] = i + 1]
      /\ ExpiresAt' \in {ExpiresAt, clock + TTL}
      /\ ~ends => UNCHANGED <<pc, held, reply, req, sent>>
      /\ ends => Return(Walk, next, reply[Walk])
      /\ UNCHANGED <<streamed, completions, mapVars, timeVars, budget, walkVars>>
  BY DEF Register, Enter, touchLocked
<1>5. next \in Labels /\ next \in {"walkEnd", "register"}
      /\ (next = "walkEnd" <=> i + 1 = walkLen) /\ (~ends => i + 1 # walkLen)
  BY DEF Labels, WalkLabels
<1> HIDE DEF ends, next
<1>3. i = len /\ len < walkLen /\ walkLen \in 0..(Last + 1) /\ len \in Nat
  <2>1. i = len /\ len < walkLen
    BY <1>1, <1>2 DEF WalkAgrees
  <2>2. walkLen \in 0..(Last + 1)
    BY <1>1 DEF SharedTypeOK
  <2>3. len \in 0..(Last + 1)
    BY <1>1 DEF TransferTypeOK
  <2> QED BY <2>1, <2>2, <2>3
<1> HIDE DEF i
<1>4. i \in IDs /\ i + 1 \in 0..(Last + 1) /\ i + 1 \in Nat
  BY <1>3, Scalars DEF IDs
<1>6. TransferTypeOK'
  <2>1. /\ len' = i + 1 /\ State' = [State EXCEPT ![i] = TransferStateStarted]
        /\ NumEntries' \in {NumEntries, NumEntries + 1}
        /\ NumFiles' \in {NumFiles, NumFiles + 1}
        /\ StateCounts' \in {StateCounts,
             [StateCounts EXCEPT ![TransferStateStarted] = @ + 1]}
        /\ TotalSize' = TotalSize + FileSize[i]
        /\ UNCHANGED <<AckedSize, Done, DoneSize, CompleteLogged, windowHashes>>
    <3>1. NumEntries \in Int /\ NumFiles \in Int
      BY <1>1 DEF TransferTypeOK
    <3>2. NumEntries' \in {NumEntries, NumEntries + 1}
      <4>1. NumEntries' = NumEntries + (IF i # 0 THEN 1 ELSE 0)
        BY <1>2 DEF registerEntry
      <4> QED BY <3>1, <4>1
    <3>3. NumFiles' \in {NumFiles, NumFiles + 1}
      <4>1. NumFiles' = NumFiles + (IF isRegularFileEntryType(i) THEN 1 ELSE 0)
        BY <1>2 DEF registerEntry
      <4>2. CASE isRegularFileEntryType(i)
        BY <3>1, <4>1, <4>2
      <4>3. CASE ~isRegularFileEntryType(i)
        BY <3>1, <4>1, <4>3
      <4> QED BY <4>2, <4>3
    <3>4. StateCounts' \in {StateCounts,
             [StateCounts EXCEPT ![TransferStateStarted] = @ + 1]}
      BY <1>2 DEF registerEntry
    <3> QED BY <1>2, <3>2, <3>3, <3>4 DEF registerEntry
  <2>2. State' \in [IDs -> States] /\ StateCounts' \in [States -> Int]
    <3>1. State \in [IDs -> States] /\ StateCounts \in [States -> Int]
          /\ TransferStateStarted \in States
      BY <1>1 DEF TransferTypeOK, States, TransferStateStarted, TransferStateMissing
    <3>2. State' \in [IDs -> States]
      BY <2>1, <3>1
    <3>3. [StateCounts EXCEPT ![TransferStateStarted] = @ + 1] \in [States -> Int]
      BY <3>1
    <3> QED BY <2>1, <3>1, <3>2, <3>3
  <2>3. NumEntries' \in Int /\ NumFiles' \in Int /\ TotalSize' \in Int
    <3>1. NumEntries \in Int /\ NumFiles \in Int /\ TotalSize \in Int /\ FileSize[i] \in Int
      <4>1. NumEntries \in Int /\ NumFiles \in Int /\ TotalSize \in Int
        BY <1>1 DEF TransferTypeOK
      <4>2. FileSize[i] \in Nat
        BY <1>4, Scalars
      <4> QED BY <4>1, <4>2
    <3>2. /\ NumEntries' \in {NumEntries, NumEntries + 1}
          /\ NumFiles' \in {NumFiles, NumFiles + 1}
          /\ TotalSize' = TotalSize + FileSize[i]
      BY <2>1
    <3> QED BY <3>1, <3>2
  <2>4. ExpiresAt' \in Nat
    <3>1. ExpiresAt \in Nat /\ clock \in Nat /\ TTL \in Nat
      BY <1>1, Scalars DEF TransferTypeOK, SharedTypeOK
    <3>2. ExpiresAt' = ExpiresAt \/ ExpiresAt' = clock + TTL
      BY <1>2
    <3> QED BY <3>1, <3>2
  <2> QED BY <1>1, <1>2, <1>4, <2>1, <2>2, <2>3, <2>4 DEF TransferTypeOK
<1>7. SharedTypeOK'
  BY <1>1, <1>2, HistoryType DEF SharedTypeOK, mapVars, timeVars, walkVars
<1>8. HandlerTypeOK'
  <2>1. k' \in [Procs -> Nat] /\ reply[Walk] \in Replies
    BY <1>1, <1>2, <1>4 DEF HandlerTypeOK
  <2>2. CASE ends
    BY <1>1, <1>2, <1>5, <2>1, <2>2, ReturnType
  <2>3. CASE ~ends
    BY <1>1, <1>2, <2>1, <2>3 DEF HandlerTypeOK
  <2> QED BY <2>2, <2>3
<1>9. /\ pc'[Walk] = (IF ends THEN next ELSE "register") /\ k'[Walk] = i + 1
      /\ \A q \in Handlers : pc'[q] = pc[q]
  BY <1>1, <1>2, Scalars DEF HandlerTypeOK, Return, Procs
<1>10. WalkAgrees'
  <2>1. len' = i + 1 /\ walkLen' = walkLen /\ deleted' = deleted /\ inMap' = inMap
        /\ reaper' = reaper
    BY <1>2 DEF registerEntry, mapVars, walkVars, timeVars
  <2>2. i + 1 # walkLen => i + 1 < walkLen
    BY <1>3
  <2>3. pc'[Walk] \in {"walkEnd", "register"}
        /\ (pc'[Walk] = "walkEnd" => i + 1 = walkLen)
        /\ (pc'[Walk] = "register" => i + 1 # walkLen)
    BY <1>5, <1>9
  <2> QED BY <1>1, <1>2, <1>9, <2>1, <2>2, <2>3 DEF WalkAgrees, WalkLabels
<1>11. \A j \in IDs : j >= len' => State'[j] = TransferStateStarted
  <2>1. len' = len + 1 /\ State' = [State EXCEPT ![i] = TransferStateStarted]
    BY <1>2, <1>3 DEF registerEntry
  <2>2. \A j \in IDs : j >= len + 1 => j >= len
    BY <1>3, Scalars DEF IDs
  <2> QED BY <1>1, <2>1, <2>2 DEF Inv, HandlersAgree, TransferTypeOK
<1>12. DOMAIN windowHashes' \subseteq streamed'
  BY <1>2 DEF Inv, HandlersAgree, registerEntry
<1>13. \A q \in Handlers : HandlerAgrees(q)'
  BY <1>2, <1>9, WalkStepAgrees
<1> QED BY <1>6, <1>7, <1>8, <1>10, <1>11, <1>12, <1>13 DEF Inv, TypeOK, HandlersAgree

\* A record of SYNC's auto-acknowledgement preserves the invariant.
LEMMA SyncAckInv == ASSUME Inv, SyncAck, History PROVE Inv'
<1>1. HandlerTypeOK /\ TransferTypeOK /\ SharedTypeOK /\ WalkAgrees /\ Walk \in Procs
  BY DEF Inv, TypeOK, HandlersAgree, Procs
<1>2. PICK i \in matched :
        /\ pc[Walk] = "syncAck" /\ ~deleted /\ acknowledgeFileLocked(i, FileSize[i])
        /\ matched' = matched \ {i} /\ mu' \in {NoProc, Walk}
        /\ IF matched = {i} THEN Return(Walk, "clip", reply[Walk])
                            ELSE UNCHANGED <<pc, held, reply, req, sent>>
        /\ streamed' = streamed \cup {<<i, FileSize[i]>>}
        /\ UNCHANGED <<len, NumEntries, NumFiles, TotalSize, CompleteLogged,
                       completions, mapVars, timeVars, k, budget, walkLen, isSync>>
  BY DEF SyncAck, Enter
<1>3. i \in IDs /\ FileSize[i] \in Nat /\ FileSize[i] \in Nat \cup {-1}
  BY <1>1, Scalars DEF SharedTypeOK, RegularFiles
<1>4. TransferTypeOK'
  <2>1. clock \in Nat /\ streamed \subseteq IDs \X Nat
    BY <1>1 DEF TransferTypeOK, SharedTypeOK
  <2>2. streamed' \subseteq IDs \X Nat
    <3>1. <<i, FileSize[i]>> \in IDs \X Nat
      BY <1>3
    <3>2. streamed' = streamed \cup {<<i, FileSize[i]>>}
      BY <1>2
    <3> QED BY <2>1, <3>1, <3>2, Zenon
  <2>3. UNCHANGED <<len, NumEntries, NumFiles, TotalSize, CompleteLogged, completions>>
    BY <1>2
  <2> QED BY <1>1, <1>2, <1>3, <2>1, <2>2, <2>3, AckTransferType
<1>5. SharedTypeOK'
  BY <1>1, <1>2, HistoryType DEF SharedTypeOK, mapVars, timeVars
<1>6. HandlerTypeOK'
  <2>1. k' \in [Procs -> Nat] /\ reply[Walk] \in Replies /\ "clip" \in Labels
    BY <1>1, <1>2 DEF HandlerTypeOK, Labels, WalkLabels
  <2>2. CASE matched = {i}
    BY <1>1, <1>2, <2>1, <2>2, ReturnType
  <2>3. CASE matched # {i}
    BY <1>1, <1>2, <2>3 DEF HandlerTypeOK
  <2> QED BY <2>2, <2>3
<1>7. pc'[Walk] \in {"syncAck", "clip"} /\ \A q \in Handlers : pc'[q] = pc[q]
  BY <1>1, <1>2, Scalars DEF HandlerTypeOK, Return, Procs
<1>8. WalkAgrees'
  BY <1>1, <1>2, <1>7 DEF WalkAgrees, WalkLabels, mapVars, timeVars
<1>9. \A j \in IDs : ~(j >= len')
  <2>1. len' = Last + 1
    BY <1>1, <1>2 DEF WalkAgrees
  <2> QED BY <2>1, Scalars DEF IDs
<1>10. DOMAIN windowHashes' \subseteq streamed'
  BY <1>1, <1>2, <1>3, AckFileType DEF Inv, HandlersAgree, SharedTypeOK
<1>11. \A q \in Handlers : HandlerAgrees(q)'
  BY <1>2, <1>7, WalkStepAgrees
<1> QED BY <1>4, <1>5, <1>6, <1>8, <1>9, <1>10, <1>11 DEF Inv, TypeOK, HandlersAgree

\* NewTransfer establishes the invariant.
LEMMA InitInv == ASSUME Init PROVE Inv
<1>1. DOMAIN windowHashes = {}
  <2>1. windowHashes = << >>
    BY DEF Init
  <2> QED BY <2>1
<1>2. TransferTypeOK
  <2>1. len = 0 /\ ExpiresAt = TTL
    BY DEF Init
  <2>2. len \in 0..(Last + 1) /\ ExpiresAt \in Nat
    BY <2>1, Scalars
  <2>3. State \in [IDs -> States]
    <3>1. TransferStateStarted \in States
      BY DEF States, TransferStateStarted, TransferStateMissing
    <3> QED BY <3>1 DEF Init
  <2>4. StateCounts \in [States -> Int] /\ AckedSize \in [IDs -> Nat]
    <3>1. StateCounts = [s \in States |-> 0] /\ AckedSize = [i \in IDs |-> 0]
      BY DEF Init
    <3> QED BY <3>1
  <2>5. /\ NumEntries = 0 /\ NumFiles = 0 /\ TotalSize = 0 /\ Done = 0 /\ DoneSize = 0
        /\ CompleteLogged = FALSE /\ completions = 0 /\ streamed = {}
    BY DEF Init
  <2>6. CompleteLogged \in BOOLEAN
    BY <2>5
  <2>7. DOMAIN windowHashes \subseteq IDs \X Nat /\ streamed \subseteq IDs \X Nat
        /\ \A w \in DOMAIN windowHashes : windowHashes[w] \in HashRecord
    BY <1>1, <2>5
  <2>8. /\ NumEntries \in Int /\ NumFiles \in Int /\ TotalSize \in Int
        /\ Done \in Int /\ DoneSize \in Int /\ completions \in Nat
    BY <2>5
  <2> QED BY <2>2, <2>3, <2>4, <2>6, <2>7, <2>8 DEF TransferTypeOK
<1>3. SharedTypeOK
  BY Scalars DEF SharedTypeOK, Init
<1>4. HandlerTypeOK
  <2>1. req \in [Procs -> Request]
    BY RequestTypes DEF Init
  <2>2. pc \in [Procs -> HandlerLabels \cup WalkLabels]
    BY DEF Init, HandlerLabels, WalkLabels
  <2> QED BY <2>1, <2>2 DEF Init, HandlerTypeOK, Replies
<1>5. \A p \in Handlers : HandlerAgrees(p)
  BY Scalars DEF Init, HandlerAgrees, HandlerLabels, Procs
<1>6. WalkAgrees
  <2>1. pc[Walk] = (IF walkLen = 0 THEN "walkEnd" ELSE "register") /\ k[Walk] = 0
    BY DEF Init, Procs
  <2>2. len = 0 /\ inMap = TRUE /\ reaper.at = "wait" /\ walkLen \in 0..(Last + 1)
    BY DEF Init
  <2>3. walkLen # 0 => len < walkLen
    BY <2>2, Scalars
  <2> QED BY <2>1, <2>2, <2>3 DEF WalkAgrees, WalkLabels
<1>7. \A i \in IDs : State[i] = TransferStateStarted
  BY DEF Init
<1> QED BY <1>1, <1>2, <1>3, <1>4, <1>5, <1>6, <1>7 DEF Inv, TypeOK, HandlersAgree

\* Every step preserves the invariant.
LEMMA NextInv == ASSUME Inv, [Next]_vars PROVE Inv'
<1>1. CASE Next
  <2>1. ASSUME NEW p \in Procs, ProcStep(p), History PROVE Inv'
    <3>1. CASE Lookup(p)
      BY <2>1, <3>1, LookupInv
    <3>2. CASE CallFails(p)
      BY <2>1, <3>2, CallFailsInv
    <3>3. CASE p \in Handlers /\ HandlerStep(p)
      BY <2>1, <3>3, SendStartInv, SendRefsInv, SendStateInv, SendStreamInv,
         SendHashesInv, AckStartInv, AckRefsInv, AckVerifyInv, AckApplyInv,
         AckCompleteInv
      DEF HandlerStep
    <3> QED BY <2>1, <3>1, <3>2, <3>3 DEF ProcStep
  <2>2. ASSUME WalkStep, History PROVE Inv'
    BY <2>2, RegisterInv, WalkEndInv, SyncAckInv, ClipTransferInv, SyncCompleteInv,
       CloseInv, DeleteUnmapInv, DeleteMarkInv
    DEF WalkStep
  <2>3. ASSUME ReaperStep, History PROVE Inv'
    BY <2>3, ReapTickInv, ReapVisitInv, ReapUnmapInv, ReapHashesInv DEF ReaperStep
  <2> QED BY <1>1, <2>1, <2>2, <2>3, TickInv DEF Next
<1>2. CASE UNCHANGED vars
  <2> USE <1>2 DEF vars, managedVars, transferVars, mapVars, timeVars, handlerVars, walkVars
  <2>1. TransferTypeOK'
    BY DEF Inv, TypeOK, TransferTypeOK
  <2>2. SharedTypeOK'
    BY DEF Inv, TypeOK, SharedTypeOK
  <2>3. HandlerTypeOK'
    BY DEF Inv, TypeOK, HandlerTypeOK
  <2>4. WalkAgrees'
    BY DEF Inv, HandlersAgree, WalkAgrees
  <2>5. \A p \in Handlers : HandlerAgrees(p)'
    BY DEF Inv, HandlersAgree, HandlerAgrees, Windows
  <2>6. DOMAIN windowHashes' \subseteq streamed'
        /\ \A i \in IDs : i >= len' => State'[i] = TransferStateStarted
    BY DEF Inv, HandlersAgree
  <2> QED BY <2>1, <2>2, <2>3, <2>4, <2>5, <2>6 DEF Inv, TypeOK, HandlersAgree
<1> QED BY <1>1, <1>2

\* Every field of the transfer, the lock and the handlers keeps its type.
THEOREM TypeCorrect == Spec => []TypeOK
<1>1. Inv => TypeOK
  BY DEF Inv
<1> QED BY <1>1, InitInv, NextInv, PTL DEF Spec

\* What the handlers rely on between two store calls always holds: an ACK that
\* passed validateACKRecords applies only windows that were streamed, even though
\* other handlers and the reaper run in between.
THEOREM HandlersAgreeAlways == Spec => []HandlersAgree
<1>1. Inv => HandlersAgree
  BY DEF Inv
<1> QED BY <1>1, InitInv, NextInv, PTL DEF Spec
=============================================================================
