--------------------- MODULE TransferStoreLedgerProofs ---------------------
(***************************************************************************)
(* The ledger of a transfer, for every manifest, request set and bound:    *)
(* what is acknowledged was streamed, the counters are exact, and          *)
(* acknowledged bytes never shrink.                                        *)
(*                                                                         *)
(* The steps of TransferStore touch the ledger in four ways only.  They    *)
(* are named here, LedgerSteps proves that there is no fifth, and the      *)
(* theorems below look at the four.                                        *)
(***************************************************************************)
EXTENDS TransferStoreProofs

Quiet ==
  /\ UNCHANGED <<len, State, AckedSize, StateCounts, NumFiles, Done, DoneSize>>
  /\ streamed \subseteq streamed'

Registers(i) ==
  /\ i = len /\ State[i] = TransferStateStarted
  /\ registerEntry(i) /\ streamed' = streamed

Moves(F, st) ==
  /\ st = TransferStateRunning \/ (st = TransferStateDone /\ F \cap RegularFiles = {})
  /\ setFilesState(F, st) /\ len = Last + 1
  /\ UNCHANGED <<len, AckedSize, NumFiles, Done, DoneSize, streamed>>

Acks(i, b) ==
  /\ acknowledgeFileLocked(i, b) /\ len = Last + 1
  /\ UNCHANGED <<len, NumFiles>>
  /\ streamed \subseteq streamed'
  /\ b # -1 => <<i, ackTarget(i, b)>> \in streamed'

LedgerStep ==
  \/ Quiet
  \/ \E i \in IDs : Registers(i)
  \/ \E F \in SUBSET IDs, st \in States : Moves(F, st)
  \/ \E i \in IDs, b \in Nat \cup {-1} : Acks(i, b)

\* A served handler that finds the transfer alive finds it fully registered.
LEMMA AllRegistered ==
  ASSUME NEW p \in Handlers, Inv, pc[p] # "idle", ~deleted
  PROVE  len = Last + 1
BY DEF Inv, HandlersAgree, HandlerAgrees, WalkAgrees

\* SetTransferFilesState, as SEND calls it: to Running for any file, to Done for
\* directories only.
LEMMA SendMoves ==
  ASSUME NEW p \in Handlers, Inv, SendRunning(p) \/ SendDone(p)
  PROVE  \E F \in SUBSET IDs, st \in States : Moves(F, st)
<1>1. HandlerAgrees(p) /\ HandlerTypeOK /\ p \in Procs
  BY DEF Inv, TypeOK, HandlersAgree, Procs
<1>2. CASE SendRunning(p)
  <2>1. pc[p] = "sendRunning" /\ ~deleted /\ setFilesState(FilesOf(req[p]), TransferStateRunning)
        /\ UNCHANGED <<len, AckedSize, NumFiles, Done, DoneSize, streamed>>
    BY <1>2 DEF SendRunning, Enter
  <2>2. FilesOf(req[p]) \in SUBSET IDs /\ len = Last + 1
    BY <1>1, <2>1, FilesOfType, AllRegistered DEF HandlerAgrees
  <2>3. Moves(FilesOf(req[p]), TransferStateRunning)
    BY <2>1, <2>2 DEF Moves
  <2>4. TransferStateRunning \in States
    BY DEF States, TransferStateStarted, TransferStateRunning, TransferStateMissing
  <2> QED BY <2>2, <2>3, <2>4
<1>3. CASE SendDone(p)
  <2> DEFINE F == {h.file : h \in sent[p]} \ RegularFiles
  <2>1. pc[p] = "sendDone" /\ ~deleted /\ setFilesState(F, TransferStateDone)
        /\ UNCHANGED <<len, AckedSize, NumFiles, Done, DoneSize, streamed>>
    BY <1>3 DEF SendDone, Enter
  <2>2. F \in SUBSET IDs /\ F \cap RegularFiles = {} /\ len = Last + 1
    BY <1>1, <2>1, AllRegistered DEF HandlerTypeOK
  <2>3. Moves(F, TransferStateDone)
    BY <2>1, <2>2 DEF Moves
  <2>4. TransferStateDone \in States
    BY DEF States, TransferStateStarted, TransferStateDone, TransferStateMissing
  <2> QED BY <2>2, <2>3, <2>4
<1> QED BY <1>2, <1>3

\* AcknowledgeTransferFiles, for a client's ACK: validation vouched for the window.
LEMMA AckApplyAcks ==
  ASSUME NEW p \in Handlers, Inv, AckApply(p)
  PROVE  \E i \in IDs, b \in Nat \cup {-1} : Acks(i, b)
<1> DEFINE r == req[p][k[p]]
<1>1. HandlerAgrees(p)
  BY DEF Inv, HandlersAgree
<1>2. pc[p] = "ackApply" /\ ~deleted /\ acknowledgeFileLocked(r.file, r.bytes)
      /\ UNCHANGED <<len, NumFiles, streamed>>
  BY DEF AckApply, Enter
<1>3. req[p] \in AckRequests /\ k[p] \in 1..Len(req[p]) /\ Windows(req[p]) \subseteq streamed
  BY <1>1, <1>2 DEF HandlerAgrees
<1>4. r.file \in IDs /\ r.bytes \in Nat \cup {-1} /\ k[p] \in DOMAIN req[p]
  BY <1>3, AckRecordType
<1>5. r.bytes # -1 => <<r.file, ackTarget(r.file, r.bytes)>> \in Windows(req[p])
  BY <1>4 DEF Windows
<1>6. len = Last + 1
  BY <1>2, AllRegistered
<1> HIDE DEF r
<1>7. Acks(r.file, r.bytes)
  BY <1>2, <1>3, <1>5, <1>6 DEF Acks
<1> QED BY <1>4, <1>7

\* The same call for the files SYNC found the client to have.
LEMMA SyncAckAcks ==
  ASSUME Inv, SyncAck
  PROVE  \E i \in IDs, b \in Nat \cup {-1} : Acks(i, b)
<1>1. SharedTypeOK /\ WalkAgrees
  BY DEF Inv, TypeOK, HandlersAgree
<1>2. PICK i \in matched :
        /\ pc[Walk] = "syncAck" /\ ~deleted /\ acknowledgeFileLocked(i, FileSize[i])
        /\ streamed' = streamed \cup {<<i, FileSize[i]>>} /\ UNCHANGED <<len, NumFiles>>
  BY DEF SyncAck, Enter
<1>3. i \in IDs /\ FileSize[i] \in Nat
  BY <1>1, Scalars DEF SharedTypeOK, RegularFiles
<1>4. ackTarget(i, FileSize[i]) = FileSize[i]
  BY <1>3 DEF ackTarget
<1>5. len = Last + 1
  BY <1>1, <1>2 DEF WalkAgrees
<1>6. Acks(i, FileSize[i])
  BY <1>2, <1>4, <1>5 DEF Acks
<1> QED BY <1>3, <1>6

\* Every step touches the ledger in one of the four ways.
LEMMA LedgerSteps == ASSUME Inv, [Next]_vars PROVE LedgerStep
<1>1. ASSUME NEW p \in Procs, ProcStep(p) PROVE LedgerStep
  <2>1. CASE Lookup(p) \/ CallFails(p)
    BY <2>1 DEF Lookup, CallFails, LedgerStep, Quiet, managedVars, transferVars
  <2>2. ASSUME p \in Handlers, HandlerStep(p) PROVE LedgerStep
    <3>1. CASE SendStart(p) \/ SendRefs(p) \/ SendStream(p) \/ AckStart(p) \/ AckRefs(p)
               \/ AckVerify(p)
      BY <3>1 DEF SendStart, SendRefs, SendStream, AckStart, AckRefs, AckVerify,
         LedgerStep, Quiet, managedVars, transferVars
    <3>2. CASE SendHashes(p) \/ AckComplete(p)
      BY <3>2 DEF SendHashes, AckComplete, LedgerStep, Quiet, transferVars
    <3>3. CASE SendRunning(p) \/ SendDone(p)
      BY <2>2, <3>3, SendMoves DEF LedgerStep
    <3>4. CASE AckApply(p)
      BY <2>2, <3>4, AckApplyAcks DEF LedgerStep
    <3> QED BY <2>2, <3>1, <3>2, <3>3, <3>4 DEF HandlerStep
  <2> QED BY <1>1, <2>1, <2>2 DEF ProcStep
<1>2. CASE WalkStep
  <2>1. CASE Register
    <3>1. pc[Walk] = "register" /\ registerEntry(k[Walk]) /\ streamed' = streamed
      BY <2>1 DEF Register, Enter
    <3>2. k[Walk] = len /\ len < walkLen /\ walkLen \in 0..(Last + 1) /\ len \in 0..(Last + 1)
      BY <3>1 DEF Inv, TypeOK, HandlersAgree, WalkAgrees, SharedTypeOK, TransferTypeOK
    <3>3. len \in IDs /\ len >= len
      BY <3>2, Scalars DEF IDs
    <3>4. State[len] = TransferStateStarted
      BY <3>3 DEF Inv, HandlersAgree
    <3>5. Registers(len)
      BY <3>1, <3>2, <3>4 DEF Registers
    <3> QED BY <3>3, <3>5 DEF LedgerStep
  <2>2. CASE SyncAck
    BY <2>2, SyncAckAcks DEF LedgerStep
  <2>3. CASE WalkEnd \/ ClipTransfer \/ SyncComplete \/ Close \/ DeleteUnmap \/ DeleteMark
    BY <2>3 DEF WalkEnd, ClipTransfer, SyncComplete, Close, DeleteUnmap, DeleteMark,
       LedgerStep, Quiet, managedVars, transferVars
  <2> QED BY <1>2, <2>1, <2>2, <2>3 DEF WalkStep
<1>3. CASE ReaperStep
  BY <1>3 DEF ReaperStep, ReapTick, ReapVisit, ReapUnmap, ReapHashes, LedgerStep, Quiet,
     managedVars, transferVars
<1>4. CASE Tick
  BY <1>4 DEF Tick, LedgerStep, Quiet, managedVars, transferVars
<1>5. CASE UNCHANGED vars
  BY <1>5 DEF vars, LedgerStep, Quiet, managedVars, transferVars
<1> QED BY <1>1, <1>2, <1>3, <1>4, <1>5 DEF Next

-----------------------------------------------------------------------------
(* What an ACK of bytes does to its file, without the book-keeping.        *)

\* acknowledgeFileLocked raises the acknowledged size to the clamped target, if
\* at all, and marks the file Done only when the whole size is acknowledged.
LEMMA AckBytesEffect ==
  ASSUME TypeOK, NEW i \in IDs, NEW b \in Nat \cup {-1}, ackBytesOf(i, b)
  PROVE  LET target == ackTarget(i, b)
             old == State[i]
         IN  /\ target \in Nat /\ target <= FileSize[i] /\ FileSize[i] \in Nat
             /\ AckedSize'[i] \in Nat /\ AckedSize'[i] >= AckedSize[i]
             /\ AckedSize'[i] = AckedSize[i] \/ AckedSize'[i] = target
             /\ AckedSize'[i] >= target
             /\ State'[i] \in {old, TransferStateRunning, TransferStateDone}
             /\ State'[i] = TransferStateDone /\ old # TransferStateDone
                  => AckedSize'[i] >= FileSize[i]
             /\ State'[i] < old => old = TransferStateMissing
<1> DEFINE revived == State[i] = TransferStateMissing
           current == IF revived THEN TransferStateRunning ELSE State[i]
           target == ackTarget(i, b)
           acked == IF target > AckedSize[i] THEN target ELSE AckedSize[i]
           counts == /\ acked >= FileSize[i]
                     /\ current < TransferStateDone
                     /\ isRegularFileEntryType(i)
           final == IF counts THEN TransferStateDone ELSE current
<1>1. b \in Nat /\ FileSize[i] \in Nat /\ AckedSize[i] \in Nat /\ State[i] \in States
  BY Scalars DEF ackBytesOf, TypeOK, TransferTypeOK
<1>2. target \in Nat /\ target <= FileSize[i]
  BY <1>1 DEF ackTarget
<1>3. State'[i] = final /\ AckedSize'[i] = acked
  BY DEF ackBytesOf, TypeOK, TransferTypeOK
<1> HIDE DEF target
<1>4. /\ acked \in Nat /\ acked >= AckedSize[i] /\ acked >= target
      /\ acked = AckedSize[i] \/ acked = target
  BY <1>1, <1>2
<1>5. /\ final \in {State[i], TransferStateRunning, TransferStateDone}
      /\ final = TransferStateDone /\ State[i] # TransferStateDone => acked >= FileSize[i]
      /\ final < State[i] => State[i] = TransferStateMissing
  BY <1>1 DEF States, TransferStateStarted, TransferStateRunning, TransferStateDone,
     TransferStateMissing
<1> QED BY <1>1, <1>2, <1>3, <1>4, <1>5 DEF target

\* A record for file i leaves every other file alone.
LEMMA AckOthers ==
  ASSUME TypeOK, NEW i \in IDs, NEW b \in Nat \cup {-1}, acknowledgeFileLocked(i, b)
  PROVE  \A j \in IDs \ {i} : State'[j] = State[j] /\ AckedSize'[j] = AckedSize[j]
BY AckFileType DEF TypeOK, SharedTypeOK

\* A missing file's record, and an ignored one, leave the acknowledged bytes.
LEMMA AckNoBytes ==
  ASSUME TypeOK, NEW i \in IDs, NEW b, ackIgnored(i, b) \/ ackMissing(i, b)
  PROVE  AckedSize' = AckedSize /\ State'[i] \in {State[i], TransferStateMissing}
BY DEF ackIgnored, ackMissing, ackVars, TypeOK, TransferTypeOK

\* A new transfer has acknowledged nothing.
LEMMA CountedInit == ASSUME Init PROVE CountedWasStreamed
<1>1. \A i \in IDs : State[i] = 1 /\ AckedSize[i] = 0 /\ FileSize[i] \in Nat
  BY Scalars DEF Init, TransferStateStarted
<1> QED BY <1>1 DEF CountedWasStreamed, RegularFiles, TransferStateDone

\* Every step keeps acknowledged bytes within what was streamed.
LEMMA CountedStep ==
  ASSUME Inv, CountedWasStreamed, [Next]_vars
  PROVE  CountedWasStreamed'
<1>1. TypeOK /\ LedgerStep
  BY LedgerSteps DEF Inv
<1> SUFFICES ASSUME NEW j \in RegularFiles
             PROVE  /\ AckedSize'[j] <= FileSize[j]
                    /\ AckedSize'[j] > 0 => <<j, AckedSize'[j]>> \in streamed'
                    /\ State'[j] = TransferStateDone =>
                         AckedSize'[j] = FileSize[j] /\ <<j, FileSize[j]>> \in streamed'
  BY DEF CountedWasStreamed
<1>2. /\ j \in IDs /\ isRegularFileEntryType(j)
      /\ AckedSize[j] <= FileSize[j]
      /\ AckedSize[j] > 0 => <<j, AckedSize[j]>> \in streamed
      /\ State[j] = TransferStateDone =>
           AckedSize[j] = FileSize[j] /\ <<j, FileSize[j]>> \in streamed
  BY DEF CountedWasStreamed, RegularFiles
<1>3. CASE Quiet
  BY <1>2, <1>3 DEF Quiet
<1>4. ASSUME NEW i \in IDs, Registers(i) PROVE State' = State /\ AckedSize' = AckedSize
                                               /\ streamed' = streamed
  BY <1>1, <1>4 DEF Registers, registerEntry, TypeOK, TransferTypeOK
<1>5. ASSUME NEW F \in SUBSET IDs, NEW st \in States, Moves(F, st)
      PROVE  /\ AckedSize' = AckedSize /\ streamed' = streamed
             /\ State'[j] = TransferStateDone => State[j] = TransferStateDone
  BY <1>2, <1>5 DEF Moves, setFilesState, TransferStateRunning, TransferStateDone
<1>6. ASSUME NEW i \in IDs, NEW b \in Nat \cup {-1}, Acks(i, b)
      PROVE  /\ AckedSize'[j] <= FileSize[j]
             /\ AckedSize'[j] > 0 => <<j, AckedSize'[j]>> \in streamed'
             /\ State'[j] = TransferStateDone =>
                  AckedSize'[j] = FileSize[j] /\ <<j, FileSize[j]>> \in streamed'
  <2>1. acknowledgeFileLocked(i, b) /\ streamed \subseteq streamed'
        /\ (b # -1 => <<i, ackTarget(i, b)>> \in streamed')
    BY <1>6 DEF Acks
  <2>2. CASE j # i
    BY <1>1, <1>2, <2>1, <2>2, AckOthers
  <2>3. CASE j = i /\ (ackIgnored(i, b) \/ ackMissing(i, b))
    <3>1. AckedSize' = AckedSize /\ State'[j] \in {State[j], TransferStateMissing}
      BY <1>1, <2>3, AckNoBytes
    <3> QED BY <1>2, <2>1, <3>1 DEF TransferStateMissing, TransferStateDone
  <2>4. CASE j = i /\ ackBytesOf(i, b)
    <3> DEFINE target == ackTarget(j, b)
               now == AckedSize'[j]
    <3>1. /\ target \in Nat /\ target <= FileSize[j] /\ FileSize[j] \in Nat
          /\ now \in Nat /\ now >= AckedSize[j]
          /\ now = AckedSize[j] \/ now = target
          /\ now >= target
          /\ State'[j] = TransferStateDone /\ State[j] # TransferStateDone
               => now >= FileSize[j]
      BY <1>1, <2>4, AckBytesEffect
    <3>2. <<j, target>> \in streamed' /\ AckedSize[j] \in Nat
      BY <1>1, <2>1, <2>4 DEF ackBytesOf, TypeOK, TransferTypeOK
    <3> HIDE DEF target, now
    <3>3. now <= FileSize[j] /\ (now > 0 => <<j, now>> \in streamed')
      BY <1>2, <2>1, <3>1, <3>2
    <3>4. State'[j] = TransferStateDone => now = FileSize[j]
      BY <1>2, <3>1, <3>2, <3>3
    <3>5. now = FileSize[j] => <<j, FileSize[j]>> \in streamed'
      <4>1. CASE now > 0
        BY <3>3, <4>1
      <4>2. CASE now = 0
        BY <3>1, <3>2, <4>2
      <4> QED BY <3>1, <4>1, <4>2
    <3> QED BY <3>3, <3>4, <3>5 DEF now
  <2> QED BY <2>1, <2>2, <2>3, <2>4 DEF acknowledgeFileLocked
<1> QED BY <1>1, <1>2, <1>3, <1>4, <1>5, <1>6 DEF LedgerStep

\* Bytes are acknowledged, and a file is Done, only for a window some SEND
\* streamed and recorded, or that SYNC matched: the hash an ACK was validated
\* with in one critical section cannot be undone before the later one applies it.
THEOREM CountedWasStreamedAlways == Spec => []CountedWasStreamed
<1>1. Init => Inv /\ CountedWasStreamed
  BY InitInv, CountedInit
<1>2. (Inv /\ CountedWasStreamed) /\ [Next]_vars => (Inv /\ CountedWasStreamed)'
  BY NextInv, CountedStep
<1> QED BY <1>1, <1>2, PTL DEF Spec

-----------------------------------------------------------------------------

\* No step of a handler, the walk or the reaper shrinks the acknowledged bytes
\* of a file or moves its state back, except out of Missing.
THEOREM LedgerMonotoneAlways == Spec => LedgerMonotone
<1> DEFINE A == \A i \in IDs : /\ AckedSize'[i] >= AckedSize[i]
                               /\ State'[i] < State[i] => State[i] = TransferStateMissing
<1>1. ASSUME Inv, [Next]_vars PROVE A
  <2>1. TypeOK /\ LedgerStep
    BY <1>1, LedgerSteps DEF Inv
  <2> SUFFICES ASSUME NEW j \in IDs
               PROVE  /\ AckedSize'[j] >= AckedSize[j]
                      /\ State'[j] < State[j] => State[j] = TransferStateMissing
    OBVIOUS
  <2>2. AckedSize[j] \in Nat /\ State[j] \in 1..4
    BY <2>1 DEF TypeOK, TransferTypeOK, States, TransferStateStarted, TransferStateMissing
  <2>3. CASE Quiet
    BY <2>2, <2>3 DEF Quiet
  <2>4. ASSUME NEW i \in IDs, Registers(i) PROVE State' = State /\ AckedSize' = AckedSize
    BY <2>1, <2>4 DEF Registers, registerEntry, TypeOK, TransferTypeOK
  <2>5. ASSUME NEW F \in SUBSET IDs, NEW st \in States, Moves(F, st)
        PROVE  AckedSize' = AckedSize /\ State'[j] >= State[j]
    BY <2>2, <2>5 DEF Moves, setFilesState, shouldAdvanceState
  <2>6. ASSUME NEW i \in IDs, NEW b \in Nat \cup {-1}, Acks(i, b)
        PROVE  /\ AckedSize'[j] >= AckedSize[j]
               /\ State'[j] < State[j] => State[j] = TransferStateMissing
    <3>1. acknowledgeFileLocked(i, b)
      BY <2>6 DEF Acks
    <3>2. CASE j # i
      <4>1. State'[j] = State[j] /\ AckedSize'[j] = AckedSize[j]
        BY <2>1, <3>1, <3>2, AckOthers
      <4> QED BY <2>2, <4>1
    <3>3. CASE j = i /\ (ackIgnored(i, b) \/ ackMissing(i, b))
      <4>1. AckedSize' = AckedSize /\ State'[j] \in {State[j], TransferStateMissing}
        BY <2>1, <3>3, AckNoBytes
      <4> QED BY <2>2, <4>1 DEF TransferStateMissing
    <3>4. CASE j = i /\ ackBytesOf(i, b)
      BY <2>1, <3>4, AckBytesEffect
    <3> QED BY <3>1, <3>2, <3>3, <3>4 DEF acknowledgeFileLocked
  <2>7. State'[j] >= State[j] => ~(State'[j] < State[j])
    <3>1. State'[j] \in 1..4
      BY <1>1, NextInv
      DEF Inv, TypeOK, TransferTypeOK, States, TransferStateStarted, TransferStateMissing
    <3> QED BY <2>2, <3>1
  <2> QED BY <2>1, <2>2, <2>3, <2>4, <2>5, <2>6, <2>7 DEF LedgerStep
<1>2. Spec => []Inv
  BY InitInv, NextInv, PTL DEF Spec
<1>3. Inv /\ [Next]_vars => [A]_vars
  BY <1>1
<1> QED BY <1>2, <1>3, PTL DEF Spec, LedgerMonotone

-----------------------------------------------------------------------------
(* The counters.                                                           *)

InState(s) == {i \in Registered : State[i] = s}

\* The sets the counters count are finite.
LEMMA CountedFinite ==
  /\ IsFiniteSet(Counted) /\ Cardinality(Counted) \in Nat
  /\ IsFiniteSet(Registered) /\ Cardinality(Registered) \in Nat
  /\ \A s : IsFiniteSet(InState(s)) /\ Cardinality(InState(s)) \in Nat
BY FiniteIDs DEF Counted, Registered, InState, RegularFiles

\* Sizes of disjoint unions and of differences.
LEMMA UnionSize ==
  ASSUME NEW S, NEW T, IsFiniteSet(S), IsFiniteSet(T), S \cap T = {}
  PROVE  Cardinality(S \cup T) = Cardinality(S) + Cardinality(T)
<1>1. Cardinality(S) \in Nat /\ Cardinality(T) \in Nat
  BY FS_CardinalityType
<1>2. Cardinality(S \cup T) = Cardinality(S) + Cardinality(T) - Cardinality(S \cap T)
  BY FS_Union
<1>3. Cardinality(S \cap T) = 0
  BY FS_EmptySet
<1> QED BY <1>1, <1>2, <1>3

\* The size of a finite set without one of its subsets.
LEMMA DifferenceSize ==
  ASSUME NEW S, NEW T, IsFiniteSet(S), T \subseteq S
  PROVE  /\ Cardinality(S \ T) = Cardinality(S) - Cardinality(T)
         /\ Cardinality(T) \in Nat
<1>1. S \cap T = T
  OBVIOUS
<1>2. IsFiniteSet(T) /\ Cardinality(T) \in Nat
  BY FS_Subset, FS_CardinalityType
<1>3. Cardinality(S \ T) = Cardinality(S) - Cardinality(S \cap T)
  BY FS_Difference
<1> QED BY <1>1, <1>2, <1>3

\* With every entry registered, Registered is the set of regular files.
LEMMA RegisteredAll == ASSUME len = Last + 1 PROVE Registered = RegularFiles
<1>1. \A i \in IDs : i < len
  BY Scalars DEF IDs
<1> QED BY <1>1 DEF Registered, RegularFiles

\* The counters of a new transfer are exact.
LEMMA CountersInit == ASSUME Init PROVE CountersExact
<1>1. /\ len = 0 /\ Done = 0 /\ NumFiles = 0 /\ StateCounts = [s \in States |-> 0]
      /\ \A i \in IDs : State[i] = 1
  BY DEF Init, TransferStateStarted
<1>2. Registered = {} /\ Counted = {}
  <2>1. \A i \in IDs : ~(i < 0)
    BY DEF IDs
  <2> QED BY <1>1, <2>1 DEF Registered, Counted, RegularFiles, TransferStateDone
<1>3. \A s : {i \in Registered : State[i] = s} = {}
  BY <1>2
<1> QED BY <1>1, <1>2, <1>3, FS_EmptySet DEF CountersExact

\* RegisterTransferFileStates counts a new regular file once, as Started.
LEMMA RegisterCounts ==
  ASSUME Inv, CountersExact, NEW i \in IDs, Registers(i)
  PROVE  CountersExact'
<1>1. /\ i = len /\ len' = i + 1 /\ State' = State /\ Done' = Done /\ State[i] = 1
      /\ NumFiles' = NumFiles + (IF isRegularFileEntryType(i) THEN 1 ELSE 0)
      /\ StateCounts' = IF isRegularFileEntryType(i)
                        THEN [StateCounts EXCEPT ![1] = @ + 1] ELSE StateCounts
  BY DEF Registers, registerEntry, Inv, TypeOK, TransferTypeOK, TransferStateStarted
<1>2. StateCounts \in [States -> Int] /\ NumFiles \in Int /\ 1 \in States
  BY DEF Inv, TypeOK, TransferTypeOK, States, TransferStateStarted, TransferStateMissing
<1>3. Counted' = Counted
  BY <1>1 DEF Counted
<1>4. \A j \in IDs : j < i + 1 <=> j < i \/ j = i
  BY DEF IDs
<1>5. CASE isRegularFileEntryType(i)
  <2>1. Registered' = Registered \cup {i} /\ i \notin Registered
    BY <1>1, <1>4, <1>5 DEF Registered, RegularFiles, IDs
  <2>2. Cardinality(Registered') = Cardinality(Registered) + 1
    BY <2>1, CountedFinite, FS_AddElement
  <2>3. ASSUME NEW s \in States PROVE StateCounts'[s] = Cardinality(InState(s)')
    <3>1. CASE s = 1
      <4>1. InState(s)' = InState(s) \cup {i} /\ i \notin InState(s)
        BY <1>1, <2>1, <3>1 DEF InState
      <4>2. Cardinality(InState(s)') = Cardinality(InState(s)) + 1
        BY <4>1, CountedFinite, FS_AddElement
      <4> QED BY <1>1, <1>2, <1>5, <3>1, <4>2 DEF CountersExact, InState
    <3>2. CASE s # 1
      <4>1. InState(s)' = InState(s)
        BY <1>1, <2>1, <3>2 DEF InState
      <4> QED BY <1>1, <1>2, <1>5, <3>2, <4>1 DEF CountersExact, InState
    <3> QED BY <3>1, <3>2
  <2> QED BY <1>1, <1>3, <1>5, <2>2, <2>3 DEF CountersExact, InState
<1>6. CASE ~isRegularFileEntryType(i)
  <2>1. Registered' = Registered
    BY <1>1, <1>4, <1>6 DEF Registered, RegularFiles
  <2> QED BY <1>1, <1>2, <1>3, <1>6, <2>1 DEF CountersExact
<1> QED BY <1>5, <1>6

\* SetTransferFilesState moves the count of every file it moves.
LEMMA MoveCounts ==
  ASSUME Inv, CountersExact, NEW F \in SUBSET IDs, NEW st \in States, Moves(F, st)
  PROVE  CountersExact'
<1> DEFINE moved == {i \in F : shouldAdvanceState(State[i], st) /\ State[i] # st}
           M == moved \cap RegularFiles
           gone(s) == {i \in M : State[i] = s}
<1>1. /\ State' = [i \in IDs |-> IF i \in moved THEN st ELSE State[i]]
      /\ StateCounts' = [s \in States |->
           StateCounts[s] - Cardinality(gone(s)) + (IF s = st THEN Cardinality(M) ELSE 0)]
      /\ len' = len /\ len = Last + 1 /\ NumFiles' = NumFiles /\ Done' = Done
  BY DEF Moves, setFilesState
<1>2. Registered = RegularFiles /\ Registered' = RegularFiles
  BY <1>1, RegisteredAll DEF Registered
<1>3. M \subseteq RegularFiles /\ \A i \in M : State[i] # st
  OBVIOUS
<1>4. \A i \in RegularFiles : State'[i] = IF i \in M THEN st ELSE State[i]
  BY <1>1 DEF RegularFiles
<1>5. IsFiniteSet(M) /\ Cardinality(M) \in Nat
  BY FiniteIDs, <1>3 DEF RegularFiles
<1>6. StateCounts \in [States -> Int] /\ State \in [IDs -> States]
  BY DEF Inv, TypeOK, TransferTypeOK
<1>7. Counted' = Counted
  <2>1. CASE st = TransferStateRunning
    <3>1. \A i \in M : State[i] < 3
      <4>1. \A i \in M : State[i] \in 1..4 /\ st >= State[i]
        BY <1>3, <1>6
        DEF shouldAdvanceState, States, TransferStateStarted, TransferStateMissing, RegularFiles
      <4> QED BY <2>1, <4>1 DEF TransferStateRunning
    <3>2. \A i \in M : ~(State[i] >= 3)
      <4>1. \A i \in M : State[i] \in 1..4
        BY <1>3, <1>6 DEF States, TransferStateStarted, TransferStateMissing, RegularFiles
      <4> QED BY <3>1, <4>1
    <3> QED BY <1>4, <2>1, <3>2 DEF Counted, TransferStateDone, TransferStateRunning
  <2>2. CASE F \cap RegularFiles = {}
    BY <1>4, <2>2 DEF Counted
  <2> QED BY <2>1, <2>2 DEF Moves
<1> HIDE DEF moved, M
<1>8. ASSUME NEW s \in States PROVE StateCounts'[s] = Cardinality(InState(s)')
  <2> DEFINE G == gone(s)
             In == InState(s)
             In2 == InState(s)'
  <2>1. StateCounts[s] = Cardinality(In) /\ Cardinality(In) \in Nat /\ IsFiniteSet(In)
    BY CountedFinite DEF CountersExact, InState
  <2>2. StateCounts'[s]
          = StateCounts[s] - Cardinality(G) + (IF s = st THEN Cardinality(M) ELSE 0)
    BY <1>1
  <2>3. CASE s = st
    <3>1. G = {}
      BY <1>3, <2>3
    <3>2. In2 = In \cup M /\ In \cap M = {}
      BY <1>2, <1>3, <1>4, <2>3 DEF InState
    <3> HIDE DEF G, In, In2
    <3>3. Cardinality(In2) = Cardinality(In) + Cardinality(M)
      BY <1>5, <2>1, <3>2, UnionSize
    <3>4. Cardinality(G) = 0
      BY <3>1, FS_EmptySet
    <3>5. StateCounts'[s] = Cardinality(In2)
      BY <1>5, <2>1, <2>2, <2>3, <3>3, <3>4
    <3> QED BY <3>5 DEF In2
  <2>4. CASE s # st
    <3>1. In2 = In \ G /\ G \subseteq In
      BY <1>2, <1>3, <1>4, <2>4 DEF InState
    <3> HIDE DEF G, In, In2
    <3>2. Cardinality(In2) = Cardinality(In) - Cardinality(G) /\ Cardinality(G) \in Nat
      BY <2>1, <3>1, DifferenceSize
    <3>3. StateCounts'[s] = Cardinality(In2)
      BY <2>1, <2>2, <2>4, <3>2
    <3> QED BY <3>3 DEF In2
  <2> QED BY <2>3, <2>4
<1> QED BY <1>1, <1>2, <1>7, <1>8 DEF CountersExact, InState

\* setState of one regular file moves one unit between two counts.
LEMMA RecountCounts ==
  ASSUME Inv, CountersExact, NEW i \in RegularFiles, NEW st \in States,
         len = Last + 1, len' = len, State' = [State EXCEPT ![i] = st],
         StateCounts' = Recount(i, st), NEW s \in States
  PROVE  StateCounts'[s] = Cardinality(InState(s)')
<1> DEFINE In == InState(s)
           In2 == InState(s)'
<1>1. Registered = RegularFiles /\ Registered' = RegularFiles
  BY RegisteredAll DEF Registered
<1>2. StateCounts \in [States -> Int] /\ State \in [IDs -> States] /\ i \in IDs
      /\ isRegularFileEntryType(i) /\ State[i] \in States
  BY DEF Inv, TypeOK, TransferTypeOK, RegularFiles
<1>3. StateCounts' = [StateCounts EXCEPT ![State[i]] = @ - 1, ![st] = @ + 1]
  BY <1>2 DEF Recount
<1>4. StateCounts[s] = Cardinality(In) /\ Cardinality(In) \in Nat /\ IsFiniteSet(In)
  BY CountedFinite DEF CountersExact, InState
<1>5. CASE s # st /\ s # State[i]
  <2>1. In2 = In
    BY <1>1, <1>2, <1>5 DEF InState, RegularFiles
  <2> QED BY <1>2, <1>3, <1>4, <1>5, <2>1
<1>6. CASE s = st /\ s = State[i]
  <2>1. In2 = In
    BY <1>1, <1>2, <1>6 DEF InState, RegularFiles
  <2>2. StateCounts'[s] = StateCounts[s]
    BY <1>2, <1>3, <1>6
  <2> QED BY <1>4, <2>1, <2>2
<1>7. CASE s = st /\ s # State[i]
  <2>1. In2 = In \cup {i} /\ i \notin In
    BY <1>1, <1>2, <1>7 DEF InState, RegularFiles
  <2>2. StateCounts'[s] = StateCounts[s] + 1
    BY <1>2, <1>3, <1>7
  <2> HIDE DEF In, In2
  <2>3. Cardinality(In2) = Cardinality(In) + 1
    BY <1>4, <2>1, FS_AddElement
  <2>4. StateCounts'[s] = Cardinality(In2)
    BY <1>4, <2>2, <2>3
  <2> QED BY <2>4 DEF In2
<1>8. CASE s # st /\ s = State[i]
  <2>1. In2 = In \ {i} /\ i \in In
    BY <1>1, <1>2, <1>8 DEF InState, RegularFiles
  <2>2. StateCounts'[s] = StateCounts[s] - 1
    BY <1>2, <1>3, <1>8
  <2> HIDE DEF In, In2
  <2>3. Cardinality(In2) = Cardinality(In) - 1
    BY <1>4, <2>1, FS_RemoveElement
  <2>4. StateCounts'[s] = Cardinality(In2)
    BY <1>4, <2>2, <2>3
  <2> QED BY <2>4 DEF In2
<1> QED BY <1>5, <1>6, <1>7, <1>8

\* Done follows the set of counted files when one regular file changes state.
LEMMA DoneFollows ==
  ASSUME Inv, CountersExact, NEW i \in RegularFiles, NEW st \in States,
         State' = [State EXCEPT ![i] = st],
         Done' = Done - (IF State[i] >= 3 THEN 1 ELSE 0) + (IF st >= 3 THEN 1 ELSE 0)
  PROVE  Done' = Cardinality(Counted')
<1>1. Done = Cardinality(Counted) /\ IsFiniteSet(Counted) /\ Cardinality(Counted) \in Nat
  BY CountedFinite DEF CountersExact
<1>2. /\ i \in Counted <=> State[i] >= 3
      /\ Counted' = IF st >= 3 THEN Counted \cup {i} ELSE Counted \ {i}
  BY DEF Counted, TransferStateDone, RegularFiles, Inv, TypeOK, TransferTypeOK
<1> DEFINE C == Counted
           D == Counted'
<1> HIDE DEF C, D
<1>3. /\ Cardinality(C \cup {i}) = IF i \in C THEN Cardinality(C) ELSE Cardinality(C) + 1
      /\ Cardinality(C \ {i}) = IF i \in C THEN Cardinality(C) - 1 ELSE Cardinality(C)
  BY <1>1, FS_AddElement, FS_RemoveElement DEF C
<1>4. D = IF st >= 3 THEN C \cup {i} ELSE C \ {i}
  BY <1>2 DEF C, D
<1>5. Done = Cardinality(C) /\ Cardinality(C) \in Nat /\ (i \in C <=> State[i] >= 3)
  BY <1>1, <1>2 DEF C
<1>6. CASE st >= 3
  BY <1>3, <1>4, <1>5, <1>6 DEF D
<1>7. CASE ~(st >= 3)
  BY <1>3, <1>4, <1>5, <1>7 DEF D
<1> QED BY <1>6, <1>7

\* An ACK record of a regular file counts it, or uncounts it, exactly once.
LEMMA AckFileCounts ==
  ASSUME Inv, CountersExact, NEW i \in RegularFiles, NEW b \in Nat \cup {-1},
         acknowledgeFileLocked(i, b), ~ackIgnored(i, b)
  PROVE  \E st \in States :
           /\ State' = [State EXCEPT ![i] = st] /\ StateCounts' = Recount(i, st)
           /\ Done' = Done - (IF State[i] >= 3 THEN 1 ELSE 0) + (IF st >= 3 THEN 1 ELSE 0)
<1>1. /\ i \in IDs /\ isRegularFileEntryType(i) /\ State[i] \in 1..4 /\ Done \in Nat
      /\ State[i] >= 3 => Done > 0
  <2>1. i \in IDs /\ isRegularFileEntryType(i) /\ State[i] \in 1..4
    BY DEF RegularFiles, Inv, TypeOK, TransferTypeOK, States, TransferStateStarted,
       TransferStateMissing
  <2>2. Done = Cardinality(Counted) /\ Done \in Nat
    BY CountedFinite DEF CountersExact
  <2>3. State[i] >= 3 => i \in Counted
    BY DEF Counted, TransferStateDone
  <2>4. i \in Counted => Cardinality(Counted) # 0
    BY CountedFinite, FS_EmptySet
  <2> QED BY <2>1, <2>2, <2>3, <2>4
<1>2. CASE ackMissing(i, b)
  <2>1. /\ State[i] # 4 /\ State' = [State EXCEPT ![i] = 4] /\ StateCounts' = Recount(i, 4)
        /\ Done' = IF State[i] # 3 THEN Done + 1 ELSE Done
    BY <1>1, <1>2 DEF ackMissing, TransferStateDone, TransferStateMissing
  <2>2. Done' = Done - (IF State[i] >= 3 THEN 1 ELSE 0) + (IF 4 >= 3 THEN 1 ELSE 0)
    BY <1>1, <2>1
  <2>3. 4 \in States
    BY DEF States, TransferStateStarted, TransferStateMissing
  <2> QED BY <2>1, <2>2, <2>3
<1>3. CASE ackBytesOf(i, b)
  <2> DEFINE revived == State[i] = TransferStateMissing
             current == IF revived THEN TransferStateRunning ELSE State[i]
             target == ackTarget(i, b)
             acked == IF target > AckedSize[i] THEN target ELSE AckedSize[i]
             counts == /\ acked >= FileSize[i]
                       /\ current < TransferStateDone
                       /\ isRegularFileEntryType(i)
             final == IF counts THEN TransferStateDone ELSE current
  <2>1. /\ State' = [State EXCEPT ![i] = final] /\ StateCounts' = Recount(i, final)
        /\ Done' = Done - (IF revived /\ Done > 0 THEN 1 ELSE 0) + (IF counts THEN 1 ELSE 0)
    BY <1>3 DEF ackBytesOf
  <2>2. /\ revived <=> State[i] = 4
        /\ counts => current < 3 /\ final = 3
        /\ ~counts => final = current
        /\ current = IF State[i] = 4 THEN 2 ELSE State[i]
    BY DEF TransferStateDone, TransferStateRunning, TransferStateMissing
  <2> HIDE DEF revived, current, acked, counts, final
  <2>3. final \in States
    BY <1>1, <2>2 DEF States, TransferStateStarted, TransferStateMissing
  <2>4. Done' = Done - (IF State[i] >= 3 THEN 1 ELSE 0) + (IF final >= 3 THEN 1 ELSE 0)
    BY <1>1, <2>1, <2>2
  <2> QED BY <2>1, <2>3, <2>4
<1> QED BY <1>2, <1>3 DEF acknowledgeFileLocked

\* acknowledgeFileLocked keeps the counters exact, in each of its three cases.
LEMMA AckCounts ==
  ASSUME Inv, CountersExact, NEW i \in IDs, NEW b \in Nat \cup {-1}, Acks(i, b)
  PROVE  CountersExact'
<1>1. /\ acknowledgeFileLocked(i, b) /\ len = Last + 1 /\ len' = len /\ NumFiles' = NumFiles
  BY DEF Acks
<1>2. Registered' = Registered /\ Registered = RegularFiles
  BY <1>1, RegisteredAll DEF Registered
<1>3. CASE ackIgnored(i, b)
  BY <1>1, <1>3 DEF ackIgnored, ackVars, CountersExact, Counted, Registered
<1>4. CASE ~ackIgnored(i, b) /\ i \in RegularFiles
  <2>1. PICK st \in States :
          /\ State' = [State EXCEPT ![i] = st] /\ StateCounts' = Recount(i, st)
          /\ Done' = Done - (IF State[i] >= 3 THEN 1 ELSE 0) + (IF st >= 3 THEN 1 ELSE 0)
    BY <1>1, <1>4, AckFileCounts
  <2>2. Done' = Cardinality(Counted')
    BY <1>4, <2>1, DoneFollows
  <2>3. \A s \in States : StateCounts'[s] = Cardinality(InState(s)')
    BY <1>1, <1>4, <2>1, RecountCounts
  <2> QED BY <1>1, <1>2, <2>2, <2>3 DEF CountersExact, InState
<1>5. CASE ~ackIgnored(i, b) /\ i \notin RegularFiles
  <2>1. ~isRegularFileEntryType(i)
    BY <1>5 DEF RegularFiles
  <2>2. StateCounts' = StateCounts /\ Done' = Done
    <3>1. CASE ackMissing(i, b)
      BY <2>1, <3>1 DEF ackMissing, Recount
    <3>2. CASE ackBytesOf(i, b)
      <4>1. StateCounts' = StateCounts
        BY <2>1, <3>2 DEF ackBytesOf, Recount
      <4>2. Done' = Done - 0 + 0
        BY <2>1, <3>2 DEF ackBytesOf
      <4> QED BY <4>1, <4>2 DEF Inv, TypeOK, TransferTypeOK
    <3> QED BY <1>1, <1>5, <3>1, <3>2 DEF acknowledgeFileLocked
  <2>3. \A j \in RegularFiles : State'[j] = State[j]
    BY <1>1, <1>5, AckOthers DEF Inv, RegularFiles
  <2>4. Counted' = Counted
    BY <2>3 DEF Counted
  <2>5. \A s : InState(s)' = InState(s)
    BY <1>2, <2>3 DEF InState
  <2> QED BY <1>1, <1>2, <2>2, <2>4, <2>5 DEF CountersExact, InState
<1> QED BY <1>3, <1>4, <1>5

\* Done, NumFiles and StateCounts always equal what the per-file states say,
\* through concurrent SENDs, repeated and missing ACKs, revivals and the walk.
THEOREM CountersExactAlways == Spec => []CountersExact
<1>1. Init => Inv /\ CountersExact
  BY InitInv, CountersInit
<1>2. ASSUME Inv, CountersExact, [Next]_vars PROVE CountersExact'
  <2>1. LedgerStep
    BY <1>2, LedgerSteps
  <2>2. CASE Quiet
    BY <1>2, <2>2 DEF Quiet, CountersExact, Counted, Registered
  <2> QED BY <1>2, <2>1, <2>2, RegisterCounts, MoveCounts, AckCounts DEF LedgerStep
<1>3. (Inv /\ CountersExact) /\ [Next]_vars => (Inv /\ CountersExact)'
  BY <1>2, NextInv
<1> QED BY <1>1, <1>3, PTL DEF Spec
=============================================================================
