-------------------------- MODULE AdaptiveThreshold --------------------------
(* The batch threshold of the background syncer (internal/fsync/fsync.go).  *)
EXTENDS Integers

backgroundSyncMemoryCapPercent == 80

\* Mutant: the doubling is not stopped at the cap.
adaptiveThresholdUncapped(baseThreshold, pendingBytes, maxThreshold) ==
  LET grow[t \in Nat] == IF t < pendingBytes THEN grow[2 * t] ELSE t
  IN  IF baseThreshold <= 0 THEN 0 ELSE grow[baseThreshold]

\* grow is the doubling loop, entered at t.
adaptiveThreshold(baseThreshold, pendingBytes, maxThreshold) ==
  LET max == IF maxThreshold < baseThreshold THEN baseThreshold ELSE maxThreshold
      grow[t \in Nat] ==
        IF t >= pendingBytes \/ t >= max THEN t
        ELSE IF t > max \div 2 THEN max ELSE grow[2 * t]
  IN  IF baseThreshold <= 0 THEN 0 ELSE grow[baseThreshold]

\* fallbackCap stands for backgroundSyncFallbackCapBytes.
maxAdaptiveThresholdForMemory(baseThreshold, mem, fallbackCap) ==
  LET capBytes == IF mem > 0 THEN (mem * backgroundSyncMemoryCapPercent) \div 100
                             ELSE fallbackCap
  IN  IF capBytes < baseThreshold THEN baseThreshold ELSE capBytes
=============================================================================
