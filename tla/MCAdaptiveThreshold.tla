------------------------ MODULE MCAdaptiveThreshold ------------------------
(* adaptiveThreshold against its comment, over every small input.          *)
EXTENDS AdaptiveThreshold, FiniteSets, FiniteSetsExt

CONSTANT Limit   \* bound on the inputs

VARIABLES baseThreshold, pendingBytes, maxThreshold

vars == <<baseThreshold, pendingBytes, maxThreshold>>

Init ==
  baseThreshold \in 0..Limit /\ pendingBytes \in 0..Limit /\ maxThreshold \in 0..Limit

Spec == Init /\ [][UNCHANGED vars]_vars

\* The comment on adaptiveThreshold: the smallest power-of-two multiple of
\* baseThreshold that is at least as large as pendingBytes, capped at
\* maxThreshold and never below baseThreshold; the doubling loop gets there
\* without passing the cap.
ThresholdAsDocumented ==
  LET multiples == {baseThreshold * 2^k : k \in 0..Limit}
      smallest == Min({m \in multiples : m >= pendingBytes})
      capped == Min({smallest, maxThreshold})
  IN  baseThreshold > 0 =>
        adaptiveThreshold(baseThreshold, pendingBytes, maxThreshold)
          = Max({capped, baseThreshold})
=============================================================================
