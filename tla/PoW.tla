-------------------------------- MODULE PoW --------------------------------
(***************************************************************************)
(* The difficulty rule of the proof-of-work engine (internal/consensus):   *)
(* every AdjustInterval blocks the difficulty follows the time the last    *)
(* ones took.  Products are exact, a result that does not fit a word is    *)
(* replaced by 1.                                                          *)
(***************************************************************************)
EXTENDS Integers

CONSTANTS
  InitialDifficulty,
  AdjustInterval,     \* blocks between two adjustments, 0 for none
  TargetBlockTime,    \* seconds
  Word                \* 2^64

ASSUME PoWAssumption ==
  /\ InitialDifficulty \in Nat \ {0} /\ Word \in Nat \ {0}
  /\ AdjustInterval \in Nat /\ TargetBlockTime \in Nat

ShouldAdjust(h) == h > 0 /\ AdjustInterval > 0 /\ h % AdjustInterval = 0

AtLeastOne(n) == IF n > 0 THEN n ELSE 1

\* At most four times, at least a quarter of the time expected.
ClampedSpan(actual, expected) ==
  LET least == AtLeastOne(expected \div 4)
  IN IF actual < least THEN least
     ELSE IF actual > 4 * expected THEN 4 * expected ELSE actual

CalcNextDifficulty(current, actual, expected) ==
  LET span   == AtLeastOne(expected)
      result == (current * span) \div ClampedSpan(AtLeastOne(actual), span)
  IN IF result \in 1 .. Word - 1 THEN result ELSE 1

\* The difficulty of a block at height h, from that of its predecessor and
\* from the timestamps of the heights that can be read.
ExpectedDifficulty(h, previous, timestamps) ==
  LET start == h - AdjustInterval IN
  IF h <= 1 \/ previous = 0 THEN InitialDifficulty
  ELSE IF ~ ShouldAdjust(h) \/ ~ ({start, h - 1} \subseteq DOMAIN timestamps) THEN previous
  ELSE CalcNextDifficulty(previous, timestamps[h - 1] - timestamps[start],
                          AdjustInterval * TargetBlockTime)
=============================================================================
