------------------------------- MODULE Backoff -------------------------------
(***************************************************************************)
(* The saturating growth curve of internal/pool/pool.go                    *)
(* (SaturatingCooldown), shared by route cooldowns, pair cooldowns and the *)
(* rotation retry backoff of internal/rotation/backoff.go (BackoffFor).    *)
(* Durations are signed integers of Width bits that wrap on overflow.      *)
(***************************************************************************)
EXTENDS Integers

CONSTANT Width   \* bits of a time.Duration (64 in the program)

ASSUME WidthAssumption == Width \in Nat /\ Width >= 3

MaxDuration == 2^(Width - 1) - 1

\* Two's complement reading of n.
Wrap(n) == ((n + 2^(Width - 1)) % 2^Width) - 2^(Width - 1)

\* Go's integer division truncates toward zero.
Half(d) == IF d >= 0 THEN d \div 2 ELSE -((-d) \div 2)

\* Fault: the cap is applied after the doubling, which may have wrapped.
Doubled_CapLate(base, max, shift) ==
  LET cd[i \in 0..shift] == IF i = 0 THEN base ELSE Wrap(cd[i-1] * 2)
  IN  IF cd[shift] > max THEN max ELSE cd[shift]

\* The doubling loop: at most `shift` doublings, left early at the cap.
Doubled(base, max, shift) ==
  LET cd[i \in 0..shift] ==
        IF i = 0 THEN base
        ELSE IF cd[i-1] > Half(max) \/ cd[i-1] > Half(MaxDuration) THEN max
        ELSE Wrap(cd[i-1] * 2)
  IN  cd[shift]

SaturatingCooldown(base, max, failures) ==
  LET shift == IF failures < 1 THEN 0 ELSE failures - 1
  IN  CASE base <= 0 \/ max <= 0 -> 0
        [] base > 0 /\ max > 0 /\ (base >= max \/ shift > Width - 1) -> max
        [] OTHER -> Doubled(base, max, shift)
=============================================================================
