----------------------------- MODULE RetryPacing -----------------------------
(***************************************************************************)
(* When the next rotation attempt of one route is due: BackoffFor of       *)
(* internal/rotation/backoff.go, the Retry-After hint of probe.go, and the *)
(* terminal bookkeeping of engine.go (rotate) that combines them.          *)
(* Durations have Width bits; the jitter is any of JitterSteps.            *)
(***************************************************************************)
EXTENDS Backoff, FiniteSets

CONSTANTS
  Second,       \* one second, in duration units
  JitterSteps,  \* jitter in percent of the base, added to 90
  Intervals,    \* rotate-interval values
  Ceilings,     \* retry-backoff-max values
  Hints,        \* Retry-After values a provider may send, in seconds
  MaxRun        \* bound on the run of unchanged addresses

ASSUME PacingAssumption ==
  /\ Second \in 1..MaxDuration
  /\ JitterSteps # {} /\ JitterSteps \subseteq 0..19
  /\ Intervals \subseteq 1..MaxDuration
  /\ Ceilings \subseteq 1..MaxDuration
  /\ Hints \subseteq Int
  /\ MaxRun \in Nat

VARIABLES
  interval,     \* rotate-interval of the route
  ceiling,      \* rotation.retry-backoff-max
  consecutive,  \* unchanged results in a row
  hint,         \* seconds the provider asked for, 0 for none
  wait          \* how far away the route's next attempt was set

pacingVars == <<interval, ceiling, consecutive, hint, wait>>

AtMost(x, y)  == IF x < y THEN x ELSE y
AtLeast(x, y) == IF x > y THEN x ELSE y

\* float64 to Duration: an out-of-range value converts to either extreme,
\* depending on the architecture.
Converted(d) == IF d <= MaxDuration THEN {d} ELSE {MaxDuration, -MaxDuration - 1}

\* Every duration BackoffFor may return.
BackoffFor(every, run, max) ==
  LET base == SaturatingCooldown(every, max, AtLeast(run, 1))
      jittered == UNION {Converted((base * (90 + k)) \div 100) : k \in JitterSteps}
  IN  {IF j <= 0 THEN base ELSE AtMost(j, max) : j \in jittered}

\* Fault: seconds are taken for durations.
ParseRetryAfter_Unscaled(seconds) == IF seconds <= 0 THEN 0 ELSE seconds

\* parseRetryAfter multiplies without a range check.
ParseRetryAfter(seconds) == IF seconds <= 0 THEN 0 ELSE Wrap(seconds * Second)

PacingInit ==
  /\ interval \in Intervals
  /\ ceiling \in Ceilings
  /\ consecutive = 0
  /\ hint = 0
  /\ wait = interval

\* The rotation changed the address: clearConsecutive, due after one interval.
RotationComplete ==
  /\ consecutive' = 0
  /\ hint' = 0
  /\ wait' = interval
  /\ UNCHANGED <<interval, ceiling>>

NextWait(seconds, backoff) == AtMost(AtLeast(ParseRetryAfter(seconds), backoff), ceiling)

\* The address did not change: bumpConsecutive, back off, clamp the hint.
RotationUnchanged ==
  /\ consecutive < MaxRun
  /\ consecutive' = consecutive + 1
  /\ \E seconds \in Hints, backoff \in BackoffFor(interval, consecutive + 1, ceiling) :
       /\ hint' = seconds
       /\ wait' = NextWait(seconds, backoff)
  /\ UNCHANGED <<interval, ceiling>>

PacingNext == RotationComplete \/ RotationUnchanged

PacingSpec == PacingInit /\ [][PacingNext]_pacingVars

-----------------------------------------------------------------------------
(* Correctness.                                                            *)

\* The curve as a formula of unbounded arithmetic.
Curve(every, run, max) == AtMost(every * 2^(run - 1), max)

\* "Retries never stop; they only slow down": whatever the configured
\* durations, the wait after n unchanged results is at least the saturated
\* doubling less its jitter, positive, and never above retry-backoff-max
\* (backoff.go BackoffFor, engine.go rotate).
WaitFollowsCurve ==
  consecutive > 0 =>
    /\ wait \in 1..ceiling
    /\ 100 * (wait + 1) > 90 * Curve(interval, consecutive, ceiling)

\* A Retry-After of N seconds raises the next wait to at least N seconds,
\* still capped by retry-backoff-max, as long as N seconds are a duration at
\* all: a longer hint wraps around and may be lost (docs/rotation.md, probe.go
\* parseRetryAfter).
HintRaisesWait ==
  consecutive > 0 /\ hint * Second <= MaxDuration => wait >= AtMost(hint * Second, ceiling)
=============================================================================
