------------------------------ MODULE Backoff -------------------------------
(***************************************************************************)
(* ExponentialBackoff (internal/remote/runner.go), the delay between       *)
(* reconnects and between retries of a health report, as an operator.  A   *)
(* time.Duration is a signed integer of Bits bits (64 in Go) that wraps    *)
(* around.                                                                 *)
(***************************************************************************)
EXTENDS Integers

CONSTANT Bits            \* width of a duration

ASSUME BitsAssumption == Bits \in Nat /\ Bits > 1

MaxInt == 2^(Bits - 1) - 1

\* The value an arithmetic result has after it was stored in Bits bits.
Wrap(x) == ((x + 2^(Bits - 1)) % 2^Bits) - 2^(Bits - 1)

\* Mutant: the last doubling is returned as it is.
ExponentialUnclamped(base, max, attempt) ==
    LET d[i \in Nat] == IF i = 0 THEN base
                        ELSE IF d[i - 1] >= max THEN max
                        ELSE Wrap(2 * d[i - 1])
    IN  d[(IF attempt < 1 THEN 1 ELSE attempt) - 1]

\* d[i] is the loop variable after i rounds; a round that finds it at max or
\* above ends the loop with max.
ExponentialBackoff(base, max, attempt) ==
    LET d[i \in Nat] == IF i = 0 THEN base
                        ELSE IF d[i - 1] >= max THEN max
                        ELSE Wrap(2 * d[i - 1])
        n == (IF attempt < 1 THEN 1 ELSE attempt) - 1
    IN  IF d[n] > max THEN max ELSE d[n]
=============================================================================
