-------------------------------- MODULE Units --------------------------------
(***************************************************************************)
(* internal/units: quantities as capsize rounds them and as it prints      *)
(* them.  A printed quantity is not text here but the quantity the text    *)
(* denotes, once somebody has pasted it into a manifest.                   *)
(***************************************************************************)
EXTENDS Integers

CONSTANT UnitSizes   \* bytes in a byte, a Ki, a Mi, a Gi, a Ti

ASSUME UnitSizesAssumption == UnitSizes \subseteq Nat \ {0} /\ 1 \in UnitSizes

RoundUp(n, unit) == IF n <= 0 THEN 0 ELSE ((n + unit - 1) \div unit) * unit

\* The unit Bytes chooses: the largest that is not above the quantity.
UnitOf(n) == CHOOSE u \in UnitSizes : u <= n /\ \A v \in UnitSizes : v <= n => v <= u

\* Mutation: no decimal is printed.
WholeUnits(n) == 10 * (n \div UnitOf(n))

\* One decimal, to the nearest, ties to even, as strconv.FormatFloat does.
Tenths(n) ==
  LET unit == UnitOf(n)
      down == (10 * n) \div unit
      rest == (10 * n) % unit
  IN  IF 2 * rest > unit \/ (2 * rest = unit /\ down % 2 = 1) THEN down + 1 ELSE down

\* What Bytes(n) denotes; Kubernetes rounds a fraction of a byte up.
Printed(n) == IF n = 0 THEN 0 ELSE (Tenths(n) * UnitOf(n) + 9) \div 10
=============================================================================
