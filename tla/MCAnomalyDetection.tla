------------------------- MODULE MCAnomalyDetection -------------------------
(* Instances of AnomalyDetection for TLC.                                  *)
EXTENDS AnomalyDetection

CONSTANT Precision  \* bits in the mantissa of a float

\* x to the nearest multiple of its last place, ties to even.
Rounded(x) ==
  IF Abs(x) < 2^Precision THEN x
  ELSE LET place == CHOOSE p \in {2^k : k \in 1 .. 30 - Precision} :
                      Abs(x) \div p \in 2^(Precision - 1) .. 2^Precision - 1
           q == Abs(x) \div place
           r == 2 * (Abs(x) % place)
           up == r > place \/ (r = place /\ q % 2 = 1)
           m == place * (IF up THEN q + 1 ELSE q)
       IN IF x < 0 THEN -m ELSE m

\* Only the temperature has a limit that a sample exceeds.
SmallAbsMax == [t \in Types |-> IF t = Temperature THEN 6 ELSE 1000]

Sigma(w, c, e) == [warning |-> w, critical |-> c, emergency |-> e]
Standard == Sigma(2, 3, 4)

\* What the shell accepts: thresholds out of order.
Unordered == {Sigma(4, 1, 9)}
=============================================================================
