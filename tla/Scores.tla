------------------------------ MODULE Scores ------------------------------
(* Provider scores, as fractions num/den of calls that went well, and what     *)
(* safety rule S4 makes of the best of them.                                   *)
EXTENDS Integers

\* The score of a provider is 1 - error_rate, or 0 while its circuit is open; one
\* that has nothing to go by is taken to be well.
Score(open, good, bad) ==
  IF open THEN [num |-> 0, den |-> 1]
  ELSE IF good + bad = 0 THEN [num |-> 1, den |-> 1]
  ELSE [num |-> good, den |-> good + bad]

NoBetter(x, y) == x.num * y.den <= y.num * x.den

\* Rule S4: a best score under 0.6 scales the request down, int(n * best).
Degraded(best) == 10 * best.num < 6 * best.den
Scaled(n, best) == (n * best.num) \div best.den
=============================================================================
