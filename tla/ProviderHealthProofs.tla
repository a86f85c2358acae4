----------------------- MODULE ProviderHealthProofs -----------------------
(* Proofs about ProviderHealth, for any providers, window, threshold, cooldown *)
(* and number of probes.                                                       *)
EXTENDS ProviderHealth, Induction, TLAPS

Results == [Age -> Nat]

BreakerRow ==
  [state : {"closed", "open", "half_open"}, left : 0 .. Cooldown,
   probes : 0 .. HalfOpenProbes, good : Results, bad : Results]

\* A breaker that has gone half-open goes on before the last probe is counted.
Sound(b) == b \in BreakerRow /\ (b.state = "half_open" => b.probes < HalfOpenProbes)

HInv ==
  /\ breakers \in [Provider -> BreakerRow]
  /\ \A p \in Provider : Sound(breakers[p])

LEMMA BreakerConstants ==
  /\ Window \in Nat /\ Cooldown \in Nat /\ HalfOpenProbes \in Nat \ {0}
  /\ 0 \in Age /\ Window \in Age /\ Window + 1 \in Age
  /\ NoResults \in Results
  /\ \A i \in Age : i # 0 => i - 1 \in Age
BY BreakerAssumption DEF Age, NoResults, Results

-----------------------------------------------------------------------------
(* Counting the results: what the recursion of CountOf computes.               *)

LEMMA CountOfIs ==
  ASSUME NEW r \in Results
  PROVE  /\ \A i \in Age : CountOf(r, i) \in Nat
         /\ CountOf(r, 0) = r[0]
         /\ \A i \in 1 .. Window + 1 : CountOf(r, i) = r[i] + CountOf(r, i - 1)
<1> DEFINE Sums(g) == g = [i \in Age |-> r[i] + (IF i = 0 THEN 0 ELSE g[i - 1])]
           upTo == CHOOSE g : Sums(g)
           step == [x \in (1 .. (Window + 1)) \X Nat |-> r[x[1]] + x[2]]
<1>1. /\ Window + 1 \in Nat /\ Age = 0 .. (Window + 1) /\ 1 .. (Window + 1) \subseteq Age
      /\ 0 \in Age /\ (\A i \in Age : r[i] \in Nat)
  BY BreakerConstants DEF Age, Results
<1>2. step \in [(1 .. (Window + 1)) \X Nat -> Nat]
  BY <1>1
<1>3. \A i \in 1 .. (Window + 1), n \in Nat : step[<<i, n>>] = r[i] + n
  OBVIOUS
<1> HIDE DEF step
<1>4. PICK f \in [0 .. (Window + 1) -> Nat] :
        f[0] = r[0] /\ \A i \in 1 .. (Window + 1) : f[i] = step[<<i, f[i - 1]>>]
  <2> DEFINE n == Window + 1
             start == r[0]
             Value == Nat
  <2>1. n \in Nat /\ start \in Value /\ step \in [(1 .. n) \X Value -> Value]
    BY <1>1, <1>2
  <2> HIDE DEF n, start, Value
  <2>2. \E f : Steps(f, n, Value, start, step)
    BY <2>1, StepByStep
  <2> QED
    BY <2>2 DEF Steps, n, start, Value
<1>5. \A i \in 1 .. (Window + 1) : f[i] = r[i] + f[i - 1]
  <2> TAKE i \in 1 .. (Window + 1)
  <2>1. f[i - 1] \in Nat
    BY <1>1, <1>4
  <2> QED
    BY <1>3, <1>4, <2>1
<1>6. Sums(f)
  <2>1. \A i \in Age : f[i] = r[i] + (IF i = 0 THEN 0 ELSE f[i - 1])
    BY <1>1, <1>4, <1>5
  <2> QED
    BY <1>1, <1>4, <2>1
<1>7. Sums(upTo)
  <2> HIDE DEF Sums
  <2> QED BY <1>6
<1>8. \A i : CountOf(r, i) = upTo[i]
  BY DEF CountOf
<1> HIDE DEF upTo
<1>9. \A i \in Age : upTo[i] = r[i] + (IF i = 0 THEN 0 ELSE upTo[i - 1])
  BY <1>7
<1>10. Age = {i \in Nat : i \in Age /\ upTo[i] \in Nat}
  <2> DEFINE S == {i \in Nat : i \in Age => upTo[i] \in Nat}
  <2>1. 0 \in S
    BY <1>1, <1>9
  <2>2. ASSUME NEW i \in S PROVE i + 1 \in S
    <3> SUFFICES ASSUME i + 1 \in Age PROVE upTo[i + 1] \in Nat
      OBVIOUS
    <3>1. i \in Nat /\ i \in Age /\ upTo[i] \in Nat
      BY <1>1
    <3>2. upTo[i + 1] = r[i + 1] + upTo[i]
      BY <1>9, <3>1
    <3> QED
      BY <1>1, <3>1, <3>2
  <2>3. S = Nat
    <3>1. S \in SUBSET Nat
      OBVIOUS
    <3> HIDE DEF S
    <3> QED BY <2>1, <2>2, <3>1, EveryNumber
  <2> QED
    BY <1>1, <2>3
<1>11. upTo[0] = r[0]
  BY <1>1, <1>9
<1>12. \A i \in 1 .. Window + 1 : upTo[i] = r[i] + upTo[i - 1]
  BY <1>1, <1>9
<1> QED
  BY <1>8, <1>10, <1>11, <1>12

\* A count does not look at what is older.
LEMMA CountOfYoung ==
  ASSUME NEW r \in Results, NEW q \in Results, NEW n \in 0 .. Window + 1,
         \A i \in 0 .. n : q[i] = r[i]
  PROVE  CountOf(q, n) = CountOf(r, n)
<1> DEFINE S == {i \in Nat : i <= n => CountOf(q, i) = CountOf(r, i)}
<1>1. 0 \in S
  BY CountOfIs
<1>2. ASSUME NEW i \in S PROVE i + 1 \in S
  <2> SUFFICES ASSUME i + 1 <= n PROVE CountOf(q, i + 1) = CountOf(r, i + 1)
    OBVIOUS
  <2>1. i + 1 \in 1 .. Window + 1 /\ i + 1 \in 0 .. n /\ (i + 1) - 1 = i
    BY BreakerConstants
  <2> QED
    BY <2>1, CountOfIs
<1>3. S = Nat
  <2>1. S \in SUBSET Nat
    OBVIOUS
  <2> HIDE DEF S
  <2> QED BY <1>1, <1>2, <2>1, EveryNumber
<1> QED
  BY <1>3

\* One more result of age 0 is counted once.
LEMMA CountOfOneMore ==
  ASSUME NEW r \in Results, NEW n \in 0 .. Window + 1
  PROVE  CountOf([r EXCEPT ![0] = r[0] + 1], n) = CountOf(r, n) + 1
<1> DEFINE q == [r EXCEPT ![0] = r[0] + 1]
           S == {i \in Nat : i <= n => CountOf(q, i) = CountOf(r, i) + 1}
<1>1. /\ q \in Results /\ q[0] = r[0] + 1
      /\ \A i \in Age : i # 0 => q[i] = r[i]
      /\ \A i \in Age : r[i] \in Nat
  BY BreakerConstants DEF Results
<1> HIDE DEF q
<1>2. 0 \in S
  BY <1>1, CountOfIs
<1>3. ASSUME NEW i \in S PROVE i + 1 \in S
  <2> SUFFICES ASSUME i + 1 <= n PROVE CountOf(q, i + 1) = CountOf(r, i + 1) + 1
    OBVIOUS
  <2>1. i + 1 \in 1 .. Window + 1 /\ (i + 1) - 1 = i /\ i + 1 \in Age /\ i + 1 # 0 /\ i \in Age
    BY BreakerConstants DEF Age
  <2>2. CountOf(q, i + 1) = r[i + 1] + (CountOf(r, i) + 1)
    BY <1>1, <2>1, CountOfIs
  <2> QED
    BY <1>1, <2>1, <2>2, CountOfIs
<1>4. S = Nat
  <2>1. S \in SUBSET Nat
    OBVIOUS
  <2> HIDE DEF S
  <2> QED BY <1>2, <1>3, <2>1, EveryNumber
<1>5. n \in Nat /\ n <= n
  BY BreakerConstants
<1>6. n \in S
  BY <1>4, <1>5
<1> QED
  BY <1>5, <1>6 DEF q

\* Of what is left when stale results are gone, all are within the window.
LEMMA CountOfTrimmed ==
  ASSUME NEW r \in Results
  PROVE  CountOf([r EXCEPT ![Window + 1] = 0], Window + 1) = CountOf(r, Window)
<1> DEFINE q == [r EXCEPT ![Window + 1] = 0]
<1>1. q \in Results /\ q[Window + 1] = 0 /\ \A i \in 0 .. Window : q[i] = r[i]
  BY BreakerConstants DEF Results, Age
<1> HIDE DEF q
<1>2. Window \in 0 .. Window + 1 /\ Window + 1 \in 1 .. Window + 1 /\ (Window + 1) - 1 = Window
  BY BreakerConstants
<1>3. CountOf(q, Window + 1) = q[Window + 1] + CountOf(q, Window)
  BY <1>1, <1>2, CountOfIs
<1>4. CountOf(q, Window) = CountOf(r, Window)
  BY <1>1, <1>2, CountOfYoung
<1>5. CountOf(r, Window) \in Nat
  BY BreakerConstants, CountOfIs
<1> QED
  BY <1>1, <1>3, <1>4, <1>5 DEF q

-----------------------------------------------------------------------------
(* The operations of CircuitBreaker.                                           *)

LEMMA OpenIsSound ==
  ASSUME NEW b \in BreakerRow
  PROVE  Sound(Open(b)) /\ Open(b).state = "open"
<1>1. Open(b) \in BreakerRow
  <2>1. Cooldown \in 0 .. Cooldown /\ 0 \in 0 .. HalfOpenProbes
    BY BreakerConstants
  <2> QED
    BY <2>1 DEF Open, BreakerRow
<1>2. Open(b).state = "open"
  BY DEF Open, BreakerRow
<1> QED
  BY <1>1, <1>2 DEF Sound

LEMMA ClosedIsSound == Sound(Closed)
BY BreakerConstants DEF Closed, Sound, BreakerRow

\* A result of a kind that is counted.
LEMMA OneResult ==
  ASSUME NEW r \in Results, NEW i \in Age, NEW n \in Nat
  PROVE  [r EXCEPT ![i] = n] \in Results
BY DEF Results

LEMMA TrimIs ==
  ASSUME NEW b \in BreakerRow
  PROVE  /\ Trim(b) \in BreakerRow
         /\ Trim(b).state = b.state /\ Trim(b).probes = b.probes /\ Trim(b).left = b.left
<1> DEFINE good == [b.good EXCEPT ![Window + 1] = 0]
           bad == [b.bad EXCEPT ![Window + 1] = 0]
<1>1. good \in Results /\ bad \in Results
  BY BreakerConstants, OneResult DEF BreakerRow
<1>2. Trim(b) = [b EXCEPT !.good = good, !.bad = bad]
  BY DEF Trim, BreakerRow
<1> HIDE DEF good, bad
<1> QED
  BY <1>1, <1>2 DEF BreakerRow

LEMMA AppendIs ==
  ASSUME NEW b \in BreakerRow, NEW ok \in BOOLEAN
  PROVE  /\ Append(b, ok) \in BreakerRow
         /\ Append(b, ok).state = b.state /\ Append(b, ok).probes = b.probes
         /\ Append(b, ok).left = b.left
<1>1. CASE ok
  <2> DEFINE good == [b.good EXCEPT ![0] = b.good[0] + 1]
             new == [b EXCEPT !.good = good]
  <2>1. b.good \in Results /\ b.good[0] + 1 \in Nat
    BY BreakerConstants DEF BreakerRow, Results
  <2>2. good \in Results
    BY <2>1, BreakerConstants, OneResult
  <2>3. Append(b, ok) = Trim(new)
    BY <1>1 DEF Append, BreakerRow
  <2> HIDE DEF good
  <2>4. new \in BreakerRow /\ new.state = b.state /\ new.probes = b.probes /\ new.left = b.left
    BY <2>2 DEF BreakerRow
  <2> HIDE DEF new
  <2> QED
    BY <2>3, <2>4, TrimIs
<1>2. CASE ~ok
  <2> DEFINE bad == [b.bad EXCEPT ![0] = b.bad[0] + 1]
             new == [b EXCEPT !.bad = bad]
  <2>1. b.bad \in Results /\ b.bad[0] + 1 \in Nat
    BY BreakerConstants DEF BreakerRow, Results
  <2>2. bad \in Results
    BY <2>1, BreakerConstants, OneResult
  <2>3. Append(b, ok) = Trim(new)
    BY <1>2 DEF Append, BreakerRow
  <2> HIDE DEF bad
  <2>4. new \in BreakerRow /\ new.state = b.state /\ new.probes = b.probes /\ new.left = b.left
    BY <2>2 DEF BreakerRow
  <2> HIDE DEF new
  <2> QED
    BY <2>3, <2>4, TrimIs
<1> QED
  BY <1>1, <1>2

\* What a breaker knows after a result: what it knew of the window, and the result.
LEMMA AppendCounts ==
  ASSUME NEW b \in BreakerRow, NEW ok \in BOOLEAN
  PROVE  /\ Good(Append(b, ok)) = CountOf(b.good, Window) + (IF ok THEN 1 ELSE 0)
         /\ Bad(Append(b, ok)) = CountOf(b.bad, Window) + (IF ok THEN 0 ELSE 1)
<1> DEFINE good == IF ok THEN [b.good EXCEPT ![0] = b.good[0] + 1] ELSE b.good
           bad == IF ok THEN b.bad ELSE [b.bad EXCEPT ![0] = b.bad[0] + 1]
<1>1. b.good \in Results /\ b.bad \in Results /\ b.good[0] \in Nat /\ b.bad[0] \in Nat
  BY BreakerConstants DEF BreakerRow, Results
<1>2. good \in Results /\ bad \in Results
  BY <1>1, BreakerConstants, OneResult
<1>3. /\ Append(b, ok).good = [good EXCEPT ![Window + 1] = 0]
      /\ Append(b, ok).bad = [bad EXCEPT ![Window + 1] = 0]
  <2> DEFINE new == [b EXCEPT !.good = good, !.bad = bad]
  <2>1. Append(b, ok) = Trim(new)
    BY DEF Append, BreakerRow
  <2>2. new.good = good /\ new.bad = bad /\ new \in BreakerRow
    BY <1>2 DEF BreakerRow
  <2> HIDE DEF new
  <2> QED
    BY <2>1, <2>2 DEF Trim, BreakerRow
<1>4. Window \in 0 .. Window + 1
  BY BreakerConstants
<1>5. /\ CountOf(good, Window) = CountOf(b.good, Window) + (IF ok THEN 1 ELSE 0)
      /\ CountOf(bad, Window) = CountOf(b.bad, Window) + (IF ok THEN 0 ELSE 1)
  <2>1. CountOf(b.good, Window) \in Nat /\ CountOf(b.bad, Window) \in Nat
    BY <1>1, BreakerConstants, CountOfIs
  <2> QED
    BY <1>1, <1>4, <2>1, CountOfOneMore
<1> HIDE DEF good, bad
<1> QED
  BY <1>2, <1>3, <1>5, CountOfTrimmed DEF Good, Bad

LEMMA RecordedIsSound ==
  ASSUME NEW before, Sound(before), NEW ok \in BOOLEAN
  PROVE  Sound(Recorded(before, ok))
<1> DEFINE b == Append(before, ok)
           probing == [b EXCEPT !.probes = @ + 1]
<1>1. /\ b \in BreakerRow /\ (b.state = "half_open" => b.probes < HalfOpenProbes)
  BY AppendIs DEF Sound
<1>2. /\ b.state = "half_open" /\ ok =>
           Recorded(before, ok) =
             IF Probed(probing)
             THEN [probing EXCEPT !.state = "closed", !.good = NoResults, !.bad = NoResults]
             ELSE probing
      /\ b.state = "half_open" /\ ~ok => Recorded(before, ok) = Open(b)
      /\ b.state # "half_open" => Recorded(before, ok) \in {Open(b), b}
  BY <1>1 DEF Recorded
<1> HIDE DEF b
<1>3. CASE b.state = "half_open" /\ ok
  <2>1. b.probes \in 0 .. HalfOpenProbes
    BY <1>1 DEF BreakerRow
  <2>2. /\ probing \in BreakerRow /\ probing.state = "half_open"
        /\ probing.probes = b.probes + 1
    BY <1>1, <1>3, <2>1, BreakerConstants DEF BreakerRow
  <2> HIDE DEF probing
  <2>3. CASE Probed(probing)
    <3>1. [probing EXCEPT !.state = "closed", !.good = NoResults, !.bad = NoResults] \in BreakerRow
      <4> DEFINE shut == [probing EXCEPT !.state = "closed"]
                 good == [shut EXCEPT !.good = NoResults]
      <4>1. shut \in BreakerRow
        BY <2>2 DEF BreakerRow
      <4>2. good \in BreakerRow
        BY <4>1, BreakerConstants DEF BreakerRow
      <4>3. [good EXCEPT !.bad = NoResults] \in BreakerRow
        BY <4>2, BreakerConstants DEF BreakerRow
      <4> QED
        BY <4>3
    <3>2. [probing EXCEPT !.state = "closed", !.good = NoResults, !.bad = NoResults].state = "closed"
      BY <2>2 DEF BreakerRow
    <3> QED
      BY <1>2, <1>3, <2>3, <3>1, <3>2 DEF Sound
  <2>4. CASE ~Probed(probing)
    <3>1. Recorded(before, ok) = probing
      BY <1>2, <1>3, <2>4
    <3>2. probing.probes < HalfOpenProbes
      BY <2>1, <2>2, <2>4, BreakerConstants DEF Probed
    <3> QED
      BY <2>2, <3>1, <3>2 DEF Sound
  <2> QED
    BY <2>3, <2>4
<1>4. CASE b.state = "half_open" /\ ~ok
  BY <1>1, <1>2, <1>4, OpenIsSound
<1>5. CASE b.state # "half_open"
  BY <1>1, <1>2, <1>5, OpenIsSound DEF Sound
<1> QED
  BY <1>3, <1>4, <1>5

LEMMA AllowingIsSound ==
  ASSUME NEW b, Sound(b)
  PROVE  /\ Sound(Allowing(b))
         /\ b.state = "open" /\ b.left > 0 => Allowing(b).state = "open"
<1>1. CASE b.state = "open" /\ b.left = 0
  <2> DEFINE new == [b EXCEPT !.state = "half_open", !.probes = 0]
  <2>1. new \in BreakerRow /\ new.probes = 0
    <3>1. 0 \in 0 .. HalfOpenProbes /\ b \in BreakerRow
      BY BreakerConstants DEF Sound
    <3> QED
      BY <3>1 DEF BreakerRow
  <2>2. Allowing(b) = new
    BY <1>1 DEF Allowing
  <2> HIDE DEF new
  <2> QED
    BY <1>1, <2>1, <2>2, BreakerConstants DEF Sound
<1>2. CASE ~(b.state = "open" /\ b.left = 0)
  BY <1>2 DEF Allowing
<1> QED
  BY <1>1, <1>2

LEMMA OlderIsTyped ==
  ASSUME NEW r \in Results
  PROVE  Older(r) \in Results
<1>1. ASSUME NEW i \in Age
      PROVE  Older(r)[i] \in Nat
  BY BreakerConstants DEF Older, Results
<1> QED
  BY <1>1 DEF Older, Results

-----------------------------------------------------------------------------
(* The invariant.                                                              *)

LEMMA HealthIsSound ==
  ASSUME HInv
  PROVE  /\ Health \in [Provider -> BreakerRow]
         /\ \A p \in Provider : Sound(Health[p])
BY AllowingIsSound DEF HInv, Health, Sound

LEMMA HealthStep ==
  ASSUME HInv, up \in [Provider -> BOOLEAN], [HealthNext]_healthVars
  PROVE  HInv'
<1>1. CASE UNCHANGED breakers
  BY <1>1 DEF HInv, Sound
<1>2. CASE breakers' = Health
  BY <1>2, HealthIsSound DEF HInv, Sound
<1>3. ASSUME NEW p \in Provider, Result(p)
      PROVE  HInv'
  <2>1. breakers' = [breakers EXCEPT ![p] = Recorded(breakers[p], up[p])]
    BY <1>3 DEF Result
  <2>2. Sound(Recorded(breakers[p], up[p]))
    BY RecordedIsSound DEF HInv
  <2>3. /\ breakers' \in [Provider -> BreakerRow]
        /\ breakers'[p] = Recorded(breakers[p], up[p])
        /\ \A q \in Provider \ {p} : breakers'[q] = breakers[q]
    BY <2>1, <2>2 DEF HInv, Sound
  <2> QED
    BY <2>2, <2>3 DEF HInv, Sound
<1>4. CASE Elapse
  <2> DEFINE aged(p) == [breakers[p] EXCEPT !.left = IF @ > 0 THEN @ - 1 ELSE 0,
                                            !.good = Older(@), !.bad = Older(@)]
  <2>1. breakers' = [p \in Provider |-> aged(p)]
    BY <1>4 DEF Elapse
  <2>2. ASSUME NEW p \in Provider
        PROVE  Sound(aged(p))
    <3> DEFINE b == breakers[p]
               left == IF b.left > 0 THEN b.left - 1 ELSE 0
               good == Older(b.good)
               bad == Older(b.bad)
    <3>1. b \in BreakerRow /\ (b.state = "half_open" => b.probes < HalfOpenProbes)
      BY DEF HInv, Sound
    <3> HIDE DEF b
    <3>2. left \in 0 .. Cooldown
      BY <3>1, BreakerConstants DEF BreakerRow
    <3>3. good \in Results /\ bad \in Results
      BY <3>1, OlderIsTyped DEF BreakerRow
    <3>4. aged(p) = [b EXCEPT !.left = left, !.good = good, !.bad = bad]
      BY <3>1 DEF b, BreakerRow
    <3> HIDE DEF left, good, bad, aged
    <3>5. aged(p) \in BreakerRow
      BY <3>1, <3>2, <3>3, <3>4 DEF BreakerRow
    <3>6. aged(p).state = b.state /\ aged(p).probes = b.probes
      BY <3>1, <3>4 DEF BreakerRow
    <3> QED
      BY <3>1, <3>5, <3>6 DEF Sound
  <2> HIDE DEF aged
  <2>3. \A p \in Provider : breakers'[p] = aged(p) /\ aged(p) \in BreakerRow
    BY <2>1, <2>2 DEF Sound
  <2>4. breakers' \in [Provider -> BreakerRow]
    BY <2>1, <2>3
  <2> QED
    BY <2>2, <2>3, <2>4 DEF HInv, Sound
<1> QED
  BY <1>1, <1>2, <1>3, <1>4
     DEF HealthNext, healthVars, Ask, Pick, PickNothing, Deadlock, Place, Raise, Outage

TypedHInv ==
  /\ HInv
  /\ up \in [Provider -> BOOLEAN] /\ ticking \in BOOLEAN
  /\ picked \in [Provider -> Nat] /\ flying \in [Provider -> Nat]
  /\ late \in [Provider -> Nat]

\* HInv is an inductive invariant of the breakers.
THEOREM BreakersAreSound == HealthSpec => []TypedHInv
<1>1. HealthInit => TypedHInv
  <2>1. ASSUME HealthInit PROVE HInv
    BY <2>1, ClosedIsSound DEF HealthInit, HInv, Sound
  <2> QED
    BY <2>1 DEF HealthInit, TypedHInv
<1>2. TypedHInv /\ [HealthNext]_healthVars => TypedHInv'
  <2> SUFFICES ASSUME TypedHInv, [HealthNext]_healthVars
               PROVE  TypedHInv'
    OBVIOUS
  <2>1. HInv'
    BY HealthStep DEF TypedHInv
  <2>2. up' \in [Provider -> BOOLEAN] /\ ticking' \in BOOLEAN
    BY DEF TypedHInv, HealthNext, healthVars, Ask, Pick, PickNothing, Deadlock, Place, Result,
           Raise, Elapse, Outage
  <2>3. /\ picked \in [Provider -> Nat] /\ flying \in [Provider -> Nat]
        /\ late \in [Provider -> Nat]
    BY DEF TypedHInv
  <2>4. ASSUME NEW f \in [Provider -> Nat], NEW p \in Provider
        PROVE  /\ [f EXCEPT ![p] = @ + 1] \in [Provider -> Nat]
               /\ f[p] > 0 => [f EXCEPT ![p] = @ - 1] \in [Provider -> Nat]
    OBVIOUS
  <2> DEFINE Typed ==
        picked' \in [Provider -> Nat] /\ flying' \in [Provider -> Nat] /\ late' \in [Provider -> Nat]
  <2>5. ASSUME Pick PROVE Typed
    BY <2>3, <2>4, <2>5 DEF Pick
  <2>6. ASSUME NEW p \in Provider, Deadlock(p) \/ Result(p) \/ Raise(p)
        PROVE  Typed
    BY <2>3, <2>4, <2>6 DEF Deadlock, Result, Raise
  <2>7. ASSUME NEW p \in Provider, Place(p)
        PROVE  Typed
    BY <2>3, <2>4, <2>7 DEF Place
  <2>8. ASSUME Elapse PROVE Typed
    BY <2>3, <2>8 DEF Elapse
  <2>9. ASSUME Ask \/ PickNothing \/ (\E p \in Provider : Outage(p)) \/ UNCHANGED healthVars
        PROVE  Typed
    BY <2>3, <2>9 DEF Ask, PickNothing, Outage, healthVars
  <2> QED
    BY <2>1, <2>2, <2>5, <2>6, <2>7, <2>8, <2>9 DEF HealthNext, TypedHInv
<1> QED
  BY <1>1, <1>2, PTL DEF HealthSpec

\* CircuitBreaker.record: a half-open breaker always has a probe left to give, however
\* many results of calls placed before it opened were counted as probes.
THEOREM HalfOpenIsNoTrap == HealthSpec => []HalfOpenAdmits
<1>1. TypedHInv => HalfOpenAdmits
  BY DEF TypedHInv, HInv, Sound, HalfOpenAdmits, Allows
<1> QED
  BY <1>1, BreakersAreSound, PTL

\* record: a closed circuit that opens has been tripped by its latest results.
LEMMA TrippedByRecent ==
  ASSUME NEW b \in BreakerRow, NEW ok \in BOOLEAN,
         b.state = "closed", Recorded(b, ok).state = "open"
  PROVE  LET good == CountOf(b.good, Window)
             bad == CountOf(b.bad, Window) + 1
         IN  good + bad >= MinCalls /\ bad * ErrDen >= ErrNum * (good + bad)
<1> DEFINE good == CountOf(b.good, Window)
           bad == CountOf(b.bad, Window)
           new == Append(b, ok)
<1>1. new \in BreakerRow /\ new.state = "closed"
  BY AppendIs
<1>2. Tripped(new)
  BY <1>1 DEF Recorded
<1>3. good \in Nat /\ bad \in Nat
  BY BreakerConstants, CountOfIs DEF BreakerRow
<1>4. /\ Good(new) = good + (IF ok THEN 1 ELSE 0)
      /\ Bad(new) = bad + (IF ok THEN 0 ELSE 1)
  BY AppendCounts
<1> HIDE DEF good, bad, new
<1>5. Good(new) + Bad(new) = good + (bad + 1)
  BY <1>3, <1>4
<1>6. bad + 1 >= Bad(new) /\ Bad(new) \in Nat
  BY <1>3, <1>4
<1>7. ErrDen \in Nat /\ ErrNum \in Nat
  BY BreakerAssumption
<1>8. (bad + 1) * ErrDen >= Bad(new) * ErrDen
  BY <1>3, <1>6, <1>7
<1>9. (bad + 1) * ErrDen >= ErrNum * (good + (bad + 1))
  <2>1. Bad(new) * ErrDen >= ErrNum * (good + (bad + 1))
    BY <1>2, <1>5 DEF Tripped
  <2>2. Bad(new) * ErrDen \in Nat /\ (bad + 1) * ErrDen \in Nat /\ ErrNum * (good + (bad + 1)) \in Nat
    BY <1>3, <1>6, <1>7
  <2> QED
    BY <1>8, <2>1, <2>2
<1> QED
  BY <1>2, <1>5, <1>9 DEF good, bad, Tripped

\* Only record opens a circuit.
THEOREM OpensOnErrors == HealthSpec => OpensOnRecentErrors
<1>1. ASSUME TypedHInv, [HealthNext]_healthVars, NEW p \in Provider,
             breakers[p].state = "closed", breakers'[p].state = "open"
      PROVE  LET good == CountOf(breakers[p].good, Window)
                 bad == CountOf(breakers[p].bad, Window) + 1
             IN  good + bad >= MinCalls /\ bad * ErrDen >= ErrNum * (good + bad)
  <2>1. breakers \in [Provider -> BreakerRow] /\ up[p] \in BOOLEAN
    BY <1>1 DEF TypedHInv, HInv
  <2>2. breakers' # breakers
    BY <1>1
  <2>3. breakers' # Health
    BY <1>1, <2>1 DEF Health, Allowing
  <2>4. ~Elapse
    <3> SUFFICES ASSUME Elapse PROVE FALSE
      OBVIOUS
    <3>1. breakers'[p].state = breakers[p].state
      BY <2>1 DEF Elapse, BreakerRow
    <3> QED
      BY <1>1, <3>1
  <2>5. PICK q \in Provider : Result(q)
    BY <1>1, <2>2, <2>3, <2>4 DEF HealthNext, healthVars, Ask, Pick, PickNothing, Deadlock, Place, Raise, Outage
  <2>6. q = p /\ breakers'[p] = Recorded(breakers[p], up[p])
    BY <1>1, <2>1, <2>5 DEF Result
  <2> QED
    BY <1>1, <2>1, <2>6, TrippedByRecent
<1>2. TypedHInv /\ [HealthNext]_healthVars =>
        [\A p \in Provider :
           breakers[p].state = "closed" /\ breakers'[p].state = "open" =>
             LET good == CountOf(breakers[p].good, Window)
                 bad == CountOf(breakers[p].bad, Window) + 1
             IN /\ good + bad >= MinCalls
                /\ bad * ErrDen >= ErrNum * (good + bad)]_healthVars
  BY <1>1
<1> QED
  BY <1>2, BreakersAreSound, PTL DEF HealthSpec, OpensOnRecentErrors

-----------------------------------------------------------------------------
(* The scores, and what rule S4 leaves of a request.                           *)

Scored == [num : Nat, den : Nat \ {0}]
Fraction(x) == x \in Scored /\ x.num <= x.den

LEMMA ScoreIsFraction ==
  ASSUME NEW b \in BreakerRow
  PROVE  Fraction(ScoreOf(b))
<1>1. Good(b) \in Nat /\ Bad(b) \in Nat
  BY BreakerConstants, CountOfIs DEF Good, Bad, BreakerRow
<1> QED
  BY <1>1 DEF ScoreOf, Score, Fraction, Scored

\* Scores can be compared by cross-multiplication.
LEMMA NoBetterIsAnOrder ==
  /\ \A x, y \in Scored : NoBetter(x, y) \/ NoBetter(y, x)
  /\ \A x, y, z \in Scored : NoBetter(x, y) /\ NoBetter(y, z) => NoBetter(x, z)
<1>1. ASSUME NEW x \in Scored, NEW y \in Scored
      PROVE  NoBetter(x, y) \/ NoBetter(y, x)
  <2>1. x.num * y.den \in Nat /\ y.num * x.den \in Nat
    BY DEF Scored
  <2> QED
    BY <2>1 DEF NoBetter
<1>2. ASSUME NEW x \in Scored, NEW y \in Scored, NEW z \in Scored, NoBetter(x, y), NoBetter(y, z)
      PROVE  NoBetter(x, z)
  <2>1. ASSUME NEW a \in Nat, NEW d \in Nat \ {0}, NEW b \in Nat, NEW e \in Nat \ {0},
               NEW c \in Nat, NEW f \in Nat \ {0}, a * e <= b * d, b * f <= c * e
        PROVE  a * f <= c * d
    <3>1. (a * e) * f <= (b * d) * f
      BY <2>1
    <3>2. (b * f) * d <= (c * e) * d
      BY <2>1
    <3>3. (a * f) * e <= (c * d) * e
      BY <3>1, <3>2
    <3> QED
      BY <3>3
  <2> QED
    BY <1>2, <2>1 DEF NoBetter, Scored
<1> QED
  BY <1>1, <1>2

\* The best score is one of the scores.
LEMMA BestIsOne ==
  ASSUME NEW f \in [Provider -> Scored]
  PROVE  \E p \in Provider : Best({f[q] : q \in Provider}) = f[p]
<1> DEFINE R == {x \in Provider \X Provider : NoBetter(f[x[1]], f[x[2]])}
<1>1. \A p, q \in Provider : <<p, q>> \in R <=> NoBetter(f[p], f[q])
  OBVIOUS
<1>2. R \in SUBSET (Provider \X Provider)
  OBVIOUS
<1> HIDE DEF R
<1>3. \E p \in Provider : \A q \in Provider : <<q, p>> \in R
  <2>1. \A p, q \in Provider : <<p, q>> \in R \/ <<q, p>> \in R
    BY <1>1, NoBetterIsAnOrder
  <2>2. \A p, q, r \in Provider : <<p, q>> \in R /\ <<q, r>> \in R => <<p, r>> \in R
    BY <1>1, NoBetterIsAnOrder
  <2> QED
    BY <1>2, <2>1, <2>2, ProviderAssumption, GreatestElement
<1>4. PICK p \in Provider : \A q \in Provider : NoBetter(f[q], f[p])
  BY <1>1, <1>3
<1> DEFINE scores == {f[q] : q \in Provider}
<1>5. \E best \in scores : \A other \in scores : NoBetter(other, best)
  BY <1>4
<1>6. Best(scores) \in scores
  <2> HIDE DEF scores
  <2> QED BY <1>5 DEF Best
<1> QED
  BY <1>6

\* S4 never asks for more.
LEMMA ApprovalsAreLess ==
  ASSUME NEW n \in Nat, NEW best, Fraction(best), NEW k \in Approvals(n, best)
  PROVE  k \in 0 .. n
<1>1. ASSUME NEW m \in Nat, NEW d \in Nat \ {0}, m <= n * d
      PROVE  m \div d \in 0 .. n
  BY <1>1
<1>2. n * best.num <= n * best.den /\ n * best.num \in Nat /\ best.den \in Nat \ {0}
  BY DEF Fraction, Scored
<1>3. Scaled(n, best) \in 0 .. n
  BY <1>1, <1>2 DEF Scaled
<1> QED
  BY <1>3 DEF Approvals

-----------------------------------------------------------------------------
(* The calls to come of one batch, over all providers.                         *)

\* So many calls of each provider.
Calls(n) == {x \in Provider \X (Nat \ {0}) : x[2] <= n[x[1]]}

ToCome == [p \in Provider |-> picked[p] + flying[p]]

LEMMA OneMoreCall ==
  ASSUME NEW n \in [Provider -> Nat], NEW p \in Provider, IsFiniteSet(Calls(n))
  PROVE  LET more == [n EXCEPT ![p] = n[p] + 1]
         IN  IsFiniteSet(Calls(more)) /\ Cardinality(Calls(more)) = Cardinality(Calls(n)) + 1
<1> DEFINE more == [n EXCEPT ![p] = n[p] + 1]
           new == <<p, n[p] + 1>>
<1>1. Calls(more) = Calls(n) \cup {new}
  <2>1. ASSUME NEW q \in Provider, NEW k \in Nat \ {0}
        PROVE  k <= more[q] <=> k <= n[q] \/ <<q, k>> = new
    BY <2>1
  <2>2. new \in Provider \X (Nat \ {0})
    OBVIOUS
  <2> HIDE DEF more, new
  <2> QED
    BY <2>1, <2>2 DEF Calls
<1>2. new \notin Calls(n)
  BY DEF Calls
<1> HIDE DEF new
<1>3. IsFiniteSet(Calls(n) \cup {new}) /\ Cardinality(Calls(n) \cup {new}) = Cardinality(Calls(n)) + 1
  BY <1>2, FS_AddElement
<1> QED
  BY <1>1, <1>3

LEMMA OneLessCall ==
  ASSUME NEW n \in [Provider -> Nat], NEW p \in Provider, n[p] > 0, IsFiniteSet(Calls(n))
  PROVE  LET less == [n EXCEPT ![p] = n[p] - 1]
         IN  IsFiniteSet(Calls(less)) /\ Cardinality(Calls(less)) = Cardinality(Calls(n)) - 1
<1> DEFINE less == [n EXCEPT ![p] = n[p] - 1]
           last == <<p, n[p]>>
<1>1. Calls(less) = Calls(n) \ {last}
  <2>1. ASSUME NEW q \in Provider, NEW k \in Nat \ {0}
        PROVE  k <= less[q] <=> k <= n[q] /\ <<q, k>> # last
    BY <2>1
  <2> HIDE DEF less, last
  <2> QED
    BY <2>1 DEF Calls
<1>2. last \in Calls(n)
  BY DEF Calls
<1> QED
  BY <1>1, <1>2, FS_RemoveElement

\* The calls of one provider are some of them.
LEMMA CallsOfOne ==
  ASSUME NEW n \in [Provider -> Nat], NEW p \in Provider, IsFiniteSet(Calls(n))
  PROVE  n[p] <= Cardinality(Calls(n))
<1> DEFINE f == [k \in 1 .. n[p] |-> <<p, k>>]
<1>1. f \in Injection(1 .. n[p], Calls(n))
  BY DEF Injection, IsInjective, Calls
<1>2. Cardinality(1 .. n[p]) = n[p]
  BY FS_Interval
<1> HIDE DEF f
<1> QED
  BY <1>1, <1>2, FS_Injection

\* All coroutines of the batch that are not done are at most as many as a tick asks
\* for.
BatchInv ==
  /\ todo \in Nat
  /\ IsFiniteSet(Calls(ToCome))
  /\ Cardinality(Calls(ToCome)) + todo <= MaxRequest

LEMMA CallsToCome ==
  ASSUME TypedHInv
  PROVE  ToCome \in [Provider -> Nat]
BY DEF TypedHInv, ToCome

LEMMA BatchBounds ==
  ASSUME TypedHInv, BatchInv, NEW p \in Provider
  PROVE  picked[p] + flying[p] + todo <= MaxRequest
<1>1. ToCome[p] <= Cardinality(Calls(ToCome)) /\ ToCome[p] = picked[p] + flying[p]
  BY CallsOfOne, CallsToCome DEF BatchInv, ToCome
<1>2. Cardinality(Calls(ToCome)) \in Nat /\ picked[p] \in Nat /\ flying[p] \in Nat
  BY FS_CardinalityType DEF BatchInv, TypedHInv
<1> QED
  BY <1>1, <1>2, BreakerAssumption DEF BatchInv

\* What a tick asks for, over what is still to come.
LEMMA AskedFor ==
  ASSUME TypedHInv, Ask
  PROVE  todo' \in 0 .. MaxRequest
<1>1. PICK n \in 1 .. MaxRequest :
        todo' \in Approvals(n, Best({ScoreOf(Health[p]) : p \in Provider}))
  BY DEF Ask
<1> DEFINE f == [p \in Provider |-> ScoreOf(Health[p])]
<1>2. \A p \in Provider : Fraction(f[p])
  BY HealthIsSound, ScoreIsFraction DEF TypedHInv
<1>3. f \in [Provider -> Scored]
  BY <1>2 DEF Fraction
<1>4. {f[q] : q \in Provider} = {ScoreOf(Health[p]) : p \in Provider}
  OBVIOUS
<1> HIDE DEF f
<1>5. Fraction(Best({ScoreOf(Health[p]) : p \in Provider}))
  BY <1>2, <1>3, <1>4, BestIsOne
<1>6. n \in Nat /\ 0 .. n \subseteq 0 .. MaxRequest
  BY BreakerAssumption
<1> QED
  BY <1>1, <1>5, <1>6, ApprovalsAreLess

LEMMA BatchStep ==
  ASSUME TypedHInv, TypedHInv', BatchInv, [HealthNext]_healthVars
  PROVE  BatchInv'
<1> DEFINE n == ToCome
           size == Cardinality(Calls(ToCome))
<1>1. /\ n \in [Provider -> Nat] /\ todo \in Nat /\ size \in Nat /\ MaxRequest \in Nat
      /\ \A p \in Provider : n[p] = picked[p] + flying[p] /\ picked[p] \in Nat /\ flying[p] \in Nat
      /\ picked \in [Provider -> Nat] /\ flying \in [Provider -> Nat]
  BY CallsToCome, FS_CardinalityType, BreakerAssumption DEF BatchInv, TypedHInv, ToCome
<1>2. ASSUME ToCome' = ToCome, todo' \in Nat, todo' <= todo
      PROVE  BatchInv'
  BY <1>1, <1>2 DEF BatchInv
<1>3. ASSUME NEW p \in Provider, n[p] > 0, ToCome' = [n EXCEPT ![p] = n[p] - 1],
             todo' \in Nat, todo' <= todo + 1
      PROVE  BatchInv'
  <2>1. IsFiniteSet(Calls(ToCome')) /\ Cardinality(Calls(ToCome')) = size - 1
    BY <1>1, <1>3, OneLessCall DEF BatchInv
  <2>2. Calls(ToCome)' = Calls(ToCome')
    BY DEF Calls
  <2> QED
    BY <1>1, <1>3, <2>1, <2>2 DEF BatchInv
<1>4. CASE Ask
  <2>1. \A p \in Provider : n[p] = 0
    BY <1>4 DEF Ask, ToCome
  <2>2. Calls(ToCome) = {}
    BY <2>1 DEF Calls
  <2>3. ToCome' = ToCome
    BY <1>4 DEF Ask, ToCome
  <2>4. todo' \in 0 .. MaxRequest
    BY <1>4, AskedFor
  <2>5. Calls(ToCome)' = {} /\ IsFiniteSet({}) /\ Cardinality({}) = 0
    BY <2>2, <2>3, FS_EmptySet
  <2> QED
    BY <1>1, <2>4, <2>5 DEF BatchInv
<1>5. CASE Pick
  <2>1. todo' = todo - 1 /\ todo > 0 /\ flying' = flying
    BY <1>5 DEF Pick
  <2>2. CASE picked' = picked
    BY <1>1, <1>2, <2>1, <2>2 DEF ToCome
  <2>3. ASSUME NEW p \in Provider, picked' = [picked EXCEPT ![p] = @ + 1]
        PROVE  BatchInv'
    <3>1. ToCome' = [n EXCEPT ![p] = n[p] + 1]
      BY <1>1, <2>1, <2>3 DEF ToCome
    <3>2. IsFiniteSet(Calls(ToCome')) /\ Cardinality(Calls(ToCome')) = size + 1
      BY <1>1, <3>1, OneMoreCall DEF BatchInv
    <3>3. Calls(ToCome)' = Calls(ToCome')
      BY DEF Calls
    <3> QED
      BY <1>1, <2>1, <3>2, <3>3 DEF BatchInv
  <2> QED
    BY <1>5, <2>2, <2>3 DEF Pick
<1>6. CASE PickNothing
  BY <1>1, <1>2, <1>6 DEF PickNothing, ToCome
<1>7. ASSUME NEW p \in Provider, Deadlock(p)
      PROVE  BatchInv'
  <2>1. ToCome' = [n EXCEPT ![p] = n[p] - 1] /\ n[p] > 0
    BY <1>1, <1>7 DEF Deadlock, ToCome
  <2>2. todo' \in Nat /\ todo' <= todo + 1
    BY <1>1, <1>7 DEF Deadlock
  <2> QED
    BY <1>3, <2>1, <2>2
<1>8. ASSUME NEW p \in Provider, Place(p)
      PROVE  BatchInv'
  <2>1. ToCome' = ToCome
    BY <1>1, <1>8 DEF Place, ToCome
  <2> QED
    BY <1>1, <1>2, <1>8, <2>1 DEF Place
<1>9. ASSUME NEW p \in Provider, Result(p) \/ Raise(p)
      PROVE  BatchInv'
  <2>1. ToCome' = [n EXCEPT ![p] = n[p] - 1] /\ n[p] > 0
    BY <1>1, <1>9 DEF Result, Raise, ToCome
  <2>2. todo' = todo
    BY <1>9 DEF Result, Raise
  <2>3. todo' \in Nat /\ todo' <= todo + 1
    BY <1>1, <2>2
  <2> QED
    BY <1>3, <2>1, <2>3
<1>10. CASE Elapse \/ (\E p \in Provider : Outage(p)) \/ UNCHANGED healthVars
  <2>1. picked' = picked /\ flying' = flying /\ todo' = todo
    BY <1>10 DEF Elapse, Outage, healthVars
  <2>2. ToCome' = ToCome /\ todo' \in Nat /\ todo' <= todo
    BY <1>1, <2>1 DEF ToCome
  <2> QED
    BY <1>2, <2>2
<1> QED
  BY <1>4, <1>5, <1>6, <1>7, <1>8, <1>9, <1>10 DEF HealthNext

-----------------------------------------------------------------------------
(* The calls of a cooldown.                                                    *)

\* What was placed in the cooldown, and what may still be.
LateInv ==
  \A p \in Provider :
    IF Cooling(breakers[p]) THEN late[p] + picked[p] < MaxRequest ELSE late[p] = 0

\* allow: nobody picks a provider in its cooldown, and asking does not end one early.
LEMMA AskedWhileCooling ==
  ASSUME NEW b, Sound(b)
  PROVE  /\ Cooling(Allowing(b)) <=> Cooling(b)
         /\ Cooling(b) => ~Allows(Allowing(b))
<1>1. Cooling(b) => Allowing(b) = b /\ b.state = "open"
  <2>1. Cooling(b) => b.state = "open" /\ b.left # 0
    BY DEF Cooling
  <2> QED
    BY <2>1 DEF Allowing
<1>2. ASSUME ~Cooling(b) PROVE ~Cooling(Allowing(b))
  <2>1. b \in BreakerRow
    BY DEF Sound
  <2>2. CASE b.state = "open" /\ b.left = 0
    BY <2>1, <2>2 DEF Allowing, Cooling, BreakerRow
  <2>3. CASE ~(b.state = "open" /\ b.left = 0)
    BY <1>2, <2>3 DEF Allowing
  <2> QED
    BY <2>2, <2>3
<1> QED
  BY <1>1, <1>2 DEF Allows, Cooling

\* record: an open circuit stays as it is, late results or not.
LEMMA RecordedWhileCooling ==
  ASSUME NEW b \in BreakerRow, NEW ok \in BOOLEAN, Cooling(b)
  PROVE  Cooling(Recorded(b, ok))
<1>1. Append(b, ok).state = "open" /\ Append(b, ok).left = b.left
  BY AppendIs DEF Cooling
<1>2. Recorded(b, ok) = Append(b, ok)
  BY <1>1 DEF Recorded
<1> QED
  BY <1>1, <1>2 DEF Cooling

LEMMA LateStep ==
  ASSUME TypedHInv, TypedHInv', BatchInv, LateInv, [HealthNext]_healthVars
  PROVE  LateInv'
<1>0. /\ breakers \in [Provider -> BreakerRow] /\ up \in [Provider -> BOOLEAN]
      /\ picked \in [Provider -> Nat] /\ flying \in [Provider -> Nat]
      /\ late \in [Provider -> Nat] /\ MaxRequest \in Nat \ {0} /\ todo \in Nat
      /\ picked' \in [Provider -> Nat] /\ late' \in [Provider -> Nat]
  BY BreakerAssumption DEF TypedHInv, HInv, BatchInv
<1> SUFFICES ASSUME NEW p \in Provider
             PROVE  IF Cooling(breakers'[p]) THEN late'[p] + picked'[p] < MaxRequest
                                             ELSE late'[p] = 0
  BY DEF LateInv, Cooling
<1>1. /\ Cooling(breakers[p]) => late[p] + picked[p] < MaxRequest
      /\ ~Cooling(breakers[p]) => late[p] = 0
  BY DEF LateInv
<1>2. ASSUME Cooling(breakers'[p]) <=> Cooling(breakers[p]), late'[p] = late[p],
             picked'[p] <= picked[p]
      PROVE  IF Cooling(breakers'[p]) THEN late'[p] + picked'[p] < MaxRequest
                                      ELSE late'[p] = 0
  BY <1>0, <1>1, <1>2
<1>3. ASSUME breakers' = Health
      PROVE  /\ Cooling(breakers'[p]) <=> Cooling(breakers[p])
             /\ Cooling(breakers[p]) => ~Allows(Health[p])
  BY <1>3, AskedWhileCooling DEF Health, TypedHInv, HInv
<1>4. CASE Ask
  BY <1>0, <1>2, <1>3, <1>4 DEF Ask
<1>5. CASE Pick
  <2>1. breakers' = Health /\ late' = late
    BY <1>5 DEF Pick
  <2>2. CASE Cooling(breakers[p])
    <3>1. \A q \in Provider : Allows(Health[q]) => q # p
      BY <1>3, <2>1, <2>2
    <3>2. picked'[p] = picked[p]
      BY <1>0, <1>5, <3>1 DEF Pick
    <3> QED
      BY <1>0, <1>2, <1>3, <2>1, <3>2
  <2>3. CASE ~Cooling(breakers[p])
    BY <1>1, <1>3, <2>1, <2>3
  <2> QED
    BY <2>2, <2>3
<1>6. CASE PickNothing
  BY <1>0, <1>2, <1>6 DEF PickNothing
<1>7. ASSUME NEW q \in Provider, Deadlock(q)
      PROVE  IF Cooling(breakers'[p]) THEN late'[p] + picked'[p] < MaxRequest
                                      ELSE late'[p] = 0
  <2>1. picked'[p] <= picked[p]
    BY <1>0, <1>7 DEF Deadlock
  <2> QED
    BY <1>2, <1>7, <2>1 DEF Deadlock
<1>8. ASSUME NEW q \in Provider, Place(q)
      PROVE  IF Cooling(breakers'[p]) THEN late'[p] + picked'[p] < MaxRequest
                                      ELSE late'[p] = 0
  <2>1. breakers' = breakers /\ picked' = [picked EXCEPT ![q] = @ - 1] /\ picked[q] > 0
    BY <1>8 DEF Place
  <2>2. late' = IF Cooling(breakers[q]) THEN [late EXCEPT ![q] = @ + 1] ELSE late
    BY <1>8 DEF Place
  <2>3. CASE q # p
    <3>1. late'[p] = late[p] /\ picked'[p] = picked[p]
      BY <1>0, <2>1, <2>2, <2>3
    <3> QED
      BY <1>0, <1>2, <2>1, <3>1
  <2>4. CASE q = p
    BY <1>0, <1>1, <2>1, <2>2, <2>4
  <2> QED
    BY <2>3, <2>4
<1>9. ASSUME NEW q \in Provider, Result(q)
      PROVE  IF Cooling(breakers'[p]) THEN late'[p] + picked'[p] < MaxRequest
                                      ELSE late'[p] = 0
  <2>1. /\ breakers' = [breakers EXCEPT ![q] = Recorded(breakers[q], up[q])]
        /\ picked' = picked /\ late' = late /\ flying[q] > 0
    BY <1>9 DEF Result
  <2>2. CASE q # p
    BY <1>0, <1>2, <2>1, <2>2
  <2>3. CASE q = p /\ Cooling(breakers[p])
    <3>1. Cooling(breakers'[p])
      BY <1>0, <2>1, <2>3, RecordedWhileCooling
    <3> QED
      BY <1>1, <2>1, <2>3, <3>1
  <2>4. CASE q = p /\ ~Cooling(breakers[p])
    <3>1. late[p] = 0 /\ picked[p] + flying[p] + todo <= MaxRequest
      BY <1>1, <2>4, BatchBounds
    <3>2. late'[p] + picked'[p] < MaxRequest
      BY <1>0, <2>1, <2>4, <3>1
    <3> QED
      BY <2>1, <3>1, <3>2
  <2> QED
    BY <2>2, <2>3, <2>4
<1>10. ASSUME NEW q \in Provider, Raise(q)
       PROVE  IF Cooling(breakers'[p]) THEN late'[p] + picked'[p] < MaxRequest
                                       ELSE late'[p] = 0
  <2>1. picked'[p] <= picked[p]
    BY <1>0, <1>10 DEF Raise
  <2> QED
    BY <1>2, <1>10, <2>1 DEF Raise
<1>11. CASE Elapse
  <2>1. late'[p] = (IF Cooling(breakers'[p]) THEN late[p] ELSE 0) /\ picked' = picked
    BY <1>11 DEF Elapse
  <2>2. Cooling(breakers'[p]) => Cooling(breakers[p])
    <3>1. breakers'[p] = [breakers[p] EXCEPT !.left = IF @ > 0 THEN @ - 1 ELSE 0,
                                             !.good = Older(@), !.bad = Older(@)]
      BY <1>11 DEF Elapse
    <3>2. breakers[p] \in BreakerRow
      BY <1>0
    <3>3. /\ breakers'[p].state = breakers[p].state
          /\ breakers'[p].left = IF breakers[p].left > 0 THEN breakers[p].left - 1 ELSE 0
      BY <3>1, <3>2 DEF BreakerRow
    <3> QED
      BY <3>2, <3>3 DEF Cooling, BreakerRow
  <2> QED
    BY <1>1, <2>1, <2>2
<1>12. CASE (\E q \in Provider : Outage(q)) \/ UNCHANGED healthVars
  BY <1>0, <1>2, <1>12 DEF Outage, healthVars
<1> QED
  BY <1>4, <1>5, <1>6, <1>7, <1>8, <1>9, <1>10, <1>11, <1>12 DEF HealthNext

\* The inductive invariant of a batch and of the cooldowns it meets.
LEMMA BatchesAreBounded == HealthSpec => [](TypedHInv /\ BatchInv /\ LateInv)
<1>1. HealthInit => BatchInv /\ LateInv
  <2> SUFFICES ASSUME HealthInit PROVE BatchInv /\ LateInv
    OBVIOUS
  <2>1. Calls(ToCome) = {}
    BY DEF HealthInit, Calls, ToCome
  <2>2. BatchInv
    BY <2>1, FS_EmptySet, BreakerAssumption DEF HealthInit, BatchInv
  <2>3. LateInv
    BY DEF HealthInit, LateInv, Cooling, Closed
  <2> QED
    BY <2>2, <2>3
<1>2. TypedHInv /\ TypedHInv' /\ BatchInv /\ LateInv /\ [HealthNext]_healthVars =>
        BatchInv' /\ LateInv'
  BY BatchStep, LateStep
<1> QED
  BY <1>1, <1>2, BreakersAreSound, PTL DEF HealthSpec

\* registry.pick and place_call: the answer of allow is stale by the time of the call,
\* but however the coroutines of a batch interleave, retry and fail, fewer calls than
\* a tick may ask for reach a provider in its cooldown.
THEOREM CooldownIsKept == HealthSpec => []FewLateCalls
<1>1. TypedHInv /\ LateInv => FewLateCalls
  <2> SUFFICES ASSUME TypedHInv, LateInv, NEW p \in Provider
               PROVE  late[p] < MaxRequest
    BY DEF FewLateCalls
  <2>1. late[p] \in Nat /\ picked[p] \in Nat /\ MaxRequest \in Nat \ {0}
    BY BreakerAssumption DEF TypedHInv
  <2> QED
    BY <2>1 DEF LateInv
<1> QED
  BY <1>1, BatchesAreBounded, PTL

\* The types, and that no tick ever has more coroutines than were asked for.
THEOREM HealthTypes == HealthSpec => []HealthTypeOK
<1>1. TypedHInv /\ BatchInv => HealthTypeOK
  <2> SUFFICES ASSUME TypedHInv, BatchInv
               PROVE  HealthTypeOK
    OBVIOUS
  <2>1. \A p \in Provider : picked[p] + flying[p] + todo <= MaxRequest
    BY BatchBounds
  <2>2. PICK p \in Provider : TRUE
    BY ProviderAssumption
  <2>3. /\ todo \in Nat /\ MaxRequest \in Nat
        /\ picked \in [Provider -> Nat] /\ flying \in [Provider -> Nat]
    BY BreakerAssumption DEF BatchInv, TypedHInv
  <2>4. /\ todo \in 0 .. MaxRequest
        /\ \A q \in Provider : picked[q] \in 0 .. MaxRequest /\ flying[q] \in 0 .. MaxRequest
    BY <2>1, <2>2, <2>3
  <2>5. picked \in [Provider -> 0 .. MaxRequest] /\ flying \in [Provider -> 0 .. MaxRequest]
    BY <2>3, <2>4
  <2> QED
    BY <2>4, <2>5 DEF TypedHInv, HInv, BreakerRow, Results, HealthTypeOK
<1> QED
  BY <1>1, BatchesAreBounded, PTL
=============================================================================
