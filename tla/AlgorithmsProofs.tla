--------------------------- MODULE AlgorithmsProofs ---------------------------
(***************************************************************************)
(* What Algorithms.cfg checks for some inputs, for all of them.            *)
(***************************************************************************)
EXTENDS Algorithms, TLAPS, SequenceTheorems, WellFoundedInduction

(* A set of naturals that is not empty has a least member. *)
LEMMA LeastOf ==
    ASSUME NEW T \in SUBSET Nat, T # {}
    PROVE  \E x \in T : \A y \in T : x <= y
<1>1. IsWellFoundedOn(OpToRel(<, Nat), Nat)
  BY NatLessThanWellFounded
<1>2. PICK x \in T : \A y \in T : <<y, x>> \notin OpToRel(<, Nat)
  BY <1>1, WFMin
<1>3. \A y \in T : ~(y < x)
  BY <1>2 DEF OpToRel
<1>4. QED
  BY <1>3

(* Induction up to a bound, on a set instead of a predicate. *)
LEMMA Induction ==
    ASSUME NEW n \in Nat, NEW T, 0 \in T, \A i \in 1 .. n : i - 1 \in T => i \in T
    PROVE  \A i \in 0 .. n : i \in T
<1> DEFINE D == {i \in 0 .. n : i \notin T}
<1>1. SUFFICES ASSUME D # {} PROVE FALSE
  OBVIOUS
<1>2. D \in SUBSET Nat
  OBVIOUS
<1>3. PICK i \in D : \A j \in D : i <= j
  BY <1>1, <1>2, LeastOf
<1>4. i \in 1 .. n
  BY <1>3
<1>5. i - 1 \in 0 .. n /\ ~(i <= i - 1)
  BY <1>4
<1>6. i - 1 \in T
  BY <1>3, <1>5
<1>7. QED
  BY <1>3, <1>4, <1>6

Steps(n, V) == [1 .. n -> [V -> V]]
Iterates(n, V, base, step) ==
    {f \in [0 .. n -> V] : f[0] = base /\ \A i \in 1 .. n : f[i] = step[i][f[i - 1]]}

(* A recursive function over an interval exists: its values are those of its
   base and its step. *)
LEMMA Iteration ==
    ASSUME NEW n \in Nat, NEW V, NEW base \in V, NEW step \in Steps(n, V)
    PROVE  \E f : f \in Iterates(n, V, base, step)
<1> DEFINE Upto(m, f) == f[0] = base /\ \A i \in 1 .. m : f[i] = step[i][f[i - 1]]
           T == {m \in 0 .. n : \E f \in [0 .. m -> V] : Upto(m, f)}
<1>1. 0 \in T
  <2>1. [i \in 0 .. 0 |-> base] \in [0 .. 0 -> V] /\ Upto(0, [i \in 0 .. 0 |-> base])
    OBVIOUS
  <2> HIDE DEF Upto
  <2>2. QED
    BY <2>1
<1>2. ASSUME NEW m \in 1 .. n, m - 1 \in T PROVE m \in T
  <2>1. PICK g \in [0 .. m - 1 -> V] : Upto(m - 1, g)
    BY <1>2
  <2> DEFINE f == [i \in 0 .. m |-> IF i = m THEN step[m][g[m - 1]] ELSE g[i]]
  <2>2. g[m - 1] \in V /\ step[m] \in [V -> V]
    BY DEF Steps
  <2>3. step[m][g[m - 1]] \in V
    BY <2>2
  <2>4. f \in [0 .. m -> V]
    BY <2>3
  <2>5. f[0] = base
    BY <2>1
  <2>6. ASSUME NEW i \in 1 .. m PROVE f[i] = step[i][f[i - 1]]
    <3>1. i - 1 \in 0 .. m /\ i - 1 # m /\ i \in 0 .. m
      OBVIOUS
    <3>2. f[i - 1] = g[i - 1]
      BY <3>1
    <3>3. CASE i = m
      BY <3>2, <3>3
    <3>4. CASE i # m
      <4>1. i \in 1 .. m - 1 /\ f[i] = g[i]
        BY <3>4
      <4>2. QED
        BY <2>1, <3>2, <4>1
    <3>5. QED
      BY <3>3, <3>4
  <2>7. Upto(m, f)
    BY <2>5, <2>6
  <2> HIDE DEF f, Upto
  <2>8. QED
    BY <2>4, <2>7
<1> HIDE DEF T
<1>3. \A i \in 0 .. n : i \in T
  BY <1>1, <1>2, Induction
<1>4. n \in T
  BY <1>3
<1>5. QED
  BY <1>4 DEF T, Iterates

Updates(V, E) == [V \X E -> V]
Folding(step, base, s, V) ==
    {f \in [0 .. Len(s) -> V] : f[0] = base /\ \A i \in 1 .. Len(s) : f[i] = step[<<f[i - 1], s[i]>>]}

(* A fold over a sequence is the last value of its iteration. *)
LEMMA FoldSteps ==
    ASSUME NEW V, NEW E, NEW base \in V, NEW step \in Updates(V, E), NEW s \in Seq(E)
    PROVE  \E f : f \in Folding(step, base, s, V) /\ Fold(step, base, s) = f[Len(s)]
<1> DEFINE n == Len(s)
           at == [i \in 1 .. n |-> [v \in V |-> step[<<v, s[i]>>]]]
           F(g) == [i \in 0 .. n |-> IF i = 0 THEN base ELSE step[<<g[i - 1], s[i]>>]]
<1>1. n \in Nat /\ \A i \in 1 .. n : s[i] \in E
  OBVIOUS
<1> HIDE DEF n
<1>2. \A v \in V, i \in 1 .. n : step[<<v, s[i]>>] \in V
  BY <1>1 DEF Updates
<1>3. at \in Steps(n, V)
  BY <1>1, <1>2 DEF Steps
<1>4. PICK f : f \in Iterates(n, V, base, at)
  <2> HIDE DEF at
  <2>1. QED
    BY <1>1, <1>3, Iteration
<1>5. f \in [0 .. n -> V] /\ f[0] = base /\ \A i \in 1 .. n : f[i] = at[i][f[i - 1]]
  <2> HIDE DEF at
  <2>1. QED
    BY <1>4 DEF Iterates
<1>6. \A i \in 1 .. n : f[i - 1] \in V /\ f[i] = step[<<f[i - 1], s[i]>>]
  <2>1. SUFFICES ASSUME NEW i \in 1 .. n PROVE f[i - 1] \in V /\ f[i] = step[<<f[i - 1], s[i]>>]
    OBVIOUS
  <2>2. i - 1 \in 0 .. n
    BY <1>1
  <2>3. f[i - 1] \in V
    BY <1>5, <2>2
  <2>4. QED
    BY <1>5, <2>3
<1>7. f = F(f)
  <2>1. \A i \in 0 .. n : f[i] = IF i = 0 THEN base ELSE step[<<f[i - 1], s[i]>>]
    BY <1>1, <1>5, <1>6
  <2>2. QED
    BY <1>5, <2>1
<1> DEFINE g == CHOOSE g : g = F(g)
<1>8. g = F(g)
  <2> HIDE DEF F
  <2>1. QED
    BY <1>7
<1>9. Fold(step, base, s) = g[n]
  BY DEF Fold, n
<1> HIDE DEF g
<1> DEFINE T == {i \in 0 .. n : g[i] = f[i]}
<1>10. g[0] = base /\ \A i \in 1 .. n : g[i] = step[<<g[i - 1], s[i]>>]
  BY <1>1, <1>8
<1>11. 0 \in T /\ \A i \in 1 .. n : i - 1 \in T => i \in T
  <2>1. 0 \in T
    BY <1>1, <1>5, <1>10
  <2>2. ASSUME NEW i \in 1 .. n, i - 1 \in T PROVE i \in T
    <3>1. g[i - 1] = f[i - 1] /\ i \in 0 .. n
      BY <1>1, <2>2
    <3> HIDE DEF T
    <3>2. g[i] = f[i]
      BY <1>6, <1>10, <3>1
    <3>3. QED
      BY <3>1, <3>2 DEF T
  <2>3. QED
    BY <2>1, <2>2
<1>12. \A i \in 0 .. n : i \in T
  <2> HIDE DEF T
  <2>1. QED
    BY <1>1, <1>11, Induction
<1>13. g[n] = f[n]
  BY <1>1, <1>12
<1>14. f \in Folding(step, base, s, V)
  BY <1>5, <1>6 DEF Folding, n
<1>15. QED
  BY <1>9, <1>13, <1>14 DEF n

(* A fold of one element more is one step more. *)
LEMMA FoldAppend ==
    ASSUME NEW V, NEW E, NEW base \in V, NEW step \in Updates(V, E), NEW s \in Seq(E), NEW e \in E
    PROVE  /\ Fold(step, base, s) \in V
           /\ Fold(step, base, Append(s, e)) = step[<<Fold(step, base, s), e>>]
<1> DEFINE n == Len(s)
           t == Append(s, e)
<1>1. n \in Nat /\ t \in Seq(E) /\ Len(t) = n + 1 /\ t[n + 1] = e /\ \A i \in 1 .. n : t[i] = s[i]
  OBVIOUS
<1> HIDE DEF n, t
<1>2. PICK f : f \in Folding(step, base, s, V) /\ Fold(step, base, s) = f[n]
  BY FoldSteps DEF n
<1>3. PICK g : g \in Folding(step, base, t, V) /\ Fold(step, base, t) = g[n + 1]
  BY <1>1, FoldSteps
<1>4. f \in [0 .. n -> V] /\ f[0] = base /\ \A i \in 1 .. n : f[i] = step[<<f[i - 1], s[i]>>]
  BY <1>2 DEF Folding, n
<1>5. g \in [0 .. n + 1 -> V] /\ g[0] = base /\ \A i \in 1 .. n + 1 : g[i] = step[<<g[i - 1], t[i]>>]
  BY <1>1, <1>3 DEF Folding
<1> DEFINE T == {i \in 0 .. n : g[i] = f[i]}
<1>6. 0 \in T /\ \A i \in 1 .. n : i - 1 \in T => i \in T
  <2>1. ASSUME NEW i \in 1 .. n, i - 1 \in T PROVE i \in T
    <3>1. i \in 1 .. n + 1 /\ i \in 0 .. n /\ t[i] = s[i] /\ g[i - 1] = f[i - 1]
      BY <1>1, <2>1
    <3> HIDE DEF T
    <3>2. g[i] = f[i]
      BY <1>4, <1>5, <3>1
    <3>3. QED
      BY <3>1, <3>2 DEF T
  <2>2. QED
    BY <1>1, <1>4, <1>5, <2>1
<1>7. \A i \in 0 .. n : i \in T
  <2> HIDE DEF T
  <2>1. QED
    BY <1>1, <1>6, Induction
<1>8. g[n] = f[n]
  BY <1>1, <1>7
<1>9. g[n + 1] = step[<<g[n], e>>]
  BY <1>1, <1>5
<1>10. f[n] \in V
  BY <1>1, <1>4
<1>11. QED
  BY <1>2, <1>3, <1>8, <1>9, <1>10 DEF t

(* A fold of no element is its base. *)
LEMMA FoldEmpty ==
    ASSUME NEW base, NEW step PROVE Fold(step, base, << >>) = base
<1> DEFINE V == {base}
           up == [x \in V \X {0} |-> base]
           F(g) == [i \in 0 .. 0 |-> IF i = 0 THEN base ELSE step[<<g[i - 1], << >>[i]>>]]
<1>1. Fold(step, base, << >>) = (CHOOSE g : g = F(g))[0]
  BY DEF Fold
<1> DEFINE f == [i \in 0 .. 0 |-> base]
<1>2. f = F(f)
  OBVIOUS
<1> DEFINE g == CHOOSE g : g = F(g)
<1>3. g = F(g)
  <2> HIDE DEF F, f
  <2>1. QED
    BY <1>2
<1> HIDE DEF g
<1>4. g[0] = base
  BY <1>3
<1>5. QED
  BY <1>1, <1>4 DEF g

(* Induction over sequences by their last element, on a set of sequences. *)
LEMMA SequenceInduction ==
    ASSUME NEW E, NEW P, << >> \in P,
           \A s \in Seq(E), e \in E : s \in P => Append(s, e) \in P
    PROVE  \A s \in Seq(E) : s \in P
<1> DEFINE T == {n \in Nat : \A s \in Seq(E) : Len(s) = n => s \in P}
<1>1. 0 \in T
  OBVIOUS
<1>2. ASSUME NEW n \in Nat \ {0}, n - 1 \in T PROVE n \in T
  <2>1. SUFFICES ASSUME NEW s \in Seq(E), Len(s) = n PROVE s \in P
    OBVIOUS
  <2> DEFINE r == SubSeq(s, 1, n - 1)
  <2>2. r \in Seq(E) /\ Len(r) = n - 1 /\ s[n] \in E /\ s = Append(r, s[n])
    BY <2>1
  <2>3. r \in P
    BY <1>2, <2>2
  <2> HIDE DEF r
  <2>4. QED
    BY <2>2, <2>3
<1> HIDE DEF T
<1>3. SUFFICES ASSUME NEW s \in Seq(E) PROVE s \in P
  OBVIOUS
<1>4. Len(s) \in Nat /\ \A i \in 0 .. Len(s) : i \in T
  <2> DEFINE n == Len(s)
  <2>1. n \in Nat
    OBVIOUS
  <2> HIDE DEF n
  <2>2. \A i \in 1 .. n : i - 1 \in T => i \in T
    BY <1>2, <2>1
  <2>3. \A i \in 0 .. n : i \in T
    BY <1>1, <2>1, <2>2, Induction
  <2>4. QED
    BY <2>1, <2>3 DEF n
<1>5. Len(s) \in T
  BY <1>4
<1>6. QED
  BY <1>5 DEF T

-----------------------------------------------------------------------------
(* A volume that is set comes back as it was set, whatever the percentage
   (SetVolume and Volume of pulseaudio/sink.go). *)
THEOREM VolumeAlwaysReadsBack == ASSUME NEW p \in Nat PROVE VolumeReadsBack(p)
<1>1. PICK l \in Nat : l = SetVolume(p)  BY DEF SetVolume, Full
<1>2. p * 65535 - 100 < 100 * l /\ 100 * l <= p * 65535  BY <1>1 DEF SetVolume, Full
<1>3. ShownVolume(l) = (2 * (l * 100) + 65535) \div 131070  BY DEF ShownVolume, Rounded, Full
<1>4. 131070 * p <= 2 * (l * 100) + 65535 /\ 2 * (l * 100) + 65535 < 131070 * (p + 1)  BY <1>2
<1>5. QED  BY <1>1, <1>3, <1>4 DEF VolumeReadsBack

(* The truncated division of the code, for what is not negative. *)
LEMMA QuotStep == ASSUME NEW a \in Int PROVE
    /\ Quot(a, 100) \in Int
    /\ a >= 0 => 100 * Quot(a, 100) <= a /\ a < 100 * Quot(a, 100) + 100 /\ Quot(a, 100) >= 0
    /\ a < 0 => 100 * Quot(a, 100) >= a /\ a > 100 * Quot(a, 100) - 100 /\ Quot(a, 100) <= 0
BY DEF Quot

(* What lies in a range is a number within its ends. *)
LEMMA InRange ==
    ASSUME NEW a \in Int, NEW b \in Int, NEW t \in a .. b PROVE t \in Int /\ a <= t /\ t <= b
OBVIOUS

(* The ends of the table are numbers. *)
LEMMA TableEnds == TempMin \in Int /\ TempMax \in Int
BY DEF TempMin, TempMax

(* The numbers of the table (blackbody.go). *)
LEMMA TableNumbers == TempMin = 1000 /\ TempMax = 25000 /\ TempStep = 100 /\ Rows = 242
BY DEF TempMin, TempMax, TempStep, Rows

(* A temperature is answered for as it is inside the table, and with rows of the
   table and within a step of its ends outside; exactly those less than a step
   away from the table are said to be in range, and those below it are answered
   for as one step more (GetWhitePoint). *)
THEOREM WhiteIsAlwaysClose == ASSUME NEW t \in Int PROVE WhiteIsClose(t)
<1> DEFINE q == Quot(t - 1000, 100)
           r == Quot(t, 100)
<1>1. /\ q \in Int
      /\ t - 1000 >= 0 => 100 * q <= t - 1000 /\ t - 1000 < 100 * q + 100 /\ q >= 0
      /\ t - 1000 < 0 => 100 * q >= t - 1000 /\ t - 1000 > 100 * q - 100 /\ q <= 0
  BY QuotStep
<1>2. /\ r \in Int
      /\ t >= 0 => 100 * r <= t /\ t < 100 * r + 100 /\ r >= 0
      /\ t < 0 => 100 * r >= t /\ t > 100 * r - 100 /\ r <= 0
  BY QuotStep
<1>3. WhiteRow(t) = [row |-> IF q < 0 THEN 0 ELSE IF q + 1 >= 242 THEN 240 ELSE q, alpha |-> t - 100 * r]
  BY DEF WhiteRow, Rows, TempMin, TempStep, Rem
<1>4. Effective(t) = 1000 + 100 * WhiteRow(t).row + WhiteRow(t).alpha
  BY DEF Effective, TempMin, TempStep
<1>5. WhiteOk(t) <=> q >= 0 /\ q + 1 < 242
  BY DEF WhiteOk, Rows, TempMin, TempStep
<1> DEFINE row == WhiteRow(t).row
           eff == Effective(t)
<1>6. /\ row = IF q < 0 THEN 0 ELSE IF q + 1 >= 242 THEN 240 ELSE q
      /\ eff = 1000 + 100 * row + (t - 100 * r)
  BY <1>3, <1>4
<1>7. eff \in Int /\ row \in Int
  BY <1>1, <1>2, <1>6
<1>8. SUFFICES /\ 0 <= row /\ row <= 240
               /\ 1000 <= t /\ t <= 25000 => eff = t
               /\ t < 1000 => 900 <= eff /\ eff <= 1100
               /\ t > 25000 => 25000 <= eff /\ eff <= 25100
               /\ WhiteOk(t) <=> 900 < t /\ t < 25100
               /\ 900 < t /\ t < 1000 => eff = t + 100
               /\ 25000 < t /\ t < 25100 => eff = t
  <2> HIDE DEF q, r
  <2>1. WhiteRow(t).row \in 0 .. Rows - 2
    BY <1>7, TableNumbers
  <2>2. ASSUME t \in TempMin .. TempMax PROVE Effective(t) = t
    <3>1. TempMin <= t /\ t <= TempMax
      BY <2>2, TableEnds, InRange
    <3> HIDE <2>2
    <3>2. QED
      BY <3>1, TableNumbers
  <2>3. t < TempMin => Effective(t) \in TempMin - TempStep .. TempMin + TempStep
    BY <1>7, TableNumbers
  <2>4. t > TempMax => Effective(t) \in TempMax .. TempMax + TempStep
    BY <1>7, TableNumbers
  <2>5. WhiteOk(t) <=> t \in TempMin - TempStep + 1 .. TempMax + TempStep - 1
    BY TableNumbers
  <2>6. WhiteOk(t) => Effective(t) = IF t < TempMin THEN t + TempStep ELSE t
    BY TableNumbers
  <2>7. QED
    BY <2>1, <2>2, <2>3, <2>4, <2>5, <2>6 DEF WhiteIsClose
<1> HIDE DEF q, r, row, eff
<1>9. 0 <= row /\ row <= 240  BY <1>1, <1>6
<1>10. ASSUME 1000 <= t, t < 25100 PROVE eff = t
  <2>1. q = r - 10 /\ q >= 0 /\ q <= 240  BY <1>1, <1>2, <1>10
  <2>2. QED  BY <2>1, <1>1, <1>2, <1>6
<1>11. ASSUME t < 1000 PROVE 900 <= eff /\ eff <= 1100
  <2>1. row = 0  BY <1>1, <1>6, <1>11
  <2>2. QED  BY <2>1, <1>2, <1>6
<1>12. ASSUME t >= 25100 PROVE 25000 <= eff /\ eff <= 25100
  <2>1. q >= 241  BY <1>1, <1>12
  <2>2. row = 240  BY <2>1, <1>1, <1>6
  <2>3. QED  BY <2>2, <1>2, <1>6, <1>12
<1>13. WhiteOk(t) <=> 900 < t /\ t < 25100
  <2>1. ASSUME 900 < t PROVE q >= 0
    <3>1. t - 1000 >= 0 \/ t - 1000 < 0
      OBVIOUS
    <3>2. ASSUME t - 1000 < 0 PROVE q >= 0
      <4>1. t - 1000 > -100 /\ 100 * q > -100  BY <1>1, <2>1, <3>2, SMTT(30)
      <4>2. QED  BY <4>1, <1>1
    <3>3. QED  BY <1>1, <3>1, <3>2
  <2>2. ASSUME t <= 900 PROVE q < 0
    BY <1>1, <2>2
  <2>3. t < 25100 => q <= 240
    BY <1>1
  <2>4. t >= 25100 => q >= 241
    BY <1>1
  <2>5. QED  BY <1>1, <1>5, <2>1, <2>2, <2>3, <2>4
<1>14. ASSUME 900 < t, t < 1000 PROVE eff = t + 100
  <2>1. row = 0 /\ r = 9  BY <1>1, <1>2, <1>6, <1>14
  <2>2. QED  BY <2>1, <1>6
<1>15. ASSUME t > 25000 PROVE 25000 <= eff /\ eff <= 25100
  BY <1>10, <1>12, <1>15
<1>16. QED  BY <1>9, <1>10, <1>11, <1>13, <1>14, <1>15

-----------------------------------------------------------------------------
(* Rounding is to the nearest. *)
LEMMA RoundedBounds == ASSUME NEW n \in Nat, NEW d \in Nat \ {0}
                       PROVE Rounded(n, d) \in Nat /\ 2 * n - d < 2 * d * Rounded(n, d)
                             /\ 2 * d * Rounded(n, d) <= 2 * n + d
BY DEF Rounded

(* The wheel moves a backlight of at least 200 levels from wherever it is, up to
   the ends of its range, and in the direction it is turned (backlight.go). *)
THEOREM WheelAlwaysMoves ==
    ASSUME NEW max \in Nat, max >= 200, NEW cur \in 0 .. max PROVE WheelMoves(cur, max)
<1> DEFINE p == Percent(cur, max)
<1>1. /\ p \in Nat
      /\ 200 * cur - max < 2 * max * p
      /\ 2 * max * p <= 200 * cur + max
  BY RoundedBounds DEF Percent
<1> HIDE DEF p
<1>2. PICK m \in Nat : m = max * p /\ 200 * cur < 2 * m + max /\ 2 * m <= 200 * cur + max
  BY <1>1
<1>3. ASSUME p <= 99, NEW n \in Brightness(WheelUp(p), max) PROVE n > cur
  <2>1. PICK b \in 0 .. 100 : b = Bounded(WheelUp(p), 0, 100) /\ b >= p + 1
    BY <1>1, <1>3 DEF WheelUp, Bounded
  <2>2. b * max >= max * p + max  BY <2>1, <1>1
  <2>3. n \in Int /\ 100 * n >= b * max - 100  BY <1>3, <2>1 DEF Brightness
  <2>4. QED  BY <1>2, <2>2, <2>3
<1>4. ASSUME p >= 1, NEW n \in Brightness(WheelDown(p), max) PROVE n < cur
  <2>1. p <= 100  BY <1>1
  <2>2. PICK b \in 0 .. 100 : b = Bounded(WheelDown(p), 0, 100) /\ b <= p - 1
    BY <1>1, <1>4, <2>1 DEF WheelDown, Bounded
  <2>3. b * max <= max * p - max  BY <2>2, <1>1
  <2>4. n \in Int /\ 100 * n <= b * max  BY <1>4, <2>2 DEF Brightness
  <2>5. QED  BY <1>2, <2>3, <2>4
<1>5. QED  BY <1>3, <1>4 DEF WheelMoves, p

-----------------------------------------------------------------------------
(* Two coordinates keep their distance, and the smaller is 0 if one was not
   positive. *)
LEMMA ShiftedKeepsDistance ==
    ASSUME NEW a \in Int, NEW b \in Int
    PROVE  /\ Shifted(a, b)[1] \in Nat /\ Shifted(a, b)[2] \in Nat
           /\ Shifted(a, b)[1] - Shifted(a, b)[2] = a - b
           /\ a <= 0 \/ b <= 0 => Shifted(a, b)[1] = 0 \/ Shifted(a, b)[2] = 0
BY DEF Shifted

(* What a CRTC is made of. *)
LEMMA CrtcFields ==
    ASSUME NEW e, NEW x, NEW y, NEW size
    PROVE  /\ Crtc(e, x, y, size).e = e
           /\ Crtc(e, x, y, size).x = x /\ Crtc(e, x, y, size).y = y
BY DEF Crtc

(* Two CRTCs that start at or left of and above the origin are moved together. *)
LEMMA PlacedKeepsDistance ==
    ASSUME NEW p \in Sizes, NEW s \in Sizes,
           NEW a \in Int, NEW b \in Int, NEW c \in Int, NEW d \in Int,
           a <= 0 \/ c <= 0, b <= 0 \/ d <= 0
    PROVE  LET l == Placed(Crtc(1, a, b, p), Crtc(1, c, d, s))
           IN  /\ l.pri.w = p.w /\ l.pri.h = p.h /\ l.sec.w = s.w /\ l.sec.h = s.h
               /\ l.pri.x \in Nat /\ l.pri.y \in Nat /\ l.sec.x \in Nat /\ l.sec.y \in Nat
               /\ l.pri.x - l.sec.x = a - c /\ l.pri.y - l.sec.y = b - d
               /\ AtOrigin(l.pri, l.sec)
<1> DEFINE pc == Crtc(1, a, b, p)
           sc == Crtc(1, c, d, s)
           l == Placed(pc, sc)
<1>1. pc.e = 1 /\ pc.x = a /\ pc.y = b /\ sc.e = 1 /\ sc.x = c /\ sc.y = d
  BY CrtcFields
<1>2. /\ (IF pc.e = 1 THEN pc.x ELSE 0) = a /\ (IF sc.e = 1 THEN sc.x ELSE 0) = c
      /\ (IF pc.e = 1 THEN pc.y ELSE 0) = b /\ (IF sc.e = 1 THEN sc.y ELSE 0) = d
  BY <1>1
<1>3. /\ l.pri = [pc EXCEPT !.x = Shifted(a, c)[1], !.y = Shifted(b, d)[1]]
      /\ l.sec = [sc EXCEPT !.x = Shifted(a, c)[2], !.y = Shifted(b, d)[2]]
  <2> HIDE DEF pc, sc
  <2>1. QED  BY <1>2 DEF Placed
<1>4. /\ l.pri.w = p.w /\ l.pri.h = p.h /\ l.sec.w = s.w /\ l.sec.h = s.h
      /\ l.pri.x = Shifted(a, c)[1] /\ l.sec.x = Shifted(a, c)[2]
      /\ l.pri.y = Shifted(b, d)[1] /\ l.sec.y = Shifted(b, d)[2]
  BY <1>3 DEF Crtc
<1> HIDE DEF pc, sc, l
<1>5. /\ l.pri.x \in Nat /\ l.pri.y \in Nat /\ l.sec.x \in Nat /\ l.sec.y \in Nat
      /\ l.pri.x - l.sec.x = a - c /\ l.pri.y - l.sec.y = b - d
      /\ AtOrigin(l.pri, l.sec)
  <2>1. /\ l.pri.x \in Nat /\ l.sec.x \in Nat /\ l.pri.x - l.sec.x = a - c
        /\ l.pri.x = 0 \/ l.sec.x = 0
    BY <1>4, ShiftedKeepsDistance
  <2>2. /\ l.pri.y \in Nat /\ l.sec.y \in Nat /\ l.pri.y - l.sec.y = b - d
        /\ l.pri.y = 0 \/ l.sec.y = 0
    BY <1>4, ShiftedKeepsDistance
  <2>3. QED  BY <2>1, <2>2 DEF AtOrigin
<1>6. QED  BY <1>4, <1>5 DEF l, pc, sc

(* Two monitors, whatever their sizes, share an edge and nothing else, and start
   at the origin of the screen, when one is to the right of the other, above
   or below it.  To the left they start there too, but share an edge only when
   of one width, and a wider second monitor is overlapped (xrandr.go). *)
THEOREM LayoutsAlwaysTouch ==
    ASSUME NEW p \in Sizes, NEW s \in Sizes PROVE LayoutsTouch(p, s)
<1>1. p.w \in Nat \ {0} /\ p.h \in Nat \ {0} /\ s.w \in Nat \ {0} /\ s.h \in Nat \ {0}
  BY DEF Sizes
<1>2. Anchored(Right(p, s))
  <2> DEFINE l == Placed(Crtc(1, 0, -p.h, p), Crtc(1, p.w, -s.h, s))
  <2>1. /\ l.pri.w = p.w /\ l.pri.h = p.h /\ l.sec.w = s.w /\ l.sec.h = s.h
        /\ l.pri.x \in Nat /\ l.pri.y \in Nat /\ l.sec.x \in Nat /\ l.sec.y \in Nat
        /\ l.pri.x - l.sec.x = 0 - p.w /\ l.pri.y - l.sec.y = -p.h - (-s.h)
        /\ AtOrigin(l.pri, l.sec)
    <3> HIDE DEF l
    <3>1. 0 \in Int /\ -p.h \in Int /\ p.w \in Int /\ -s.h \in Int /\ (0 <= 0 \/ p.w <= 0) /\ (-p.h <= 0 \/ -s.h <= 0)
      BY <1>1
    <3>2. QED  BY <3>1, PlacedKeepsDistance, Zenon DEF l
  <2>2. Right(p, s) = l  BY DEF Right
  <2> HIDE DEF l
  <2>3. l.pri.x + l.pri.w = l.sec.x  BY <2>1, <1>1
  <2>4. QED  BY <2>1, <2>2, <2>3, <1>1 DEF Anchored, Apart, Touch
<1>3. Anchored(Up(p, s))
  <2> DEFINE l == Placed(Crtc(1, 0, 0, p), Crtc(1, 0, -s.h, s))
  <2>1. /\ l.pri.w = p.w /\ l.pri.h = p.h /\ l.sec.w = s.w /\ l.sec.h = s.h
        /\ l.pri.x \in Nat /\ l.pri.y \in Nat /\ l.sec.x \in Nat /\ l.sec.y \in Nat
        /\ l.pri.x - l.sec.x = 0 - 0 /\ l.pri.y - l.sec.y = 0 - (-s.h)
        /\ AtOrigin(l.pri, l.sec)
    <3> HIDE DEF l
    <3>1. 0 \in Int /\ 0 \in Int /\ 0 \in Int /\ -s.h \in Int /\ (0 <= 0 \/ 0 <= 0) /\ (0 <= 0 \/ -s.h <= 0)
      BY <1>1
    <3>2. QED  BY <3>1, PlacedKeepsDistance, Zenon DEF l
  <2>2. Up(p, s) = l  BY DEF Up
  <2> HIDE DEF l
  <2>3. QED  BY <2>1, <2>2, <1>1 DEF Anchored, Apart, Touch
<1>4. Anchored(Down(p, s))
  <2> DEFINE l == Placed(Crtc(1, 0, 0, p), Crtc(1, 0, p.h, s))
  <2>1. /\ l.pri.w = p.w /\ l.pri.h = p.h /\ l.sec.w = s.w /\ l.sec.h = s.h
        /\ l.pri.x \in Nat /\ l.pri.y \in Nat /\ l.sec.x \in Nat /\ l.sec.y \in Nat
        /\ l.pri.x - l.sec.x = 0 - 0 /\ l.pri.y - l.sec.y = 0 - p.h
        /\ AtOrigin(l.pri, l.sec)
    <3> HIDE DEF l
    <3>1. 0 \in Int /\ 0 \in Int /\ 0 \in Int /\ p.h \in Int /\ (0 <= 0 \/ 0 <= 0) /\ (0 <= 0 \/ p.h <= 0)
      BY <1>1
    <3>2. QED  BY <3>1, PlacedKeepsDistance, Zenon DEF l
  <2>2. Down(p, s) = l  BY DEF Down
  <2> HIDE DEF l
  <2>3. QED  BY <2>1, <2>2, <1>1 DEF Anchored, Apart, Touch
<1>5. /\ AtOrigin(Left(p, s).pri, Left(p, s).sec)
      /\ Apart(Left(p, s).pri, Left(p, s).sec) <=> s.w <= p.w
      /\ Touch(Left(p, s).pri, Left(p, s).sec) <=> s.w = p.w
  <2> DEFINE l == Placed(Crtc(1, p.w, -p.h, p), Crtc(1, 0, -s.h, s))
  <2>1. /\ l.pri.w = p.w /\ l.pri.h = p.h /\ l.sec.w = s.w /\ l.sec.h = s.h
        /\ l.pri.x \in Nat /\ l.pri.y \in Nat /\ l.sec.x \in Nat /\ l.sec.y \in Nat
        /\ l.pri.x - l.sec.x = p.w - 0 /\ l.pri.y - l.sec.y = -p.h - (-s.h)
        /\ AtOrigin(l.pri, l.sec)
    <3> HIDE DEF l
    <3>1. p.w \in Int /\ -p.h \in Int /\ 0 \in Int /\ -s.h \in Int /\ (p.w <= 0 \/ 0 <= 0) /\ (-p.h <= 0 \/ -s.h <= 0)
      BY <1>1
    <3>2. QED  BY <3>1, PlacedKeepsDistance, Zenon DEF l
  <2>2. Left(p, s) = l  BY DEF Left
  <2> HIDE DEF l
  <2>3. /\ l.pri.x = l.sec.x + p.w
        /\ l.pri.y + l.pri.h = l.sec.y + l.sec.h
    BY <2>1, <1>1
  <2>4. l.sec.x + l.sec.w <= l.pri.x <=> s.w <= p.w
    BY <2>1, <2>3, <1>1
  <2>5. l.sec.x + l.sec.w = l.pri.x <=> s.w = p.w
    BY <2>1, <2>3, <1>1
  <2>6. /\ ~(l.pri.x + l.pri.w <= l.sec.x) /\ ~(l.pri.y + l.pri.h <= l.sec.y)
        /\ ~(l.sec.y + l.sec.h <= l.pri.y)
        /\ l.pri.x + l.pri.w # l.sec.x /\ l.pri.y + l.pri.h # l.sec.y
        /\ l.sec.y + l.sec.h # l.pri.y
    BY <2>1, <2>3, <1>1
  <2>7. QED  BY <2>1, <2>2, <2>4, <2>5, <2>6 DEF Apart, Touch
<1>6. LET l == Same(p, s) IN AtOrigin(l.pri, l.sec) /\ ~Apart(l.pri, l.sec)
  <2> DEFINE l == Placed(Crtc(1, 0, 0, p), Crtc(1, 0, 0, s))
  <2>1. /\ l.pri.w = p.w /\ l.pri.h = p.h /\ l.sec.w = s.w /\ l.sec.h = s.h
        /\ l.pri.x \in Nat /\ l.pri.y \in Nat /\ l.sec.x \in Nat /\ l.sec.y \in Nat
        /\ l.pri.x - l.sec.x = 0 - 0 /\ l.pri.y - l.sec.y = 0 - 0
        /\ AtOrigin(l.pri, l.sec)
    <3> HIDE DEF l
    <3>1. 0 \in Int /\ (0 <= 0 \/ 0 <= 0)
      OBVIOUS
    <3>2. QED  BY <3>1, PlacedKeepsDistance, Zenon DEF l
  <2>2. Same(p, s) = l  BY DEF Same
  <2> HIDE DEF l
  <2>3. QED  BY <2>1, <2>2, <1>1 DEF Apart
<1>7. QED  BY <1>2, <1>3, <1>4, <1>5, <1>6 DEF LayoutsTouch

-----------------------------------------------------------------------------
(* Division keeps order and ends, of a product that is whole. *)
LEMMA QuotientBetween ==
    ASSUME NEW n \in Int, NEW d \in Nat \ {0}, NEW lo \in Int, NEW hi \in Int,
           lo * d <= n, n <= hi * d
    PROVE  n \div d \in lo .. hi
<1>1. PICK q \in Int : q = n \div d  OBVIOUS
<1>2. q * d <= n /\ n < q * d + d  BY <1>1
<1>3. lo <= q
  <2>1. SUFFICES ASSUME q + 1 <= lo PROVE FALSE  BY <1>1
  <2>2. (q + 1) * d <= lo * d  BY <2>1
  <2>3. (q + 1) * d = q * d + d  OBVIOUS
  <2>4. QED  BY <1>2, <2>2, <2>3
<1>4. q <= hi
  <2>1. SUFFICES ASSUME hi + 1 <= q PROVE FALSE  BY <1>1
  <2>2. (hi + 1) * d <= q * d  BY <2>1
  <2>3. (hi + 1) * d = hi * d + d  OBVIOUS
  <2>4. QED  BY <1>2, <2>2, <2>3
<1>5. QED  BY <1>1, <1>3, <1>4

(* The quotient by one divisor rises with the dividend. *)
LEMMA QuotientRises ==
    ASSUME NEW n \in Int, NEW m \in Int, NEW d \in Nat \ {0}, n <= m
    PROVE  n \div d <= m \div d
<1>1. PICK q \in Int : q = m \div d  OBVIOUS
<1>2. PICK r \in Int : r = n \div d  OBVIOUS
<1>3. m < q * d + d /\ r * d <= n  BY <1>1, <1>2
<1>4. SUFFICES ASSUME q + 1 <= r PROVE FALSE  BY <1>1, <1>2
<1>5. (q + 1) * d <= r * d /\ (q + 1) * d = q * d + d  BY <1>4
<1>6. QED  BY <1>3, <1>5

(* A temperature of the table is answered for as it is. *)
LEMMA TableIsExact == ASSUME NEW t \in TempMin .. TempMax PROVE Effective(t) = t
<1>1. t \in Int  BY DEF TempMin, TempMax
<1>2. WhiteIsClose(t)  BY <1>1, WhiteIsAlwaysClose
<1>3. QED  BY <1>2 DEF WhiteIsClose

(* What lies between two temperatures of the table is in it. *)
LEMMA Between ==
    ASSUME NEW a \in Int, NEW b \in Int, NEW lo \in a .. b, NEW hi \in a .. b, NEW t \in lo .. hi
    PROVE  t \in a .. b
OBVIOUS

(* The table holds what lies between two temperatures of it. *)
LEMMA TableHolds ==
    ASSUME NEW lo \in TempMin .. TempMax, NEW hi \in TempMin .. TempMax, NEW t \in lo .. hi
    PROVE  t \in TempMin .. TempMax
BY TableEnds, Between

(* The temperature lies between those of the night and of the day, never falls
   while the sun rises, and the table answers for it as it is, whatever the two
   elevations and the two temperatures of the table (Solar, GetWhitePoint). *)
THEOREM SunIsAlwaysFollowed ==
    ASSUME NEW eNight \in Int, NEW eDay \in Int, eNight < eDay,
           NEW tNight \in TempMin .. TempMax, NEW tDay \in TempMin .. TempMax, tNight <= tDay,
           NEW e \in Int
    PROVE  SunIsFollowed(e, eNight, eDay, tNight, tDay)
<1> DEFINE t(x) == Solar(x, eNight, eDay, tNight, tDay)
           d == eDay - eNight
           n(x) == (eDay - x) * tNight + (x - eNight) * tDay
<1>1. d \in Nat \ {0} /\ tNight \in Int /\ tDay \in Int
  BY TableEnds, InRange
<1>2. ASSUME NEW x \in Int, eNight <= x, x <= eDay
      PROVE  n(x) \in Int /\ tNight * d <= n(x) /\ n(x) <= tDay * d
  <2>1. PICK k \in Nat : k = x - eNight  BY <1>2
  <2>2. PICK u \in Nat : u = tDay - tNight  BY <1>1
  <2>3. PICK j \in Nat : j = eDay - x  BY <1>2
  <2>4. n(x) = j * tNight + k * (tNight + u) /\ d = j + k /\ tDay = tNight + u
    BY <1>1, <2>1, <2>2, <2>3
  <2>5. n(x) = tNight * d + k * u
    <3>1. j * tNight + k * (tNight + u) = tNight * (j + k) + k * u  BY <1>1
    <3>2. QED  BY <2>4, <3>1
  <2>6. tDay * d - n(x) = j * u
    <3>1. (tNight + u) * (j + k) - (tNight * (j + k) + k * u) = j * u  BY <1>1
    <3>2. QED  BY <2>4, <2>5, <3>1
  <2>7. k * u \in Nat /\ j * u \in Nat /\ n(x) \in Int /\ tNight * d \in Int /\ tDay * d \in Int
    BY <1>1, <2>4
  <2>8. QED  BY <2>5, <2>6, <2>7
<1>3. ASSUME NEW x \in Int PROVE t(x) \in tNight .. tDay
  <2>1. CASE x < eNight  BY <1>1, <2>1 DEF Solar
  <2>2. CASE x >= eDay  BY <1>1, <2>2 DEF Solar
  <2>3. CASE x >= eNight /\ x < eDay
    <3>1. n(x) \div d \in tNight .. tDay
      <4>1. n(x) \in Int /\ tNight * d <= n(x) /\ n(x) <= tDay * d  BY <1>2, <2>3
      <4> HIDE DEF n, d
      <4>2. QED  BY <1>1, <4>1, QuotientBetween
    <3>2. QED  BY <2>3, <3>1 DEF Solar
  <2>4. QED  BY <2>1, <2>2, <2>3
<1>4. t(e) <= t(e + 1)
  <2>1. CASE e < eNight
    <3>1. t(e) = tNight  BY <2>1 DEF Solar
    <3>2. t(e + 1) \in tNight .. tDay  BY <1>3
    <3>3. QED  BY <1>1, <3>1, <3>2
  <2>2. CASE e + 1 >= eDay
    <3>1. t(e + 1) = tDay  BY <2>2 DEF Solar
    <3>2. t(e) \in tNight .. tDay  BY <1>3
    <3>3. QED  BY <1>1, <3>1, <3>2
  <2>3. CASE e >= eNight /\ e + 1 < eDay
    <3>1. t(e) = n(e) \div d /\ t(e + 1) = n(e + 1) \div d  BY <2>3 DEF Solar
    <3>2. n(e) \in Int /\ n(e + 1) \in Int  BY <1>2, <2>3
    <3>3. n(e) <= n(e + 1)
      <4>1. n(e + 1) = n(e) + (tDay - tNight)  BY <1>1
      <4>2. QED  BY <1>1, <3>2, <4>1
    <3> HIDE DEF n, d, t
    <3>4. QED  BY <1>1, <3>1, <3>2, <3>3, QuotientRises
  <2>4. QED  BY <2>1, <2>2, <2>3
<1>5. t(e) \in tNight .. tDay  BY <1>3
<1>6. Effective(t(e)) = t(e)
  <2> HIDE DEF t
  <2>1. QED  BY <1>5, TableHolds, TableIsExact
<1>7. QED  BY <1>4, <1>5, <1>6 DEF SunIsFollowed

(* A ramp of any size of two entries or more rises from black to the component
   of the white point, without a step down (GammaRamp). *)
THEOREM RampsAlwaysRise ==
    ASSUME NEW len \in Nat, len >= 2, NEW max \in Nat, NEW d \in Nat \ {0}, NEW n \in 0 .. d
    PROVE  RampRises(len, max, n, d)
<1> DEFINE D == (len - 1) * d
<1>1. D \in Nat \ {0} /\ max * n \in Nat
  <2>1. PICK l \in Nat : len - 1 = l + 1  BY len - 2 \in Nat
  <2>2. (l + 1) * d = l * d + d /\ l * d \in Nat  OBVIOUS
  <2>3. QED  BY <2>1, <2>2
<1>2. Ramp(0, len, max, n, d) = 0
  <2>1. 0 * max * n = 0  OBVIOUS
  <2> HIDE DEF D
  <2>2. 0 \div D = 0  BY <1>1
  <2>3. QED  BY <2>1, <2>2 DEF Ramp, D
<1>3. Ramp(len - 1, len, max, n, d) = (max * n) \div d
  <2>1. PICK q \in Int : q = (max * n) \div d  BY <1>1
  <2>2. q * d <= max * n /\ max * n < q * d + d  BY <1>1, <2>1
  <2>3. PICK l \in Nat \ {0} : l = len - 1  BY len - 1 \in Nat \ {0}
  <2>4. PICK m \in Nat : m = max * n  BY <1>1
  <2>5. l * m < l * (q * d + d) /\ l * (q * d) <= l * m
    <3>1. m + 1 <= q * d + d /\ q * d <= m  BY <2>2, <2>4
    <3>2. PICK a \in Int : a = q * d  OBVIOUS
    <3>3. l * (m + 1) <= l * (a + d) /\ l * a <= l * m  BY <3>1, <3>2
    <3>4. QED  BY <3>2, <3>3
  <2>6. PICK N \in Int : N = (len - 1) * max * n  OBVIOUS
  <2>7. N = l * m
    <3>1. l * max * n = l * (max * n)  OBVIOUS
    <3>2. QED  BY <2>3, <2>4, <2>6, <3>1
  <2>8. l * (q * d) = q * D /\ l * (q * d + d) = q * D + D
    BY <2>3
  <2>9. q * D <= N /\ N < q * D + D
    BY <2>5, <2>7, <2>8
  <2> HIDE DEF D
  <2>10. N \div D = q
    <3>1. PICK r \in Int : r = N \div D  BY <1>1
    <3>2. r * D <= N /\ N < r * D + D  BY <1>1, <3>1
    <3>3. r <= q
      <4>1. SUFFICES ASSUME q + 1 <= r PROVE FALSE  OBVIOUS
      <4>2. (q + 1) * D <= r * D /\ (q + 1) * D = q * D + D  BY <1>1, <4>1
      <4>3. QED  BY <1>1, <2>9, <3>2, <4>2
    <3>4. q <= r
      <4>1. SUFFICES ASSUME r + 1 <= q PROVE FALSE  OBVIOUS
      <4>2. (r + 1) * D <= q * D /\ (r + 1) * D = r * D + D  BY <1>1, <4>1
      <4>3. QED  BY <1>1, <2>9, <3>2, <4>2
    <3>5. QED  BY <3>1, <3>3, <3>4
  <2>11. QED  BY <2>1, <2>6, <2>10 DEF Ramp, D
<1>4. ASSUME NEW i \in 0 .. len - 2
      PROVE  Ramp(i, len, max, n, d) <= Ramp(i + 1, len, max, n, d)
  <2>1. i * max * n \in Int /\ (i + 1) * max * n \in Int  OBVIOUS
  <2>2. i * max * n <= (i + 1) * max * n
    <3>1. (i + 1) * max * n = i * max * n + max * n  OBVIOUS
    <3>2. QED  BY <1>1, <2>1, <3>1
  <2> HIDE DEF D
  <2>3. (i * max * n) \div D <= ((i + 1) * max * n) \div D
    BY <1>1, <2>1, <2>2, QuotientRises
  <2>4. QED  BY <2>3 DEF Ramp, D
<1>5. QED  BY <1>2, <1>3, <1>4 DEF RampRises

-----------------------------------------------------------------------------
(* The area of interest that is drawn has a pixel and is inside the image. *)
LEMMA TrimmedHasPixels ==
    ASSUME NEW src \in Sizes, NEW trim \in Rects
    PROVE  LET tr == AtLeastOnePixel(Trimmed(src, trim))
           IN  /\ tr.x \in Nat /\ tr.y \in Nat /\ tr.w \in Nat \ {0} /\ tr.h \in Nat \ {0}
               /\ tr.x + tr.w <= src.w /\ tr.y + tr.h <= src.h
               /\ tr.x = Trimmed(src, trim).x /\ tr.y = Trimmed(src, trim).y
<1> DEFINE sr == Rect(0, 0, src.w, src.h)
           c == Trimmed(src, trim)
<1>1. src.w \in Nat \ {0} /\ src.h \in Nat \ {0}
  BY DEF Sizes
<1>2. /\ sr \in Rects /\ sr.x = 0 /\ sr.y = 0 /\ sr.w = src.w /\ sr.h = src.h
      /\ Empty \in Rects /\ Empty.x = 0 /\ Empty.y = 0 /\ Empty.w = 0 /\ Empty.h = 0
  BY <1>1 DEF Rect, Rects, Empty
<1> HIDE DEF sr
<1>3. c = sr \/ c = Empty \/ \E x, y, w, h \in Int :
        /\ c = Rect(x, y, w, h) /\ w > 0 /\ h > 0 /\ x >= 0 /\ y >= 0
        /\ x + w <= src.w /\ y + h <= src.h
  <2>1. CASE trim = Empty
    BY <2>1 DEF Trimmed, sr
  <2>2. CASE trim # Empty
    <3> DEFINE x == Max2(trim.x, sr.x)
               y == Max2(trim.y, sr.y)
               w == Min2(trim.x + trim.w, sr.x + sr.w) - x
               h == Min2(trim.y + trim.h, sr.y + sr.h) - y
    <3>1. c = IF w <= 0 \/ h <= 0 THEN Empty ELSE Rect(x, y, w, h)
      BY <2>2 DEF Trimmed, Intersect, sr
    <3>2. trim.x \in Int /\ trim.y \in Int /\ trim.w \in Int /\ trim.h \in Int
      BY DEF Rects
    <3>3. /\ x \in Int /\ y \in Int /\ w \in Int /\ h \in Int /\ x >= 0 /\ y >= 0
          /\ x + w <= src.w /\ y + h <= src.h
      BY <1>1, <1>2, <3>2 DEF Max2, Min2
    <3> HIDE DEF x, y, w, h
    <3>4. QED
      BY <3>1, <3>3
  <2>3. QED
    BY <2>1, <2>2
<1>4. /\ c.x \in Nat /\ c.y \in Nat /\ c.w \in Nat /\ c.h \in Nat
      /\ c.x + c.w <= src.w /\ c.y + c.h <= src.h
      /\ c.x < src.w /\ c.y < src.h
      /\ c = Rect(c.x, c.y, c.w, c.h)
  <2>1. CASE c = sr
    BY <1>1, <1>2, <2>1 DEF Rect, sr
  <2>2. CASE c = Empty
    BY <1>1, <1>2, <2>2 DEF Rect, Empty
  <2>3. ASSUME NEW x \in Int, NEW y \in Int, NEW w \in Int, NEW h \in Int,
               c = Rect(x, y, w, h), w > 0, h > 0, x >= 0, y >= 0,
               x + w <= src.w, y + h <= src.h
        PROVE  /\ c.x \in Nat /\ c.y \in Nat /\ c.w \in Nat /\ c.h \in Nat
               /\ c.x + c.w <= src.w /\ c.y + c.h <= src.h
               /\ c.x < src.w /\ c.y < src.h
               /\ c = Rect(c.x, c.y, c.w, c.h)
    <3>1. c.x = x /\ c.y = y /\ c.w = w /\ c.h = h
      BY <2>3 DEF Rect
    <3>2. QED
      BY <1>1, <2>3, <3>1
  <2>4. QED
    BY <1>3, <2>1, <2>2, <2>3
<1> HIDE DEF c
<1>5. LET tr == AtLeastOnePixel(c)
      IN  tr.x = c.x /\ tr.y = c.y /\ tr.w = Max2(c.w, 1) /\ tr.h = Max2(c.h, 1)
  BY <1>4 DEF AtLeastOnePixel, Rect
<1>6. Max2(c.w, 1) \in Nat \ {0} /\ c.x + Max2(c.w, 1) <= src.w
  BY <1>1, <1>4 DEF Max2
<1>7. Max2(c.h, 1) \in Nat \ {0} /\ c.y + Max2(c.h, 1) <= src.h
  BY <1>1, <1>4 DEF Max2
<1>8. QED
  BY <1>4, <1>5, <1>6, <1>7 DEF c

(* The parts of a fraction. *)
LEMMA FracFields == ASSUME NEW n, NEW d PROVE Frac(n, d).n = n /\ Frac(n, d).d = d
BY DEF Frac

(* Where the two edges of an image come to lie, as fractions. *)
LEMMA LandsFields ==
    ASSUME NEW size, NEW out, NEW n, NEW d
    PROVE  LET l == Lands(size, out, Frac(n, d))
           IN  /\ l.from.n = out * d - size * n /\ l.from.d = 2 * d
               /\ l.to.n = out * d + size * n /\ l.to.d = 2 * d
BY FracFields DEF Lands

(* A box covers the output on an axis when it is scaled to its size or more,
   and is within it when it is scaled to its size or less. *)
LEMMA LandsByScale ==
    ASSUME NEW size \in Nat \ {0}, NEW out \in Nat \ {0}, NEW n \in Nat \ {0}, NEW d \in Nat \ {0}
    PROVE  /\ out * d <= size * n => Covers(Lands(size, out, Frac(n, d)), out)
           /\ size * n <= out * d => Within(Lands(size, out, Frac(n, d)), out)
<1> DEFINE l == Lands(size, out, Frac(n, d))
<1>1. PICK a \in Nat : a = out * d  OBVIOUS
<1>2. PICK b \in Nat : b = size * n  OBVIOUS
<1>3. l.from.n = a - b /\ l.to.n = a + b /\ l.to.d = 2 * d
  BY <1>1, <1>2, LandsFields
<1>4. out * (2 * d) = 2 * a  BY <1>1
<1> HIDE DEF l
<1>5. Less(l.to, Frac(out, 1)) <=> (a + b) * 1 < 2 * a
  BY <1>3, <1>4, FracFields DEF Less
<1>6. Less(Frac(out, 1), l.to) <=> 2 * a < (a + b) * 1
  BY <1>3, <1>4, FracFields DEF Less
<1>7. (Covers(l, out) <=> a <= b) /\ (Within(l, out) <=> b <= a)
  BY <1>3, <1>5, <1>6 DEF Covers, Within
<1>8. QED
  BY <1>1, <1>2, <1>7 DEF l

(* Of the two scales that fit an axis exactly, the larger covers the other axis
   as well and the smaller is within it. *)
LEMMA AxesFit ==
    ASSUME NEW dst \in Sizes, NEW w \in Nat \ {0}, NEW h \in Nat \ {0}
    PROVE  LET sx == Frac(dst.w, w)
               sy == Frac(dst.h, h)
           IN  /\ Covers(Lands(w, dst.w, sx), dst.w) /\ Within(Lands(w, dst.w, sx), dst.w)
               /\ Covers(Lands(h, dst.h, sy), dst.h) /\ Within(Lands(h, dst.h, sy), dst.h)
               /\ ~Less(sx, sy) => /\ Covers(Lands(h, dst.h, sx), dst.h)
                                   /\ Within(Lands(w, dst.w, sy), dst.w)
               /\ ~Less(sy, sx) => /\ Within(Lands(h, dst.h, sx), dst.h)
                                   /\ Covers(Lands(w, dst.w, sy), dst.w)
<1> DEFINE sx == Frac(dst.w, w)
           sy == Frac(dst.h, h)
<1>1. dst.w \in Nat \ {0} /\ dst.h \in Nat \ {0}
  BY DEF Sizes
<1>2. /\ Less(sx, sy) <=> dst.w * h < dst.h * w
      /\ Less(sy, sx) <=> dst.h * w < dst.w * h
  BY FracFields DEF Less
<1>3. /\ dst.w * w = w * dst.w /\ dst.h * h = h * dst.h
      /\ dst.h * w = w * dst.h /\ dst.w * h = h * dst.w
      /\ dst.h * w \in Nat /\ dst.w * h \in Nat /\ dst.w * w \in Nat /\ dst.h * h \in Nat
  BY <1>1
<1>4. Covers(Lands(w, dst.w, sx), dst.w) /\ Within(Lands(w, dst.w, sx), dst.w)
  BY <1>1, <1>3, LandsByScale
<1>5. Covers(Lands(h, dst.h, sy), dst.h) /\ Within(Lands(h, dst.h, sy), dst.h)
  BY <1>1, <1>3, LandsByScale
<1>6. /\ dst.h * w <= h * dst.w => Covers(Lands(h, dst.h, sx), dst.h)
      /\ h * dst.w <= dst.h * w => Within(Lands(h, dst.h, sx), dst.h)
  BY <1>1, LandsByScale
<1>7. /\ dst.w * h <= w * dst.h => Covers(Lands(w, dst.w, sy), dst.w)
      /\ w * dst.h <= dst.w * h => Within(Lands(w, dst.w, sy), dst.w)
  BY <1>1, LandsByScale
<1>8. /\ ~Less(sx, sy) => dst.h * w <= h * dst.w /\ w * dst.h <= dst.w * h
      /\ ~Less(sy, sx) => h * dst.w <= dst.h * w /\ dst.w * h <= w * dst.h
  <2> HIDE DEF sx, sy
  <2>1. QED
    BY <1>2, <1>3
<1> HIDE DEF sx, sy
<1>9. /\ ~Less(sx, sy) => Covers(Lands(h, dst.h, sx), dst.h) /\ Within(Lands(w, dst.w, sy), dst.w)
      /\ ~Less(sy, sx) => Within(Lands(h, dst.h, sx), dst.h) /\ Covers(Lands(w, dst.w, sy), dst.w)
  BY <1>6, <1>7, <1>8, Zenon
<1>10. QED
  BY <1>4, <1>5, <1>9, Zenon DEF sx, sy

(* The scale of a box that every mode but center and stretch picks. *)
Most(dst, w, h) ==
    IF Less(Frac(dst.w, w), Frac(dst.h, h)) THEN Frac(dst.h, h) ELSE Frac(dst.w, w)
Least(dst, w, h) ==
    IF Less(Frac(dst.h, h), Frac(dst.w, w)) THEN Frac(dst.h, h) ELSE Frac(dst.w, w)

(* Of two scales at most one is the lesser. *)
LEMMA LessIsStrict ==
    ASSUME NEW dst \in Sizes, NEW w \in Nat \ {0}, NEW h \in Nat \ {0}
    PROVE  ~Less(Frac(dst.w, w), Frac(dst.h, h)) \/ ~Less(Frac(dst.h, h), Frac(dst.w, w))
<1>1. dst.w * h \in Nat /\ dst.h * w \in Nat
  BY DEF Sizes
<1>2. QED
  BY <1>1, FracFields DEF Less

(* The greater scale covers the output, and fits it along one axis. *)
LEMMA MostCovers ==
    ASSUME NEW dst \in Sizes, NEW w \in Nat \ {0}, NEW h \in Nat \ {0}
    PROVE  LET x == Lands(w, dst.w, Most(dst, w, h))
               y == Lands(h, dst.h, Most(dst, w, h))
           IN  Covers(x, dst.w) /\ Covers(y, dst.h) /\ (Within(x, dst.w) \/ Within(y, dst.h))
BY AxesFit, LessIsStrict, Zenon DEF Most

(* The lesser scale stays within the output, and fills it along one axis. *)
LEMMA LeastIsWithin ==
    ASSUME NEW dst \in Sizes, NEW w \in Nat \ {0}, NEW h \in Nat \ {0}
    PROVE  LET x == Lands(w, dst.w, Least(dst, w, h))
               y == Lands(h, dst.h, Least(dst, w, h))
           IN  Within(x, dst.w) /\ Within(y, dst.h) /\ (Covers(x, dst.w) \/ Covers(y, dst.h))
BY AxesFit, LessIsStrict, Zenon DEF Least

(* The box of focus on one axis is around the area of interest, and inside the
   image if it is no larger. *)
LEMMA OffsetContains ==
    ASSUME NEW min \in Nat, NEW size \in Nat \ {0}, NEW box \in Nat, NEW whole \in Nat,
           min + size <= whole, size <= box
    PROVE  LET o == Offset(min, size, box, whole)
           IN  /\ o \in Int /\ o <= min /\ min + size <= o + box
               /\ box <= whole => 0 <= o /\ o + box <= whole
<1> DEFINE o == Offset(min, size, box, whole)
           k == Trunc(box - size, 2)
           t == Max2(0, min - k)
<1>1. k \in Nat /\ 2 * k <= box - size /\ box - size < 2 * k + 2
  BY DEF Trunc
<1> HIDE DEF k
<1>2. t \in Nat /\ t <= min /\ min + size <= t + box
  BY <1>1 DEF Max2
<1>3. o = IF box <= whole - t THEN t ELSE IF box > whole THEN Trunc(whole - box, 2) ELSE whole - box
  BY DEF Offset, k
<1> SUFFICES /\ o \in Int /\ o <= min /\ min + size <= o + box
             /\ box <= whole => 0 <= o /\ o + box <= whole
  OBVIOUS
<1> HIDE DEF t, o
<1>4. CASE box <= whole - t
  BY <1>2, <1>3, <1>4
<1>5. CASE ~(box <= whole - t) /\ box > whole
  <2>1. PICK j \in Int : j = Trunc(whole - box, 2)
    BY DEF Trunc
  <2>2. j <= 0 /\ whole <= j + box
    BY <1>5, <2>1 DEF Trunc
  <2>3. QED
    BY <1>3, <1>5, <2>1, <2>2
<1>6. CASE ~(box <= whole - t) /\ ~(box > whole)
  BY <1>2, <1>3, <1>6
<1>7. QED
  BY <1>4, <1>5, <1>6

(* A box that is no larger than the image is moved into it. *)
LEMMA OffsetInside ==
    ASSUME NEW min \in Nat, NEW size \in Nat, NEW box \in Nat, NEW whole \in Nat
    PROVE  LET o == Offset(min, size, box, whole)
           IN  o \in Int /\ (box <= whole => 0 <= o /\ o + box <= whole)
<1> DEFINE o == Offset(min, size, box, whole)
           t == Max2(0, min - Trunc(box - size, 2))
<1>1. t \in Nat
  <2>1. PICK k \in Int : k = Trunc(box - size, 2)
    BY DEF Trunc
  <2>2. QED
    BY <2>1 DEF Max2
<1>2. o = IF box <= whole - t THEN t ELSE IF box > whole THEN Trunc(whole - box, 2) ELSE whole - box
  BY DEF Offset
<1>3. Trunc(whole - box, 2) \in Int
  BY DEF Trunc
<1> SUFFICES o \in Int /\ (box <= whole => 0 <= o /\ o + box <= whole)
  OBVIOUS
<1> HIDE DEF t, o
<1>4. QED
  BY <1>1, <1>2, <1>3

(* Fractions are compared by products. *)
LEMMA LessByProducts ==
    ASSUME NEW a, NEW b, NEW c, NEW d PROVE Less(Frac(a, b), Frac(c, d)) <=> a * d < c * b
BY FracFields DEF Less

(* One side of a box in the ratio of the output is no more, or no less, than
   that of the image. *)
LEMMA SideAtMost ==
    ASSUME NEW a \in Nat, NEW b \in Nat \ {0}, NEW side \in Nat \ {0}, a <= side * b
    PROVE  Max2(1, a \div b) \in 1 .. side
<1>1. 0 * b = 0  OBVIOUS
<1>2. a \div b \in 0 .. side  BY <1>1, QuotientBetween
<1>3. QED  BY <1>2 DEF Max2

(* A quotient that holds a side so often is at least that side. *)
LEMMA SideAtLeast ==
    ASSUME NEW a \in Nat, NEW b \in Nat \ {0}, NEW side \in Nat \ {0}, side * b <= a
    PROVE  Max2(1, a \div b) \in Nat /\ Max2(1, a \div b) >= side
<1>1. PICK q \in Int : q = a \div b  OBVIOUS
<1>2. a < q * b + b  BY <1>1
<1>3. side <= q
  <2>1. SUFFICES ASSUME q + 1 <= side PROVE FALSE  OBVIOUS
  <2>2. (q + 1) * b <= side * b /\ (q + 1) * b = q * b + b  BY <2>1
  <2>3. QED  BY <1>2, <2>2
<1>4. QED  BY <1>1, <1>3 DEF Max2

(* The smallest box of focus is inside the image. *)
LEMMA MinimumBoxFits ==
    ASSUME NEW src \in Sizes, NEW dst \in Sizes
    PROVE  LET b == MinimumBox(src, dst)
           IN  b.w \in 1 .. src.w /\ b.h \in 1 .. src.h
<1> DEFINE b == MinimumBox(src, dst)
<1>1. /\ src.w \in Nat \ {0} /\ src.h \in Nat \ {0} /\ dst.w \in Nat \ {0} /\ dst.h \in Nat \ {0}
  BY DEF Sizes
<1>2. CASE src.w > dst.w /\ src.h > dst.h
  <2>1. b = [w |-> dst.w, h |-> dst.h]
    BY <1>2 DEF MinimumBox
  <2>2. QED
    BY <1>1, <1>2, <2>1
<1>3. CASE ~(src.w > dst.w /\ src.h > dst.h) /\ Less(Frac(dst.w, src.w), Frac(dst.h, src.h))
  <2>1. b = [w |-> Max2(1, (src.h * dst.w) \div dst.h), h |-> src.h]
    BY <1>3 DEF MinimumBox
  <2>2. dst.w * src.h < dst.h * src.w
    BY <1>3, LessByProducts
  <2>3. src.h * dst.w \in Nat /\ src.h * dst.w <= src.w * dst.h
    BY <1>1, <2>2
  <2>4. Max2(1, (src.h * dst.w) \div dst.h) \in 1 .. src.w
    BY <1>1, <2>3, SideAtMost
  <2>5. QED
    BY <1>1, <2>1, <2>4
<1>4. CASE ~(src.w > dst.w /\ src.h > dst.h) /\ ~Less(Frac(dst.w, src.w), Frac(dst.h, src.h))
  <2>1. b = [w |-> src.w, h |-> Max2(1, (src.w * dst.h) \div dst.w)]
    BY <1>4 DEF MinimumBox
  <2>2. ~(dst.w * src.h < dst.h * src.w)
    BY <1>4, LessByProducts
  <2>3. src.w * dst.h \in Nat /\ src.w * dst.h <= src.h * dst.w
    BY <1>1, <2>2
  <2>4. Max2(1, (src.w * dst.h) \div dst.w) \in 1 .. src.h
    BY <1>1, <2>3, SideAtMost
  <2>5. QED
    BY <1>1, <2>1, <2>4
<1>5. QED
  BY <1>2, <1>3, <1>4

(* The largest box of focus has the image in it, but for the height in its last
   case on an upright output. *)
LEMMA ZoomedOutCovers ==
    ASSUME NEW src \in Sizes, NEW dst \in Sizes
    PROVE  LET b == ZoomedOut(src, dst)
           IN  /\ b.w \in Nat /\ b.h \in Nat \ {0} /\ b.w >= src.w
               /\ b.h >= src.h \/ (dst.w < dst.h /\ ~Less(Frac(src.w, dst.w), Frac(src.h, dst.h)))
<1> DEFINE b == ZoomedOut(src, dst)
<1>1. /\ src.w \in Nat \ {0} /\ src.h \in Nat \ {0} /\ dst.w \in Nat \ {0} /\ dst.h \in Nat \ {0}
  BY DEF Sizes
<1>2. CASE Less(Frac(src.w, dst.w), Frac(src.h, dst.h))
  <2>1. b = [w |-> Max2(1, (src.h * dst.w) \div dst.h), h |-> src.h]
    BY <1>2 DEF ZoomedOut
  <2>2. src.w * dst.h < src.h * dst.w
    BY <1>2, LessByProducts
  <2>3. src.h * dst.w \in Nat /\ src.w * dst.h <= src.h * dst.w
    BY <1>1, <2>2
  <2>4. Max2(1, (src.h * dst.w) \div dst.h) \in Nat /\ Max2(1, (src.h * dst.w) \div dst.h) >= src.w
    BY <1>1, <2>3, SideAtLeast
  <2>5. QED
    BY <1>1, <2>1, <2>4
<1>3. CASE ~Less(Frac(src.w, dst.w), Frac(src.h, dst.h))
  <2>1. b = [w |-> src.w, h |-> Max2(1, (src.w * dst.w) \div dst.h)]
    BY <1>3 DEF ZoomedOut
  <2>2. ~(src.w * dst.h < src.h * dst.w)
    BY <1>3, LessByProducts
  <2>3. PICK a \in Nat : a = src.h * dst.w  BY <1>1
  <2>4. a <= src.w * dst.h
    BY <1>1, <2>2, <2>3
  <2>5. ASSUME dst.w >= dst.h PROVE Max2(1, (src.w * dst.w) \div dst.h) >= src.h
    <3>1. src.h * dst.h <= a /\ src.w * dst.h <= src.w * dst.w
      BY <1>1, <2>3, <2>5
    <3>2. src.h * dst.h \in Nat /\ src.w * dst.h \in Nat /\ src.w * dst.w \in Nat
      BY <1>1
    <3>3. src.h * dst.h <= src.w * dst.w
      BY <2>4, <3>1, <3>2
    <3>4. QED
      BY <1>1, <3>2, <3>3, SideAtLeast
  <2>6. Max2(1, (src.w * dst.w) \div dst.h) \in Nat \ {0}
    <3>1. src.w * dst.w \in Nat
      BY <1>1
    <3>2. PICK q \in Int : q = (src.w * dst.w) \div dst.h
      BY <1>1, <3>1
    <3>3. QED
      BY <3>2 DEF Max2
  <2>7. dst.w >= dst.h \/ dst.w < dst.h
    BY <1>1
  <2>8. QED
    BY <1>1, <1>3, <2>1, <2>5, <2>6, <2>7
<1>4. QED
  BY <1>2, <1>3

(* The box of focus is around the area of interest or too low for it, and in the
   image if the area fits in the smallest one. *)
LEMMA FocusBoxContains ==
    ASSUME NEW src \in Sizes, NEW dst \in Sizes,
           NEW tr, tr.x \in Nat, tr.y \in Nat, tr.w \in Nat \ {0}, tr.h \in Nat \ {0},
           tr.x + tr.w <= src.w, tr.y + tr.h <= src.h
    PROVE  LET box == FocusBox(src, dst, tr)
           IN  /\ box.w \in Nat \ {0} /\ box.h \in Nat \ {0}
               /\ Contains(box, tr) \/ TooLow(src, dst, tr, box)
               /\ NoBorder(src, dst, tr, box)
<1> DEFINE least == MinimumBox(src, dst)
           fits == tr.w <= least.w /\ tr.h <= least.h
           b == IF tr.w > least.w \/ tr.h > least.h THEN ZoomedOut(src, dst) ELSE least
           x == Offset(tr.x, tr.w, b.w, src.w)
           y == Offset(tr.y, tr.h, b.h, src.h)
           box == FocusBox(src, dst, tr)
           low == dst.w < dst.h /\ ~Less(Frac(src.w, dst.w), Frac(src.h, dst.h))
<1>1. src.w \in Nat /\ src.h \in Nat
  BY DEF Sizes
<1>2. least.w \in 1 .. src.w /\ least.h \in 1 .. src.h
  BY MinimumBoxFits
<1>3. fits \/ (tr.w > least.w \/ tr.h > least.h)
  BY <1>1, <1>2
<1>4. /\ b.w \in Nat /\ b.h \in Nat \ {0} /\ tr.w <= b.w /\ (tr.h <= b.h \/ low)
      /\ fits => b.w <= src.w /\ b.h <= src.h
  <2>1. CASE fits
    <3>1. b = least
      BY <1>1, <1>2, <2>1
    <3> HIDE DEF b, least
    <3>2. QED
      BY <1>1, <1>2, <2>1, <3>1
  <2>2. CASE ~fits
    <3>1. b = ZoomedOut(src, dst)
      BY <1>3, <2>2
    <3>2. b.w \in Nat /\ b.h \in Nat \ {0} /\ b.w >= src.w /\ (b.h >= src.h \/ low)
      BY <3>1, ZoomedOutCovers
    <3> HIDE DEF b, least, low
    <3>3. QED
      BY <1>1, <2>2, <3>2
  <2>3. QED
    BY <2>1, <2>2
<1>5. box = Rect(x, y, b.w, b.h)
  BY DEF FocusBox
<1> HIDE DEF b, least, box, low
<1>6. /\ x \in Int /\ x <= tr.x /\ tr.x + tr.w <= x + b.w
      /\ b.w <= src.w => 0 <= x /\ x + b.w <= src.w
  BY <1>1, <1>4, OffsetContains
<1>7. /\ y \in Int
      /\ tr.h <= b.h => y <= tr.y /\ tr.y + tr.h <= y + b.h
      /\ b.h <= src.h => 0 <= y /\ y + b.h <= src.h
  <2>1. y \in Int /\ (b.h <= src.h => 0 <= y /\ y + b.h <= src.h)
    BY <1>1, <1>4, OffsetInside
  <2>2. tr.h <= b.h => y <= tr.y /\ tr.y + tr.h <= y + b.h
    BY <1>1, <1>4, OffsetContains
  <2>3. QED
    BY <2>1, <2>2
<1> HIDE DEF x, y
<1>8. box.x = x /\ box.y = y /\ box.w = b.w /\ box.h = b.h
  BY <1>5 DEF Rect
<1>9. Contains(box, tr) \/ TooLow(src, dst, tr, box)
  <2>1. CASE tr.h <= b.h
    BY <1>6, <1>7, <1>8, <2>1 DEF Contains
  <2>2. CASE ~(tr.h <= b.h)
    <3>1. box.h < tr.h
      BY <1>4, <1>8, <2>2
    <3>2. low
      BY <1>4, <2>2
    <3>3. QED
      BY <3>1, <3>2 DEF TooLow, low
  <2>3. QED
    BY <2>1, <2>2
<1>10. NoBorder(src, dst, tr, box)
  <2>1. LET r == Rect(0, 0, src.w, src.h) IN r.x = 0 /\ r.y = 0 /\ r.w = src.w /\ r.h = src.h
    BY DEF Rect
  <2>2. fits => Contains(Rect(0, 0, src.w, src.h), box)
    BY <1>1, <1>4, <1>6, <1>7, <1>8, <2>1 DEF Contains
  <2>3. QED
    BY <2>2 DEF NoBorder, least
<1>11. box.w \in Nat \ {0} /\ box.h \in Nat \ {0}
  BY <1>4, <1>8
<1>12. QED
  BY <1>9, <1>10, <1>11 DEF box

(* The box and the scales of each mode. *)
LEMMA Transforms ==
    ASSUME NEW src, NEW dst, NEW tr, NEW mode
    PROVE  LET t == Transform(src, dst, tr, mode)
               box == FocusBox(src, dst, tr)
           IN  /\ mode = "stretch" => t.box = tr /\ t.x = Frac(dst.w, tr.w) /\ t.y = Frac(dst.h, tr.h)
               /\ mode = "zoom" => t.box = tr /\ t.x = Most(dst, tr.w, tr.h) /\ t.y = t.x
               /\ mode = "maximize" => t.box = tr /\ t.x = Least(dst, tr.w, tr.h) /\ t.y = t.x
               /\ mode = "center" => t.box = tr /\ t.x = Frac(1, 1) /\ t.y = t.x
               /\ mode = "focus" => t.box = box /\ t.x = Least(dst, box.w, box.h) /\ t.y = t.x
BY DEF Transform, Most, Least

(* Stretch fills the output exactly, zoom covers it and maximize is within it,
   each exact on one axis and in the image's own ratio, and focus keeps the area
   of interest in view and shows no border around it unless it must: for an
   image, an output and an area of any size, wherever the area is.  The area is
   not all in view only where an upright output, the image being the wider of the
   two, makes the box too low for it (transform of xwallpaper/transform.go). *)
THEOREM ModesKeepTheirPromise ==
    ASSUME NEW src \in Sizes, NEW dst \in Sizes, NEW trim \in Rects,
           NEW mode \in {"stretch", "zoom", "maximize", "center", "focus"}
    PROVE  ModePromise(src, dst, trim, mode)
<1> DEFINE tr == AtLeastOnePixel(Trimmed(src, trim))
           t == Transform(src, dst, tr, mode)
           x == Lands(t.box.w, dst.w, t.x)
           y == Lands(t.box.h, dst.h, t.y)
<1>1. /\ tr.x \in Nat /\ tr.y \in Nat /\ tr.w \in Nat \ {0} /\ tr.h \in Nat \ {0}
      /\ tr.x + tr.w <= src.w /\ tr.y + tr.h <= src.h
  BY TrimmedHasPixels
<1>2. SUFFICES Promised(mode, src, dst, tr, t, x, y)
  BY DEF ModePromise
<1>3. CASE mode = "stretch"
  <2>1. t.box = tr /\ t.x = Frac(dst.w, tr.w) /\ t.y = Frac(dst.h, tr.h)
    BY <1>3, Transforms
  <2> HIDE DEF tr, t
  <2>2. Covers(x, dst.w) /\ Covers(y, dst.h) /\ Within(x, dst.w) /\ Within(y, dst.h)
    BY <1>1, <2>1, AxesFit, Zenon
  <2> HIDE DEF x, y
  <2>3. QED
    BY <1>3, <2>2 DEF Promised
<1>4. CASE mode = "zoom"
  <2>1. t.box = tr /\ t.x = Most(dst, tr.w, tr.h) /\ t.y = t.x
    BY <1>4, Transforms
  <2> HIDE DEF tr, t
  <2>2. Covers(x, dst.w) /\ Covers(y, dst.h) /\ (Within(x, dst.w) \/ Within(y, dst.h))
    BY <1>1, <2>1, MostCovers, Zenon
  <2> HIDE DEF x, y
  <2>3. QED
    BY <1>4, <2>1, <2>2 DEF Promised
<1>5. CASE mode = "maximize"
  <2>1. t.box = tr /\ t.x = Least(dst, tr.w, tr.h) /\ t.y = t.x
    BY <1>5, Transforms
  <2> HIDE DEF tr, t
  <2>2. Within(x, dst.w) /\ Within(y, dst.h) /\ (Covers(x, dst.w) \/ Covers(y, dst.h))
    BY <1>1, <2>1, LeastIsWithin, Zenon
  <2> HIDE DEF x, y
  <2>3. QED
    BY <1>5, <2>1, <2>2 DEF Promised
<1>6. CASE mode = "center"
  <2>1. t.x = Frac(1, 1) /\ t.y = t.x
    BY <1>6, Transforms
  <2> HIDE DEF tr, t, x, y
  <2>2. QED
    BY <1>6, <2>1 DEF Promised
<1>7. CASE mode = "focus"
  <2> DEFINE box == FocusBox(src, dst, tr)
  <2>1. t.box = box /\ t.x = Least(dst, box.w, box.h) /\ t.y = t.x
    BY <1>7, Transforms
  <2> HIDE DEF tr, t
  <2>2. /\ box.w \in Nat \ {0} /\ box.h \in Nat \ {0}
        /\ Contains(box, tr) \/ TooLow(src, dst, tr, box)
        /\ NoBorder(src, dst, tr, box)
    BY <1>1, FocusBoxContains
  <2> HIDE DEF box
  <2>3. Within(x, dst.w) /\ Within(y, dst.h)
    BY <2>1, <2>2, LeastIsWithin, Zenon
  <2> HIDE DEF x, y
  <2>4. QED
    BY <1>7, <2>1, <2>2, <2>3 DEF Promised
<1>8. QED
  BY <1>3, <1>4, <1>5, <1>6, <1>7

-----------------------------------------------------------------------------
(* A conversion to int is less than a pixel off. *)
LEMMA TruncIsNear ==
    ASSUME NEW n \in Int, NEW d \in Nat \ {0}, NEW f, f.n = n, f.d = d
    PROVE  Near(Trunc(n, d), f)
<1>1. CASE n >= 0
  <2>1. PICK q \in Int : q = n \div d  OBVIOUS
  <2>2. q * d <= n /\ n < q * d + d  BY <2>1
  <2>3. QED  BY <1>1, <2>1, <2>2 DEF Trunc, Near
<1>2. CASE n < 0
  <2>1. PICK q \in Int : q = (-n) \div d  OBVIOUS
  <2>2. q * d <= -n /\ -n < q * d + d  BY <2>1
  <2>3. (-q) * d = -(q * d)  OBVIOUS
  <2>4. Trunc(n, d) = -q  BY <1>2, <2>1 DEF Trunc
  <2>5. (-q) * d > n - d /\ (-q) * d < n + d  BY <2>2, <2>3
  <2>6. QED  BY <2>4, <2>5 DEF Near
<1>3. QED  BY <1>1, <1>2

(* The edges that DrawRez computes are less than two pixels from those of Draw. *)
LEMMA RezIsNear ==
    ASSUME NEW size \in Nat, NEW out \in Nat, NEW n \in Nat, NEW d \in Nat \ {0}
    PROVE  LET l == Lands(size, out, Frac(n, d))
               r == RezLands(0, size, out, Frac(n, d))
           IN  Near(r.from, l.from) /\ Near(r.to, l.to)
<1> DEFINE l == Lands(size, out, Frac(n, d))
           r == RezLands(0, size, out, Frac(n, d))
<1>1. /\ l.from.n = out * d - size * n /\ l.from.d = 2 * d
      /\ l.to.n = out * d + size * n /\ l.to.d = 2 * d
  BY LandsFields
<1>2. out * d \in Int /\ size * n \in Int /\ 2 * d \in Nat \ {0} /\ 2 * 0 * n = 0
  OBVIOUS
<1>3. l.from.n \in Int /\ l.to.n \in Int /\ l.from.d \in Nat \ {0} /\ l.to.d \in Nat \ {0}
  BY <1>1, <1>2
<1>4. r.from = Trunc(l.from.n - 2 * 0 * n, l.from.d) /\ r.to = Trunc(l.to.n - 2 * 0 * n, l.to.d)
  BY FracFields DEF RezLands
<1> HIDE DEF l, r
<1>5. r.from = Trunc(l.from.n, l.from.d) /\ r.to = Trunc(l.to.n, l.to.d)
  BY <1>2, <1>3, <1>4
<1>6. QED
  BY <1>3, <1>5, TruncIsNear DEF l, r

(* DrawRez draws where Draw does, less than a pixel off, whenever the area of
   interest begins in the corner of the image, as it does if none is given: what
   DrawRezIsLikeDraw of MCWallpaper finds takes an area that does not
   (rezFilter of xwallpaper/transform.go). *)
THEOREM DrawRezIsLikeDrawInTheCorner ==
    ASSUME NEW src \in Sizes, NEW dst \in Sizes, NEW trim \in Rects,
           Trimmed(src, trim).x = 0, Trimmed(src, trim).y = 0,
           NEW mode \in {"stretch", "zoom", "maximize", "center"}
    PROVE  LikeDraw(src, dst, trim, mode)
<1> DEFINE tr == AtLeastOnePixel(Trimmed(src, trim))
           t == Transform(src, dst, tr, mode)
<1>1. tr.x = 0 /\ tr.y = 0 /\ tr.w \in Nat \ {0} /\ tr.h \in Nat \ {0}
  BY TrimmedHasPixels
<1>2. dst.w \in Nat \ {0} /\ dst.h \in Nat \ {0}
  BY DEF Sizes
<1>3. /\ t.box = tr
      /\ t.x \in {Frac(dst.w, tr.w), Frac(dst.h, tr.h), Frac(1, 1)}
      /\ t.y \in {Frac(dst.w, tr.w), Frac(dst.h, tr.h), Frac(1, 1)}
  BY Transforms DEF Most, Least
<1>4. \A scale \in {Frac(dst.w, tr.w), Frac(dst.h, tr.h), Frac(1, 1)} :
          \E n \in Nat, d \in Nat \ {0} : scale = Frac(n, d)
  BY <1>1, <1>2
<1> HIDE DEF t
<1>5. PICK nx \in Nat, dx \in Nat \ {0} : t.x = Frac(nx, dx)
  BY <1>3, <1>4
<1>6. PICK ny \in Nat, dy \in Nat \ {0} : t.y = Frac(ny, dy)
  BY <1>3, <1>4
<1> DEFINE NearBoth(min, size, out, scale) ==
               /\ Near(RezLands(min, size, out, scale).from, Lands(size, out, scale).from)
               /\ Near(RezLands(min, size, out, scale).to, Lands(size, out, scale).to)
<1>7. NearBoth(0, tr.w, dst.w, t.x) /\ NearBoth(0, tr.h, dst.h, t.y)
  <2>1. NearBoth(0, tr.w, dst.w, Frac(nx, dx)) /\ NearBoth(0, tr.h, dst.h, Frac(ny, dy))
    <3> HIDE DEF tr
    <3>1. QED
      BY <1>1, <1>2, RezIsNear
  <2> HIDE DEF tr, NearBoth
  <2>2. QED
    BY <1>5, <1>6, <2>1
<1>8. NearBoth(t.box.x, t.box.w, dst.w, t.x) /\ NearBoth(t.box.y, t.box.h, dst.h, t.y)
  <2> HIDE DEF tr, NearBoth
  <2>1. QED
    BY <1>1, <1>3, <1>7
<1>9. QED
  BY <1>8 DEF LikeDraw, t

(* On one axis, steps of a side from a place on reach every pixel after it, and
   none before it. *)
StepReaches(from, p, side, last) ==
    \E i \in 0 .. last \div side : from + i * side <= p /\ p < from + (i + 1) * side

LEMMA StepsReach ==
    ASSUME NEW from \in Nat, NEW last \in Nat, NEW p \in 0 .. last, NEW side \in Nat \ {0}
    PROVE  StepReaches(from, p, side, last) <=> from <= p
<1>1. ASSUME NEW i \in 0 .. last \div side, from + i * side <= p PROVE from <= p
  <2>1. i \in Nat
    OBVIOUS
  <2>2. i * side >= 0 /\ i * side \in Int
    BY <2>1
  <2>3. QED
    BY <1>1, <2>2
<1>2. ASSUME from <= p PROVE StepReaches(from, p, side, last)
  <2>1. PICK q \in Nat : q = p - from  BY <1>2
  <2>2. PICK i \in Int : i = q \div side  OBVIOUS
  <2>3. i * side <= q /\ q < i * side + side  BY <2>2
  <2>4. i >= 0  BY <2>2
  <2>5. i <= last \div side
    BY <2>1, <2>2, QuotientRises
  <2>6. (i + 1) * side = i * side + side  OBVIOUS
  <2>7. i \in 0 .. last \div side
    BY <2>4, <2>5
  <2>8. i * side \in Int
    OBVIOUS
  <2>9. from + i * side <= p /\ p < from + (i + 1) * side
    BY <2>1, <2>3, <2>6, <2>8
  <2>10. QED
    BY <2>7, <2>9, Zenon DEF StepReaches
<1>3. QED
  BY <1>1, <1>2 DEF StepReaches

(* The tiles of an area of interest of the image reach every pixel of the output
   that is neither to the left of nor above the area's own place, and no other:
   they leave none bare just when the area is in the corner (Tile of
   xwallpaper). *)
THEOREM TilesAlwaysCover ==
    ASSUME NEW dst \in Sizes, NEW tr \in Rects, tr.x >= 0, tr.y >= 0 PROVE TilesCover(dst, tr)
<1>1. SUFFICES ASSUME TileEnds(tr), NEW x \in 0 .. dst.w - 1, NEW y \in 0 .. dst.h - 1
               PROVE  TileCovers(tr, x, y, dst) <=> tr.x <= x /\ tr.y <= y
  BY DEF TilesCover
<1>2. /\ tr.w \in Nat \ {0} /\ tr.h \in Nat \ {0} /\ dst.w - 1 \in Nat /\ dst.h - 1 \in Nat
      /\ tr.x \in Nat /\ tr.y \in Nat
  BY <1>1 DEF TileEnds, Rects, Sizes
<1>3. StepReaches(tr.x, x, tr.w, dst.w - 1) <=> tr.x <= x
  BY <1>2, StepsReach
<1>4. StepReaches(tr.y, y, tr.h, dst.h - 1) <=> tr.y <= y
  BY <1>2, StepsReach
<1>5. TileCovers(tr, x, y, dst) <=>
          StepReaches(tr.x, x, tr.w, dst.w - 1) /\ StepReaches(tr.y, y, tr.h, dst.h - 1)
  BY Zenon DEF TileCovers, StepReaches
<1>6. QED
  BY <1>3, <1>4, <1>5

-----------------------------------------------------------------------------
(* The first of some places is one of them. *)
LEMMA FirstIsOne ==
    ASSUME NEW n \in Nat, NEW places \in SUBSET (1 .. n)
    PROVE  /\ First(places) = 0 <=> places = {}
           /\ places # {} => First(places) \in places /\ \A i \in places : First(places) <= i
<1>1. CASE places = {}
  BY <1>1 DEF First
<1>2. CASE places # {}
  <2>1. places \in SUBSET Nat
    OBVIOUS
  <2>2. \E x \in places : \A y \in places : x <= y
    BY <1>2, <2>1, LeastOf
  <2>3. Min(places) \in places /\ \A y \in places : Min(places) <= y
    BY <2>2 DEF Min
  <2>4. First(places) = Min(places)
    BY <1>2 DEF First
  <2>5. Min(places) # 0
    BY <2>3
  <2>6. QED
    BY <1>2, <2>3, <2>4, <2>5
<1>3. QED
  BY <1>1, <1>2

(* Numbers in order from 1 on are those of their places, if none is left out. *)
LEMMA NoneLeftOut ==
    ASSUME NEW cpus \in Seq(Nat \ {0}), \A i, j \in DOMAIN cpus : i < j => cpus[i] < cpus[j]
    PROVE  LET online == {cpus[i] : i \in DOMAIN cpus}
           IN  (\A n \in online : n = 1 \/ n - 1 \in online) <=> \A i \in DOMAIN cpus : cpus[i] = i
<1> DEFINE n == Len(cpus)
           online == {cpus[i] : i \in DOMAIN cpus}
           T == {i \in 0 .. n : i = 0 \/ cpus[i] = i}
<1>1. n \in Nat /\ DOMAIN cpus = 1 .. n /\ \A i \in 1 .. n : cpus[i] \in Nat /\ cpus[i] > 0
  OBVIOUS
<1> HIDE DEF n
<1>2. ASSUME \A i \in 1 .. n : cpus[i] = i, NEW m \in online PROVE m = 1 \/ m - 1 \in online
  <2>1. PICK i \in 1 .. n : m = cpus[i]
    BY <1>1
  <2>2. CASE i = 1
    BY <1>2, <2>1, <2>2
  <2>3. CASE i # 1
    <3>1. i - 1 \in 1 .. n /\ cpus[i - 1] = i - 1 /\ m = i
      BY <1>1, <1>2, <2>1, <2>3
    <3>2. QED
      BY <1>1, <3>1
  <2>4. QED
    BY <2>2, <2>3
<1>3. ASSUME \A m \in online : m = 1 \/ m - 1 \in online PROVE \A i \in 1 .. n : cpus[i] = i
  <2>1. ASSUME NEW i \in 1 .. n, i - 1 \in T PROVE i \in T
    <3>1. cpus[i] \in Nat /\ cpus[i] > 0 /\ i \in Nat /\ (i = 1 \/ cpus[i - 1] = i - 1)
      BY <1>1, <2>1
    <3>2. cpus[i] >= i
      <4>1. CASE i = 1
        BY <3>1, <4>1
      <4>2. CASE i # 1
        <5>1. i - 1 \in 1 .. n /\ i - 1 < i /\ cpus[i - 1] = i - 1
          BY <1>1, <3>1, <4>2
        <5>2. cpus[i - 1] < cpus[i]
          BY <1>1, <5>1
        <5>3. QED
          BY <3>1, <5>1, <5>2
      <4>3. QED
        BY <4>1, <4>2
    <3>3. ASSUME cpus[i] > i PROVE FALSE
      <4>1. cpus[i] # 1 /\ cpus[i] \in online
        BY <1>1, <3>1, <3>3
      <4>2. PICK j \in 1 .. n : cpus[j] = cpus[i] - 1
        BY <1>1, <1>3, <4>1
      <4>3. j < i
        <5>1. ASSUME i < j PROVE FALSE
          <6>1. cpus[i] < cpus[j]
            BY <1>1, <5>1
          <6>2. QED
            BY <3>1, <4>2, <6>1
        <5>2. i # j
          BY <3>1, <4>2
        <5>3. QED
          BY <1>1, <5>1, <5>2
      <4>4. i # 1 /\ cpus[i - 1] = i - 1
        BY <1>1, <3>1, <4>3
      <4>5. cpus[j] <= i - 1
        <5>1. CASE j = i - 1
          BY <3>1, <4>4, <5>1
        <5>2. CASE j < i - 1
          <6>1. i - 1 \in 1 .. n
            BY <1>1, <4>4
          <6>2. cpus[j] < cpus[i - 1]
            BY <1>1, <5>2, <6>1
          <6>3. QED
            BY <1>1, <4>4, <6>2
        <5>3. QED
          BY <1>1, <4>3, <5>1, <5>2
      <4>6. QED
        BY <3>1, <3>3, <4>2, <4>5
    <3>4. QED
      BY <3>1, <3>2, <3>3
  <2>2. 0 \in T
    BY <1>1
  <2> HIDE DEF T
  <2>3. \A i \in 0 .. n : i \in T
    BY <1>1, <2>1, <2>2, Induction
  <2>4. QED
    BY <1>1, <2>3 DEF T
<1>4. QED
  BY <1>1, <1>2, <1>3

(* The CPUs of /proc/stat are read, whichever of them are online. *)
LEMMA CpusAreAlwaysRead ==
    ASSUME NEW x \in Stats PROVE CpusAreRead(x.cpus, x.total, x.each)
<1> DEFINE n == Len(x.cpus)
           lines == StatOf(x.cpus, x.total, x.each)
           read == SubSeq(lines, 1, n + 1)
           ends == {i \in DOMAIN lines : lines[i].key # "cpu"}
           ordered == n >= 1 /\ \A i \in 1 .. n : x.cpus[i] = i
           online == {x.cpus[i] : i \in DOMAIN x.cpus}
<1>1. /\ x.cpus \in Seq(Nat \ {0}) /\ x.each \in Seq(Times) /\ Len(x.each) = n /\ n \in Nat
      /\ \A i, j \in DOMAIN x.cpus : i < j => x.cpus[i] < x.cpus[j]
  BY DEF Stats
<1>2. DOMAIN x.cpus = 1 .. n /\ x.each = [i \in 1 .. n |-> x.each[i]]
  BY <1>1
<1> HIDE DEF n
<1>3. /\ DOMAIN lines = 1 .. n + 2 /\ Len(lines) = n + 2
      /\ lines[1] = CpuLine(0, x.total) /\ lines[n + 2].key = "intr"
      /\ \A i \in 1 .. n : lines[i + 1] = CpuLine(x.cpus[i], x.each[i])
  BY <1>1 DEF StatOf, n
<1>4. ends = {n + 2}
  <2>1. \A i \in 1 .. n + 1 : lines[i].key = "cpu"
    <3>1. SUFFICES ASSUME NEW i \in 1 .. n + 1 PROVE lines[i].key = "cpu"
      OBVIOUS
    <3>2. CASE i = 1
      BY <1>3, <3>2 DEF CpuLine
    <3>3. CASE i # 1
      <4>1. i - 1 \in 1 .. n /\ (i - 1) + 1 = i
        BY <1>1, <3>3
      <4> HIDE DEF lines
      <4>2. lines[i] = CpuLine(x.cpus[i - 1], x.each[i - 1])
        BY <1>3, <4>1
      <4>3. QED
        BY <4>2 DEF CpuLine
    <3>4. QED
      BY <3>2, <3>3
  <2> HIDE DEF lines
  <2>2. QED
    BY <1>1, <1>3, <2>1
<1> HIDE DEF ends, lines
<1>5. First(ends) = n + 2
  <2>1. n + 2 \in Nat /\ {n + 2} \in SUBSET (1 .. n + 2)
    BY <1>1
  <2>2. QED
    BY <1>4, <2>1, FirstIsOne
<1>6. /\ Len(read) = n + 1 /\ DOMAIN read = 1 .. n + 1
      /\ \A i \in 1 .. n + 1 : read[i] = lines[i]
  BY <1>1, <1>3
<1>7. CpuTimes(lines) =
        IF Len(read) < 2 \/ \E i \in DOMAIN read : read[i].n # i - 1 THEN Failed
        ELSE [ok |-> TRUE, total |-> read[1].time, each |-> [i \in 1 .. Len(read) - 1 |-> read[i + 1].time]]
  <2>1. n + 2 # 0 /\ (n + 2) - 1 = n + 1
    BY <1>1
  <2> HIDE DEF read
  <2>2. QED
    BY <1>5, <2>1 DEF CpuTimes, ends, read
<1> HIDE DEF read
<1>12. /\ read[1].n = 0 /\ read[1].time = x.total
       /\ \A i \in 1 .. n : read[i + 1].n = x.cpus[i] /\ read[i + 1].time = x.each[i]
  <2>1. read[1].n = 0 /\ read[1].time = x.total
    BY <1>1, <1>3, <1>6 DEF CpuLine
  <2>2. ASSUME NEW i \in 1 .. n PROVE read[i + 1].n = x.cpus[i] /\ read[i + 1].time = x.each[i]
    <3>1. i + 1 \in 1 .. n + 1
      BY <1>1
    <3>2. read[i + 1] = CpuLine(x.cpus[i], x.each[i])
      BY <1>3, <1>6, <3>1
    <3>3. QED
      BY <3>2 DEF CpuLine
  <2>3. QED
    BY <2>1, <2>2
<1>8. (Len(read) < 2 \/ \E i \in DOMAIN read : read[i].n # i - 1) <=> ~ordered
  <2>1. \A i \in 1 .. n : i + 1 \in 1 .. n + 1 /\ read[i + 1].n = x.cpus[i]
    BY <1>1, <1>12
  <2>2. read[1].n = 0
    BY <1>12
  <2>3. ASSUME NEW i \in 1 .. n + 1, read[i].n # i - 1 PROVE ~ordered
    <3>1. i # 1
      BY <2>2, <2>3
    <3>2. i - 1 \in 1 .. n /\ (i - 1) + 1 = i
      BY <1>1, <3>1
    <3>3. x.cpus[i - 1] # i - 1
      BY <2>1, <2>3, <3>2
    <3>4. QED
      BY <3>2, <3>3
  <2>4. ASSUME n >= 1, NEW i \in 1 .. n, x.cpus[i] # i PROVE \E k \in 1 .. n + 1 : read[k].n # k - 1
    BY <1>1, <2>1, <2>4
  <2>5. Len(read) < 2 <=> ~(n >= 1)
    BY <1>1, <1>6
  <2>6. QED
    BY <1>6, <2>3, <2>4, <2>5
<1>9. ordered <=> (online # {} /\ \A m \in online : m = 1 \/ m - 1 \in online)
  <2>1. online # {} <=> n >= 1
    BY <1>1, <1>2
  <2>2. (\A m \in online : m = 1 \/ m - 1 \in online) <=> \A i \in DOMAIN x.cpus : x.cpus[i] = i
    BY <1>1, NoneLeftOut
  <2> HIDE DEF online
  <2>3. QED
    BY <1>2, <2>1, <2>2
<1>10. ordered => /\ CpuTimes(lines).ok /\ CpuTimes(lines).total = x.total /\ CpuTimes(lines).each = x.each
  <2>1. SUFFICES ASSUME ordered
                 PROVE  CpuTimes(lines).ok /\ CpuTimes(lines).total = x.total /\ CpuTimes(lines).each = x.each
    OBVIOUS
  <2>2. CpuTimes(lines) = [ok |-> TRUE, total |-> read[1].time, each |-> [i \in 1 .. Len(read) - 1 |-> read[i + 1].time]]
    BY <1>7, <1>8, <2>1
  <2>3. read[1].time = x.total
    BY <1>12
  <2>4. [i \in 1 .. Len(read) - 1 |-> read[i + 1].time] = x.each
    <3>1. Len(read) - 1 = n
      BY <1>1, <1>6
    <3>2. QED
      BY <1>2, <1>12, <3>1
  <2>5. QED
    BY <2>2, <2>3, <2>4
<1>11. ~ordered => ~CpuTimes(lines).ok
  <2> HIDE DEF ordered
  <2>1. QED
    BY <1>7, <1>8 DEF Failed
<1> HIDE DEF ordered
<1>13. QED
  BY <1>9, <1>10, <1>11 DEF CpusAreRead, lines

-----------------------------------------------------------------------------
(* What times are made of and add up to. *)
LEMMA TimeFields ==
    /\ NoTime \in Times /\ NoTime.busy = 0 /\ NoTime.idle = 0
    /\ \A t \in Times : t.busy \in Nat /\ t.idle \in Nat
    /\ \A t, o : Add(t, o).busy = t.busy + o.busy /\ Add(t, o).idle = t.idle + o.idle
BY DEF Times, NoTime, Add, Time

(* What a sum of times comes to step by step. *)
Sums(s) == {f \in [0 .. Len(s) -> Times] : f[0] = NoTime /\ \A i \in 1 .. Len(s) : f[i] = Add(f[i - 1], s[i])}

(* A sum of times is the last value of its iteration. *)
LEMMA SumSteps ==
    ASSUME NEW s \in Seq(Times) PROVE \E f : f \in Sums(s) /\ Sum(s) = f[Len(s)]
<1> DEFINE step == [p \in Times \X Times |-> Add(p[1], p[2])]
           n == Len(s)
<1>1. step \in Updates(Times, Times) /\ NoTime \in Times
  BY DEF Updates, Add, Time, Times, NoTime
<1>2. Sum(s) = Fold(step, NoTime, s)
  BY DEF Sum
<1>3. \A t, o \in Times : step[<<t, o>>] = Add(t, o)
  OBVIOUS
<1> HIDE DEF step
<1>4. PICK f : f \in Folding(step, NoTime, s, Times) /\ Fold(step, NoTime, s) = f[Len(s)]
  BY <1>1, FoldSteps
<1>5. n \in Nat /\ \A i \in 1 .. n : s[i] \in Times
  OBVIOUS
<1>6. f \in [0 .. n -> Times] /\ f[0] = NoTime /\ \A i \in 1 .. n : f[i] = step[<<f[i - 1], s[i]>>]
  BY <1>4 DEF Folding
<1> HIDE DEF n
<1>7. ASSUME NEW i \in 1 .. n PROVE f[i] = Add(f[i - 1], s[i])
  <2>1. i - 1 \in 0 .. n
    BY <1>5
  <2>2. f[i - 1] \in Times /\ s[i] \in Times
    BY <1>5, <1>6, <2>1
  <2>3. QED
    BY <1>3, <1>6, <2>2
<1>8. f \in Sums(s)
  BY <1>6, <1>7 DEF Sums, n
<1>9. QED
  BY <1>2, <1>4, <1>8

(* Busy and idle times are summed each for itself. *)
LEMMA SumFields ==
    ASSUME NEW s \in Seq(Times), NEW f, f \in Sums(s)
    PROVE  /\ f[0].busy = 0 /\ f[0].idle = 0
           /\ \A i \in 0 .. Len(s) : f[i].busy \in Nat /\ f[i].idle \in Nat
           /\ \A i \in 1 .. Len(s) : f[i].busy = f[i - 1].busy + s[i].busy /\ f[i].idle = f[i - 1].idle + s[i].idle
<1>1. \A i \in 0 .. Len(s) : f[i] \in Times
  BY DEF Sums
<1>2. f[0] = NoTime /\ \A i \in 1 .. Len(s) : f[i] = Add(f[i - 1], s[i])
  BY DEF Sums
<1>3. QED
  BY <1>1, <1>2, TimeFields

(* A sum of no more is no more. *)
LEMMA SumGrows ==
    ASSUME NEW s \in Seq(Times), NEW t \in Seq(Times), Len(s) = Len(t),
           \A i \in 1 .. Len(t) : s[i].busy <= t[i].busy /\ s[i].idle <= t[i].idle
    PROVE  /\ Sum(s).busy \in Nat /\ Sum(s).idle \in Nat /\ Sum(t).busy \in Nat /\ Sum(t).idle \in Nat
           /\ Sum(s).busy <= Sum(t).busy /\ Sum(s).idle <= Sum(t).idle
<1> DEFINE n == Len(t)
<1>1. /\ n \in Nat /\ Len(s) = n
      /\ \A i \in 1 .. n : s[i].busy \in Nat /\ s[i].idle \in Nat /\ t[i].busy \in Nat /\ t[i].idle \in Nat
  <2>1. \A i \in 1 .. n : s[i] \in Times /\ t[i] \in Times
    OBVIOUS
  <2>2. QED
    BY <2>1, TimeFields
<1>2. PICK f : f \in Sums(s) /\ Sum(s) = f[Len(s)]
  BY SumSteps
<1>3. PICK g : g \in Sums(t) /\ Sum(t) = g[Len(t)]
  BY SumSteps
<1>4. /\ f[0].busy = 0 /\ f[0].idle = 0
      /\ \A i \in 0 .. n : f[i].busy \in Nat /\ f[i].idle \in Nat
      /\ \A i \in 1 .. n : f[i].busy = f[i - 1].busy + s[i].busy /\ f[i].idle = f[i - 1].idle + s[i].idle
  BY <1>1, <1>2, SumFields
<1>5. /\ g[0].busy = 0 /\ g[0].idle = 0
      /\ \A i \in 0 .. n : g[i].busy \in Nat /\ g[i].idle \in Nat
      /\ \A i \in 1 .. n : g[i].busy = g[i - 1].busy + t[i].busy /\ g[i].idle = g[i - 1].idle + t[i].idle
  BY <1>3, SumFields
<1> DEFINE T == {i \in 0 .. n : f[i].busy <= g[i].busy /\ f[i].idle <= g[i].idle}
<1>6. \A i \in 1 .. n : s[i].busy <= t[i].busy /\ s[i].idle <= t[i].idle
  OBVIOUS
<1> HIDE DEF n
<1>7. ASSUME NEW i \in 1 .. n, i - 1 \in T PROVE i \in T
  <2>1. i \in 0 .. n /\ i - 1 \in 0 .. n
    BY <1>1
  <2>2. PICK a \in Nat, b \in Nat, c \in Nat, d \in Nat :
            a = f[i - 1].busy /\ b = f[i - 1].idle /\ c = g[i - 1].busy /\ d = g[i - 1].idle
    BY <1>4, <1>5, <2>1
  <2>3. PICK k \in Nat, l \in Nat, u \in Nat, v \in Nat :
            k = s[i].busy /\ l = s[i].idle /\ u = t[i].busy /\ v = t[i].idle
    BY <1>1
  <2>4. a <= c /\ b <= d /\ k <= u /\ l <= v
    BY <1>6, <1>7, <2>2, <2>3
  <2>5. f[i].busy = a + k /\ f[i].idle = b + l /\ g[i].busy = c + u /\ g[i].idle = d + v
    BY <1>4, <1>5, <2>2, <2>3
  <2>6. f[i].busy <= g[i].busy /\ f[i].idle <= g[i].idle
    BY <2>4, <2>5
  <2>7. QED
    BY <2>1, <2>6
<1>8. 0 \in T
  BY <1>1, <1>4, <1>5
<1>9. \A i \in 0 .. n : i \in T
  <2> HIDE DEF T
  <2>1. QED
    BY <1>1, <1>7, <1>8, Induction
<1>10. n \in T /\ n \in 0 .. n
  BY <1>1, <1>9
<1>11. QED
  BY <1>1, <1>2, <1>3, <1>4, <1>5, <1>10 DEF n

(* Parts that come to the whole everywhere come to it together. *)
LEMMA PartsComeToWhole ==
    ASSUME NEW a \in Seq(Times), NEW b \in Seq(Times), NEW c \in Seq(Times), NEW d \in Seq(Times),
           NEW e \in Seq(Times),
           Len(a) = Len(e), Len(b) = Len(e), Len(c) = Len(e), Len(d) = Len(e),
           \A i \in 1 .. Len(e) : e[i].busy = a[i].busy + b[i].busy + c[i].busy + d[i].busy
    PROVE  Sum(e).busy = Sum(a).busy + Sum(b).busy + Sum(c).busy + Sum(d).busy
<1> DEFINE n == Len(e)
           Busy(f, s) == /\ f[0].busy = 0
                         /\ \A i \in 0 .. n : f[i].busy \in Nat
                         /\ \A i \in 1 .. n : f[i].busy = f[i - 1].busy + s[i].busy
<1>1. ASSUME NEW s \in Seq(Times), Len(s) = n PROVE \E f : Busy(f, s) /\ Sum(s) = f[n]
  <2>1. PICK f : f \in Sums(s) /\ Sum(s) = f[Len(s)]
    BY SumSteps
  <2>2. Busy(f, s)
    BY <1>1, <2>1, SumFields
  <2> HIDE DEF Busy
  <2>3. QED
    BY <1>1, <2>1, <2>2
<1>2. /\ n \in Nat
      /\ \A i \in 1 .. n : /\ e[i].busy \in Nat /\ a[i].busy \in Nat /\ b[i].busy \in Nat
                           /\ c[i].busy \in Nat /\ d[i].busy \in Nat
                           /\ e[i].busy = a[i].busy + b[i].busy + c[i].busy + d[i].busy
  <2>1. \A t \in Times : t.busy \in Nat
    BY DEF Times
  <2>2. QED
    BY <2>1
<1> HIDE DEF Busy
<1>3. PICK fa : Busy(fa, a) /\ Sum(a) = fa[n]
  BY <1>1
<1>4. PICK fb : Busy(fb, b) /\ Sum(b) = fb[n]
  BY <1>1
<1>5. PICK fc : Busy(fc, c) /\ Sum(c) = fc[n]
  BY <1>1
<1>6. PICK fd : Busy(fd, d) /\ Sum(d) = fd[n]
  BY <1>1
<1>7. PICK fe : Busy(fe, e) /\ Sum(e) = fe[n]
  BY <1>1
<1> DEFINE T == {i \in 0 .. n : fe[i].busy = fa[i].busy + fb[i].busy + fc[i].busy + fd[i].busy}
<1> HIDE DEF n
<1>8. ASSUME NEW i \in 1 .. n, i - 1 \in T PROVE i \in T
  <2>1. i \in 0 .. n /\ i - 1 \in 0 .. n
    BY <1>2
  <2>2. fe[i - 1].busy = fa[i - 1].busy + fb[i - 1].busy + fc[i - 1].busy + fd[i - 1].busy
    BY <1>8
  <2>3. /\ fe[i].busy = fe[i - 1].busy + e[i].busy /\ fa[i].busy = fa[i - 1].busy + a[i].busy
        /\ fb[i].busy = fb[i - 1].busy + b[i].busy /\ fc[i].busy = fc[i - 1].busy + c[i].busy
        /\ fd[i].busy = fd[i - 1].busy + d[i].busy
    BY <1>3, <1>4, <1>5, <1>6, <1>7 DEF Busy
  <2>4. PICK ka \in Nat, kb \in Nat, kc \in Nat, kd \in Nat :
            ka = fa[i - 1].busy /\ kb = fb[i - 1].busy /\ kc = fc[i - 1].busy /\ kd = fd[i - 1].busy
    BY <1>3, <1>4, <1>5, <1>6, <2>1 DEF Busy
  <2>5. PICK la \in Nat, lb \in Nat, lc \in Nat, ld \in Nat :
            la = a[i].busy /\ lb = b[i].busy /\ lc = c[i].busy /\ ld = d[i].busy
    BY <1>2
  <2>6. fe[i - 1].busy = ka + kb + kc + kd /\ e[i].busy = la + lb + lc + ld
    BY <1>2, <2>2, <2>4, <2>5
  <2>7. /\ fe[i].busy = (ka + kb + kc + kd) + (la + lb + lc + ld)
        /\ fa[i].busy = ka + la /\ fb[i].busy = kb + lb /\ fc[i].busy = kc + lc /\ fd[i].busy = kd + ld
    BY <2>3, <2>4, <2>5, <2>6
  <2>8. fe[i].busy = fa[i].busy + fb[i].busy + fc[i].busy + fd[i].busy
    BY <2>7, SMTT(60)
  <2>9. QED
    BY <2>1, <2>8
<1>9. 0 \in T
  <2>1. fe[0].busy = 0 /\ fa[0].busy = 0 /\ fb[0].busy = 0 /\ fc[0].busy = 0 /\ fd[0].busy = 0
    BY <1>3, <1>4, <1>5, <1>6, <1>7 DEF Busy
  <2>2. QED
    BY <1>2, <2>1
<1>10. \A i \in 0 .. n : i \in T
  <2> HIDE DEF T
  <2>1. QED
    BY <1>2, <1>8, <1>9, Induction
<1>11. n \in T
  BY <1>2, <1>10
<1>12. QED
  BY <1>3, <1>4, <1>5, <1>6, <1>7, <1>11

(* What is busy of a usage is the difference of what was. *)
LEMMA UsageFields ==
    ASSUME NEW t, NEW p, t.busy \in Nat, t.idle \in Nat, p.busy \in Nat, p.idle \in Nat
    PROVE  /\ Usage(t, p).n = t.busy - p.busy
           /\ p.busy <= t.busy /\ p.idle <= t.idle => Proper(Usage(t, p))
BY DEF Usage, Proper

(* Shares of counters that only grow are proper, of a CPU, a group and the whole. *)
LEMMA UsageIsAlwaysProper ==
    ASSUME NEW x \in Samplings PROVE UsageIsProper(x.before, x.after, x.group)
<1> DEFINE n == Len(x.after)
           Of(each, g) == [i \in 1 .. Len(each) |-> IF i <= Len(x.group) /\ x.group[i] = g THEN each[i] ELSE NoTime]
           Rest(each) == [i \in 1 .. Len(each) |-> IF i <= Len(x.group) THEN NoTime ELSE each[i]]
<1>1. /\ x.before \in Seq(Times) /\ x.after \in Seq(Times) /\ x.group \in Seq(0 .. 2)
      /\ Len(x.before) = n /\ n \in Nat
      /\ \A i \in 1 .. n : x.before[i].busy <= x.after[i].busy /\ x.before[i].idle <= x.after[i].idle
  BY DEF Samplings
<1>2. NoTime \in Times /\ NoTime.busy = 0 /\ NoTime.idle = 0 /\ \A t \in Times : t.busy \in Nat /\ t.idle \in Nat
  BY TimeFields
<1> HIDE DEF n
<1>3. ASSUME NEW each \in Seq(Times)
      PROVE  /\ \A g : Of(each, g) \in Seq(Times) /\ Len(Of(each, g)) = Len(each)
             /\ Rest(each) \in Seq(Times) /\ Len(Rest(each)) = Len(each)
  BY <1>2
<1>4. ASSUME NEW each \in Seq(Times)
      PROVE  Sum(each).busy = Sum(Of(each, 0)).busy + Sum(Of(each, 1)).busy + Sum(Of(each, 2)).busy + Sum(Rest(each)).busy
  <2>1. ASSUME NEW i \in 1 .. Len(each)
        PROVE  each[i].busy = Of(each, 0)[i].busy + Of(each, 1)[i].busy + Of(each, 2)[i].busy + Rest(each)[i].busy
    <3>1. each[i] \in Times
      OBVIOUS
    <3>2. each[i].busy \in Nat
      BY <1>2, <3>1
    <3>3. \A g : Of(each, g)[i] = IF i <= Len(x.group) /\ x.group[i] = g THEN each[i] ELSE NoTime
      OBVIOUS
    <3>4. Rest(each)[i] = IF i <= Len(x.group) THEN NoTime ELSE each[i]
      OBVIOUS
    <3> HIDE DEF Of, Rest
    <3>5. CASE i <= Len(x.group)
      <4>1. x.group[i] = 0 \/ x.group[i] = 1 \/ x.group[i] = 2
        BY <1>1, <3>5
      <4>2. Rest(each)[i] = NoTime
        BY <3>4, <3>5
      <4>3. \A g : Of(each, g)[i] = IF x.group[i] = g THEN each[i] ELSE NoTime
        BY <3>3, <3>5
      <4>4. PICK k \in Nat : k = each[i].busy
        BY <3>2
      <4>5. /\ Of(each, 0)[i].busy = (IF x.group[i] = 0 THEN k ELSE 0)
            /\ Of(each, 1)[i].busy = (IF x.group[i] = 1 THEN k ELSE 0)
            /\ Of(each, 2)[i].busy = (IF x.group[i] = 2 THEN k ELSE 0)
            /\ Rest(each)[i].busy = 0
        BY <1>2, <4>2, <4>3, <4>4
      <4>6. QED
        BY <4>1, <4>4, <4>5
    <3>6. CASE ~(i <= Len(x.group))
      <4>1. Rest(each)[i] = each[i] /\ \A g : Of(each, g)[i] = NoTime
        BY <3>3, <3>4, <3>6
      <4>2. PICK k \in Nat : k = each[i].busy
        BY <3>2
      <4>3. Rest(each)[i].busy = k /\ Of(each, 0)[i].busy = 0 /\ Of(each, 1)[i].busy = 0 /\ Of(each, 2)[i].busy = 0
        BY <1>2, <4>1, <4>2
      <4>4. QED
        BY <4>2, <4>3
    <3>7. QED
      BY <3>5, <3>6
  <2>2. /\ Of(each, 0) \in Seq(Times) /\ Len(Of(each, 0)) = Len(each)
        /\ Of(each, 1) \in Seq(Times) /\ Len(Of(each, 1)) = Len(each)
        /\ Of(each, 2) \in Seq(Times) /\ Len(Of(each, 2)) = Len(each)
        /\ Rest(each) \in Seq(Times) /\ Len(Rest(each)) = Len(each)
    <3> HIDE DEF Of, Rest
    <3>1. QED
      BY <1>3
  <2> HIDE DEF Of, Rest
  <2>3. QED
    BY <2>1, <2>2, PartsComeToWhole, SMTT(60)
<1>5. \A g : Grouped(x.after, x.group, g) = Sum(Of(x.after, g)) /\ Grouped(x.before, x.group, g) = Sum(Of(x.before, g))
  BY DEF Grouped
<1>6. Beyond(x.after, x.group) = Sum(Rest(x.after)) /\ Beyond(x.before, x.group) = Sum(Rest(x.before))
  BY DEF Beyond
<1>7. ASSUME NEW s \in Seq(Times), NEW t \in Seq(Times), Len(s) = n, Len(t) = n,
             \A i \in 1 .. n : s[i].busy <= t[i].busy /\ s[i].idle <= t[i].idle
      PROVE  /\ Sum(s).busy \in Nat /\ Sum(t).busy \in Nat
             /\ Usage(Sum(t), Sum(s)).n = Sum(t).busy - Sum(s).busy /\ Proper(Usage(Sum(t), Sum(s)))
  <2>1. /\ Sum(s).busy \in Nat /\ Sum(s).idle \in Nat /\ Sum(t).busy \in Nat /\ Sum(t).idle \in Nat
        /\ Sum(s).busy <= Sum(t).busy /\ Sum(s).idle <= Sum(t).idle
    BY <1>7, SumGrows
  <2>2. QED
    BY <2>1, UsageFields
<1>8. ASSUME NEW g, NEW i \in 1 .. n
      PROVE  /\ Of(x.before, g)[i].busy <= Of(x.after, g)[i].busy
             /\ Of(x.before, g)[i].idle <= Of(x.after, g)[i].idle
  <2>1. i \in 1 .. Len(x.before) /\ i \in 1 .. Len(x.after)
    BY <1>1 DEF n
  <2>2. CASE i <= Len(x.group) /\ x.group[i] = g
    <3>1. Of(x.before, g)[i] = x.before[i] /\ Of(x.after, g)[i] = x.after[i]
      BY <2>1, <2>2
    <3>2. QED
      BY <1>1, <3>1
  <2>3. CASE ~(i <= Len(x.group) /\ x.group[i] = g)
    <3>1. Of(x.before, g)[i] = NoTime /\ Of(x.after, g)[i] = NoTime
      BY <2>1, <2>3
    <3>2. QED
      BY <1>2, <3>1
  <2>4. QED
    BY <2>2, <2>3
<1>9. ASSUME NEW i \in 1 .. n
      PROVE  Rest(x.before)[i].busy <= Rest(x.after)[i].busy /\ Rest(x.before)[i].idle <= Rest(x.after)[i].idle
  <2>1. i \in 1 .. Len(x.before) /\ i \in 1 .. Len(x.after)
    BY <1>1 DEF n
  <2>2. CASE i <= Len(x.group)
    <3>1. Rest(x.before)[i] = NoTime /\ Rest(x.after)[i] = NoTime
      BY <2>1, <2>2
    <3>2. QED
      BY <1>2, <3>1
  <2>3. CASE ~(i <= Len(x.group))
    <3>1. Rest(x.before)[i] = x.before[i] /\ Rest(x.after)[i] = x.after[i]
      BY <2>1, <2>3
    <3>2. QED
      BY <1>1, <3>1
  <2>4. QED
    BY <2>2, <2>3
<1>10. ASSUME NEW i \in DOMAIN x.after PROVE Proper(Usage(x.after[i], x.before[i]))
  <2>1. i \in 1 .. n /\ x.after[i] \in Times /\ x.before[i] \in Times
    BY <1>1 DEF n
  <2>2. QED
    BY <1>1, <1>2, <2>1, UsageFields
<1>11. Len(x.after) = n
  BY DEF n
<1> HIDE DEF Of, Rest
<1>12. ASSUME NEW g
       PROVE  LET s == Sum(Of(x.before, g))
                  t == Sum(Of(x.after, g))
              IN  s.busy \in Nat /\ t.busy \in Nat /\ Usage(t, s).n = t.busy - s.busy /\ Proper(Usage(t, s))
  <2> DEFINE s == Of(x.before, g)
             t == Of(x.after, g)
  <2>1. s \in Seq(Times) /\ t \in Seq(Times) /\ Len(s) = n /\ Len(t) = n
    BY <1>1, <1>3, <1>11
  <2>2. \A i \in 1 .. n : s[i].busy <= t[i].busy /\ s[i].idle <= t[i].idle
    BY <1>8
  <2> HIDE DEF s, t
  <2>3. QED
    BY <1>7, <2>1, <2>2 DEF s, t
<1>13. LET s == Sum(Rest(x.before))
           t == Sum(Rest(x.after))
       IN  s.busy \in Nat /\ t.busy \in Nat /\ Usage(t, s).n = t.busy - s.busy
  BY <1>1, <1>3, <1>7, <1>9, <1>11
<1>14. LET s == Sum(x.before)
           t == Sum(x.after)
       IN  s.busy \in Nat /\ t.busy \in Nat /\ Usage(t, s).n = t.busy - s.busy /\ Proper(Usage(t, s))
  BY <1>1, <1>7, <1>11
<1> DEFINE U(g) == Usage(Sum(Of(x.after, g)), Sum(Of(x.before, g)))
<1>15. U(0).n + U(1).n + U(2).n + Usage(Sum(Rest(x.after)), Sum(Rest(x.before))).n
       = Usage(Sum(x.after), Sum(x.before)).n
  <2>1. Sum(x.after).busy = Sum(Of(x.after, 0)).busy + Sum(Of(x.after, 1)).busy + Sum(Of(x.after, 2)).busy + Sum(Rest(x.after)).busy
    BY <1>1, <1>4
  <2>2. Sum(x.before).busy = Sum(Of(x.before, 0)).busy + Sum(Of(x.before, 1)).busy + Sum(Of(x.before, 2)).busy + Sum(Rest(x.before)).busy
    BY <1>1, <1>4
  <2>3. QED
    BY <1>12, <1>13, <1>14, <2>1, <2>2
<1>16. QED
  BY <1>5, <1>6, <1>10, <1>12, <1>14, <1>15 DEF UsageIsProper

-----------------------------------------------------------------------------
(* A sensor is found when there is one. *)
LEMMA SensorIsAlwaysFound ==
    ASSUME NEW x \in SensorInputs PROVE SensorIsFound(x.dirs, x.chip, x.sensor)
<1> DEFINE is(d, i) == d.chip = x.chip /\ Matches(d.inputs[i], x.sensor)
           inputs(d) == {i \in DOMAIN d.inputs : is(d, i)}
           n == Len(x.dirs)
           dirs == {i \in DOMAIN x.dirs : First(inputs(x.dirs[i])) # 0}
           f == FindSensor(x.dirs, x.chip, x.sensor)
<1>1. n \in Nat /\ DOMAIN x.dirs = 1 .. n /\ \A i \in 1 .. n : x.dirs[i] \in Dirs
  BY DEF SensorInputs
<1> HIDE DEF is, n
<1>2. ASSUME NEW i \in 1 .. n
      PROVE  /\ First(inputs(x.dirs[i])) = 0 <=> inputs(x.dirs[i]) = {}
             /\ inputs(x.dirs[i]) # {} => First(inputs(x.dirs[i])) \in inputs(x.dirs[i])
  <2> DEFINE d == x.dirs[i]
             m == Len(d.inputs)
  <2>1. m \in Nat /\ DOMAIN d.inputs = 1 .. m
    BY <1>1 DEF Dirs
  <2> HIDE DEF d, m
  <2>2. inputs(d) \in SUBSET (1 .. m)
    BY <2>1
  <2> HIDE DEF inputs
  <2>3. First(inputs(d)) = 0 <=> inputs(d) = {}
    BY <2>1, <2>2, FirstIsOne
  <2>4. inputs(d) # {} => First(inputs(d)) \in inputs(d)
    BY <2>1, <2>2, FirstIsOne
  <2>5. QED
    BY <2>3, <2>4 DEF d
<1>3. f = <<First(dirs), IF First(dirs) = 0 THEN 0 ELSE First(inputs(x.dirs[First(dirs)]))>>
  BY DEF FindSensor, is
<1>4. dirs \in SUBSET (1 .. n)
  BY <1>1
<1> DEFINE D == dirs
<1>5. /\ First(D) = 0 <=> D = {}
      /\ D # {} => First(D) \in D
  <2> HIDE DEF dirs
  <2>1. QED
    BY <1>1, <1>4, FirstIsOne
<1>6. D = {i \in 1 .. n : First(inputs(x.dirs[i])) # 0}
  BY <1>1
<1>7. f[1] = First(D) /\ (First(D) # 0 => f[2] = First(inputs(x.dirs[First(D)])))
  BY <1>3, SMTT(60)
<1> HIDE DEF D, f, dirs
<1>8. CASE f[1] = 0
  <2>1. \A i \in 1 .. n : inputs(x.dirs[i]) = {}
    <3> HIDE DEF inputs
    <3>1. QED
      BY <1>2, <1>5, <1>6, <1>7, <1>8
  <2>2. \A i \in DOMAIN x.dirs : \A j \in DOMAIN x.dirs[i].inputs : ~is(x.dirs[i], j)
    BY <1>1, <2>1
  <2>3. QED
    BY <1>8, <2>2 DEF SensorIsFound, f, is
<1>9. CASE f[1] # 0
  <2>1. f[1] \in 1 .. n /\ f[2] \in inputs(x.dirs[f[1]])
    <3> HIDE DEF inputs
    <3>1. QED
      BY <1>2, <1>5, <1>6, <1>7, <1>9
  <2>2. f[1] \in DOMAIN x.dirs /\ f[2] \in DOMAIN x.dirs[f[1]].inputs /\ is(x.dirs[f[1]], f[2])
    BY <1>1, <2>1
  <2>3. QED
    BY <1>9, <2>2 DEF SensorIsFound, f, is
<1>10. QED
  BY <1>8, <1>9

(* What a line says, if it is the only one of its kind. *)
Amount(l) == IF l.val = NoNumber THEN 0 ELSE IF l.kB THEN l.val * 1024 ELSE l.val

Agree(lines) ==
    \A i, j \in DOMAIN lines : lines[i].key = lines[j].key /\ lines[i].key \in Amounts => lines[i] = lines[j]

(* What has been read of each kind after i lines that agree. *)
ReadUpTo(lines, i, info) ==
    /\ info \in [Amounts -> Nat]
    /\ \A k \in Amounts :
          /\ (\A j \in 1 .. i : lines[j].key # k) => info[k] = 0
          /\ \A j \in 1 .. i : lines[j].key = k => info[k] = Amount(lines[j])

(* One line more is read, and those before it as before. *)
LEMMA LineIsRead ==
    ASSUME NEW lines \in Seq(Lines), Agree(lines), NEW i \in 1 .. Len(lines), NEW info,
           ReadUpTo(lines, i - 1, info)
    PROVE  ReadUpTo(lines, i, WithLine(info, lines[i]))
<1> DEFINE l == lines[i]
           new == WithLine(info, l)
           k == l.key
<1>0. i \in Nat /\ i \in DOMAIN lines /\ 1 .. i = (1 .. i - 1) \cup {i}
  OBVIOUS
<1>1. l \in Lines
  OBVIOUS
<1>2. (l.val \in Nat \/ l.val = NoNumber) /\ l.kB \in BOOLEAN
  BY <1>1 DEF Lines
<1>3. info \in [Amounts -> Nat]
  BY DEF ReadUpTo
<1>4. CASE k \notin Amounts
  <2>1. new = info
    BY <1>4 DEF WithLine
  <2>2. \A j \in 1 .. i - 1 : j \in 1 .. i
    BY <1>0
  <2>3. QED
    BY <1>0, <1>4, <2>1, <2>2 DEF ReadUpTo
<1>5. CASE k \in Amounts
  <2> DEFINE n == IF l.val = NoNumber THEN info[k] ELSE l.val
             m == IF l.kB THEN n * 1024 ELSE n
  <2>1. new = [info EXCEPT ![k] = m]
    BY <1>5 DEF WithLine
  <2>2. info[k] = 0 \/ info[k] = Amount(l)
    <3>1. CASE \A j \in 1 .. i - 1 : lines[j].key # k
      BY <1>5, <3>1 DEF ReadUpTo
    <3>2. CASE \E j \in 1 .. i - 1 : lines[j].key = k
      <4>1. PICK j \in 1 .. i - 1 : lines[j].key = k
        BY <3>2
      <4>2. j \in DOMAIN lines
        BY <1>0
      <4>3. lines[j] = l
        BY <1>0, <1>5, <4>1, <4>2 DEF Agree
      <4>4. info[k] = Amount(lines[j])
        BY <1>5, <4>1 DEF ReadUpTo
      <4>5. QED
        BY <4>3, <4>4
    <3>3. QED
      BY <3>1, <3>2
  <2>3. info[k] \in Nat
    BY <1>3, <1>5
  <2>4. m = Amount(l) /\ m \in Nat
    <3>1. PICK v \in Nat : v = info[k]
      BY <2>3
    <3>2. CASE l.val = NoNumber
      <4>1. v = 0
        BY <2>2, <3>1, <3>2 DEF Amount
      <4>2. QED
        BY <3>1, <3>2, <4>1 DEF Amount
    <3>3. CASE l.val # NoNumber
      <4>1. PICK w \in Nat : w = l.val
        BY <1>2, <3>3
      <4>2. QED
        BY <3>3, <4>1 DEF Amount
    <3>4. QED
      BY <3>2, <3>3
  <2> HIDE DEF n, m
  <2>5. new \in [Amounts -> Nat] /\ new[k] = m /\ \A o \in Amounts : o # k => new[o] = info[o]
    <3> HIDE DEF k
    <3>1. QED
      BY <1>3, <1>5, <2>1, <2>4
  <2> HIDE DEF new
  <2>6. ASSUME NEW o \in Amounts, \A j \in 1 .. i : lines[j].key # o PROVE new[o] = 0
    <3>1. o # k /\ \A j \in 1 .. i - 1 : lines[j].key # o
      BY <1>0, <2>6
    <3>2. info[o] = 0
      BY <2>6, <3>1 DEF ReadUpTo
    <3>3. QED
      BY <2>5, <2>6, <3>1, <3>2
  <2>7. ASSUME NEW o \in Amounts, NEW j \in 1 .. i, lines[j].key = o PROVE new[o] = Amount(lines[j])
    <3>1. CASE o = k
      <4>1. j \in DOMAIN lines
        BY <1>0
      <4>2. lines[j] = l
        BY <1>0, <1>5, <2>7, <3>1, <4>1 DEF Agree
      <4>3. QED
        BY <2>4, <2>5, <3>1, <4>2
    <3>2. CASE o # k
      <4>1. j \in 1 .. i - 1
        BY <1>0, <2>7, <3>2
      <4>2. info[o] = Amount(lines[j])
        BY <2>7, <4>1 DEF ReadUpTo
      <4>3. QED
        BY <2>5, <2>7, <3>2, <4>2
    <3>3. QED
      BY <3>1, <3>2
  <2>8. QED
    BY <2>5, <2>6, <2>7 DEF ReadUpTo, new
<1>6. QED
  BY <1>4, <1>5

(* All the lines of /proc/meminfo are read. *)
LEMMA MemInfoIsRead ==
    ASSUME NEW lines \in Seq(Lines), Agree(lines)
    PROVE  ReadUpTo(lines, Len(lines), MemInfo(lines))
<1> DEFINE step == [p \in [Amounts -> Nat] \X Lines |-> WithLine(p[1], p[2])]
           zero == [k \in Amounts |-> 0]
           n == Len(lines)
<1>1. n \in Nat
  OBVIOUS
<1>2. \A info \in [Amounts -> Nat], l \in Lines : WithLine(info, l) \in [Amounts -> Nat]
  <2>1. SUFFICES ASSUME NEW info \in [Amounts -> Nat], NEW l \in Lines PROVE WithLine(info, l) \in [Amounts -> Nat]
    OBVIOUS
  <2>2. CASE l.key \in Amounts
    <3> DEFINE v == IF l.val = NoNumber THEN info[l.key] ELSE l.val
               m == IF l.kB THEN v * 1024 ELSE v
    <3>1. v \in Nat
      BY <2>2 DEF Lines
    <3> HIDE DEF v
    <3>2. m \in Nat
      BY <3>1
    <3> HIDE DEF m
    <3>3. WithLine(info, l) = [info EXCEPT ![l.key] = m]
      BY <2>2 DEF WithLine, m, v
    <3>4. QED
      BY <3>2, <3>3
  <2>3. CASE l.key \notin Amounts
    BY <2>3 DEF WithLine
  <2>4. QED
    BY <2>2, <2>3
<1>3. step \in Updates([Amounts -> Nat], Lines) /\ zero \in [Amounts -> Nat]
  BY <1>2 DEF Updates
<1>4. MemInfo(lines) = Fold(step, zero, lines)
  BY DEF MemInfo
<1>5. \A info \in [Amounts -> Nat], l \in Lines : step[<<info, l>>] = WithLine(info, l)
  OBVIOUS
<1> HIDE DEF step, n
<1>6. PICK f : f \in Folding(step, zero, lines, [Amounts -> Nat]) /\ Fold(step, zero, lines) = f[Len(lines)]
  <2> DEFINE V == [Amounts -> Nat]
  <2>1. step \in Updates(V, Lines) /\ zero \in V
    BY <1>3
  <2> HIDE DEF zero, V
  <2>2. \E f : f \in Folding(step, zero, lines, V) /\ Fold(step, zero, lines) = f[Len(lines)]
    BY <2>1, FoldSteps
  <2>3. QED
    BY <2>2 DEF V
<1>7. /\ f \in [0 .. n -> [Amounts -> Nat]] /\ f[0] = zero
      /\ \A i \in 1 .. n : f[i] = step[<<f[i - 1], lines[i]>>]
  <2> HIDE DEF zero
  <2>1. QED
    BY <1>6 DEF Folding, n
<1> DEFINE T == {i \in 0 .. n : ReadUpTo(lines, i, f[i])}
<1>8. 0 \in T
  <2>1. ReadUpTo(lines, 0, zero)
    BY DEF ReadUpTo
  <2> HIDE DEF zero
  <2>2. QED
    BY <1>1, <1>7, <2>1
<1> HIDE DEF zero
<1>9. ASSUME NEW i \in 1 .. n, i - 1 \in T PROVE i \in T
  <2>1. i - 1 \in 0 .. n /\ i \in 0 .. n /\ lines[i] \in Lines
    BY <1>1 DEF n
  <2>2. f[i - 1] \in [Amounts -> Nat]
    BY <1>7, <2>1
  <2>3. f[i] = WithLine(f[i - 1], lines[i])
    BY <1>5, <1>7, <2>1, <2>2
  <2>4. ReadUpTo(lines, i - 1, f[i - 1])
    BY <1>9
  <2>5. ReadUpTo(lines, i, WithLine(f[i - 1], lines[i]))
    BY <2>4, LineIsRead DEF n
  <2>6. QED
    BY <2>1, <2>3, <2>5
<1>10. \A i \in 0 .. n : i \in T
  <2> HIDE DEF T
  <2>1. QED
    BY <1>1, <1>8, <1>9, Induction
<1>11. n \in T
  BY <1>1, <1>10
<1>12. QED
  BY <1>4, <1>6, <1>11 DEF n

(* Lines that say the same come to the same. *)
LEMMA SameLinesReadSame ==
    ASSUME NEW a \in Seq(Lines), NEW b \in Seq(Lines), Agree(a), Agree(b),
           \A i \in 1 .. Len(a) : a[i].key \in Amounts => \E j \in 1 .. Len(b) : b[j] = a[i],
           \A i \in 1 .. Len(b) : b[i].key \in Amounts => \E j \in 1 .. Len(a) : a[j] = b[i]
    PROVE  MemInfo(a) = MemInfo(b)
<1>1. ReadUpTo(a, Len(a), MemInfo(a)) /\ ReadUpTo(b, Len(b), MemInfo(b))
  BY MemInfoIsRead
<1>2. MemInfo(a) \in [Amounts -> Nat] /\ MemInfo(b) \in [Amounts -> Nat]
  BY <1>1 DEF ReadUpTo
<1>3. ASSUME NEW k \in Amounts PROVE MemInfo(a)[k] = MemInfo(b)[k]
  <2>1. CASE \E i \in 1 .. Len(a) : a[i].key = k
    <3>1. PICK i \in 1 .. Len(a) : a[i].key = k
      BY <2>1
    <3>2. PICK j \in 1 .. Len(b) : b[j] = a[i]
      BY <3>1
    <3>3. MemInfo(a)[k] = Amount(a[i]) /\ MemInfo(b)[k] = Amount(b[j])
      BY <1>1, <3>1, <3>2 DEF ReadUpTo
    <3>4. QED
      BY <3>2, <3>3
  <2>2. CASE \A i \in 1 .. Len(a) : a[i].key # k
    <3>1. \A j \in 1 .. Len(b) : b[j].key # k
      BY <2>2
    <3>2. QED
      BY <1>1, <2>2, <3>1 DEF ReadUpTo
  <2>3. QED
    BY <2>1, <2>2
<1>4. QED
  BY <1>2, <1>3

(* The order of the lines of /proc/meminfo does not matter, nor do others. *)
LEMMA OrderIsAlwaysFree ==
    ASSUME NEW x \in Meminfos PROVE OrderIsFree(x.lines, x.extra)
<1> DEFINE n == Len(x.lines)
           lines == x.lines
           extra == x.extra
<1>1. lines \in Seq(Lines) /\ extra \in Lines /\ extra.key \notin Amounts
  BY DEF Meminfos
<1>2. \A i, j \in DOMAIN lines : lines[i].key = lines[j].key /\ lines[i].key \in Amounts => i = j
  BY DEF Meminfos
<1> HIDE DEF lines, extra
<1>3. Agree(lines)
  BY <1>2 DEF Agree
<1>4. n \in Nat /\ n = Len(lines) /\ DOMAIN lines = 1 .. n /\ \A i \in 1 .. n : lines[i] \in Lines
  BY <1>1 DEF lines
<1> HIDE DEF n
<1>5. ASSUME NEW p \in Orders(lines) PROVE MemInfo([i \in 1 .. n |-> lines[p[i]]]) = MemInfo(lines)
  <2> DEFINE b == [i \in 1 .. n |-> lines[p[i]]]
  <2>1. p \in [1 .. n -> 1 .. n] /\ \A m \in 1 .. n : \E i \in 1 .. n : p[i] = m
    BY <1>4 DEF Orders
  <2>2. b \in Seq(Lines) /\ Len(b) = n /\ DOMAIN b = 1 .. n
    BY <1>4, <2>1
  <2>3. \A i \in 1 .. n : p[i] \in 1 .. n /\ b[i] = lines[p[i]]
    BY <2>1
  <2> HIDE DEF b
  <2>4. Agree(b)
    BY <1>3, <1>4, <2>2, <2>3, SMTT(60) DEF Agree
  <2>5. \A i \in 1 .. n : \E j \in 1 .. n : lines[j] = b[i]
    BY <2>3
  <2>6. \A i \in 1 .. n : \E j \in 1 .. n : b[j] = lines[i]
    <3>1. SUFFICES ASSUME NEW i \in 1 .. n PROVE \E j \in 1 .. n : b[j] = lines[i]
      OBVIOUS
    <3>2. PICK j \in 1 .. n : p[j] = i
      BY <2>1
    <3>3. QED
      BY <2>3, <3>2
  <2>7. MemInfo(b) = MemInfo(lines)
    BY <1>1, <1>3, <1>4, <2>2, <2>4, <2>5, <2>6, SameLinesReadSame
  <2>8. QED
    BY <2>7 DEF b
<1>6. MemInfo(<<extra>> \o lines) = MemInfo(lines)
  <2> DEFINE b == <<extra>> \o lines
  <2>1. b \in Seq(Lines) /\ Len(b) = n + 1 /\ DOMAIN b = 1 .. n + 1
    BY <1>1, <1>4
  <2>2. b[1] = extra /\ \A i \in 2 .. n + 1 : b[i] = lines[i - 1] /\ i - 1 \in 1 .. n
    BY <1>1, <1>4
  <2>3. \A i \in 1 .. n : i + 1 \in 2 .. n + 1 /\ b[i + 1] = lines[i]
    BY <1>4, <2>2
  <2>4. \A i \in 1 .. n + 1 : b[i].key \in Amounts => i \in 2 .. n + 1
    BY <1>1, <1>4, <2>2
  <2> HIDE DEF b
  <2>5. Agree(b)
    <3>1. SUFFICES ASSUME NEW i \in 1 .. n + 1, NEW j \in 1 .. n + 1, b[i].key = b[j].key, b[i].key \in Amounts
                   PROVE  b[i] = b[j]
      BY <2>1 DEF Agree
    <3>2. i \in 2 .. n + 1 /\ j \in 2 .. n + 1
      BY <2>4, <3>1
    <3>3. b[i] = lines[i - 1] /\ b[j] = lines[j - 1] /\ i - 1 \in DOMAIN lines /\ j - 1 \in DOMAIN lines
      BY <1>4, <2>2, <3>2
    <3>4. QED
      BY <1>3, <3>1, <3>3 DEF Agree
  <2>6. \A i \in 1 .. n + 1 : b[i].key \in Amounts => \E j \in 1 .. n : lines[j] = b[i]
    BY <2>2, <2>4
  <2>7. \A i \in 1 .. n : \E j \in 1 .. n + 1 : b[j] = lines[i]
    BY <1>4, <2>3
  <2>8. MemInfo(b) = MemInfo(lines)
    BY <1>1, <1>3, <1>4, <2>1, <2>5, <2>6, <2>7, SameLinesReadSame
  <2>9. QED
    BY <2>8 DEF b
<1>7. MemInfo(Append(lines, extra)) = MemInfo(lines)
  <2> DEFINE b == Append(lines, extra)
  <2>1. b \in Seq(Lines) /\ Len(b) = n + 1 /\ DOMAIN b = 1 .. n + 1
    BY <1>1, <1>4
  <2>2. b[n + 1] = extra /\ \A i \in 1 .. n : b[i] = lines[i]
    BY <1>1, <1>4
  <2>3. \A i \in 1 .. n + 1 : b[i].key \in Amounts => i \in 1 .. n
    BY <1>1, <1>4, <2>2
  <2> HIDE DEF b
  <2>4. Agree(b)
    BY <1>3, <1>4, <2>1, <2>2, <2>3 DEF Agree
  <2>5. \A i \in 1 .. n + 1 : b[i].key \in Amounts => \E j \in 1 .. n : lines[j] = b[i]
    BY <2>2, <2>3
  <2>6. \A i \in 1 .. n : \E j \in 1 .. n + 1 : b[j] = lines[i]
    BY <1>4, <2>2
  <2>7. MemInfo(b) = MemInfo(lines)
    BY <1>1, <1>3, <1>4, <2>1, <2>4, <2>5, <2>6, SameLinesReadSame
  <2>8. QED
    BY <2>7 DEF b
<1>8. QED
  BY <1>4, <1>5, <1>6, <1>7 DEF OrderIsFree, lines, extra, n

-----------------------------------------------------------------------------
(* No two rows of the table are the same module of the same device. *)
LEMMA NoRowTwice ==
    ASSUME NEW niri \in BOOLEAN, NEW i \in 1 .. 26, NEW j \in 1 .. 26, i # j, Table(niri)[i].mod = Table(niri)[j].mod
    PROVE  Table(niri)[i].device # Table(niri)[j].device
BY DEF Table, Row

(* The intervals of the rows, and the modules that have none. *)
LEMMA RowIntervals ==
    ASSUME NEW niri \in BOOLEAN, NEW i \in 1 .. 26
    PROVE  /\ Table(niri)[i].interval \in {0, 1000, 3000, 5000, 60000}
           /\ Table(niri)[i].interval = 0 /\ Table(niri)[i].mod # "Redshift" =>
                 Table(niri)[i].mod \in {"CMUS", "PulseAudio", "XRandR", "Battery", "PowerProfiles",
                                          "BluezDevice", "Mako", "Dunst"}
BY DEF Table, Row

(* On every machine the program starts the modules that it can and the tick
   divider keeps the interval of each. *)
LEMMA ProgramAlwaysRunsAsAsked ==
    ASSUME NEW machine \in Machines, NEW niri \in BOOLEAN
    PROVE  RunsAsAsked(machine, niri)
<1> DEFINE row(i) == Table(niri)[i]
<1>1. Started(machine, niri) = {i \in 1 .. 26 : machine \in row(i).on}
  BY DEF Started, Table
<1>2. ASSUME NEW i \in 1 .. 26, NEW n \in Intervals(row(i))
      PROVE  /\ ~Rounds(n, Base) /\ Ticks(n, Base) * Base = n
             /\ n = 0 => row(i).mod \in {"CMUS", "PulseAudio", "XRandR", "Battery", "PowerProfiles",
                                          "BluezDevice", "Mako", "Dunst"}
  <2> DEFINE mod == row(i).mod
             interval == row(i).interval
  <2>1. /\ mod = "Redshift" => n = 15000
        /\ mod = "CMUS" => n \in {0, 250}
        /\ mod \notin {"Redshift", "CMUS"} => n = interval
    BY <1>2 DEF Intervals, PollingGamma, PlayingCmus
  <2>2. interval \in {0, 1000, 3000, 5000, 60000}
    BY RowIntervals
  <2>3. interval = 0 /\ mod # "Redshift" =>
           mod \in {"CMUS", "PulseAudio", "XRandR", "Battery", "PowerProfiles", "BluezDevice", "Mako", "Dunst"}
    BY RowIntervals
  <2> HIDE DEF mod, interval
  <2>4. n \in {0, 250, 1000, 3000, 5000, 15000, 60000}
    BY <2>1, <2>2
  <2>5. ~Rounds(n, Base) /\ Ticks(n, Base) * Base = n
    BY <2>4 DEF Rounds, Ticks, Base
  <2>6. n = 0 => mod \in {"CMUS", "PulseAudio", "XRandR", "Battery", "PowerProfiles", "BluezDevice", "Mako", "Dunst"}
    BY <2>1, <2>3
  <2>7. QED
    BY <2>5, <2>6 DEF mod
<1>3. ASSUME NEW i \in 1 .. 26, NEW j \in 1 .. 26, i # j
      PROVE  <<row(i).mod, row(i).device>> # <<row(j).mod, row(j).device>>
  BY <1>3, NoRowTwice
<1>4. \E i \in Started(machine, niri) : row(i).device = "notifications"
  <2>1. row(26).device = "notifications" /\ row(26).on = Machines
    BY DEF Table, Row
  <2>2. 26 \in Started(machine, niri)
    BY <1>1, <2>1
  <2>3. QED
    BY <2>1, <2>2
<1> HIDE DEF row
<1>5. QED
  <2>1. \A i \in Started(machine, niri) : i \in 1 .. 26
    BY <1>1
  <2>2. QED
    BY <1>2, <1>3, <1>4, <2>1 DEF RunsAsAsked, row

-----------------------------------------------------------------------------
(* The area of interest is a rectangle, even if there is nothing in it. *)
LEMMA TrimmedIsArea == ASSUME NEW src \in Sizes, NEW trim \in Rects PROVE Trimmed(src, trim) \in Rects
<1> DEFINE sr == Rect(0, 0, src.w, src.h)
           x == Max2(trim.x, sr.x)
           y == Max2(trim.y, sr.y)
           w == Min2(trim.x + trim.w, sr.x + sr.w) - x
           h == Min2(trim.y + trim.h, sr.y + sr.h) - y
<1>1. \A a, b, c, d \in Int : Rect(a, b, c, d) \in Rects
  BY DEF Rect, Rects
<1>2. src.w \in Int /\ src.h \in Int /\ trim.x \in Int /\ trim.y \in Int /\ trim.w \in Int /\ trim.h \in Int
  BY DEF Sizes, Rects
<1>3. sr \in Rects /\ Empty \in Rects
  BY <1>1, <1>2 DEF Empty
<1>4. sr.x \in Int /\ sr.y \in Int /\ sr.w \in Int /\ sr.h \in Int
  BY <1>3 DEF Rects
<1> HIDE DEF sr
<1>5. x \in Int /\ y \in Int /\ w \in Int /\ h \in Int
  BY <1>2, <1>4 DEF Max2, Min2
<1>6. Trimmed(src, trim) \in {sr, Empty, Rect(x, y, w, h)}
  BY DEF Trimmed, Intersect, sr
<1> HIDE DEF x, y, w, h
<1>7. QED
  BY <1>1, <1>3, <1>5, <1>6

(* Every mode keeps its promise for every image, output and area of interest, and
   DrawRez draws in the same place when the area is in the corner and the mode is
   not focus. *)
LEMMA DrawingsKeepTheirPromise ==
    ASSUME NEW x \in Drawings PROVE DrawingKeepsPromise(x.src, x.dst, x.trim, x.mode)
<1> DEFINE tr == Trimmed(x.src, x.trim)
<1>1. x.src \in Sizes /\ x.dst \in Sizes /\ x.trim \in Rects /\ x.mode \in Modes
  BY DEF Drawings
<1>2. CASE x.mode = "tile"
  <2>1. TilesCover(x.dst, tr)
    <3>1. tr.x >= 0 /\ tr.y >= 0
      <4>1. tr.x \in Nat /\ tr.y \in Nat
        BY <1>1, TrimmedHasPixels
      <4>2. QED
        BY <4>1
    <3>2. QED
      BY <1>1, <3>1, TrimmedIsArea, TilesAlwaysCover
  <2>2. QED
    BY <1>2, <2>1 DEF DrawingKeepsPromise
<1>3. CASE x.mode # "tile"
  <2>1. x.mode \in {"stretch", "zoom", "maximize", "center", "focus"}
    BY <1>1, <1>3 DEF Modes
  <2>2. ModePromise(x.src, x.dst, x.trim, x.mode)
    BY <1>1, <2>1, ModesKeepTheirPromise, Zenon
  <2>3. x.mode # "focus" => x.mode \in {"stretch", "zoom", "maximize", "center"}
    BY <2>1
  <2>4. x.mode # "focus" /\ tr.x = 0 /\ tr.y = 0 => LikeDraw(x.src, x.dst, x.trim, x.mode)
    BY <1>1, <2>3, DrawRezIsLikeDrawInTheCorner, Zenon
  <2>5. QED
    BY <1>3, <2>2, <2>4 DEF DrawingKeepsPromise
<1>4. QED
  BY <1>2, <1>3

-----------------------------------------------------------------------------
(* What the questions are asked of, one by one. *)
LEMMA InputsOf ==
    /\ Inputs["reply"] \subseteq Corruptions /\ Inputs["silence"] \subseteq Silences
    /\ Inputs["search"] \subseteq Searches /\ Inputs["command"] \subseteq Commands
    /\ Inputs["pair"] \subseteq Sizes \X Sizes /\ Inputs["drawing"] \subseteq Drawings
    /\ Inputs["percent"] \subseteq Nat /\ Inputs["wheel"] \subseteq Wheels
    /\ Inputs["temperature"] \subseteq Int /\ Inputs["sun"] \subseteq Suns
    /\ Inputs["ramp"] \subseteq RampInputs
    /\ Inputs["stat"] \subseteq Stats /\ Inputs["sampling"] \subseteq Samplings
    /\ Inputs["meminfo"] \subseteq Meminfos
    /\ Inputs["sensor"] \subseteq SensorInputs
    /\ Inputs["machine"] \subseteq Machines \X BOOLEAN
BY InputsAssumption

(* An input is one of those of its question. *)
Asked == in = Nothing \/ \E q \in DOMAIN Inputs : \E x \in Inputs[q] : in = [q |-> q, x |-> x]

(* Every state but the first is an input of a question. *)
LEMMA AlwaysAsked == Spec => []Asked
<1>1. Init => Asked
  BY DEF Init, Asked
<1>2. Asked /\ [Next]_in => Asked'
  BY DEF Asked, Next, Ask
<1>3. QED
  BY <1>1, <1>2, PTL DEF Spec

(* What is asked is an input of its question. *)
LEMMA OfItsQuestion == ASSUME Asked, in.q # "none" PROVE in.x \in Inputs[in.q]
<1>1. in # Nothing
  BY DEF Nothing
<1>2. PICK q \in DOMAIN Inputs : \E x \in Inputs[q] : in = [q |-> q, x |-> x]
  BY <1>1 DEF Asked
<1>3. PICK x \in Inputs[q] : in = [q |-> q, x |-> x]
  BY <1>2
<1>4. in.q = q /\ in.x = x
  BY <1>3
<1>5. QED
  BY <1>4

(* Of every size: two monitors share an edge to the right, above and below, but
   to the left only when of one width (xrandr.go); an image is stretched, zoomed
   and fitted as its mode promises, focus shows the area of interest but where an
   upright output makes the box too low, tiles reach all of the output but to the
   left of and above the area's own place, and DrawRez draws in the same place
   for an area in the corner, but for focus (xwallpaper/transform.go). *)
THEOREM GeometryAlwaysHolds == Spec => []GeometryHolds
<1>1. Asked => GeometryHolds
  <2>1. SUFFICES ASSUME Asked PROVE GeometryHolds
    OBVIOUS
  <2> DEFINE x == in.x
  <2>2. ASSUME in.q = "pair" PROVE LayoutsTouch(x[1], x[2])
    <3>1. x \in Inputs["pair"]
      BY <2>1, <2>2, OfItsQuestion
    <3>2. x \in Sizes \X Sizes
      BY <3>1, InputsOf
    <3>3. x[1] \in Sizes /\ x[2] \in Sizes
      BY <3>2
    <3>4. QED
      BY <3>3, LayoutsAlwaysTouch
  <2>3. ASSUME in.q = "drawing" PROVE DrawingKeepsPromise(x.src, x.dst, x.trim, x.mode)
    <3>1. x \in Inputs["drawing"]
      BY <2>1, <2>3, OfItsQuestion
    <3>2. x \in Drawings
      BY <3>1, InputsOf
    <3>3. QED
      BY <3>2, DrawingsKeepTheirPromise
  <2>4. QED
    BY <2>2, <2>3 DEF GeometryHolds
<1>2. QED
  BY <1>1, AlwaysAsked, PTL

(* Every number that is set comes back and every file of the kernel is
   understood (pulseaudio, backlight.go, redshift, cpu.go, memory.go,
   temperature.go, main.go). *)
THEOREM NumbersAlwaysHold == Spec => []NumbersHold
<1>1. Asked => NumbersHold
  <2>1. SUFFICES ASSUME Asked PROVE NumbersHold
    OBVIOUS
  <2> DEFINE x == in.x
  <2>2. ASSUME in.q = "percent" PROVE VolumeReadsBack(x)
    <3>1. x \in Nat
      BY <2>1, <2>2, OfItsQuestion, InputsOf
    <3>2. QED
      BY <3>1, VolumeAlwaysReadsBack
  <2>3. ASSUME in.q = "wheel" PROVE WheelMoves(x.cur, x.max)
    <3>1. x \in Wheels
      BY <2>1, <2>3, OfItsQuestion, InputsOf
    <3>2. x.max \in Nat /\ x.max >= 200 /\ x.cur \in 0 .. x.max
      BY <3>1 DEF Wheels
    <3>3. QED
      BY <3>2, WheelAlwaysMoves
  <2>4. ASSUME in.q = "temperature" PROVE WhiteIsClose(x)
    <3>1. x \in Int
      BY <2>1, <2>4, OfItsQuestion, InputsOf
    <3>2. QED
      BY <3>1, WhiteIsAlwaysClose
  <2>5. ASSUME in.q = "sun" PROVE SunIsFollowed(x.e, x.eNight, x.eDay, x.tNight, x.tDay)
    <3>1. x \in Suns
      BY <2>1, <2>5, OfItsQuestion, InputsOf
    <3>2. /\ x.e \in Int /\ x.eNight \in Int /\ x.eDay \in Int /\ x.eNight < x.eDay
          /\ x.tNight \in TempMin .. TempMax /\ x.tDay \in TempMin .. TempMax /\ x.tNight <= x.tDay
      BY <3>1 DEF Suns
    <3>3. QED
      BY <3>2, SunIsAlwaysFollowed
  <2>6. ASSUME in.q = "ramp" PROVE RampRises(x.len, x.max, x.n, x.d)
    <3>1. x \in RampInputs
      BY <2>1, <2>6, OfItsQuestion, InputsOf
    <3>2. x.len \in Nat /\ x.len >= 2 /\ x.max \in Nat /\ x.d \in Nat \ {0} /\ x.n \in 0 .. x.d
      BY <3>1 DEF RampInputs
    <3>3. QED
      BY <3>2, RampsAlwaysRise
  <2>7. in.q = "stat" => CpusAreRead(x.cpus, x.total, x.each)
    <3>1. in.q = "stat" => x \in Stats
      BY <2>1, OfItsQuestion, InputsOf
    <3>2. QED
      BY <3>1, CpusAreAlwaysRead
  <2>8. in.q = "sampling" => UsageIsProper(x.before, x.after, x.group)
    <3>1. in.q = "sampling" => x \in Samplings
      BY <2>1, OfItsQuestion, InputsOf
    <3>2. QED
      BY <3>1, UsageIsAlwaysProper
  <2>9. in.q = "meminfo" => OrderIsFree(x.lines, x.extra)
    <3>1. in.q = "meminfo" => x \in Meminfos
      BY <2>1, OfItsQuestion, InputsOf
    <3>2. QED
      BY <3>1, OrderIsAlwaysFree
  <2>10. in.q = "sensor" => SensorIsFound(x.dirs, x.chip, x.sensor)
    <3>1. in.q = "sensor" => x \in SensorInputs
      BY <2>1, OfItsQuestion, InputsOf
    <3>2. QED
      BY <3>1, SensorIsAlwaysFound
  <2>11. in.q = "machine" => RunsAsAsked(x[1], x[2])
    <3>1. in.q = "machine" => x \in Machines \X BOOLEAN
      BY <2>1, OfItsQuestion, InputsOf
    <3>2. in.q = "machine" => x[1] \in Machines /\ x[2] \in BOOLEAN
      BY <3>1
    <3>3. QED
      BY <3>2, ProgramAlwaysRunsAsAsked
  <2>12. QED
    BY <2>2, <2>3, <2>4, <2>5, <2>6, <2>7, <2>8, <2>9, <2>10, <2>11 DEF NumbersHold
<1>2. QED
  BY <1>1, AlwaysAsked, PTL

-----------------------------------------------------------------------------
Bit == {0, 1}

(* A number is twice its half and its last bit. *)
LEMMA HalfAndBit ==
    ASSUME NEW m \in Nat PROVE \E q \in Nat, r \in Bit : q = m \div 2 /\ r = m % 2 /\ m = 2 * q + r
<1>1. PICK q \in Nat : q = m \div 2
  OBVIOUS
<1>2. 2 * q <= m /\ m < 2 * q + 2
  BY <1>1
<1>3. PICK r \in {0, 1} : m = 2 * q + r
  <2>1. m - 2 * q \in {0, 1} /\ m = 2 * q + (m - 2 * q)
    BY <1>2
  <2>2. QED
    BY <2>1
<1>4. m % 2 = r
  BY <1>3
<1>5. QED
  BY <1>1, <1>3, <1>4 DEF Bit

(* A byte is the sum of its bits, and they are those that the shifts give. *)
LEMMA BitsOf ==
    ASSUME NEW a \in Bytes
    PROVE  \E a0, a1, a2, a3, a4, a5, a6, a7 \in Bit :
              /\ a = a0 + 2 * a1 + 4 * a2 + 8 * a3 + 16 * a4 + 32 * a5 + 64 * a6 + 128 * a7
              /\ (a \div 1) % 2 = a0 /\ (a \div 2) % 2 = a1 /\ (a \div 4) % 2 = a2 /\ (a \div 8) % 2 = a3
              /\ (a \div 16) % 2 = a4 /\ (a \div 32) % 2 = a5 /\ (a \div 64) % 2 = a6 /\ (a \div 128) % 2 = a7
<1>1. PICK q0 \in Nat : q0 = a /\ q0 < 256
  BY DEF Bytes
<1>2. PICK q1 \in Nat, a0 \in Bit : q1 = q0 \div 2 /\ a0 = q0 % 2 /\ q0 = 2 * q1 + a0
  BY HalfAndBit
<1>3. PICK q2 \in Nat, a1 \in Bit : q2 = q1 \div 2 /\ a1 = q1 % 2 /\ q1 = 2 * q2 + a1
  BY HalfAndBit
<1>4. PICK q3 \in Nat, a2 \in Bit : q3 = q2 \div 2 /\ a2 = q2 % 2 /\ q2 = 2 * q3 + a2
  BY HalfAndBit
<1>5. PICK q4 \in Nat, a3 \in Bit : q4 = q3 \div 2 /\ a3 = q3 % 2 /\ q3 = 2 * q4 + a3
  BY HalfAndBit
<1>6. PICK q5 \in Nat, a4 \in Bit : q5 = q4 \div 2 /\ a4 = q4 % 2 /\ q4 = 2 * q5 + a4
  BY HalfAndBit
<1>7. PICK q6 \in Nat, a5 \in Bit : q6 = q5 \div 2 /\ a5 = q5 % 2 /\ q5 = 2 * q6 + a5
  BY HalfAndBit
<1>8. PICK q7 \in Nat, a6 \in Bit : q7 = q6 \div 2 /\ a6 = q6 % 2 /\ q6 = 2 * q7 + a6
  BY HalfAndBit
<1>9. PICK q8 \in Nat, a7 \in Bit : q8 = q7 \div 2 /\ a7 = q7 % 2 /\ q7 = 2 * q8 + a7
  BY HalfAndBit
<1>10. a = a0 + 2 * a1 + 4 * a2 + 8 * a3 + 16 * a4 + 32 * a5 + 64 * a6 + 128 * a7
  <2>1. /\ q0 = 2 * q1 + a0 /\ q1 = 2 * q2 + a1 /\ q2 = 2 * q3 + a2 /\ q3 = 2 * q4 + a3
        /\ q4 = 2 * q5 + a4 /\ q5 = 2 * q6 + a5 /\ q6 = 2 * q7 + a6 /\ q7 = 2 * q8 + a7
    BY <1>2, <1>3, <1>4, <1>5, <1>6, <1>7, <1>8, <1>9, Zenon
  <2>2. QED
    BY <1>1, <2>1 DEF Bit
<1>12. q0 \div 1 = q0 /\ q0 \div 2 = q1
  BY <1>2
<1>13. q0 \div 4 = q2 /\ q0 \div 8 = q3
  <2>1. q0 \div 4 = (q0 \div 2) \div 2 /\ q0 \div 8 = (q0 \div 4) \div 2
    OBVIOUS
  <2>2. QED
    BY <1>2, <1>3, <1>4, <2>1
<1>14. q0 \div 16 = q4 /\ q0 \div 32 = q5
  <2>1. q0 \div 16 = (q0 \div 8) \div 2 /\ q0 \div 32 = (q0 \div 16) \div 2
    OBVIOUS
  <2>2. QED
    BY <1>5, <1>6, <1>13, <2>1
<1>15. q0 \div 64 = q6 /\ q0 \div 128 = q7
  <2>1. q0 \div 64 = (q0 \div 32) \div 2 /\ q0 \div 128 = (q0 \div 64) \div 2
    OBVIOUS
  <2>2. QED
    BY <1>7, <1>8, <1>14, <2>1
<1>16. /\ (a \div 1) % 2 = a0 /\ (a \div 2) % 2 = a1 /\ (a \div 4) % 2 = a2 /\ (a \div 8) % 2 = a3
       /\ (a \div 16) % 2 = a4 /\ (a \div 32) % 2 = a5 /\ (a \div 64) % 2 = a6 /\ (a \div 128) % 2 = a7
  BY <1>1, <1>2, <1>3, <1>4, <1>5, <1>6, <1>7, <1>8, <1>9, <1>12, <1>13, <1>14, <1>15, Zenon
<1> WITNESS a0 \in Bit, a1 \in Bit, a2 \in Bit, a3 \in Bit, a4 \in Bit, a5 \in Bit, a6 \in Bit, a7 \in Bit
<1>17. QED
  BY <1>10, <1>16, Zenon

(* The exclusive or of two bytes is a byte, of which each bit is whether those
   of the two differ. *)
Differ(a, b) == IF a # b THEN 1 ELSE 0

(* The exclusive or of bytes is a byte, is symmetric, and has 0 as neutral. *)
LEMMA XorOfBytes ==
    ASSUME NEW a \in Bytes, NEW b \in Bytes
    PROVE  Xor(a, b) \in Bytes /\ Xor(a, b) = Xor(b, a) /\ Xor(a, 0) = a /\ Xor(a, a) = 0
<1>1. PICK a0, a1, a2, a3, a4, a5, a6, a7 \in Bit :
          /\ a = a0 + 2 * a1 + 4 * a2 + 8 * a3 + 16 * a4 + 32 * a5 + 64 * a6 + 128 * a7
          /\ (a \div 1) % 2 = a0 /\ (a \div 2) % 2 = a1 /\ (a \div 4) % 2 = a2 /\ (a \div 8) % 2 = a3
          /\ (a \div 16) % 2 = a4 /\ (a \div 32) % 2 = a5 /\ (a \div 64) % 2 = a6 /\ (a \div 128) % 2 = a7
  BY BitsOf
<1>2. PICK b0, b1, b2, b3, b4, b5, b6, b7 \in Bit :
          /\ b = b0 + 2 * b1 + 4 * b2 + 8 * b3 + 16 * b4 + 32 * b5 + 64 * b6 + 128 * b7
          /\ (b \div 1) % 2 = b0 /\ (b \div 2) % 2 = b1 /\ (b \div 4) % 2 = b2 /\ (b \div 8) % 2 = b3
          /\ (b \div 16) % 2 = b4 /\ (b \div 32) % 2 = b5 /\ (b \div 64) % 2 = b6 /\ (b \div 128) % 2 = b7
  BY BitsOf
<1>3. Xor(a, b) = Differ(a0, b0) + 2 * Differ(a1, b1) + 4 * Differ(a2, b2) + 8 * Differ(a3, b3)
                 + 16 * Differ(a4, b4) + 32 * Differ(a5, b5) + 64 * Differ(a6, b6) + 128 * Differ(a7, b7)
  BY <1>1, <1>2 DEF Xor, Differ
<1>4. PICK d0, d1, d2, d3, d4, d5, d6, d7 \in Bit :
          /\ d0 = Differ(a0, b0) /\ d1 = Differ(a1, b1) /\ d2 = Differ(a2, b2) /\ d3 = Differ(a3, b3)
          /\ d4 = Differ(a4, b4) /\ d5 = Differ(a5, b5) /\ d6 = Differ(a6, b6) /\ d7 = Differ(a7, b7)
  BY DEF Differ, Bit
<1>5. Xor(a, b) = d0 + 2 * d1 + 4 * d2 + 8 * d3 + 16 * d4 + 32 * d5 + 64 * d6 + 128 * d7
  BY <1>3, <1>4
<1>6. Xor(a, b) \in Bytes
  BY <1>5 DEF Bit, Bytes
<1>7. Xor(a, 0) = a
  <2>1. \A k \in Nat \ {0} : 0 \div k = 0
    OBVIOUS
  <2>2. \A k \in {1, 2, 4, 8, 16, 32, 64, 128} : (0 \div k) % 2 = 0
    BY <2>1
  <2>3. QED
    BY <1>1, <2>2 DEF Xor, Bit
<1>8. Xor(a, b) = Xor(b, a) /\ Xor(a, a) = 0
  BY DEF Xor
<1>9. QED
  BY <1>6, <1>7, <1>8

(* Bytes that differ still do when both are combined with one byte. *)
LEMMA XorKeepsApart ==
    ASSUME NEW a \in Bytes, NEW b \in Bytes, NEW c \in Bytes, a # b
    PROVE  Xor(a, c) # Xor(b, c) /\ Xor(c, a) # Xor(c, b)
<1>0. SUFFICES ASSUME Xor(a, c) = Xor(b, c) PROVE a = b
  BY XorOfBytes
<1>1. PICK a0, a1, a2, a3, a4, a5, a6, a7 \in Bit :
          /\ a = a0 + 2 * a1 + 4 * a2 + 8 * a3 + 16 * a4 + 32 * a5 + 64 * a6 + 128 * a7
          /\ (a \div 1) % 2 = a0 /\ (a \div 2) % 2 = a1 /\ (a \div 4) % 2 = a2 /\ (a \div 8) % 2 = a3
          /\ (a \div 16) % 2 = a4 /\ (a \div 32) % 2 = a5 /\ (a \div 64) % 2 = a6 /\ (a \div 128) % 2 = a7
  BY BitsOf
<1>2. PICK b0, b1, b2, b3, b4, b5, b6, b7 \in Bit :
          /\ b = b0 + 2 * b1 + 4 * b2 + 8 * b3 + 16 * b4 + 32 * b5 + 64 * b6 + 128 * b7
          /\ (b \div 1) % 2 = b0 /\ (b \div 2) % 2 = b1 /\ (b \div 4) % 2 = b2 /\ (b \div 8) % 2 = b3
          /\ (b \div 16) % 2 = b4 /\ (b \div 32) % 2 = b5 /\ (b \div 64) % 2 = b6 /\ (b \div 128) % 2 = b7
  BY BitsOf
<1>3. PICK c0, c1, c2, c3, c4, c5, c6, c7 \in Bit :
          /\ c = c0 + 2 * c1 + 4 * c2 + 8 * c3 + 16 * c4 + 32 * c5 + 64 * c6 + 128 * c7
          /\ (c \div 1) % 2 = c0 /\ (c \div 2) % 2 = c1 /\ (c \div 4) % 2 = c2 /\ (c \div 8) % 2 = c3
          /\ (c \div 16) % 2 = c4 /\ (c \div 32) % 2 = c5 /\ (c \div 64) % 2 = c6 /\ (c \div 128) % 2 = c7
  BY BitsOf
<1>4. Xor(a, c) = Differ(a0, c0) + 2 * Differ(a1, c1) + 4 * Differ(a2, c2) + 8 * Differ(a3, c3)
                 + 16 * Differ(a4, c4) + 32 * Differ(a5, c5) + 64 * Differ(a6, c6) + 128 * Differ(a7, c7)
  BY <1>1, <1>3 DEF Xor, Differ
<1>5. Xor(b, c) = Differ(b0, c0) + 2 * Differ(b1, c1) + 4 * Differ(b2, c2) + 8 * Differ(b3, c3)
                 + 16 * Differ(b4, c4) + 32 * Differ(b5, c5) + 64 * Differ(b6, c6) + 128 * Differ(b7, c7)
  BY <1>2, <1>3 DEF Xor, Differ
<1>6. PICK d0, d1, d2, d3, d4, d5, d6, d7 \in Bit :
          /\ d0 = Differ(a0, c0) /\ d1 = Differ(a1, c1) /\ d2 = Differ(a2, c2) /\ d3 = Differ(a3, c3)
          /\ d4 = Differ(a4, c4) /\ d5 = Differ(a5, c5) /\ d6 = Differ(a6, c6) /\ d7 = Differ(a7, c7)
  BY DEF Differ, Bit
<1>7. PICK e0, e1, e2, e3, e4, e5, e6, e7 \in Bit :
          /\ e0 = Differ(b0, c0) /\ e1 = Differ(b1, c1) /\ e2 = Differ(b2, c2) /\ e3 = Differ(b3, c3)
          /\ e4 = Differ(b4, c4) /\ e5 = Differ(b5, c5) /\ e6 = Differ(b6, c6) /\ e7 = Differ(b7, c7)
  BY DEF Differ, Bit
<1>8. Xor(a, c) = d0 + 2 * d1 + 4 * d2 + 8 * d3 + 16 * d4 + 32 * d5 + 64 * d6 + 128 * d7
  BY <1>4, <1>6
<1>9. Xor(b, c) = e0 + 2 * e1 + 4 * e2 + 8 * e3 + 16 * e4 + 32 * e5 + 64 * e6 + 128 * e7
  BY <1>5, <1>7
<1>10. d0 + 2 * d1 + 4 * d2 + 8 * d3 + 16 * d4 + 32 * d5 + 64 * d6 + 128 * d7
       = e0 + 2 * e1 + 4 * e2 + 8 * e3 + 16 * e4 + 32 * e5 + 64 * e6 + 128 * e7
  BY <1>0, <1>8, <1>9
<1>11. d0 = e0 /\ d1 = e1 /\ d2 = e2 /\ d3 = e3 /\ d4 = e4 /\ d5 = e5 /\ d6 = e6 /\ d7 = e7
  BY <1>10 DEF Bit
<1>12. a0 = b0 /\ a1 = b1 /\ a2 = b2 /\ a3 = b3 /\ a4 = b4 /\ a5 = b5 /\ a6 = b6 /\ a7 = b7
  BY <1>6, <1>7, <1>11 DEF Bit, Differ
<1>13. QED
  BY <1>1, <1>2, <1>12

-----------------------------------------------------------------------------
Put(s, k, e) == [s EXCEPT ![k] = e]

(* A sequence of which one element is put in the place of another. *)
LEMMA Changed ==
    ASSUME NEW S, NEW s \in Seq(S), NEW k \in 1 .. Len(s), NEW e \in S
    PROVE  /\ Put(s, k, e) \in Seq(S) /\ Len(Put(s, k, e)) = Len(s) /\ Put(s, k, e)[k] = e
           /\ \A i \in 1 .. Len(s) : i # k => Put(s, k, e)[i] = s[i]
BY DEF Put

(* A number below 256 is a byte. *)
LEMMA IsByte == ASSUME NEW b \in Int, b >= 0, b < 256 PROVE b \in Bytes
BY DEF Bytes

(* A byte is a number below 256. *)
LEMMA ByteIs == ASSUME NEW b \in Bytes PROVE b \in Nat /\ b < 256
BY DEF Bytes

(* The parity of bytes is one, and that of one byte more is their exclusive or. *)
LEMMA ParityAppend ==
    ASSUME NEW s \in Seq(Bytes), NEW e \in Bytes
    PROVE  Parity(s) \in Bytes /\ Parity(Append(s, e)) = Xor(Parity(s), e)
<1> DEFINE step == [p \in Bytes \X Bytes |-> Xor(p[1], p[2])]
<1>1. \A a, b \in Bytes : Xor(a, b) \in Bytes /\ step[<<a, b>>] = Xor(a, b)
  BY XorOfBytes
<1>2. step \in Updates(Bytes, Bytes) /\ 0 \in Bytes
  <2>1. step \in Updates(Bytes, Bytes)
    BY <1>1 DEF Updates
  <2>2. 0 \in Bytes
    BY DEF Bytes
  <2>3. QED
    BY <2>1, <2>2
<1>3. \A t : Parity(t) = Fold(step, 0, t)
  BY DEF Parity
<1> HIDE DEF step
<1>4. Fold(step, 0, s) \in Bytes /\ Fold(step, 0, Append(s, e)) = step[<<Fold(step, 0, s), e>>]
  BY <1>2, FoldAppend
<1>5. QED
  BY <1>1, <1>3, <1>4

(* With its parity appended, the parity of a sequence is 0. *)
LEMMA ParityOfChecked ==
    ASSUME NEW s \in Seq(Bytes) PROVE Parity(Append(s, Parity(s))) = 0 /\ Parity(s) \in Bytes
<1>1. 0 \in Bytes
  BY DEF Bytes
<1>2. Parity(s) \in Bytes
  BY <1>1, ParityAppend
<1>3. Parity(Append(s, Parity(s))) = Xor(Parity(s), Parity(s))
  BY <1>2, ParityAppend
<1>4. QED
  BY <1>2, <1>3, XorOfBytes

(* Zeros at the end do not count. *)
LEMMA ParityOfZeros ==
    ASSUME NEW s \in Seq(Bytes), NEW t \in Seq(Bytes), Len(s) <= Len(t),
           \A i \in 1 .. Len(t) : t[i] = IF i <= Len(s) THEN s[i] ELSE 0
    PROVE  Parity(t) = Parity(s)
<1> DEFINE step == [p \in Bytes \X Bytes |-> Xor(p[1], p[2])]
           n == Len(s)
           m == Len(t)
<1>1. \A a, b \in Bytes : Xor(a, b) \in Bytes /\ step[<<a, b>>] = Xor(a, b)
  BY XorOfBytes
<1>2. step \in Updates(Bytes, Bytes) /\ 0 \in Bytes
  <2>1. step \in Updates(Bytes, Bytes)
    BY <1>1 DEF Updates
  <2>2. 0 \in Bytes
    BY DEF Bytes
  <2>3. QED
    BY <2>1, <2>2
<1>3. \A r : Parity(r) = Fold(step, 0, r)
  BY DEF Parity
<1>4. /\ n \in Nat /\ m \in Nat /\ n <= m /\ \A i \in 1 .. n : s[i] \in Bytes
      /\ \A i \in 1 .. m : t[i] = IF i <= n THEN s[i] ELSE 0
  OBVIOUS
<1> HIDE DEF step, n, m
<1>5. PICK f : f \in Folding(step, 0, s, Bytes) /\ Parity(s) = f[n]
  BY <1>2, <1>3, FoldSteps DEF n
<1>6. PICK g : g \in Folding(step, 0, t, Bytes) /\ Parity(t) = g[m]
  BY <1>2, <1>3, FoldSteps DEF m
<1>7. f \in [0 .. n -> Bytes] /\ f[0] = 0 /\ \A i \in 1 .. n : f[i] = step[<<f[i - 1], s[i]>>]
  BY <1>5 DEF Folding, n
<1>8. g \in [0 .. m -> Bytes] /\ g[0] = 0 /\ \A i \in 1 .. m : g[i] = step[<<g[i - 1], t[i]>>]
  BY <1>6 DEF Folding, m
<1> DEFINE T == {i \in 0 .. m : g[i] = f[IF i <= n THEN i ELSE n]}
<1>9. 0 \in T
  BY <1>4, <1>7, <1>8
<1>10. ASSUME NEW i \in 1 .. m, i - 1 \in T PROVE i \in T
  <2>1. i - 1 \in 0 .. m /\ i \in 0 .. m /\ g[i] = step[<<g[i - 1], t[i]>>]
    BY <1>4, <1>8
  <2>2. CASE i <= n
    <3>1. i - 1 <= n /\ i \in 1 .. n /\ i - 1 \in 0 .. n
      BY <1>4, <2>2
    <3>2. g[i - 1] = f[i - 1] /\ t[i] = s[i]
      BY <1>4, <1>10, <2>2, <3>1
    <3>3. g[i] = f[i]
      BY <1>7, <2>1, <3>1, <3>2
    <3>4. QED
      BY <2>1, <2>2, <3>3
  <2>3. CASE i > n
    <3>1. t[i] = 0 /\ f[n] \in Bytes
      BY <1>4, <1>7, <2>3
    <3>2. g[i - 1] = f[n]
      <4>1. i - 1 <= n => i - 1 = n
        BY <1>4, <2>3
      <4>2. QED
        BY <1>10, <4>1
    <3>3. g[i] = Xor(f[n], 0)
      BY <1>1, <1>2, <2>1, <3>1, <3>2
    <3>4. g[i] = f[n]
      BY <1>2, <3>1, <3>3, XorOfBytes
    <3>5. QED
      BY <1>4, <2>1, <2>3, <3>4
  <2>4. QED
    BY <1>4, <2>2, <2>3
<1>11. \A i \in 0 .. m : i \in T
  <2> HIDE DEF T
  <2>1. QED
    BY <1>4, <1>9, <1>10, Induction
<1>12. m \in T
  BY <1>4, <1>11
<1>13. g[m] = f[n]
  <2>1. m <= n => m = n
    BY <1>4
  <2>2. QED
    BY <1>12, <2>1
<1>14. QED
  BY <1>5, <1>6, <1>13

(* The parity of bytes of which one is changed changes. *)
LEMMA ParityChanges ==
    ASSUME NEW s \in Seq(Bytes), NEW t \in Seq(Bytes), Len(s) = Len(t),
           NEW k \in 1 .. Len(s), s[k] # t[k], \A i \in 1 .. Len(s) : i # k => s[i] = t[i]
    PROVE  Parity(s) # Parity(t)
<1> DEFINE step == [p \in Bytes \X Bytes |-> Xor(p[1], p[2])]
           n == Len(s)
<1>1. \A a, b \in Bytes : Xor(a, b) \in Bytes /\ step[<<a, b>>] = Xor(a, b)
  BY XorOfBytes
<1>2. step \in Updates(Bytes, Bytes) /\ 0 \in Bytes
  <2>1. step \in Updates(Bytes, Bytes)
    BY <1>1 DEF Updates
  <2>2. 0 \in Bytes
    BY DEF Bytes
  <2>3. QED
    BY <2>1, <2>2
<1>3. \A r : Parity(r) = Fold(step, 0, r)
  BY DEF Parity
<1>4. /\ n \in Nat /\ Len(s) = n /\ Len(t) = n /\ k \in 1 .. n
      /\ \A i \in 1 .. n : s[i] \in Bytes /\ t[i] \in Bytes /\ (i # k => s[i] = t[i])
  OBVIOUS
<1> HIDE DEF step, n
<1>5. PICK f : f \in Folding(step, 0, s, Bytes) /\ Parity(s) = f[n]
  BY <1>2, <1>3, FoldSteps DEF n
<1>6. PICK g : g \in Folding(step, 0, t, Bytes) /\ Parity(t) = g[n]
  <2>1. \E g : g \in Folding(step, 0, t, Bytes) /\ Fold(step, 0, t) = g[Len(t)]
    BY <1>2, FoldSteps
  <2>2. QED
    BY <1>3, <1>4, <2>1
<1>7. f \in [0 .. n -> Bytes] /\ f[0] = 0 /\ \A i \in 1 .. n : f[i] = step[<<f[i - 1], s[i]>>]
  BY <1>4, <1>5 DEF Folding
<1>8. g \in [0 .. n -> Bytes] /\ g[0] = 0 /\ \A i \in 1 .. n : g[i] = step[<<g[i - 1], t[i]>>]
  BY <1>4, <1>6 DEF Folding
<1> DEFINE T == {i \in 0 .. n : (i < k => f[i] = g[i]) /\ (i >= k => f[i] # g[i])}
<1>9. 0 \in T
  BY <1>4, <1>7, <1>8
<1>10. ASSUME NEW i \in 1 .. n, i - 1 \in T PROVE i \in T
  <2>1. /\ i - 1 \in 0 .. n /\ i \in 0 .. n /\ s[i] \in Bytes /\ t[i] \in Bytes
        /\ i < k \/ i = k \/ i > k
    BY <1>4
  <2>2. f[i - 1] \in Bytes /\ g[i - 1] \in Bytes
    BY <1>7, <1>8, <2>1
  <2>3. f[i] = Xor(f[i - 1], s[i]) /\ g[i] = Xor(g[i - 1], t[i])
    BY <1>1, <1>7, <1>8, <2>1, <2>2
  <2>4. CASE i < k
    <3>1. i - 1 < k /\ s[i] = t[i]
      BY <1>4, <2>4
    <3>2. f[i] = g[i]
      BY <1>10, <2>3, <3>1
    <3>3. QED
      BY <2>1, <2>4, <3>2
  <2>5. CASE i = k
    <3>1. i - 1 < k /\ s[i] # t[i]
      BY <1>4, <2>5
    <3>2. f[i - 1] = g[i - 1]
      BY <1>10, <3>1
    <3>3. f[i] # g[i]
      BY <2>1, <2>2, <2>3, <3>1, <3>2, XorKeepsApart
    <3>4. QED
      BY <2>1, <2>5, <3>3
  <2>6. CASE i > k
    <3>1. i - 1 >= k /\ s[i] = t[i]
      BY <1>4, <2>6
    <3>2. f[i - 1] # g[i - 1]
      BY <1>10, <3>1
    <3>3. f[i] # g[i]
      BY <2>1, <2>2, <2>3, <3>1, <3>2, XorKeepsApart
    <3>4. QED
      BY <2>1, <2>6, <3>3
  <2>7. QED
    BY <2>1, <2>4, <2>5, <2>6
<1>11. \A i \in 0 .. n : i \in T
  <2> HIDE DEF T
  <2>1. QED
    BY <1>4, <1>9, <1>10, Induction
<1>12. n \in T /\ n >= k
  BY <1>4, <1>11
<1>13. QED
  BY <1>5, <1>6, <1>12

-----------------------------------------------------------------------------
(* A command arrives as it was sent. *)
LEMMA FrameIsReceived ==
    ASSUME NEW cmd \in Seq(Bytes), Len(cmd) < 128
    PROVE  Received(Frame(cmd)) = cmd
<1> DEFINE n == Len(cmd)
           head == <<Host, Flag + n>> \o cmd
           whole == <<2 * Slave>> \o head
           c == Parity(whole)
           f == Append(head, c)
<1>1. n \in Nat /\ Flag + n \in Bytes /\ Host \in Bytes /\ 2 * Slave \in Bytes
  <2>1. PICK m \in Nat : m = Len(cmd)
    OBVIOUS
  <2>2. m < 128
    BY <2>1
  <2>3. Flag + m \in Bytes /\ Host \in Bytes /\ 2 * Slave \in Bytes
    BY <2>2, IsByte DEF Flag, Host, Slave
  <2>4. QED
    BY <2>1, <2>3
<1>2. head \in Seq(Bytes) /\ Len(head) = n + 2 /\ head[1] = Host /\ head[2] = Flag + n
  BY <1>1
<1>3. \A i \in 1 .. n : head[i + 2] = cmd[i]
  BY <1>1
<1> HIDE DEF head
<1>4. whole \in Seq(Bytes)
  BY <1>1, <1>2
<1>5. c \in Bytes /\ Parity(Append(whole, c)) = 0
  BY <1>4, ParityOfChecked
<1>6. <<2 * Slave>> \o f = Append(whole, c)
  <2> HIDE DEF c
  <2>1. QED
    BY <1>1, <1>2, <1>5
<1>7. Frame(cmd) = f
  BY DEF Frame, head
<1> HIDE DEF c, whole
<1>8. /\ Len(f) = n + 3 /\ f[1] = Host /\ f[2] = Flag + n /\ f \in Seq(Bytes)
      /\ \A i \in 1 .. n : f[i + 2] = cmd[i]
  BY <1>1, <1>2, <1>3, <1>5
<1>9. Len(f) - 3 = n
  BY <1>1, <1>8
<1> HIDE DEF f
<1>10. Received(f) = SubSeq(f, 3, n + 2)
  BY <1>5, <1>6, <1>8, <1>9 DEF Received
<1>11. SubSeq(f, 3, n + 2) = cmd
  BY <1>1, <1>8
<1>12. QED
  BY <1>7, <1>10, <1>11

(* A value is at most the largest of two bytes. *)
Largest == 65535

(* The largest value of two bytes is below what needs a third. *)
LEMMA LargestFits == Largest \in Int /\ Largest < 65536
BY DEF Largest

(* The values are the numbers up to the largest. *)
LEMMA ValuesEnd == Values = 0 .. Largest
BY DEF Values, Largest

(* A value of a VCP has two bytes. *)
LEMMA ValueBounds == ASSUME NEW val \in Values PROVE val \in Nat /\ val < 65536
<1>1. val \in 0 .. Largest
  BY ValuesEnd
<1>2. QED
  BY <1>1, LargestFits, InRange

(* A command that sets a VCP arrives as it was meant, whatever its value
   (SetVCP). *)
LEMMA CommandsArrive ==
    ASSUME NEW vcp \in Bytes, NEW val \in Values PROVE CommandArrives(vcp, val)
<1>1. PICK v \in Nat : v = val /\ v < 65536
  BY ValueBounds
<1>2. PICK h \in Int : h = v \div 256
  BY <1>1
<1>3. 256 * h <= v /\ v < 256 * h + 256
  BY <1>1, <1>2
<1>4. PICK l \in Int : l = v - 256 * h
  OBVIOUS
<1>5. v = 256 * h + l /\ l \in 0 .. 255 /\ h \in 0 .. 255
  BY <1>1, <1>3, <1>4
<1>6. v % 256 = l
  BY <1>1, <1>5
<1>7. SetCommand(vcp, val) = <<3, vcp, h, l>>
  BY <1>1, <1>2, <1>6 DEF SetCommand
<1>8. <<3, vcp, h, l>> \in Seq(Bytes) /\ Len(<<3, vcp, h, l>>) = 4 /\ <<1, vcp>> \in Seq(Bytes) /\ Len(<<1, vcp>>) = 2
  BY <1>5 DEF Bytes
<1>9. Received(Frame(<<3, vcp, h, l>>)) = <<3, vcp, h, l>> /\ Received(Frame(<<1, vcp>>)) = <<1, vcp>>
  <2> DEFINE set == <<3, vcp, h, l>>
             get == <<1, vcp>>
  <2>1. set \in Seq(Bytes) /\ Len(set) < 128 /\ get \in Seq(Bytes) /\ Len(get) < 128
    BY <1>8
  <2> HIDE DEF set, get
  <2>2. Received(Frame(set)) = set /\ Received(Frame(get)) = get
    BY <2>1, FrameIsReceived
  <2>3. QED
    BY <2>2 DEF set, get
<1>10. QED
  BY <1>1, <1>5, <1>7, <1>9 DEF CommandArrives, GetCommand

-----------------------------------------------------------------------------
(* What is read after the header of a reply, and what its checksum is over. *)
Rest(r) == [i \in 1 .. (r[2] % Flag) + 1 |-> IF i + 2 <= Len(r) THEN r[i + 2] ELSE 0]
Seen(r) == <<Host - 1, r[1], r[2]>> \o Rest(r)

(* A message is received only with the parity of its checksum, and then it is
   what its length says. *)
LEMMA RxOf ==
    ASSUME NEW r \in Seq(Bytes), Len(r) >= 2
    PROVE  /\ Rx(r).err = "none" => /\ Parity(Seen(r)) = 0
                                    /\ r[2] >= Flag /\ Rx(r).buf = SubSeq(Rest(r), 1, r[2] % Flag)
           /\ r[1] \div 2 = Slave /\ r[2] >= Flag /\ Parity(Seen(r)) = 0 =>
                 Rx(r).err = "none" /\ Rx(r).buf = SubSeq(Rest(r), 1, r[2] % Flag)
<1> DEFINE b == SubSeq(Rest(r), 1, r[2] % Flag)
           z == Parity(Seen(r))
<1>1. ~(Len(r) < 2) /\ r[2] \in Nat
  <2>1. Len(r) \in Nat /\ r[2] \in Bytes
    OBVIOUS
  <2>2. QED
    BY <2>1, ByteIs
<1>2. Slave \div 1 = 55 /\ Slave # 0 /\ Flag \in Nat
  BY DEF Slave, Flag
<1>3. Rx(r) = IF r[1] \div 2 = 0 THEN Refused("no reply")
              ELSE IF r[1] \div 2 # Slave THEN Refused("bad address")
              ELSE IF r[2] < Flag THEN Refused("bad length")
              ELSE IF z # 0 THEN Refused("checksum")
              ELSE Ok(b)
  BY <1>1 DEF Rx, Seen, Rest
<1>4. Ok(b).err = "none" /\ Ok(b).buf = b
  BY DEF Ok
<1>5. \A e : Refused(e).err = e
  BY DEF Refused
<1> HIDE DEF b, z
<1>6. ~(r[2] < Flag) <=> r[2] >= Flag
  BY <1>1, <1>2
<1>7. Rx(r).err = "none" => z = 0 /\ r[2] >= Flag /\ Rx(r).buf = b
  BY <1>3, <1>4, <1>5, <1>6
<1>8. r[1] \div 2 = Slave /\ r[2] >= Flag /\ z = 0 => Rx(r).err = "none" /\ Rx(r).buf = b
  BY <1>2, <1>3, <1>4, <1>6
<1>9. QED
  BY <1>7, <1>8 DEF b, z

(* GetVCP of a monitor that gives one reply whenever it is asked. *)
LEMMA AnswerOf ==
    ASSUME NEW vcp, NEW r
    PROVE  /\ Silent(Rx(r)) => Answer(vcp, r) = [err |-> "no reply"]
           /\ ~Silent(Rx(r)) => Answer(vcp, r) = IF Rx(r).err # "none" THEN [err |-> Rx(r).err]
                                                  ELSE Parse(vcp, Rx(r).buf)
<1> DEFINE all == [i \in 1 .. Retries |-> r]
           heard == {k \in 1 .. Retries : ~Silent(Rx(all[k]))}
<1>1. Retries \in Nat /\ 1 \in 1 .. Retries
  BY DEF Retries
<1>2. heard \in SUBSET (1 .. Retries) /\ \A k \in heard : all[k] = r
  OBVIOUS
<1>3. (heard = {} <=> Silent(Rx(r)))
  BY <1>1
<1>4. Answer(vcp, r) = IF First(heard) = 0 THEN [err |-> "no reply"]
                       ELSE IF Rx(all[First(heard)]).err # "none" THEN [err |-> Rx(all[First(heard)]).err]
                       ELSE Parse(vcp, Rx(all[First(heard)]).buf)
  BY DEF Answer, GetVCP
<1> HIDE DEF heard, all
<1>5. (First(heard) = 0 <=> heard = {}) /\ (heard # {} => First(heard) \in heard)
  BY <1>1, <1>2, FirstIsOne
<1>6. QED
  BY <1>2, <1>3, <1>4, <1>5

(* What is refused, or is of another length than a reply to GetVCP, is no answer. *)
LEMMA NoAnswer ==
    ASSUME NEW vcp, NEW r, Rx(r).err # "none" \/ Len(Rx(r).buf) # 8
    PROVE  Answer(vcp, r).err # "none"
<1>1. CASE Silent(Rx(r))
  <2>1. Answer(vcp, r) = [err |-> "no reply"]
    BY <1>1, AnswerOf
  <2>2. [err |-> "no reply"].err # "none"
    OBVIOUS
  <2>3. QED
    BY <2>1, <2>2, Zenon
<1>2. CASE ~Silent(Rx(r)) /\ Rx(r).err # "none"
  <2>1. Answer(vcp, r) = [err |-> Rx(r).err]
    BY <1>2, AnswerOf
  <2>2. QED
    BY <1>2, <2>1
<1>3. CASE ~Silent(Rx(r)) /\ Rx(r).err = "none"
  <2>1. Parse(vcp, Rx(r).buf) = [err |-> "bad reply"]
    BY <1>3 DEF Parse
  <2>2. Answer(vcp, r) = Parse(vcp, Rx(r).buf)
    BY <1>3, AnswerOf
  <2>3. [err |-> "bad reply"].err # "none"
    OBVIOUS
  <2>4. QED
    BY <2>1, <2>2, <2>3, Zenon
<1>4. QED
  BY <1>1, <1>2, <1>3

-----------------------------------------------------------------------------
(* A reply as it is sent. *)
LEMMA ReplyFields ==
    ASSUME NEW p \in Payloads
    PROVE  /\ p \in Seq(Bytes) /\ (Len(p) = 0 \/ Len(p) = 8) /\ (Len(p) = 0 <=> p = << >>)
           /\ Reply(p) \in Seq(Bytes) /\ Len(Reply(p)) = Len(p) + 3
           /\ Reply(p)[1] = 110 /\ Reply(p)[2] = 128 + Len(p)
           /\ \A i \in 1 .. Len(p) : Reply(p)[i + 2] = p[i]
           /\ Parity(<<Host - 1>> \o Reply(p)) = 0
<1> DEFINE n == Len(p)
           head == <<2 * Slave, Flag + n>> \o p
           whole == <<Host - 1>> \o head
           c == Parity(whole)
           f == Append(head, c)
<1>1. p \in Seq(Bytes) /\ (n = 0 \/ n = 8) /\ n \in Nat /\ (n = 0 <=> p = << >>)
  BY DEF Payloads
<1>2. Flag + n \in Bytes /\ Host - 1 \in Bytes /\ 2 * Slave \in Bytes /\ 2 * Slave = 110 /\ Flag = 128
  <2>1. \A m \in Nat : m = 0 \/ m = 8 => Flag + m \in Bytes
    BY IsByte DEF Flag
  <2>2. Flag + n \in Bytes
    <3> HIDE DEF n
    <3>1. QED
      BY <1>1, <2>1
  <2>3. QED
    BY <2>2, IsByte DEF Flag, Host, Slave
<1>3. head \in Seq(Bytes) /\ Len(head) = n + 2 /\ head[1] = 2 * Slave /\ head[2] = Flag + n
  BY <1>1, <1>2
<1>4. \A i \in 1 .. n : head[i + 2] = p[i]
  BY <1>1, <1>2
<1> HIDE DEF head
<1>5. whole \in Seq(Bytes)
  BY <1>2, <1>3
<1>6. c \in Bytes /\ Parity(Append(whole, c)) = 0
  BY <1>5, ParityOfChecked
<1>7. <<Host - 1>> \o f = Append(whole, c)
  <2> HIDE DEF c
  <2>1. QED
    BY <1>2, <1>3, <1>6
<1>8. Reply(p) = f
  BY DEF Reply, head
<1> HIDE DEF c, whole
<1>9. /\ Len(f) = n + 3 /\ f[1] = 2 * Slave /\ f[2] = Flag + n /\ f \in Seq(Bytes)
      /\ \A i \in 1 .. n : f[i + 2] = p[i]
  BY <1>1, <1>3, <1>4, <1>6
<1> HIDE DEF f
<1>10. Parity(<<Host - 1>> \o f) = 0
  BY <1>6, <1>7
<1> HIDE DEF n
<1>11. QED
  BY <1>1, <1>2, <1>8, <1>9, <1>10 DEF n

(* A reply that is as long as it says is all seen. *)
LEMMA SeenIsAll ==
    ASSUME NEW r \in Seq(Bytes), NEW n \in Nat, Len(r) = n + 3, r[2] % Flag = n
    PROVE  /\ Seen(r) = <<Host - 1>> \o r
           /\ Len(SubSeq(Rest(r), 1, n)) = n /\ \A i \in 1 .. n : SubSeq(Rest(r), 1, n)[i] = r[i + 2]
<1> DEFINE b == Rest(r)
<1>1. b = [i \in 1 .. n + 1 |-> r[i + 2]]
  BY DEF Rest
<1>2. b \in Seq(Bytes) /\ Len(b) = n + 1 /\ \A i \in 1 .. n + 1 : b[i] = r[i + 2]
  BY <1>1
<1> HIDE DEF b
<1>3. Host - 1 \in Bytes /\ r[1] \in Bytes /\ r[2] \in Bytes
  BY IsByte DEF Host
<1>4. <<Host - 1, r[1], r[2]>> \o b = <<Host - 1>> \o r
  <2> DEFINE u == <<Host - 1, r[1], r[2]>> \o b
             v == <<Host - 1>> \o r
  <2>1. Len(u) = n + 4 /\ Len(v) = n + 4 /\ u \in Seq(Bytes) /\ v \in Seq(Bytes)
    BY <1>2, <1>3
  <2>2. ASSUME NEW i \in 1 .. n + 4 PROVE u[i] = v[i]
    <3>1. CASE i <= 3
      <4>1. i = 1 \/ i = 2 \/ i = 3
        BY <3>1
      <4>2. QED
        BY <1>2, <1>3, <4>1
    <3>2. CASE i > 3
      <4>1. u[i] = b[i - 3] /\ v[i] = r[i - 1] /\ i - 3 \in 1 .. n + 1 /\ (i - 3) + 2 = i - 1
        BY <1>2, <1>3, <3>2
      <4>2. QED
        BY <1>2, <4>1
    <3>3. i <= 3 \/ i > 3
      OBVIOUS
    <3> HIDE DEF u, v
    <3>4. QED
      BY <3>1, <3>2, <3>3
  <2> HIDE DEF u, v
  <2>3. u = v
    BY <2>1, <2>2
  <2>4. QED
    BY <2>3 DEF u, v
<1>5. Len(SubSeq(b, 1, n)) = n /\ \A i \in 1 .. n : SubSeq(b, 1, n)[i] = r[i + 2]
  BY <1>2
<1>6. QED
  BY <1>4, <1>5 DEF Seen, b

-----------------------------------------------------------------------------
(* A length comes back from its byte, which has the flag set. *)
LEMMA LengthOf == ASSUME NEW n \in Nat, n < 128 PROVE (128 + n) % 128 = n /\ 128 + n >= 128
OBVIOUS

(* A reply is received as it was sent. *)
LEMMA ReplyIsRead ==
    ASSUME NEW p \in Payloads PROVE Rx(Reply(p)).err = "none" /\ Rx(Reply(p)).buf = p
<1>0. PICK n \in Nat : n = Len(p) /\ (n = 0 \/ n = 8)
  <2>1. Len(p) \in Nat /\ (Len(p) = 0 \/ Len(p) = 8)
    BY DEF Payloads
  <2>2. QED
    BY <2>1
<1>0a. PICK r : r = Reply(p)
  OBVIOUS
<1> DEFINE b == SubSeq(Rest(r), 1, n)
<1>1. /\ p \in Seq(Bytes) /\ (n = 0 \/ n = 8) /\ n \in Nat /\ r \in Seq(Bytes) /\ Len(r) = n + 3
      /\ r[1] = 110 /\ r[2] = 128 + n /\ (\A i \in 1 .. n : r[i + 2] = p[i])
      /\ Parity(<<Host - 1>> \o r) = 0
  BY <1>0, <1>0a, ReplyFields, SMTT(60)
<1>2. Len(r) >= 2 /\ r[2] >= Flag /\ r[2] % Flag = n /\ r[1] \div 2 = Slave
  <2>1. 128 + n >= 128 /\ (128 + n) % 128 = n /\ n + 3 >= 2
    <3>1. n < 128 /\ n + 3 >= 2
      BY <1>1
    <3>2. QED
      BY <1>1, <3>1, LengthOf
  <2>2. 110 \div 2 = 55
    OBVIOUS
  <2>3. QED
    BY <1>1, <2>1, <2>2 DEF Flag, Slave
<1>3. Seen(r) = <<Host - 1>> \o r /\ Len(b) = n /\ \A i \in 1 .. n : b[i] = r[i + 2]
  BY <1>1, <1>2, SeenIsAll, SMTT(60)
<1>4. Rx(r).err = "none" /\ Rx(r).buf = b
  BY <1>1, <1>2, <1>3, RxOf, ZenonT(60)
<1>5. b = p
  <2>1. b \in Seq(Bytes)
    <3>1. b = [i \in 1 .. n |-> Rest(r)[i]]
      BY <1>1, <1>2 DEF Rest
    <3>2. \A i \in 1 .. n : b[i] \in Bytes
      BY <1>1, <1>3
    <3> HIDE DEF b
    <3>3. QED
      BY <1>1, <3>1, <3>2
  <2> HIDE DEF b
  <2>2. QED
    BY <1>0, <1>1, <1>3, <2>1, SMTT(60)
<1>6. QED
  BY <1>0a, <1>4, <1>5

(* The checksum of a reply is right. *)
Summed(r) == Parity(<<Host - 1>> \o r) = 0

(* A reply of which another byte than its length has changed is refused. *)
LEMMA ByteOfFrameIsMissed ==
    ASSUME NEW n \in Nat, n < 128, NEW r \in Seq(Bytes), Len(r) = n + 3, r[2] = 128 + n,
           Summed(r),
           NEW at \in 1 .. n + 3, NEW to \in Bytes, at # 2, to # r[at]
    PROVE  Rx(Put(r, at, to)).err # "none"
<1> DEFINE got == Put(r, at, to)
           s == <<Host - 1>> \o r
           t == <<Host - 1>> \o got
<1>1. n \in Nat /\ r \in Seq(Bytes) /\ Len(r) = n + 3 /\ r[2] = 128 + n /\ Parity(s) = 0
  BY DEF Summed
<1>2. at \in 1 .. n + 3 /\ to # r[at]
  OBVIOUS
<1>3. got \in Seq(Bytes) /\ Len(got) = n + 3 /\ got[at] = to /\ \A i \in 1 .. n + 3 : i # at => got[i] = r[i]
  <2>1. at \in 1 .. Len(r)
    BY <1>1, <1>2
  <2>2. got \in Seq(Bytes) /\ Len(got) = Len(r) /\ got[at] = to
    BY <2>1 DEF Put
  <2>3. \A i \in 1 .. Len(r) : i # at => got[i] = r[i]
    BY <2>1 DEF Put
  <2> HIDE DEF got
  <2>4. QED
    BY <1>1, <2>2, <2>3
<1> HIDE DEF got
<1>4. got[2] % Flag = n /\ Len(got) >= 2
  <2>1. 2 \in 1 .. n + 3 /\ n + 3 >= 2 /\ (128 + n) % 128 = n
    <3>1. n < 128 /\ n + 3 >= 2 /\ 2 \in 1 .. n + 3
      BY <1>1
    <3>2. QED
      BY <1>1, <3>1, LengthOf
  <2>2. got[2] = 128 + n
    BY <1>1, <1>3, <2>1
  <2>3. QED
    BY <1>3, <2>1, <2>2 DEF Flag
<1>5. Seen(got) = t
  BY <1>1, <1>3, <1>4, SeenIsAll
<1>6. Parity(s) # Parity(t)
  <2>1. Host - 1 \in Bytes
    BY IsByte DEF Host
  <2>2. s \in Seq(Bytes) /\ Len(s) = n + 4 /\ \A i \in 1 .. n + 3 : s[i + 1] = r[i]
    BY <1>1, <2>1
  <2>3. t \in Seq(Bytes) /\ Len(t) = n + 4 /\ \A i \in 1 .. n + 3 : t[i + 1] = got[i]
    BY <1>1, <1>3, <2>1
  <2>4. s[1] = t[1]
    BY <1>1, <1>3, <2>1
  <2>5. at + 1 \in 1 .. n + 4 /\ s[at + 1] # t[at + 1]
    <3> HIDE DEF s, t
    <3>1. s[at + 1] = r[at] /\ t[at + 1] = to
      BY <1>2, <1>3, <2>2, <2>3
    <3>2. at + 1 \in 1 .. n + 4
      BY <1>1, <1>2
    <3>3. QED
      BY <1>2, <3>1, <3>2
  <2>6. ASSUME NEW i \in 1 .. n + 4, i # at + 1 PROVE s[i] = t[i]
    <3>1. CASE i = 1
      BY <2>4, <3>1
    <3>2. CASE i # 1
      <4>1. i - 1 \in 1 .. n + 3 /\ i - 1 # at /\ (i - 1) + 1 = i
        BY <1>1, <1>2, <2>6, <3>2
      <4>2. s[i] = r[i - 1] /\ t[i] = got[i - 1] /\ got[i - 1] = r[i - 1]
        <5> HIDE DEF s, t
        <5>1. QED
          BY <1>3, <2>2, <2>3, <4>1
      <4>3. QED
        BY <4>2
    <3>3. QED
      BY <3>1, <3>2
  <2> DEFINE k == at + 1
  <2>7. k \in 1 .. Len(s) /\ Len(s) = Len(t) /\ s[k] # t[k] /\ \A i \in 1 .. Len(s) : i # k => s[i] = t[i]
    BY <2>2, <2>3, <2>5, <2>6
  <2> HIDE DEF s, t, k
  <2>8. QED
    BY <2>2, <2>3, <2>7, ParityChanges
<1>7. Rx(got).err = "none" => Parity(Seen(got)) = 0
  BY <1>3, <1>4, RxOf
<1>8. QED
  BY <1>1, <1>5, <1>6, <1>7 DEF got

(* A reply of which a byte that is not its length has changed is refused. *)
LEMMA ByteIsMissed ==
    ASSUME NEW p \in Payloads, NEW at \in DOMAIN Reply(p), NEW to \in Bytes, at # 2, to # Reply(p)[at]
    PROVE  Rx(Put(Reply(p), at, to)).err # "none"
<1>1. PICK r : r = Reply(p)
  OBVIOUS
<1>2. PICK n \in Nat : n = Len(p) /\ (n = 0 \/ n = 8)
  <2>1. Len(p) \in Nat /\ (Len(p) = 0 \/ Len(p) = 8)
    BY DEF Payloads
  <2>2. QED
    BY <2>1
<1>3. r \in Seq(Bytes) /\ Len(r) = n + 3 /\ r[2] = 128 + n /\ Summed(r)
  BY <1>1, <1>2, ReplyFields DEF Summed
<1>4. at \in 1 .. n + 3 /\ to # r[at]
  <2>1. at \in DOMAIN r /\ to # r[at]
    BY <1>1
  <2>2. DOMAIN r = 1 .. n + 3
    BY <1>3
  <2>3. QED
    BY <2>1, <2>2
<1>5. n < 128
  <2>1. n = 0 \/ n = 8
    BY <1>2
  <2>2. QED
    BY <2>1
<1>6. QED
  BY <1>1, <1>3, <1>4, <1>5, ByteOfFrameIsMissed

(* Sequences of the same length and elements are the same. *)
LEMMA SameSequence ==
    ASSUME NEW S, NEW a \in Seq(S), NEW b \in Seq(S), Len(a) = Len(b), \A i \in 1 .. Len(a) : a[i] = b[i]
    PROVE  a = b
OBVIOUS

(* A sequence of three elements is its elements. *)
LEMMA Three ==
    ASSUME NEW S, NEW r \in Seq(S), Len(r) = 3 PROVE r = <<r[1], r[2], r[3]>>
<1>1. r[1] \in S /\ r[2] \in S /\ r[3] \in S
  OBVIOUS
<1> DEFINE s == <<r[1], r[2], r[3]>>
<1>2. s \in Seq(S) /\ Len(s) = 3 /\ s[1] = r[1] /\ s[2] = r[2] /\ s[3] = r[3]
  BY <1>1
<1> HIDE DEF s
<1>3. \A i \in 1 .. 3 : s[i] = r[i]
  BY <1>2
<1>4. QED
  BY <1>2, <1>3, SameSequence DEF s

(* An empty reply of which the length says eight: what is read beyond its end
   is zero, and does not make up for the length. *)
LEMMA EmptyIsNotEight ==
    ASSUME NEW h \in Bytes, NEW a \in Bytes, NEW b \in Bytes, NEW c \in Bytes, NEW d \in Bytes, b # d
    PROVE  Parity(<<h, a, d, c, 0, 0, 0, 0, 0, 0, 0, 0>>) # Parity(<<h, a, b, c>>)
<1> DEFINE z == <<h, a, b, c>>
           u == <<h, a, d, c, 0, 0, 0, 0, 0, 0, 0, 0>>
           v == <<h, a, b, c, 0, 0, 0, 0, 0, 0, 0, 0>>
<1>1. 0 \in Bytes
  BY IsByte
<1>2. /\ u \in Seq(Bytes) /\ Len(u) = 12 /\ v \in Seq(Bytes) /\ Len(v) = 12
      /\ z \in Seq(Bytes) /\ Len(z) = 4 /\ u[3] = d /\ v[3] = b
  BY <1>1
<1>3. \A i \in 1 .. 12 : i # 3 => u[i] = v[i]
  BY <1>1
<1>4. \A i \in 1 .. 12 : v[i] = IF i <= 4 THEN z[i] ELSE 0
  BY <1>1
<1> HIDE DEF u, v, z
<1>5. Parity(v) = Parity(z)
  <2>1. Len(z) <= Len(v) /\ \A i \in 1 .. Len(v) : v[i] = IF i <= Len(z) THEN z[i] ELSE 0
    BY <1>2, <1>4
  <2>2. QED
    BY <1>2, <2>1, ParityOfZeros
<1>6. 3 \in 1 .. Len(u) /\ Len(u) = Len(v) /\ \A i \in 1 .. Len(u) : i # 3 => u[i] = v[i]
  BY <1>2, <1>3
<1>7. Parity(u) # Parity(v)
  BY <1>2, <1>6, ParityChanges
<1>8. QED
  BY <1>5, <1>7 DEF u, z

(* The header of a reply before what follows it. *)
LEMMA JoinedThree ==
    ASSUME NEW S, NEW h \in S, NEW a \in S, NEW b \in S, NEW c \in S
    PROVE  <<h>> \o <<a, b, c>> = <<h, a, b, c>>
<1> DEFINE s == <<h>> \o <<a, b, c>>
           t == <<h, a, b, c>>
<1>1. s \in Seq(S) /\ Len(s) = 4
  OBVIOUS
<1>2. t \in Seq(S) /\ Len(t) = 4
  OBVIOUS
<1>3. \A i \in 1 .. 4 : s[i] = t[i]
  OBVIOUS
<1> HIDE DEF s, t
<1>4. s = t
  BY <1>1, <1>2, <1>3, SameSequence
<1>5. QED
  BY <1>4 DEF s, t

(* Three elements and nine more. *)
LEMMA JoinedNine ==
    ASSUME NEW S, NEW h \in S, NEW a \in S, NEW b \in S, NEW c \in S, NEW z \in S
    PROVE  <<h, a, b>> \o <<c, z, z, z, z, z, z, z, z>> = <<h, a, b, c, z, z, z, z, z, z, z, z>>
<1> DEFINE s == <<h, a, b>> \o <<c, z, z, z, z, z, z, z, z>>
           t == <<h, a, b, c, z, z, z, z, z, z, z, z>>
<1>1. s \in Seq(S) /\ Len(s) = 12
  OBVIOUS
<1>2. t \in Seq(S) /\ Len(t) = 12
  OBVIOUS
<1>3. \A i \in 1 .. 12 : s[i] = t[i]
  OBVIOUS
<1> HIDE DEF s, t
<1>4. s = t
  BY <1>1, <1>2, <1>3, SameSequence
<1>5. QED
  BY <1>4 DEF s, t

(* A reply of which the length is not what was sent is refused, or it is of
   another length than a reply to GetVCP. *)
LEMMA LengthOfFrameIsMissed ==
    ASSUME NEW r \in Seq(Bytes), NEW n \in Nat, Len(r) = n + 3, r[2] = 128 + n,
           Summed(r), NEW to \in Bytes, to # r[2],
           Rx(Put(r, 2, to)).err = "none", Len(Rx(Put(r, 2, to)).buf) = 8
    PROVE  n # 0 /\ to = 136
<1> DEFINE got == Put(r, 2, to)
           m == to % Flag
<1>1. 2 \in 1 .. Len(r)
  OBVIOUS
<1>2a. got \in Seq(Bytes) /\ Len(got) = Len(r) /\ got[2] = to
  BY <1>1 DEF Put
<1>2b. \A i \in 1 .. Len(r) : i # 2 => got[i] = r[i]
  BY <1>1 DEF Put
<1>2. got \in Seq(Bytes) /\ Len(got) = Len(r) /\ got[2] = to /\ \A i \in 1 .. Len(r) : i # 2 => got[i] = r[i]
  <2> HIDE DEF got
  <2>1. QED
    BY <1>2a, <1>2b
<1>3. Rx(got).err = "none" /\ Len(Rx(got).buf) = 8
  OBVIOUS
<1> HIDE DEF got
<1>4. Len(got) >= 2
  BY <1>2
<1>5. to >= Flag /\ Parity(Seen(got)) = 0 /\ Rx(got).buf = SubSeq(Rest(got), 1, m)
  BY <1>2, <1>3, <1>4, RxOf
<1>6. to \in Nat /\ to < 256 /\ m \in Nat /\ to = 128 + m
  <2>1. to \in Nat /\ to < 256 /\ to >= 128
    BY <1>5, ByteIs DEF Flag
  <2>2. PICK k \in Nat : to = 128 + k /\ k < 128
    <3>1. to - 128 \in Nat /\ to = 128 + (to - 128) /\ to - 128 < 128
      BY <2>1
    <3>2. QED
      BY <3>1
  <2>3. (128 + k) % 128 = k
    BY <2>2, LengthOf
  <2>4. m = k
    BY <2>2, <2>3 DEF Flag
  <2>5. QED
    BY <2>1, <2>2, <2>4
<1>7. m = 8
  <2>1. Rest(got) = [i \in 1 .. m + 1 |-> IF i + 2 <= Len(got) THEN got[i + 2] ELSE 0]
    BY <1>2 DEF Rest
  <2> HIDE DEF m
  <2>2. Len(SubSeq(Rest(got), 1, m)) = m
    BY <1>6, <2>1
  <2>3. QED
    BY <1>3, <1>5, <2>2
<1>8. to = 136
  <2> HIDE DEF m
  <2>1. QED
    BY <1>6, <1>7
<1>9. SUFFICES ASSUME n = 0 PROVE FALSE
  BY <1>8
<1> DEFINE a == r[1]
           b == r[2]
           c == r[3]
<1>10. r = <<a, b, c>>
  BY <1>9, Three
<1>11. /\ Host - 1 \in Bytes /\ a \in Bytes /\ b \in Bytes /\ c \in Bytes
  <2>1. 1 \in 1 .. Len(r) /\ 2 \in 1 .. Len(r) /\ 3 \in 1 .. Len(r)
    OBVIOUS
  <2>2. Host - 1 \in Bytes
    BY IsByte DEF Host
  <2>3. QED
    BY <2>1, <2>2
<1>15. 136 \in Bytes /\ 0 \in Bytes
  BY IsByte
<1>12. Seen(got) = <<Host - 1, a, 136, c, 0, 0, 0, 0, 0, 0, 0, 0>>
  <2>1. got[1] = a /\ got[2] = 136 /\ got[3] = c /\ Len(got) = 3
    BY <1>2, <1>8, <1>9
  <2>2. Rest(got) = <<c, 0, 0, 0, 0, 0, 0, 0, 0>>
    <3>1. Rest(got) = [i \in 1 .. 9 |-> IF i + 2 <= 3 THEN got[i + 2] ELSE 0]
      <4>1. m + 1 = 9 /\ got[2] % Flag = m
        BY <1>7, <1>2
      <4> HIDE DEF m
      <4>2. QED
        BY <2>1, <4>1 DEF Rest
    <3>2. \A i \in 1 .. 9 : (IF i + 2 <= 3 THEN got[i + 2] ELSE 0) = <<c, 0, 0, 0, 0, 0, 0, 0, 0>>[i]
      BY <2>1
    <3>3. QED
      BY <3>1, <3>2
  <2>3. Seen(got) = <<Host - 1, got[1], got[2]>> \o Rest(got)
    BY DEF Seen
  <2>4. <<Host - 1, a, 136>> \o <<c, 0, 0, 0, 0, 0, 0, 0, 0>> = <<Host - 1, a, 136, c, 0, 0, 0, 0, 0, 0, 0, 0>>
    <3>1. PICK h \in Bytes, d \in Bytes, z \in Bytes : h = Host - 1 /\ d = 136 /\ z = 0
      BY <1>11, <1>15
    <3> HIDE DEF a, c
    <3>2. <<h, a, d>> \o <<c, z, z, z, z, z, z, z, z>> = <<h, a, d, c, z, z, z, z, z, z, z, z>>
      BY <1>11, JoinedNine
    <3>3. QED
      BY <3>1, <3>2
  <2>5. QED
    BY <2>1, <2>2, <2>3, <2>4
<1>13. Parity(<<Host - 1, a, b, c>>) = 0
  <2> HIDE DEF a, b, c
  <2>1. <<Host - 1>> \o <<a, b, c>> = <<Host - 1, a, b, c>>
    <3>1. PICK h \in Bytes : h = Host - 1
      BY <1>11
    <3>2. <<h>> \o <<a, b, c>> = <<h, a, b, c>>
      BY <1>11, JoinedThree
    <3>3. QED
      BY <3>1, <3>2
  <2>2. QED
    BY <1>10, <2>1 DEF Summed
<1>14. b # 136
  BY <1>8
<1> HIDE DEF a, b, c
<1>16. Parity(<<Host - 1, a, 136, c, 0, 0, 0, 0, 0, 0, 0, 0>>) # Parity(<<Host - 1, a, b, c>>)
  BY <1>11, <1>14, <1>15, EmptyIsNotEight
<1>17. QED
  BY <1>5, <1>12, <1>13, <1>16

(* A reply of which the length has changed is refused, or is not of a length
   that is parsed. *)
LEMMA LengthIsMissed ==
    ASSUME NEW p \in Payloads, NEW to \in Bytes, to # Reply(p)[2]
    PROVE  Rx(Put(Reply(p), 2, to)).err # "none" \/ Len(Rx(Put(Reply(p), 2, to)).buf) # 8
<1>1. PICK r : r = Reply(p)
  OBVIOUS
<1>2. PICK n \in Nat : n = Len(p) /\ (n = 0 \/ n = 8)
  <2>1. Len(p) \in Nat /\ (Len(p) = 0 \/ Len(p) = 8)
    BY DEF Payloads
  <2>2. QED
    BY <2>1
<1>3. r \in Seq(Bytes) /\ Len(r) = n + 3 /\ r[2] = 128 + n /\ Summed(r)
  BY <1>1, <1>2, ReplyFields DEF Summed
<1>4. SUFFICES ASSUME Rx(Put(r, 2, to)).err = "none", Len(Rx(Put(r, 2, to)).buf) = 8 PROVE FALSE
  BY <1>1
<1>5. to # r[2]
  BY <1>1
<1>6. n # 0 /\ to = 136
  BY <1>3, <1>4, <1>5, LengthOfFrameIsMissed
<1>7. n = 8
  BY <1>2, <1>6
<1>8. QED
  BY <1>3, <1>5, <1>6, <1>7

-----------------------------------------------------------------------------
(* A reply as it was sent is understood, and none of which one byte has been
   changed is (GetVCP). *)
LEMMA GoodReplyIsUnderstood ==
    ASSUME NEW vcp, NEW p \in Payloads
    PROVE  Answer(vcp, Reply(p)) =
               IF p = << >> THEN [err |-> "no reply"]
               ELSE IF p[2] = 1 THEN [err |-> "unsupported"]
               ELSE IF p[3] # vcp THEN [err |-> "bad reply"]
               ELSE [err |-> "none", val |-> 256 * p[7] + p[8], max |-> 256 * p[5] + p[6]]
<1>1. Rx(Reply(p)).err = "none" /\ Rx(Reply(p)).buf = p
  BY ReplyIsRead
<1>2. Silent(Rx(Reply(p))) <=> p = << >>
  <2>1. "none" # "no reply"
    OBVIOUS
  <2>2. QED
    BY <1>1, <2>1 DEF Silent
<1>3. CASE p = << >>
  BY <1>2, <1>3, AnswerOf
<1>4. CASE p # << >>
  <2>1. Len(p) = 8 /\ p[1] = 2 /\ (p[2] = 0 \/ p[2] = 1)
    BY <1>4 DEF Payloads
  <2>2. Answer(vcp, Reply(p)) = Parse(vcp, p)
    BY <1>1, <1>2, <1>4, AnswerOf
  <2>3. p[2] = 0 => p[2] # 1
    OBVIOUS
  <2>4. QED
    BY <1>4, <2>1, <2>2, <2>3 DEF Parse
<1>5. QED
  BY <1>3, <1>4

(* A reply of which only the bytes before one arrive is not taken for an answer,
   unless they have the parity of a whole one. *)
LEMMA CutIsRefused ==
    ASSUME NEW vcp, NEW p \in Payloads, NEW at \in DOMAIN Reply(p),
           at < 3 \/ Parity(<<Host - 1>> \o SubSeq(Reply(p), 1, at - 1)) # 0
    PROVE  Answer(vcp, SubSeq(Reply(p), 1, at - 1)).err # "none"
<1>1. PICK r : r = Reply(p)
  OBVIOUS
<1>2. PICK n \in Nat : n = Len(p) /\ (n = 0 \/ n = 8) /\ n < 128
  <2>1. Len(p) \in Nat /\ (Len(p) = 0 \/ Len(p) = 8)
    BY DEF Payloads
  <2>2. CASE Len(p) = 0
    <3>1. 0 \in Nat /\ 0 < 128
      OBVIOUS
    <3>2. QED
      BY <2>2, <3>1, Zenon
  <2>3. CASE Len(p) = 8
    <3>1. 8 \in Nat /\ 8 < 128
      OBVIOUS
    <3>2. QED
      BY <2>3, <3>1, Zenon
  <2>4. QED
    BY <2>1, <2>2, <2>3
<1>3. r \in Seq(Bytes) /\ Len(r) = n + 3 /\ r[2] = 128 + n
  BY <1>1, <1>2, ReplyFields
<1>4. PICK m \in Nat : m = at - 1 /\ m <= n + 2 /\ at \in Int
  <2>1. at \in DOMAIN r /\ DOMAIN r = 1 .. n + 3
    BY <1>1, <1>3
  <2>2. QED
    BY <2>1
<1> DEFINE cut == SubSeq(r, 1, m)
<1>5. cut \in Seq(Bytes) /\ Len(cut) = m /\ \A i \in 1 .. m : cut[i] = r[i]
  BY <1>3, <1>4
<1>6. cut = SubSeq(Reply(p), 1, at - 1)
  BY <1>1, <1>4
<1>7. m < 2 \/ Parity(<<Host - 1>> \o cut) # 0
  <2>1. at < 3 => m < 2
    BY <1>4
  <2>2. QED
    BY <1>6, <2>1
<1> HIDE DEF cut
<1>8. ASSUME m < 2 PROVE Rx(cut).err # "none"
  <2>1. Rx(cut) = Refused("short")
    BY <1>5, <1>8 DEF Rx
  <2>2. Refused("short").err = "short"
    BY DEF Refused
  <2>3. QED
    BY <2>1, <2>2
<1>9. ASSUME m >= 2, Parity(<<Host - 1>> \o cut) # 0 PROVE Rx(cut).err # "none"
  <2> DEFINE s == <<Host - 1>> \o cut
             b == Rest(cut)
             t == <<Host - 1, cut[1], cut[2]>> \o b
  <2>1. cut[2] % Flag = n
    <3>1. cut[2] = 128 + n /\ n < 128
      <4>1. 2 \in 1 .. m
        BY <1>9
      <4>2. cut[2] = r[2]
        BY <1>5, <4>1
      <4>3. QED
        BY <1>2, <1>3, <4>2
    <3>2. QED
      BY <3>1, LengthOf DEF Flag
  <2>2. b = [i \in 1 .. n + 1 |-> IF i + 2 <= m THEN cut[i + 2] ELSE 0]
    BY <1>5, <2>1 DEF Rest
  <2>3. /\ b \in Seq(Bytes) /\ Len(b) = n + 1
        /\ \A i \in 1 .. n + 1 : b[i] = IF i + 2 <= m THEN cut[i + 2] ELSE 0
    <3>1. \A i \in 1 .. n + 1 : (IF i + 2 <= m THEN cut[i + 2] ELSE 0) \in Bytes
      <4>1. 0 \in Bytes
        BY DEF Bytes
      <4>2. QED
        BY <1>4, <1>5, <4>1
    <3> HIDE DEF b
    <3>2. QED
      BY <2>2, <3>1
  <2>4. Host - 1 \in Bytes /\ cut[1] \in Bytes /\ cut[2] \in Bytes
    <3>1. Host - 1 \in Bytes
      BY IsByte DEF Host
    <3>2. 1 \in 1 .. Len(cut) /\ 2 \in 1 .. Len(cut)
      BY <1>5, <1>9
    <3>3. QED
      BY <1>5, <3>1, <3>2
  <2> HIDE DEF b
  <2>5. /\ s \in Seq(Bytes) /\ Len(s) = m + 1 /\ s[1] = Host - 1
        /\ \A i \in 2 .. m + 1 : s[i] = cut[i - 1]
    BY <1>5, <2>4
  <2>6. /\ t \in Seq(Bytes) /\ Len(t) = n + 4
        /\ t[1] = Host - 1 /\ t[2] = cut[1] /\ t[3] = cut[2]
        /\ \A i \in 4 .. n + 4 : t[i] = b[i - 3]
    BY <2>3, <2>4
  <2>7. Seen(cut) = t
    BY DEF Seen, b
  <2> HIDE DEF s, t
  <2>8. ASSUME NEW i \in 1 .. n + 4 PROVE t[i] = IF i <= m + 1 THEN s[i] ELSE 0
    <3>1. CASE i = 1
      BY <1>4, <2>5, <2>6, <3>1
    <3>2. CASE i = 2
      <4>1. 2 \in 2 .. m + 1 /\ 2 - 1 = 1
        BY <1>9
      <4>2. QED
        BY <1>9, <2>5, <2>6, <3>2, <4>1
    <3>3. CASE i = 3
      <4>1. 3 \in 2 .. m + 1 /\ 3 - 1 = 2
        BY <1>9
      <4>2. QED
        BY <1>9, <2>5, <2>6, <3>3, <4>1
    <3>4. CASE i > 3
      <4>1. i \in 4 .. n + 4 /\ i - 3 \in 1 .. n + 1 /\ (i - 3) + 2 = i - 1
        BY <3>4
      <4>2. t[i] = IF i - 1 <= m THEN cut[i - 1] ELSE 0
        BY <2>3, <2>6, <4>1
      <4>3. (i - 1 <= m <=> i <= m + 1) /\ (i <= m + 1 => i \in 2 .. m + 1)
        BY <1>4, <4>1
      <4>4. QED
        BY <2>5, <4>2, <4>3
    <3>5. QED
      BY <3>1, <3>2, <3>3, <3>4
  <2>9. Len(s) <= Len(t) /\ \A i \in 1 .. Len(t) : t[i] = IF i <= Len(s) THEN s[i] ELSE 0
    <3>1. m + 1 <= n + 4
      BY <1>4
    <3>2. QED
      BY <2>5, <2>6, <2>8, <3>1
  <2>10. Parity(t) = Parity(s)
    BY <2>5, <2>6, <2>9, ParityOfZeros
  <2>11. Rx(cut).err = "none" => Parity(Seen(cut)) = 0
    BY <1>5, <1>9, RxOf
  <2>12. QED
    BY <1>9, <2>7, <2>10, <2>11 DEF s
<1>10. m < 2 \/ m >= 2
  BY <1>4
<1>11. QED
  BY <1>6, <1>7, <1>8, <1>9, <1>10, NoAnswer

(* A reply of which any one byte has changed is not taken for an answer, and one
   that is cut short only by its parity. *)
LEMMA CorruptionIsRefused ==
    ASSUME NEW vcp, NEW p \in Payloads, NEW at, NEW e \in Bytes
    PROVE  RefusesCorruption(vcp, p, at, e)
<1> DEFINE sent == Reply(p)
           good == Answer(vcp, sent)
<1>0. good = IF p = << >> THEN [err |-> "no reply"]
             ELSE IF p[2] = 1 THEN [err |-> "unsupported"]
             ELSE IF p[3] # vcp THEN [err |-> "bad reply"]
             ELSE [err |-> "none", val |-> 256 * p[7] + p[8], max |-> 256 * p[5] + p[6]]
  BY GoodReplyIsUnderstood, ZenonT(60)
<1> HIDE DEF good
<1>1. /\ p = << >> => good.err = "no reply"
      /\ p # << >> /\ p[2] = 1 => good.err = "unsupported"
      /\ p # << >> /\ p[2] # 1 /\ p[3] # vcp => good.err = "bad reply"
      /\ p # << >> /\ p[2] # 1 /\ p[3] = vcp =>
            good = [err |-> "none", val |-> 256 * p[7] + p[8], max |-> 256 * p[5] + p[6]]
  BY <1>0
<1>2. ASSUME at \in DOMAIN sent, e # sent[at]
      PROVE  Answer(vcp, Put(sent, at, e)).err # "none"
  <2>1. CASE at = 2
    BY <1>2, <2>1, LengthIsMissed, NoAnswer
  <2>2. CASE at # 2
    BY <1>2, <2>2, ByteIsMissed, NoAnswer
  <2>3. QED
    BY <2>1, <2>2
<1>3. Put(sent, at, e) = [sent EXCEPT ![at] = e]
  BY DEF Put
<1> HIDE DEF sent
<1>4. at \in DOMAIN sent /\ e # sent[at] => Answer(vcp, [sent EXCEPT ![at] = e]).err # "none"
  BY <1>2, <1>3
<1>5. IF p = << >> THEN good.err = "no reply"
      ELSE IF p[2] = 1 THEN good.err = "unsupported"
      ELSE IF p[3] # vcp THEN good.err = "bad reply"
      ELSE good = [err |-> "none", val |-> 256 * p[7] + p[8], max |-> 256 * p[5] + p[6]]
  BY <1>1
<1>6. at \in DOMAIN sent /\ (at < 3 \/ Parity(<<Host - 1>> \o SubSeq(sent, 1, at - 1)) # 0)
          => Answer(vcp, SubSeq(sent, 1, at - 1)).err # "none"
  BY CutIsRefused, Zenon DEF sent
<1>7. QED
  BY <1>4, <1>5, <1>6 DEF RefusesCorruption, sent, good

(* A monitor that is silent at first is asked again, up to five times. *)
LEMMA SilenceIsAskedAgain ==
    ASSUME NEW vcp, NEW p \in Payloads, p # << >>, p[2] = 0, p[3] = vcp,
           NEW before \in Nat, NEW silent, Silent(Rx(silent))
    PROVE  AsksAgain(vcp, before, silent, p)
<1> DEFINE replies == [i \in 1 .. Retries |-> IF i <= before THEN silent ELSE Reply(p)]
           heard == {k \in 1 .. Retries : ~Silent(Rx(replies[k]))}
<1>1. Retries = 5
  BY DEF Retries
<1>2. Rx(Reply(p)).err = "none" /\ Rx(Reply(p)).buf = p /\ ~Silent(Rx(Reply(p)))
  <2>1. Rx(Reply(p)).err = "none" /\ Rx(Reply(p)).buf = p
    BY ReplyIsRead
  <2>2. "none" # "no reply"
    OBVIOUS
  <2>3. QED
    BY <2>1, <2>2 DEF Silent
<1>3. heard \in SUBSET (1 .. Retries) /\ \A k \in 1 .. Retries : k \in heard <=> ~(k <= before)
  BY <1>2
<1>4. \A k \in heard : replies[k] = Reply(p)
  BY <1>3
<1>5. Parse(vcp, p).err = "none"
  <2>1. Len(p) = 8 /\ p[1] = 2
    BY DEF Payloads
  <2>2. Parse(vcp, p) = [err |-> "none", val |-> 256 * p[7] + p[8], max |-> 256 * p[5] + p[6]]
    BY <2>1 DEF Parse
  <2>3. QED
    BY <2>2
<1>6. GetVCP(vcp, replies) = IF First(heard) = 0 THEN [err |-> "no reply"]
                             ELSE IF Rx(replies[First(heard)]).err # "none"
                                  THEN [err |-> Rx(replies[First(heard)]).err]
                                  ELSE Parse(vcp, Rx(replies[First(heard)]).buf)
  BY DEF GetVCP
<1>7. heard = {} <=> ~(before < Retries)
  <2> HIDE DEF heard
  <2>1. 5 \in heard <=> ~(5 <= before)
    BY <1>1, <1>3
  <2>2. heard # {} => \E k \in 1 .. 5 : ~(k <= before)
    BY <1>1, <1>3
  <2>3. QED
    BY <1>1, <2>1, <2>2
<1> DEFINE got == GetVCP(vcp, replies)
<1>8. got.err = "none" <=> before < Retries
  <2> HIDE DEF heard, replies
  <2>1. (First(heard) = 0 <=> heard = {}) /\ (heard # {} => First(heard) \in heard)
    <3>1. Retries \in Nat
      BY <1>1
    <3>2. QED
      BY <1>3, <3>1, FirstIsOne
  <2>2. CASE heard = {}
    <3>1. got = [err |-> "no reply"]
      BY <1>6, <2>1, <2>2
    <3>2. [err |-> "no reply"].err # "none"
      OBVIOUS
    <3>3. got.err # "none"
      BY <3>1, <3>2, Zenon
    <3>4. QED
      BY <1>7, <2>2, <3>3
  <2>3. CASE heard # {}
    <3>1. got = Parse(vcp, p)
      BY <1>2, <1>4, <1>6, <2>1, <2>3
    <3>2. QED
      BY <1>5, <1>7, <2>3, <3>1
  <2>4. QED
    BY <2>2, <2>3
<1>9. QED
  BY <1>8 DEF AsksAgain

-----------------------------------------------------------------------------
(* The id of a monitor: its vendor in three digits of five bits, and the bytes
   that follow in two digits each. *)
LEMMA DigitsOfVendor ==
    ASSUME NEW v \in Nat
    PROVE  \E q, a, b, c \in Nat :
              /\ a = (v \div 1024) % 32 /\ b = (v \div 32) % 32 /\ c = v % 32
              /\ a < 32 /\ b < 32 /\ c < 32
              /\ v = 32768 * q + 1024 * a + 32 * b + c /\ v % 32768 = 1024 * a + 32 * b + c
<1>1. PICK q1 \in Nat, c \in Nat : q1 = v \div 32 /\ c = v % 32 /\ v = 32 * q1 + c /\ c < 32
  OBVIOUS
<1>2. PICK q2 \in Nat, b \in Nat : q2 = q1 \div 32 /\ b = q1 % 32 /\ q1 = 32 * q2 + b /\ b < 32
  OBVIOUS
<1>3. PICK q3 \in Nat, a \in Nat : q3 = q2 \div 32 /\ a = q2 % 32 /\ q2 = 32 * q3 + a /\ a < 32
  OBVIOUS
<1>4. v \div 1024 = q2
  <2>1. v = 1024 * q2 + (32 * b + c) /\ 32 * b + c < 1024 /\ 0 <= 32 * b + c
    BY <1>1, <1>2
  <2>2. PICK m \in Nat : m = 32 * b + c
    BY <1>1, <1>2
  <2>3. v = 1024 * q2 + m /\ m < 1024
    BY <2>1, <2>2
  <2>4. QED
    BY <2>3
<1>5. PICK m \in Nat : m = 1024 * a + 32 * b + c
  BY <1>1, <1>2, <1>3
<1>6. v = 32768 * q3 + m /\ m < 32768
  BY <1>1, <1>2, <1>3, <1>5
<1>7. v % 32768 = m
  BY <1>6
<1>8. QED
  BY <1>1, <1>2, <1>3, <1>4, <1>5, <1>6, <1>7

(* Two vendors differ in one of the three digits of five bits. *)
LEMMA VendorIsItsDigits ==
    ASSUME NEW v \in Nat, NEW w \in Nat
    PROVE  v % 32768 = w % 32768
              <=> /\ (v \div 1024) % 32 = (w \div 1024) % 32
                  /\ (v \div 32) % 32 = (w \div 32) % 32 /\ v % 32 = w % 32
<1>1. PICK q, a, b, c \in Nat :
          /\ a = (v \div 1024) % 32 /\ b = (v \div 32) % 32 /\ c = v % 32
          /\ a < 32 /\ b < 32 /\ c < 32
          /\ v = 32768 * q + 1024 * a + 32 * b + c /\ v % 32768 = 1024 * a + 32 * b + c
  BY DigitsOfVendor
<1>2. PICK r, d, e, f \in Nat :
          /\ d = (w \div 1024) % 32 /\ e = (w \div 32) % 32 /\ f = w % 32
          /\ d < 32 /\ e < 32 /\ f < 32
          /\ w = 32768 * r + 1024 * d + 32 * e + f /\ w % 32768 = 1024 * d + 32 * e + f
  BY DigitsOfVendor
<1>3. 1024 * a + 32 * b + c = 1024 * d + 32 * e + f <=> a = d /\ b = e /\ c = f
  BY <1>1, <1>2
<1>4. QED
  BY <1>1, <1>2, <1>3

(* Two bytes differ in one of their two digits. *)
LEMMA ByteIsItsDigits ==
    ASSUME NEW a \in Bytes, NEW b \in Bytes
    PROVE  a = b <=> Nibble(a, 0) = Nibble(b, 0) /\ Nibble(a, 1) = Nibble(b, 1)
<1>1. a \in Nat /\ b \in Nat
  BY ByteIs
<1>2. PICK p \in Nat, q \in Nat : p = a \div 16 /\ q = a % 16 /\ a = 16 * p + q
  BY <1>1
<1>3. PICK r \in Nat, s \in Nat : r = b \div 16 /\ s = b % 16 /\ b = 16 * r + s
  BY <1>1
<1>4. QED
  BY <1>2, <1>3 DEF Nibble

-----------------------------------------------------------------------------
Letters(v) == <<64 + ((v \div 1024) % 32), 64 + ((v \div 32) % 32), 64 + (v % 32)>>
Codes(e) == [i \in 1 .. 12 |-> Nibble(e[11 + (i - 1) \div 2], (i - 1) % 2)]
Vendor(e) == 256 * e[9] + e[10]

(* The bytes of an EDID that the id is made of. *)
LEMMA EdidBytes ==
    ASSUME NEW e \in Seq(Bytes), Identified(e)
    PROVE  Vendor(e) \in Nat /\ \A i \in 9 .. 16 : e[i] \in Bytes /\ e[i] \in Nat
<1>1. \A i \in 9 .. 16 : e[i] \in Bytes
  BY DEF Identified
<1>2. \A i \in 9 .. 16 : e[i] \in Nat
  BY <1>1, ByteIs
<1>3. PICK a \in Nat, b \in Nat : a = e[9] /\ b = e[10]
  <2>1. 9 \in 9 .. 16 /\ 10 \in 9 .. 16
    OBVIOUS
  <2>2. QED
    BY <1>2, <2>1
<1>4. Vendor(e) = 256 * a + b
  BY <1>3 DEF Vendor
<1>5. QED
  BY <1>1, <1>2, <1>4

(* The letters tell vendors apart. *)
LEMMA SameLetters ==
    ASSUME NEW v \in Nat, NEW w \in Nat
    PROVE  Letters(v) = Letters(w) <=> v % 32768 = w % 32768
<1>1. PICK a, b, c \in Nat : a = (v \div 1024) % 32 /\ b = (v \div 32) % 32 /\ c = v % 32
  BY DigitsOfVendor
<1>2. PICK d, e, f \in Nat : d = (w \div 1024) % 32 /\ e = (w \div 32) % 32 /\ f = w % 32
  BY DigitsOfVendor
<1>3. Letters(v) = <<64 + a, 64 + b, 64 + c>> /\ Letters(w) = <<64 + d, 64 + e, 64 + f>>
  BY <1>1, <1>2 DEF Letters
<1>4. <<64 + a, 64 + b, 64 + c>> = <<64 + d, 64 + e, 64 + f>> <=> a = d /\ b = e /\ c = f
  OBVIOUS
<1>5. QED
  BY <1>1, <1>2, <1>3, <1>4, VendorIsItsDigits

(* The hex digits tell products and serial numbers apart. *)
LEMMA SameCodes ==
    ASSUME NEW e \in Seq(Bytes), Identified(e), NEW f \in Seq(Bytes), Identified(f)
    PROVE  Codes(e) = Codes(f) <=> \A i \in 11 .. 16 : e[i] = f[i]
<1>1. \A i \in 11 .. 16 : e[i] \in Bytes /\ f[i] \in Bytes
  BY EdidBytes, SMTT(60)
<1>2. ASSUME \A i \in 11 .. 16 : e[i] = f[i] PROVE Codes(e) = Codes(f)
  <2>1. ASSUME NEW i \in 1 .. 12
        PROVE  e[11 + (i - 1) \div 2] = f[11 + (i - 1) \div 2]
    <3>1. PICK h \in Nat : h = (i - 1) \div 2 /\ h <= 5
      OBVIOUS
    <3>2. 11 + h \in 11 .. 16
      BY <3>1
    <3>3. QED
      BY <1>2, <3>1, <3>2
  <2>2. QED
    BY <2>1 DEF Codes
<1>3. ASSUME Codes(e) = Codes(f), NEW j \in 11 .. 16 PROVE e[j] = f[j]
  <2>1. PICK k \in Nat : k = j - 11 /\ k <= 5
    OBVIOUS
  <2>2. 2 * k + 1 \in 1 .. 12 /\ 2 * k + 2 \in 1 .. 12
    BY <2>1
  <2>3. /\ (2 * k + 1 - 1) \div 2 = k /\ (2 * k + 1 - 1) % 2 = 0
        /\ (2 * k + 2 - 1) \div 2 = k /\ (2 * k + 2 - 1) % 2 = 1
    OBVIOUS
  <2>4. /\ Codes(e)[2 * k + 1] = Nibble(e[11 + k], 0) /\ Codes(e)[2 * k + 2] = Nibble(e[11 + k], 1)
        /\ Codes(f)[2 * k + 1] = Nibble(f[11 + k], 0) /\ Codes(f)[2 * k + 2] = Nibble(f[11 + k], 1)
    <3>1. ASSUME NEW g PROVE /\ Codes(g)[2 * k + 1] = Nibble(g[11 + k], 0)
                             /\ Codes(g)[2 * k + 2] = Nibble(g[11 + k], 1)
      BY <2>2, <2>3 DEF Codes
    <3>2. QED
      BY <3>1
  <2>5. 11 + k = j
    BY <2>1
  <2>6. QED
    BY <1>1, <1>3, <2>4, <2>5, ByteIsItsDigits
<1>4. QED
  BY <1>2, <1>3

(* The elements of two sequences that are joined. *)
LEMMA Elements ==
    ASSUME NEW a \in Seq(Nat), NEW c \in Seq(Nat)
    PROVE  /\ \A i \in 1 .. Len(a) : (a \o c)[i] = a[i]
           /\ \A i \in 1 .. Len(c) : (a \o c)[i + Len(a)] = c[i]
OBVIOUS

(* Sequences of the same lengths that are the same when joined are the same. *)
LEMMA JoinedApart ==
    ASSUME NEW a \in Seq(Nat), NEW b \in Seq(Nat), NEW c \in Seq(Nat), NEW d \in Seq(Nat),
           Len(a) = Len(b), Len(c) = Len(d), a \o c = b \o d
    PROVE  a = b /\ c = d
<1> DEFINE s == a \o c
<1>1. /\ \A i \in 1 .. Len(a) : s[i] = a[i]
      /\ \A i \in 1 .. Len(c) : s[i + Len(a)] = c[i]
  BY Elements
<1>2. /\ \A i \in 1 .. Len(b) : s[i] = b[i]
      /\ \A i \in 1 .. Len(d) : s[i + Len(b)] = d[i]
  <2> DEFINE t == b \o d
  <2>1. /\ \A i \in 1 .. Len(b) : t[i] = b[i]
        /\ \A i \in 1 .. Len(d) : t[i + Len(b)] = d[i]
    BY Elements
  <2>2. s = t
    OBVIOUS
  <2> HIDE DEF s, t
  <2>3. QED
    BY <2>1, <2>2
<1> HIDE DEF s
<1>3. a = b
  BY <1>1, <1>2, SameSequence
<1>4. c = d
  BY <1>1, <1>2, SameSequence
<1>5. QED
  BY <1>3, <1>4

(* Two monitors have the same id only if all that the id is made of is the same. *)
LEMMA SameId ==
    ASSUME NEW e \in Seq(Bytes), Identified(e), NEW f \in Seq(Bytes), Identified(f)
    PROVE  Id(e) = Id(f) <=> SameMonitor(e, f)
<1>1. Id(e) = Letters(Vendor(e)) \o Codes(e) /\ Id(f) = Letters(Vendor(f)) \o Codes(f)
  BY DEF Id, Letters, Vendor, Codes
<1>2. Vendor(e) \in Nat /\ Vendor(f) \in Nat
  BY EdidBytes
<1>4. \A v \in Nat : Letters(v) \in Seq(Nat) /\ Len(Letters(v)) = 3
  <2>1. TAKE v \in Nat
  <2>2. PICK a, b, c \in Nat : a = (v \div 1024) % 32 /\ b = (v \div 32) % 32 /\ c = v % 32
    BY DigitsOfVendor
  <2>3. Letters(v) = <<64 + a, 64 + b, 64 + c>>
    BY <2>2 DEF Letters
  <2>4. QED
    BY <2>3
<1>5. ASSUME NEW g \in Seq(Bytes), Identified(g) PROVE Codes(g) \in Seq(Nat) /\ Len(Codes(g)) = 12
  <2>1. ASSUME NEW i \in 1 .. 12 PROVE Nibble(g[11 + (i - 1) \div 2], (i - 1) % 2) \in Nat
    <3>1. PICK h \in Nat : h = (i - 1) \div 2 /\ h <= 5
      OBVIOUS
    <3>2. 11 + h \in 9 .. 16
      BY <3>1
    <3>3. PICK b \in Nat : b = g[11 + h]
      BY <1>5, <3>2, EdidBytes
    <3>4. b \div 16 \in Nat /\ b % 16 \in Nat
      OBVIOUS
    <3>5. QED
      BY <3>1, <3>3, <3>4 DEF Nibble
  <2>2. QED
    BY <2>1 DEF Codes
<1>6. /\ Letters(Vendor(e)) \in Seq(Nat) /\ Len(Letters(Vendor(e))) = 3
      /\ Letters(Vendor(f)) \in Seq(Nat) /\ Len(Letters(Vendor(f))) = 3
  BY <1>2, <1>4
<1>7. Codes(e) \in Seq(Nat) /\ Len(Codes(e)) = 12 /\ Codes(f) \in Seq(Nat) /\ Len(Codes(f)) = 12
  BY <1>5
<1>8. Id(e) = Id(f) <=> Letters(Vendor(e)) = Letters(Vendor(f)) /\ Codes(e) = Codes(f)
  <2> DEFINE a == Letters(Vendor(e))
             b == Letters(Vendor(f))
             c == Codes(e)
             d == Codes(f)
  <2>1. /\ a \in Seq(Nat) /\ b \in Seq(Nat) /\ c \in Seq(Nat) /\ d \in Seq(Nat)
        /\ Len(a) = Len(b) /\ Len(c) = Len(d)
    BY <1>6, <1>7
  <2>2. Id(e) = a \o c /\ Id(f) = b \o d
    BY <1>1
  <2> HIDE DEF a, b, c, d
  <2>3. a \o c = b \o d => a = b /\ c = d
    <3>1. SUFFICES ASSUME a \o c = b \o d PROVE a = b /\ c = d
      OBVIOUS
    <3>2. QED
      BY <2>1, <3>1, JoinedApart
  <2>4. Id(e) = Id(f) <=> a = b /\ c = d
    BY <2>2, <2>3
  <2>5. QED
    BY <2>4 DEF a, b, c, d
<1>9. SameMonitor(e, f) <=> Vendor(e) % 32768 = Vendor(f) % 32768 /\ \A i \in 11 .. 16 : e[i] = f[i]
  BY DEF SameMonitor, Vendor
<1>10. QED
  BY <1>2, <1>8, <1>9, SameLetters, SameCodes, SMTT(60)

(* The first card that is found is of the monitor that is meant, and no card
   that cannot be read comes before it (FindMonitor). *)
LEMMA MonitorIsFound ==
    ASSUME NEW cards \in Seq(Cards), NEW w \in Edids
    PROVE  FindsMonitor(cards, w)
<1> DEFINE n == Len(cards)
           is(c) == c.read = "ok" /\ Identified(c.edid) /\ SameMonitor(c.edid, w)
           ends == {k \in DOMAIN cards : \/ cards[k].read = "error"
                                         \/ /\ cards[k].read = "ok" /\ Identified(cards[k].edid)
                                            /\ Id(cards[k].edid) = Id(w)}
           until(m) == \A i \in 1 .. m : ~is(cards[i]) /\ cards[i].read # "error"
           i == First(ends)
           f == FindMonitor(cards, Id(w))
<1>1. w \in Seq(Bytes) /\ Identified(w) /\ n \in Nat /\ DOMAIN cards = 1 .. n
  BY DEF Edids
<1>2. \A k \in 1 .. n : cards[k].edid \in Seq(Bytes)
  <2>1. \A k \in 1 .. n : cards[k] \in Cards
    BY <1>1
  <2>2. \A c \in Cards : c.edid \in Seq(Bytes)
    BY DEF Cards
  <2>3. QED
    BY <2>1, <2>2
<1>3. \A k \in 1 .. n : k \in ends <=> cards[k].read = "error" \/ is(cards[k])
  BY <1>1, <1>2, SameId
<1>4. ends \in SUBSET (1 .. n)
  BY <1>1
<1>5. f = IF i = 0 THEN [err |-> FALSE, card |-> 0]
          ELSE [err |-> cards[i].read = "error", card |-> IF cards[i].read = "error" THEN 0 ELSE i]
  BY DEF FindMonitor
<1>6. FindsMonitor(cards, w) <=>
          \/ f.card \in DOMAIN cards /\ ~f.err /\ is(cards[f.card]) /\ until(f.card - 1)
          \/ f.card = 0 /\ f.err /\ \E j \in DOMAIN cards : cards[j].read = "error" /\ until(j - 1)
          \/ f.card = 0 /\ ~f.err /\ until(n)
  BY DEF FindsMonitor
<1> HIDE DEF ends
<1>7. (i = 0 <=> ends = {}) /\ (ends # {} => i \in ends /\ \A k \in ends : i <= k)
  BY <1>1, <1>4, FirstIsOne
<1>8. CASE ends = {}
  <2>1. f = [err |-> FALSE, card |-> 0]
    BY <1>5, <1>7, <1>8
  <2>2. until(n)
    BY <1>3, <1>8
  <2>3. QED
    BY <1>6, <2>1, <2>2
<1>9. CASE ends # {}
  <2>1. i \in 1 .. n /\ i # 0 /\ i \in ends
    BY <1>4, <1>7, <1>9
  <2>2. until(i - 1)
    BY <1>1, <1>3, <1>7, <1>9, <2>1
  <2>3. CASE cards[i].read = "error"
    <3>1. f = [err |-> TRUE, card |-> 0]
      BY <1>5, <2>1, <2>3
    <3>2. QED
      BY <1>1, <1>6, <2>1, <2>2, <2>3, <3>1
  <2>4. CASE cards[i].read # "error"
    <3>1. f = [err |-> FALSE, card |-> i]
      BY <1>5, <2>1, <2>4
    <3>2. is(cards[i])
      BY <1>3, <2>1, <2>4
    <3>3. QED
      BY <1>1, <1>6, <2>1, <2>2, <3>1, <3>2
  <2>5. QED
    BY <2>3, <2>4
<1>10. QED
  BY <1>8, <1>9

-----------------------------------------------------------------------------
(* The inputs of the questions about DDC. *)
LEMMA WireInputs ==
    /\ Inputs["reply"] \subseteq Corruptions /\ Inputs["silence"] \subseteq Silences
    /\ Inputs["search"] \subseteq Searches /\ Inputs["command"] \subseteq Commands
BY InputsAssumption

(* What comes over the wire of a monitor is taken only as it was sent: no reply
   of which a byte has changed is understood, nor one that is cut short unless
   what arrives has the parity of a whole one; silence is waited out, the card of
   the monitor that is meant is found, and a command arrives (ddc). *)
THEOREM WireIsAlwaysStrict == Spec => []WireIsStrict
<1>1. Asked => WireIsStrict
  <2>1. SUFFICES ASSUME Asked PROVE WireIsStrict
    OBVIOUS
  <2> DEFINE x == in.x
  <2>2. ASSUME in.q = "reply" PROVE RefusesCorruption(x.vcp, x.payload, x.at, x.as)
    <3>1. x \in Corruptions
      BY <2>1, <2>2, OfItsQuestion, WireInputs
    <3>2. x.payload \in Payloads /\ x.as \in Bytes
      BY <3>1 DEF Corruptions
    <3>3. QED
      BY <3>2, CorruptionIsRefused
  <2>3. ASSUME in.q = "silence" PROVE AsksAgain(x.vcp, x.before, x.silent, x.payload)
    <3>1. x \in Silences
      BY <2>1, <2>3, OfItsQuestion, WireInputs
    <3>2. /\ x.before \in Nat /\ x.payload \in Payloads /\ Silent(Rx(x.silent))
          /\ x.payload # << >> /\ x.payload[2] = 0 /\ x.payload[3] = x.vcp
      BY <3>1 DEF Silences
    <3>3. QED
      BY <3>2, SilenceIsAskedAgain
  <2>4. ASSUME in.q = "search" PROVE FindsMonitor(x.cards, x.wanted)
    <3>1. x \in Searches
      BY <2>1, <2>4, OfItsQuestion, WireInputs
    <3>2. x.cards \in Seq(Cards) /\ x.wanted \in Edids
      BY <3>1 DEF Searches
    <3>3. QED
      BY <3>2, MonitorIsFound
  <2>5. ASSUME in.q = "command" PROVE CommandArrives(x[1], x[2])
    <3>1. x \in Commands
      BY <2>1, <2>5, OfItsQuestion, WireInputs
    <3>2. x[1] \in Bytes /\ x[2] \in Values
      BY <3>1 DEF Commands
    <3>3. QED
      BY <3>2, CommandsArrive
  <2>6. QED
    BY <2>2, <2>3, <2>4, <2>5 DEF WireIsStrict
<1>2. QED
  BY <1>1, AlwaysAsked, PTL

-----------------------------------------------------------------------------
(* A loop over two slices one after the other. *)
LEMMA FoldJoined ==
    ASSUME NEW V, NEW E, NEW base \in V, NEW step \in Updates(V, E), NEW a \in Seq(E), NEW b \in Seq(E)
    PROVE  Fold(step, base, a \o b) = Fold(step, Fold(step, base, a), b)
<1> DEFINE P == {s \in Seq(E) : Fold(step, base, a \o s) = Fold(step, Fold(step, base, a), s)}
<1>1. << >> \in P
  <2>1. a \o << >> = a
    OBVIOUS
  <2>2. QED
    BY <2>1, FoldEmpty
<1>2. ASSUME NEW s \in Seq(E), NEW e \in E, s \in P PROVE Append(s, e) \in P
  <2>1. PICK t \in Seq(E) : t = a \o s
    <3>1. a \o s \in Seq(E)
      BY ConcatProperties
    <3>2. QED
      BY <3>1
  <2>2. a \o Append(s, e) = Append(t, e)
    <3>1. Append(s, e) = s \o <<e>> /\ Append(t, e) = t \o <<e>> /\ <<e>> \in Seq(E)
      BY AppendIsConcat
    <3>2. (a \o s) \o <<e>> = a \o (s \o <<e>>)
      BY <3>1, ConcatAssociative, SMTT(60)
    <3>3. QED
      BY <2>1, <3>1, <3>2
  <2>3. PICK v \in V : v = Fold(step, base, a)
    BY FoldAppend
  <2>4. Fold(step, base, Append(t, e)) = step[<<Fold(step, base, t), e>>]
    BY FoldAppend
  <2>5. Fold(step, v, Append(s, e)) = step[<<Fold(step, v, s), e>>]
    BY FoldAppend
  <2>6. Fold(step, base, t) = Fold(step, v, s)
    BY <1>2, <2>1, <2>3
  <2>7. Append(s, e) \in Seq(E)
    OBVIOUS
  <2>8. QED
    BY <2>2, <2>3, <2>4, <2>5, <2>6, <2>7
<1>3. P \subseteq Seq(E)
  OBVIOUS
<1> HIDE DEF P
<1>4. \A s \in Seq(E) : s \in P
  BY <1>1, <1>2, SequenceInduction
<1>5. QED
  BY <1>4 DEF P

-----------------------------------------------------------------------------
(* How i3bar reads the characters of a string, one by one. *)
Hexed(s, t, n, val) == [mode |-> "hex", s |-> s, n |-> n, val |-> val, rest |-> t]

(* What is read within a string. *)
LEMMA ReadText ==
    ASSUME NEW s, NEW t, NEW c \in Nat
    PROVE  /\ c >= 32 /\ c # Quote /\ c # Backslash =>
                 Read(Unread("text", s, t), c) = Unread("text", Append(s, c), t)
           /\ Read(Unread("text", s, t), Backslash) = Unread("escape", s, t)
           /\ Read(Unread("text", s, t), Quote) = Unread("end", s, t)
<1> DEFINE r == Unread("text", s, t)
<1>1. r = [mode |-> "text", s |-> s, n |-> 0, val |-> 0, rest |-> t]
  BY DEF Unread
<1>2. \A x : Read(r, x) = IF x = Quote THEN [r EXCEPT !.mode = "end"]
                          ELSE IF x = Backslash THEN [r EXCEPT !.mode = "escape"]
                          ELSE IF x < 32 THEN [r EXCEPT !.mode = "bad"] ELSE WithText(r, x)
  <2>1. r.mode = "text"
    BY <1>1
  <2> HIDE DEF r
  <2>2. QED
    BY <2>1 DEF Read
<1>3. WithText(r, c) = Unread("text", Append(s, c), t)
  BY DEF WithText, Unread
<1>4. [r EXCEPT !.mode = "escape"] = Unread("escape", s, t) /\ [r EXCEPT !.mode = "end"] = Unread("end", s, t)
  BY DEF Unread
<1> HIDE DEF r
<1>5. Quote = 34 /\ Backslash = 92
  BY DEF Quote, Backslash
<1>6. ASSUME c >= 32, c # Quote, c # Backslash PROVE Read(r, c) = Unread("text", Append(s, c), t)
  <2>1. ~(c < 32)
    BY <1>6
  <2>2. QED
    BY <1>2, <1>3, <1>6, <2>1
<1>7. Read(r, Backslash) = Unread("escape", s, t) /\ Read(r, Quote) = Unread("end", s, t)
  BY <1>2, <1>4, <1>5
<1>8. QED
  BY <1>6, <1>7 DEF r

(* What is read after a backslash. *)
LEMMA ReadEscape ==
    ASSUME NEW s, NEW t
    PROVE  /\ \A c \in {Quote, Backslash} : Read(Unread("escape", s, t), c) = Unread("text", Append(s, c), t)
           /\ Read(Unread("escape", s, t), 110) = Unread("text", Append(s, 10), t)
           /\ Read(Unread("escape", s, t), 114) = Unread("text", Append(s, 13), t)
           /\ Read(Unread("escape", s, t), 116) = Unread("text", Append(s, 9), t)
           /\ Read(Unread("escape", s, t), 117) = Hexed(s, t, 0, 0)
<1> DEFINE r == Unread("escape", s, t)
           to(c) == CASE c = 110 -> 10 [] c = 114 -> 13 [] c = 116 -> 9 [] OTHER -> c
<1>1. r = [mode |-> "escape", s |-> s, n |-> 0, val |-> 0, rest |-> t]
  BY DEF Unread
<1>2. \A x : Read(r, x) = IF x = 117 THEN [r EXCEPT !.mode = "hex"] ELSE WithText(r, to(x))
  <2>1. r.mode = "escape" /\ r.mode # "text"
    BY <1>1
  <2> HIDE DEF r
  <2>2. QED
    BY <2>1 DEF Read
<1>3. \A x : WithText(r, x) = Unread("text", Append(s, x), t)
  BY DEF WithText, Unread
<1>4. [r EXCEPT !.mode = "hex"] = Hexed(s, t, 0, 0)
  BY DEF Unread, Hexed
<1>5. to(34) = 34 /\ to(92) = 92 /\ to(110) = 10 /\ to(114) = 13 /\ to(116) = 9
  OBVIOUS
<1> HIDE DEF r, to
<1>6. /\ Read(r, 34) = Unread("text", Append(s, 34), t) /\ Read(r, 92) = Unread("text", Append(s, 92), t)
      /\ Read(r, 110) = Unread("text", Append(s, 10), t) /\ Read(r, 114) = Unread("text", Append(s, 13), t)
      /\ Read(r, 116) = Unread("text", Append(s, 9), t) /\ Read(r, 117) = Hexed(s, t, 0, 0)
  BY <1>2, <1>3, <1>4, <1>5
<1>7. QED
  BY <1>6 DEF r, Quote, Backslash

(* What is read of the digits of a character. *)
LEMMA ReadHex ==
    ASSUME NEW s, NEW t, NEW n \in 0 .. 3, NEW val, NEW c
    PROVE  Read(Hexed(s, t, n, val), c) =
               IF n = 3 THEN Unread("text", Append(s, 16 * val + Unhex(c)), t)
               ELSE Hexed(s, t, n + 1, 16 * val + Unhex(c))
<1> DEFINE r == Hexed(s, t, n, val)
           w == 16 * val + Unhex(c)
<1>1. r.mode = "hex" /\ r.mode # "text" /\ r.mode # "escape" /\ r.n = n /\ r.val = val
  BY DEF Hexed
<1>2. WithText(r, w) = Unread("text", Append(s, w), t)
  BY DEF WithText, Hexed
<1>3. [mode |-> "hex", s |-> r.s, n |-> n + 1, val |-> w, rest |-> r.rest] = Hexed(s, t, n + 1, w)
  BY DEF Hexed
<1> HIDE DEF r
<1>4. Read(r, c) = IF n = 3 THEN WithText(r, w)
                   ELSE [mode |-> "hex", s |-> r.s, n |-> n + 1, val |-> w, rest |-> r.rest]
  BY <1>1 DEF Read
<1>5. QED
  BY <1>2, <1>3, <1>4 DEF r

(* What is read after the closing quote. *)
LEMMA ReadEnd ==
    ASSUME NEW s, NEW t, NEW c
    PROVE  Read(Unread("end", s, t), c) = Unread("end", s, Append(t, c))
<1> DEFINE r == Unread("end", s, t)
<1>1. r.mode = "end" /\ r.mode # "text" /\ r.mode # "escape" /\ r.mode # "hex"
  BY DEF Unread
<1>2. [r EXCEPT !.rest = Append(@, c)] = Unread("end", s, Append(t, c))
  BY SMTT(60) DEF Unread
<1> HIDE DEF r
<1>3. Read(r, c) = [r EXCEPT !.rest = Append(@, c)]
  BY <1>1 DEF Read
<1>4. QED
  BY <1>2, <1>3 DEF r

(* What is read is a reading. *)
LEMMA ReadReads ==
    ASSUME NEW r \in Readings, NEW c \in Nat PROVE Read(r, c) \in Readings
<1>1. /\ r.mode \in {"text", "escape", "hex", "end", "bad"} /\ r.s \in Seq(Int) /\ r.n \in 0 .. 3
      /\ r.val \in Int /\ r.rest \in Seq(Nat)
  BY DEF Readings
<1>2. ASSUME NEW x \in Int PROVE WithText(r, x) \in Readings
  <2>1. Append(r.s, x) \in Seq(Int)
    BY <1>1
  <2>2. QED
    BY <1>1, <2>1 DEF WithText, Unread, Readings
<1>3. \A m \in {"text", "escape", "hex", "end", "bad"} : [r EXCEPT !.mode = m] \in Readings
  BY DEF Readings
<1>4. CASE r.mode = "text"
  BY <1>2, <1>3, <1>4 DEF Read
<1>5. CASE r.mode = "escape"
  <2>1. (CASE c = 110 -> 10 [] c = 114 -> 13 [] c = 116 -> 9 [] OTHER -> c) \in Int
    OBVIOUS
  <2>2. QED
    BY <1>2, <1>3, <1>5, <2>1 DEF Read
<1>6. CASE r.mode = "hex"
  <2>1. Unhex(c) \in Int
    BY DEF Unhex
  <2>2. PICK w \in Int : w = 16 * r.val + Unhex(c)
    BY <1>1, <2>1
  <2>3. r.n # 3 => r.n + 1 \in 0 .. 3
    BY <1>1
  <2>4. r.n # 3 => [mode |-> "hex", s |-> r.s, n |-> r.n + 1, val |-> w, rest |-> r.rest] \in Readings
    BY <1>1, <2>3 DEF Readings
  <2>5. Read(r, c) = IF r.n = 3 THEN WithText(r, w)
                     ELSE [mode |-> "hex", s |-> r.s, n |-> r.n + 1, val |-> w, rest |-> r.rest]
    BY <1>6, <2>2 DEF Read
  <2>6. QED
    BY <1>2, <2>4, <2>5
<1>7. CASE r.mode = "end"
  <2>1. Append(r.rest, c) \in Seq(Nat)
    BY <1>1
  <2>2. [r EXCEPT !.rest = Append(@, c)] \in Readings
    BY <2>1 DEF Readings
  <2>3. QED
    BY <1>7, <2>2 DEF Read
<1>8. CASE r.mode = "bad"
  BY <1>8 DEF Read
<1>9. QED
  BY <1>1, <1>4, <1>5, <1>6, <1>7, <1>8

-----------------------------------------------------------------------------
Run(r, s) == Fold([p \in Readings \X Nat |-> Read(p[1], p[2])], r, s)

(* Reading is a fold: of one character more one step more, of two sequences
   one after the other. *)
LEMMA RunOf ==
    ASSUME NEW r \in Readings
    PROVE  /\ Run(r, << >>) = r
           /\ \A s \in Seq(Nat), c \in Nat : Run(r, s) \in Readings /\ Run(r, Append(s, c)) = Read(Run(r, s), c)
           /\ \A a \in Seq(Nat), b \in Seq(Nat) : Run(r, a \o b) = Run(Run(r, a), b)
<1> DEFINE step == [p \in Readings \X Nat |-> Read(p[1], p[2])]
<1>1. \A v \in Readings, c \in Nat : Read(v, c) \in Readings /\ step[<<v, c>>] = Read(v, c)
  BY ReadReads
<1>2. step \in Updates(Readings, Nat)
  BY <1>1 DEF Updates
<1>3. \A v, t : Run(v, t) = Fold(step, v, t)
  BY DEF Run
<1> HIDE DEF step
<1>4. ASSUME NEW s \in Seq(Nat), NEW c \in Nat
      PROVE  Run(r, s) \in Readings /\ Run(r, Append(s, c)) = Read(Run(r, s), c)
  <2>1. Fold(step, r, s) \in Readings /\ Fold(step, r, Append(s, c)) = step[<<Fold(step, r, s), c>>]
    BY <1>2, FoldAppend
  <2>2. QED
    BY <1>1, <1>3, <2>1
<1>5. ASSUME NEW a \in Seq(Nat), NEW b \in Seq(Nat) PROVE Run(r, a \o b) = Run(Run(r, a), b)
  <2>1. Fold(step, r, a \o b) = Fold(step, Fold(step, r, a), b)
    BY <1>2, FoldJoined
  <2>2. QED
    BY <1>3, <2>1
<1>6. Run(r, << >>) = r
  BY <1>3, FoldEmpty
<1>7. QED
  BY <1>4, <1>5, <1>6

(* A few characters, one by one. *)
LEMMA Appended ==
    ASSUME NEW a \in Nat, NEW b \in Nat, NEW c \in Nat, NEW d \in Nat, NEW e \in Nat, NEW f \in Nat
    PROVE  /\ Append(<< >>, a) = <<a>>
           /\ Append(<<a>>, b) = <<a, b>>
           /\ Append(<<a, b>>, c) = <<a, b, c>>
           /\ Append(<<a, b, c>>, d) = <<a, b, c, d>>
           /\ Append(<<a, b, c, d>>, e) = <<a, b, c, d, e>>
           /\ Append(<<a, b, c, d, e>>, f) = <<a, b, c, d, e, f>>
<1>1. Append(<< >>, a) = <<a>>
  <2> DEFINE u == Append(<< >>, a)
             v == <<a>>
  <2>1. u \in Seq(Nat) /\ Len(u) = 1
    OBVIOUS
  <2>2. v \in Seq(Nat) /\ Len(v) = 1
    OBVIOUS
  <2>3. \A i \in 1 .. 1 : u[i] = v[i]
    OBVIOUS
  <2> HIDE DEF u, v
  <2>4. u = v
    BY <2>1, <2>2, <2>3, SameSequence
  <2>5. QED
    BY <2>4 DEF u, v
<1>2. Append(<<a>>, b) = <<a, b>>
  <2> DEFINE u == Append(<<a>>, b)
             v == <<a, b>>
  <2>1. u \in Seq(Nat) /\ Len(u) = 2
    OBVIOUS
  <2>2. v \in Seq(Nat) /\ Len(v) = 2
    OBVIOUS
  <2>3. \A i \in 1 .. 2 : u[i] = v[i]
    OBVIOUS
  <2> HIDE DEF u, v
  <2>4. u = v
    BY <2>1, <2>2, <2>3, SameSequence
  <2>5. QED
    BY <2>4 DEF u, v
<1>3. Append(<<a, b>>, c) = <<a, b, c>>
  <2> DEFINE u == Append(<<a, b>>, c)
             v == <<a, b, c>>
  <2>1. u \in Seq(Nat) /\ Len(u) = 3
    OBVIOUS
  <2>2. v \in Seq(Nat) /\ Len(v) = 3
    OBVIOUS
  <2>3. \A i \in 1 .. 3 : u[i] = v[i]
    OBVIOUS
  <2> HIDE DEF u, v
  <2>4. u = v
    BY <2>1, <2>2, <2>3, SameSequence
  <2>5. QED
    BY <2>4 DEF u, v
<1>4. Append(<<a, b, c>>, d) = <<a, b, c, d>>
  <2> DEFINE u == Append(<<a, b, c>>, d)
             v == <<a, b, c, d>>
  <2>1. u \in Seq(Nat) /\ Len(u) = 4
    OBVIOUS
  <2>2. v \in Seq(Nat) /\ Len(v) = 4
    OBVIOUS
  <2>3. \A i \in 1 .. 4 : u[i] = v[i]
    OBVIOUS
  <2> HIDE DEF u, v
  <2>4. u = v
    BY <2>1, <2>2, <2>3, SameSequence
  <2>5. QED
    BY <2>4 DEF u, v
<1>5. Append(<<a, b, c, d>>, e) = <<a, b, c, d, e>>
  <2> DEFINE u == Append(<<a, b, c, d>>, e)
             v == <<a, b, c, d, e>>
  <2>1. u \in Seq(Nat) /\ Len(u) = 5
    OBVIOUS
  <2>2. v \in Seq(Nat) /\ Len(v) = 5
    OBVIOUS
  <2>3. \A i \in 1 .. 5 : u[i] = v[i]
    OBVIOUS
  <2> HIDE DEF u, v
  <2>4. u = v
    BY <2>1, <2>2, <2>3, SameSequence
  <2>5. QED
    BY <2>4 DEF u, v
<1>6. Append(<<a, b, c, d, e>>, f) = <<a, b, c, d, e, f>>
  <2> DEFINE u == Append(<<a, b, c, d, e>>, f)
             v == <<a, b, c, d, e, f>>
  <2>1. u \in Seq(Nat) /\ Len(u) = 6
    OBVIOUS
  <2>2. v \in Seq(Nat) /\ Len(v) = 6
    OBVIOUS
  <2>3. \A i \in 1 .. 6 : u[i] = v[i]
    OBVIOUS
  <2> HIDE DEF u, v
  <2>4. u = v
    BY <2>1, <2>2, <2>3, SameSequence
  <2>5. QED
    BY <2>4 DEF u, v
<1>7. QED
  BY <1>1, <1>2, <1>3, <1>4, <1>5, <1>6

(* Reading one character more. *)
LEMMA RunNext ==
    ASSUME NEW r \in Readings, NEW s \in Seq(Nat), NEW c \in Nat, NEW t, t = Append(s, c)
    PROVE  t \in Seq(Nat) /\ Run(r, t) = Read(Run(r, s), c)
<1>1. Append(s, c) \in Seq(Nat)
  OBVIOUS
<1>2. Run(r, Append(s, c)) = Read(Run(r, s), c)
  BY RunOf
<1>3. QED
  BY <1>1, <1>2

(* Reading one character, and two. *)
LEMMA RunTwo ==
    ASSUME NEW r \in Readings, NEW a \in Nat, NEW b \in Nat
    PROVE  Run(r, <<a>>) = Read(r, a) /\ Run(r, <<a, b>>) = Read(Read(r, a), b)
<1>1. PICK s0, s1, s2 : s0 = << >> /\ s1 = <<a>> /\ s2 = <<a, b>>
  OBVIOUS
<1>2. s1 = Append(s0, a) /\ s2 = Append(s1, b)
  BY <1>1, Appended
<1>3. s0 \in Seq(Nat) /\ Run(r, s0) = r
  <2>1. << >> \in Seq(Nat)
    OBVIOUS
  <2>2. QED
    BY <1>1, <2>1, RunOf
<1>4. s1 \in Seq(Nat) /\ Run(r, s1) = Read(r, a)
  <2>1. s1 = Append(s0, a) /\ s0 \in Seq(Nat)
    BY <1>2, <1>3
  <2>2. s1 \in Seq(Nat) /\ Run(r, s1) = Read(Run(r, s0), a)
    BY <2>1, RunNext, Zenon
  <2>3. QED
    BY <1>3, <2>2
<1>5. s2 \in Seq(Nat) /\ Run(r, s2) = Read(Read(r, a), b)
  <2>1. s2 = Append(s1, b) /\ s1 \in Seq(Nat)
    BY <1>2, <1>4
  <2>2. s2 \in Seq(Nat) /\ Run(r, s2) = Read(Run(r, s1), b)
    BY <2>1, RunNext, Zenon
  <2>3. QED
    BY <1>4, <2>2
<1>6. QED
  BY <1>1, <1>4, <1>5

HexEscape(e, f) == <<Backslash, 117, 48, 48, e, f>>
ReadHexEscape(r, e, f) == Read(Read(Read(Read(Read(Read(r, Backslash), 117), 48), 48), e), f)

(* Reading the six characters of an escape by digits. *)
LEMMA RunSix ==
    ASSUME NEW r \in Readings, NEW e \in Nat, NEW f \in Nat
    PROVE  Run(r, HexEscape(e, f)) = ReadHexEscape(r, e, f)
<1>0. PICK a \in Nat, b \in Nat, c \in Nat, d \in Nat : a = Backslash /\ b = 117 /\ c = 48 /\ d = 48
  BY DEF Backslash
<1>1. PICK s0, s1, s2, s3, s4, s5, s6 :
          /\ s0 = << >> /\ s1 = <<a>> /\ s2 = <<a, b>> /\ s3 = <<a, b, c>> /\ s4 = <<a, b, c, d>>
          /\ s5 = <<a, b, c, d, e>> /\ s6 = <<a, b, c, d, e, f>>
  OBVIOUS
<1>2. /\ s1 = Append(s0, a) /\ s2 = Append(s1, b) /\ s3 = Append(s2, c) /\ s4 = Append(s3, d)
      /\ s5 = Append(s4, e) /\ s6 = Append(s5, f)
  BY <1>1, Appended, SMTT(60)
<1>3. s0 \in Seq(Nat) /\ Run(r, s0) = r
  <2>1. << >> \in Seq(Nat)
    OBVIOUS
  <2>2. QED
    BY <1>1, <2>1, RunOf
<1>4. s1 \in Seq(Nat) /\ Run(r, s1) = Read(r, a)
  <2>1. s1 = Append(s0, a) /\ s0 \in Seq(Nat)
    BY <1>2, <1>3
  <2>2. s1 \in Seq(Nat) /\ Run(r, s1) = Read(Run(r, s0), a)
    BY <2>1, RunNext, ZenonT(60)
  <2>3. QED
    BY <1>3, <2>2
<1>5. s2 \in Seq(Nat) /\ Run(r, s2) = Read(Read(r, a), b)
  <2>1. s2 = Append(s1, b) /\ s1 \in Seq(Nat)
    BY <1>2, <1>4
  <2>2. s2 \in Seq(Nat) /\ Run(r, s2) = Read(Run(r, s1), b)
    BY <2>1, RunNext, ZenonT(60)
  <2>3. QED
    BY <1>4, <2>2
<1>6. s3 \in Seq(Nat) /\ Run(r, s3) = Read(Read(Read(r, a), b), c)
  <2>1. s3 = Append(s2, c) /\ s2 \in Seq(Nat)
    BY <1>2, <1>5
  <2>2. s3 \in Seq(Nat) /\ Run(r, s3) = Read(Run(r, s2), c)
    BY <2>1, RunNext, ZenonT(60)
  <2>3. QED
    BY <1>5, <2>2
<1>7. s4 \in Seq(Nat) /\ Run(r, s4) = Read(Read(Read(Read(r, a), b), c), d)
  <2>1. s4 = Append(s3, d) /\ s3 \in Seq(Nat)
    BY <1>2, <1>6
  <2>2. s4 \in Seq(Nat) /\ Run(r, s4) = Read(Run(r, s3), d)
    BY <2>1, RunNext, ZenonT(60)
  <2>3. QED
    BY <1>6, <2>2
<1>8. s5 \in Seq(Nat) /\ Run(r, s5) = Read(Read(Read(Read(Read(r, a), b), c), d), e)
  <2>1. s5 = Append(s4, e) /\ s4 \in Seq(Nat)
    BY <1>2, <1>7
  <2>2. s5 \in Seq(Nat) /\ Run(r, s5) = Read(Run(r, s4), e)
    BY <2>1, RunNext, ZenonT(60)
  <2>3. QED
    BY <1>7, <2>2
<1>9. s6 \in Seq(Nat) /\ Run(r, s6) = Read(Read(Read(Read(Read(Read(r, a), b), c), d), e), f)
  <2>1. s6 = Append(s5, f) /\ s5 \in Seq(Nat)
    BY <1>2, <1>8
  <2>2. s6 \in Seq(Nat) /\ Run(r, s6) = Read(Run(r, s5), f)
    BY <2>1, RunNext, ZenonT(60)
  <2>3. QED
    BY <1>8, <2>2
<1>10. QED
  BY <1>0, <1>1, <1>9 DEF HexEscape, ReadHexEscape

(* A character is read as it was before it was escaped. *)
LEMMA HexIsRead ==
    ASSUME NEW d \in 0 .. 15 PROVE Hex(d) \in Nat /\ Unhex(Hex(d)) = d
BY DEF Hex, Unhex

(* What is written of a character is a string. *)
LEMMA CharIsEscaped ==
    ASSUME NEW c \in Nat PROVE EscapedChar(c) \in Seq(Nat)
<1>1. c < 32 => Hex(c \div 16) \in Nat /\ Hex(c % 16) \in Nat
  <2>1. c < 32 => c \div 16 \in 0 .. 15 /\ c % 16 \in 0 .. 15
    OBVIOUS
  <2>2. QED
    BY <2>1, HexIsRead
<1>2. CASE c \in {Quote, Backslash}
  BY <1>2 DEF EscapedChar, Quote, Backslash
<1>3. CASE c = 10 \/ c = 13 \/ c = 9
  BY <1>3 DEF EscapedChar, Backslash, Quote
<1>4. CASE c \notin {Quote, Backslash} /\ c # 10 /\ c # 13 /\ c # 9
  BY <1>1, <1>4 DEF EscapedChar, Backslash
<1>5. QED
  BY <1>2, <1>3, <1>4

(* What is written of a character is read as that character. *)
LEMMA CharSurvives ==
    ASSUME NEW s \in Seq(Int), NEW c \in Nat
    PROVE  Run(Unread("text", s, << >>), EscapedChar(c)) = Unread("text", Append(s, c), << >>)
<1> DEFINE r == Unread("text", s, << >>)
<1>1. r \in Readings
  BY DEF Unread, Readings
<1>2. \A x \in Nat : Read(r, Backslash) = Unread("escape", s, << >>) /\ Run(r, <<Backslash, x>>) = Read(Unread("escape", s, << >>), x)
  <2>1. Backslash \in Nat
    BY DEF Backslash
  <2>2. Read(r, Backslash) = Unread("escape", s, << >>)
    BY ReadText, Zenon
  <2> HIDE DEF r
  <2>3. \A x \in Nat : Run(r, <<Backslash, x>>) = Read(Read(r, Backslash), x)
    BY <1>1, <2>1, RunTwo, Zenon
  <2>4. QED
    BY <2>2, <2>3, Zenon
<1> HIDE DEF r
<1>3. CASE c \in {Quote, Backslash}
  <2>1. c # 10 /\ c # 13 /\ c # 9 /\ ~(c < 32)
    BY <1>3 DEF Quote, Backslash
  <2>2. EscapedChar(c) = <<Backslash, c>>
    BY <1>3, <2>1 DEF EscapedChar
  <2>3. QED
    BY <1>2, <1>3, <2>2, ReadEscape DEF r
<1>4. CASE c = 10
  <2>1. EscapedChar(c) = <<Backslash, 110>>
    BY <1>4 DEF EscapedChar, Quote, Backslash
  <2>2. QED
    BY <1>2, <1>4, <2>1, ReadEscape DEF r
<1>5. CASE c = 13
  <2>1. EscapedChar(c) = <<Backslash, 114>>
    BY <1>5 DEF EscapedChar, Quote, Backslash
  <2>2. QED
    BY <1>2, <1>5, <2>1, ReadEscape DEF r
<1>6. CASE c = 9
  <2>1. EscapedChar(c) = <<Backslash, 116>>
    BY <1>6 DEF EscapedChar, Quote, Backslash
  <2>2. QED
    BY <1>2, <1>6, <2>1, ReadEscape DEF r
<1>7. CASE c < 32 /\ c # 10 /\ c # 13 /\ c # 9
  <2>1. PICK h \in Nat, l \in Nat : h = c \div 16 /\ l = c % 16 /\ c = 16 * h + l /\ h \in 0 .. 15 /\ l \in 0 .. 15
    BY <1>7
  <2>2. EscapedChar(c) = <<Backslash, 117, 48, 48, Hex(h), Hex(l)>>
    BY <1>7, <2>1 DEF EscapedChar, Quote, Backslash
  <2>3. Hex(h) \in Nat /\ Hex(l) \in Nat /\ Unhex(Hex(h)) = h /\ Unhex(Hex(l)) = l /\ Unhex(48) = 0
    <3>1. Unhex(48) = 0
      BY DEF Unhex
    <3>2. QED
      BY <2>1, <3>1, HexIsRead
  <2>4. Run(r, EscapedChar(c)) = Read(Read(Read(Read(Read(Read(r, Backslash), 117), 48), 48), Hex(h)), Hex(l))
    <3>1. PICK x \in Nat, y \in Nat : x = Hex(h) /\ y = Hex(l)
      BY <2>3
    <3>2. Run(r, HexEscape(x, y)) = ReadHexEscape(r, x, y)
      BY <1>1, RunSix, Zenon
    <3>3. QED
      BY <2>2, <3>1, <3>2 DEF HexEscape, ReadHexEscape
  <2>5. Read(Read(r, Backslash), 117) = Hexed(s, << >>, 0, 0)
    <3>1. Read(r, Backslash) = Unread("escape", s, << >>)
      BY <1>2
    <3>2. Read(Unread("escape", s, << >>), 117) = Hexed(s, << >>, 0, 0)
      BY ReadEscape, Zenon
    <3>3. QED
      BY <3>1, <3>2
  <2>6. Read(Hexed(s, << >>, 0, 0), 48) = Hexed(s, << >>, 1, 0)
    BY <2>3, ReadHex
  <2>7. Read(Hexed(s, << >>, 1, 0), 48) = Hexed(s, << >>, 2, 0)
    BY <2>3, ReadHex, SMTT(60)
  <2>8. Read(Hexed(s, << >>, 2, 0), Hex(h)) = Hexed(s, << >>, 3, h)
    BY <2>1, <2>3, ReadHex, SMTT(60)
  <2>9. Read(Hexed(s, << >>, 3, h), Hex(l)) = Unread("text", Append(s, c), << >>)
    <3>1. 3 \in 0 .. 3 /\ 16 * h + Unhex(Hex(l)) = c
      BY <2>1, <2>3
    <3>2. Read(Hexed(s, << >>, 3, h), Hex(l)) = Unread("text", Append(s, 16 * h + Unhex(Hex(l))), << >>)
      BY <3>1, ReadHex
    <3>3. QED
      BY <3>1, <3>2
  <2>10. QED
    BY <2>4, <2>5, <2>6, <2>7, <2>8, <2>9 DEF r
<1>8. CASE c >= 32 /\ c \notin {Quote, Backslash}
  <2>1. EscapedChar(c) = <<c>>
    BY <1>8, SMTT(60) DEF EscapedChar
  <2>2. QED
    <3>1. Run(r, <<c>>) = Read(r, c)
      BY <1>1, RunTwo, Zenon
    <3>2. Read(Unread("text", s, << >>), c) = Unread("text", Append(s, c), << >>)
      <4>1. c # Quote /\ c # Backslash
        BY <1>8
      <4>2. QED
        BY <1>8, <4>1, ReadText, Zenon
    <3>3. QED
      BY <2>1, <3>1, <3>2 DEF r
<1>9. QED
  BY <1>3, <1>4, <1>5, <1>6, <1>7, <1>8

-----------------------------------------------------------------------------
(* Escaping is a fold: of one character more, what is written of it more. *)
LEMMA EscapedOf ==
    ASSUME NEW s \in Seq(Nat), NEW c \in Nat
    PROVE  /\ Escaped(<< >>) = << >> /\ Escaped(s) \in Seq(Nat)
           /\ Escaped(Append(s, c)) = Escaped(s) \o EscapedChar(c)
<1> DEFINE step == [p \in Seq(Nat) \X Nat |-> p[1] \o EscapedChar(p[2])]
<1>1. \A v \in Seq(Nat), x \in Nat : v \o EscapedChar(x) \in Seq(Nat) /\ step[<<v, x>>] = v \o EscapedChar(x)
  <2>1. TAKE v \in Seq(Nat), x \in Nat
  <2>2. PICK w \in Seq(Nat) : w = EscapedChar(x)
    BY CharIsEscaped
  <2>3. v \o w \in Seq(Nat)
    BY ConcatProperties
  <2>4. step[<<v, x>>] = v \o EscapedChar(x)
    OBVIOUS
  <2> HIDE DEF step
  <2>5. QED
    BY <2>2, <2>3, <2>4
<1>2. step \in Updates(Seq(Nat), Nat) /\ << >> \in Seq(Nat)
  <2>1. step \in Updates(Seq(Nat), Nat)
    <3> DEFINE V == Seq(Nat)
    <3>1. \A x \in V \X Nat : x[1] \o EscapedChar(x[2]) \in V
      BY <1>1
    <3> HIDE DEF V
    <3>2. [p \in V \X Nat |-> p[1] \o EscapedChar(p[2])] \in [V \X Nat -> V]
      BY <3>1
    <3>3. QED
      BY <3>2 DEF Updates, V
  <2>2. << >> \in Seq(Nat)
    OBVIOUS
  <2>3. QED
    BY <2>1, <2>2
<1>3. \A t : Escaped(t) = Fold(step, << >>, t)
  BY DEF Escaped
<1> HIDE DEF step
<1>4. /\ Fold(step, << >>, s) \in Seq(Nat)
      /\ Fold(step, << >>, Append(s, c)) = step[<<Fold(step, << >>, s), c>>]
  <2>1. PICK V, b : V = Seq(Nat) /\ b = << >>
    OBVIOUS
  <2>2. b \in V /\ step \in Updates(V, Nat)
    BY <1>2, <2>1
  <2>3. Fold(step, b, s) \in V /\ Fold(step, b, Append(s, c)) = step[<<Fold(step, b, s), c>>]
    BY <2>2, FoldAppend
  <2>4. QED
    BY <2>1, <2>3
<1>5. Fold(step, << >>, << >>) = << >>
  BY FoldEmpty
<1>6. QED
  BY <1>1, <1>3, <1>4, <1>5

(* What is escaped is read back as text. *)
LEMMA EscapedIsRead ==
    ASSUME NEW s \in Seq(Nat)
    PROVE  Escaped(s) \in Seq(Nat) /\ Run(Unread("text", << >>, << >>), Escaped(s)) = Unread("text", s, << >>)
<1> DEFINE start == Unread("text", << >>, << >>)
           P == {t \in Seq(Nat) : Run(start, Escaped(t)) = Unread("text", t, << >>)}
<1>1. \A t \in Seq(Nat) : Unread("text", t, << >>) \in Readings /\ Escaped(t) \in Seq(Nat) /\ t \in Seq(Int)
  <2>1. TAKE t \in Seq(Nat)
  <2>2. t \in Seq(Int)
    OBVIOUS
  <2>3. Escaped(t) \in Seq(Nat)
    <3>1. 0 \in Nat
      OBVIOUS
    <3>2. QED
      BY <3>1, EscapedOf, Zenon
  <2>4. QED
    BY <2>2, <2>3 DEF Unread, Readings
<1>2. start \in Readings
  <2>1. << >> \in Seq(Nat)
    OBVIOUS
  <2>2. QED
    BY <1>1, <2>1
<1> HIDE DEF start
<1>3. << >> \in P
  <2>1. << >> \in Seq(Nat) /\ 0 \in Nat
    OBVIOUS
  <2>2. Escaped(<< >>) = << >>
    BY <2>1, EscapedOf, Zenon
  <2>3. Run(start, << >>) = start
    BY <1>2, RunOf
  <2>4. QED
    BY <2>1, <2>2, <2>3 DEF start
<1>4. ASSUME NEW t \in Seq(Nat), NEW c \in Nat, t \in P PROVE Append(t, c) \in P
  <2>1. PICK e \in Seq(Nat) : e = Escaped(t)
    BY <1>1
  <2>2. PICK w \in Seq(Nat) : w = EscapedChar(c)
    BY CharIsEscaped
  <2>3. Escaped(Append(t, c)) = e \o w
    BY <2>1, <2>2, EscapedOf
  <2>4. Run(start, e \o w) = Run(Run(start, e), w)
    BY <1>2, RunOf
  <2>5. Run(start, e) = Unread("text", t, << >>)
    BY <1>4, <2>1
  <2>6. Run(Unread("text", t, << >>), w) = Unread("text", Append(t, c), << >>)
    BY <1>1, <2>2, CharSurvives
  <2>7. Append(t, c) \in Seq(Nat)
    OBVIOUS
  <2>8. QED
    BY <2>3, <2>4, <2>5, <2>6, <2>7
<1> HIDE DEF P
<1>5. \A t \in Seq(Nat) : t \in P
  BY <1>3, <1>4, SequenceInduction
<1>6. QED
  BY <1>1, <1>5 DEF P, start

(* What comes after the closing quote is left as it is. *)
LEMMA RestIsLeft ==
    ASSUME NEW s \in Seq(Nat), NEW after \in Seq(Nat)
    PROVE  Run(Unread("end", s, << >>), after) = Unread("end", s, after)
<1> DEFINE end == Unread("end", s, << >>)
           P == {t \in Seq(Nat) : Run(end, t) = Unread("end", s, t)}
<1>1. end \in Readings
  <2>1. s \in Seq(Int) /\ << >> \in Seq(Nat)
    OBVIOUS
  <2>2. QED
    BY <2>1 DEF Unread, Readings
<1> HIDE DEF end
<1>2. << >> \in P
  <2>1. Run(end, << >>) = end
    BY <1>1, RunOf
  <2>2. QED
    BY <2>1 DEF end
<1>3. ASSUME NEW t \in Seq(Nat), NEW c \in Nat, t \in P PROVE Append(t, c) \in P
  <2>1. Run(end, Append(t, c)) = Read(Run(end, t), c)
    BY <1>1, RunOf
  <2>2. Run(end, t) = Unread("end", s, t)
    BY <1>3
  <2>3. Read(Unread("end", s, t), c) = Unread("end", s, Append(t, c))
    BY ReadEnd
  <2>4. Append(t, c) \in Seq(Nat)
    OBVIOUS
  <2>5. QED
    BY <2>1, <2>2, <2>3, <2>4
<1> HIDE DEF P
<1>4. \A t \in Seq(Nat) : t \in P
  BY <1>2, <1>3, SequenceInduction
<1>5. QED
  BY <1>4 DEF P, end

(* Strings are joined in any grouping. *)
LEMMA Associative ==
    ASSUME NEW a \in Seq(Nat), NEW b \in Seq(Nat), NEW c \in Seq(Nat)
    PROVE  (a \o b) \o c = a \o (b \o c)
BY ConcatAssociative, SMTT(60)

(* The first character and the rest. *)
LEMMA HeadAndTail ==
    ASSUME NEW q \in Nat, NEW t \in Seq(Nat)
    PROVE  <<q>> \o t \in Seq(Nat) /\ Head(<<q>> \o t) = q /\ Tail(<<q>> \o t) = t
<1>1. <<q>> \o t \in Seq(Nat) /\ Len(<<q>> \o t) = Len(t) + 1 /\ Head(<<q>> \o t) = q
  OBVIOUS
<1>2. PICK u \in Seq(Nat) : u = <<q>> \o t
  BY <1>1
<1>3. u # << >> /\ \A i \in 1 .. Len(t) : u[i + 1] = t[i]
  BY <1>1, <1>2
<1>4. Tail(u) \in Seq(Nat) /\ Len(Tail(u)) = Len(t) /\ \A i \in 1 .. Len(Tail(u)) : Tail(u)[i] = u[i + 1]
  BY <1>1, <1>2, <1>3, HeadTailProperties
<1>5. Tail(u) = t
  BY <1>3, <1>4, SameSequence
<1>6. QED
  BY <1>1, <1>2, <1>5

(* A string comes back whatever it is made of and whatever follows it (jsonString). *)
THEOREM StringsAlwaysSurvive ==
    ASSUME NEW s \in Seq(Nat), NEW after \in Seq(Nat) PROVE StringSurvives(s, after)
<1>1. PICK e \in Seq(Nat) : e = Escaped(s)
  BY EscapedIsRead
<1>2. PICK q \in Seq(Nat) : q = <<Quote>>
  <2>1. Quote \in Nat
    BY DEF Quote
  <2>2. <<Quote>> \in Seq(Nat)
    BY <2>1
  <2>3. QED
    BY <2>2
<1>3. JsonString(s) = (q \o e) \o q
  BY <1>1, <1>2 DEF JsonString
<1>4. PICK a \in Seq(Nat) : a = e \o q
  <2>1. e \o q \in Seq(Nat)
    BY ConcatProperties
  <2>2. QED
    BY <2>1
<1>5. PICK b \in Seq(Nat) : b = a \o after
  <2>1. a \o after \in Seq(Nat)
    BY ConcatProperties
  <2>2. QED
    BY <2>1
<1>6. JsonString(s) = q \o a
  <2>1. (q \o e) \o q = q \o (e \o q)
    BY Associative, ZenonT(60)
  <2>2. QED
    BY <1>3, <1>4, <2>1
<1>7. JsonString(s) \o after = q \o b
  <2>1. (q \o a) \o after = q \o (a \o after)
    BY Associative, ZenonT(60)
  <2>2. QED
    BY <1>5, <1>6, <2>1
<1>8. Head(JsonString(s)) = Quote /\ Tail(JsonString(s) \o after) = b
  <2>1. Quote \in Nat
    BY DEF Quote
  <2>2. Head(<<Quote>> \o a) = Quote
    BY <2>1, HeadAndTail
  <2>3. Tail(<<Quote>> \o b) = b
    BY <2>1, HeadAndTail
  <2>4. QED
    BY <1>2, <1>6, <1>7, <2>2, <2>3
<1> DEFINE start == Unread("text", << >>, << >>)
           text == Unread("text", s, << >>)
           end == Unread("end", s, << >>)
<1>9. start \in Readings /\ text \in Readings /\ end \in Readings
  <2>1. s \in Seq(Int) /\ << >> \in Seq(Int) /\ << >> \in Seq(Nat)
    OBVIOUS
  <2>2. QED
    BY <2>1 DEF Unread, Readings
<1>10. Run(start, e) = text
  BY <1>1, EscapedIsRead
<1>11. Run(text, q) = end
  <2>1. Quote \in Nat
    BY DEF Quote
  <2>2. Run(text, <<Quote>>) = Read(text, Quote)
    BY <1>9, <2>1, RunTwo
  <2>3. Read(text, Quote) = end
    BY <2>1, ReadText
  <2>4. QED
    BY <1>2, <2>2, <2>3
<1>12. Run(end, after) = Unread("end", s, after)
  BY RestIsLeft
<1> HIDE DEF start, text, end
<1>13. Run(start, a) = end
  BY <1>4, <1>9, <1>10, <1>11, RunOf
<1>14. Run(start, b) = Unread("end", s, after)
  BY <1>5, <1>9, <1>12, <1>13, RunOf
<1>15. Unquoted(b) = Run(start, b)
  BY DEF Unquoted, Run, start
<1>16. QED
  BY <1>8, <1>14, <1>15 DEF StringSurvives

-----------------------------------------------------------------------------
(* Keys and values one after the other, and what is read of a key. *)
IsList(p) == \E S : p \in Seq(S)

LastAt(p, k, m) == m \in DOMAIN p /\ p[m].key = k /\ \A j \in m + 1 .. Len(p) : p[j].key # k
Holds(p, k, v) == \E i \in DOMAIN p : p[i].key = k /\ p[i].val = v

(* The positions of a list of keys. *)
LEMMA ListHas ==
    ASSUME NEW p, IsList(p) PROVE Len(p) \in Nat /\ DOMAIN p = 1 .. Len(p)
<1>1. PICK S : p \in Seq(S)
  BY DEF IsList
<1>2. QED
  BY <1>1

(* A key that is there is there a last time. *)
LEMMA HasLast ==
    ASSUME NEW p, IsList(p), NEW k, Has(p, k) PROVE \E m : LastAt(p, k, m)
<1>1. PICK n \in Nat : n = Len(p) /\ DOMAIN p = 1 .. n
  BY ListHas
<1> DEFINE T == {x \in 0 .. n : n - x \in 1 .. n /\ p[n - x].key = k}
<1>2. T # {} /\ T \in SUBSET Nat
  <2>1. PICK i \in 1 .. n : p[i].key = k
    BY <1>1 DEF Has
  <2>2. PICK x \in 0 .. n : n - x = i
    <3>1. n - i \in 0 .. n /\ n - (n - i) = i
      OBVIOUS
    <3>2. QED
      BY <3>1
  <2>3. x \in T
    BY <2>1, <2>2
  <2>4. T \in SUBSET Nat
    OBVIOUS
  <2> HIDE DEF T
  <2>5. QED
    BY <2>3, <2>4
<1>3. PICK x \in T : \A y \in T : x <= y
  BY <1>2, LeastOf
<1>4. PICK m \in 1 .. n : m = n - x /\ p[m].key = k /\ x \in 0 .. n
  BY <1>3
<1>5. ASSUME NEW j \in m + 1 .. n PROVE p[j].key # k
  <2>1. n - j \in 0 .. n /\ n - (n - j) = j /\ j \in 1 .. n /\ n - j < x
    BY <1>4
  <2>2. n - j \notin T
    BY <1>3, <1>4, <2>1
  <2>3. QED
    BY <2>1, <2>2
<1>6. LastAt(p, k, m)
  BY <1>1, <1>4, <1>5 DEF LastAt
<1>7. QED
  BY <1>6

(* Of a key the last value is read. *)
LEMMA AtLast ==
    ASSUME NEW p, IsList(p), NEW k, NEW d, NEW m, LastAt(p, k, m) PROVE Has(p, k) /\ At(p, k, d) = p[m].val
<1>1. PICK n \in Nat : n = Len(p) /\ DOMAIN p = 1 .. n
  BY ListHas
<1>2. m \in 1 .. n /\ p[m].key = k /\ \A j \in m + 1 .. n : p[j].key # k
  BY <1>1 DEF LastAt
<1>3. Has(p, k)
  BY <1>1, <1>2 DEF Has
<1> DEFINE last == CHOOSE i \in DOMAIN p : p[i].key = k /\ \A j \in i + 1 .. Len(p) : p[j].key # k
<1>4. last \in DOMAIN p /\ p[last].key = k /\ \A j \in last + 1 .. Len(p) : p[j].key # k
  BY <1>1, <1>2
<1>5. At(p, k, d) = p[last].val
  BY <1>3 DEF At
<1> HIDE DEF last
<1>6. last = m
  <2>1. last \in 1 .. n /\ ~(last < m) /\ ~(m < last)
    BY <1>1, <1>2, <1>4
  <2>2. QED
    BY <1>2, <2>1
<1>7. QED
  BY <1>3, <1>5, <1>6

(* One key more: it is read as it is, and every other key as before. *)
LEMMA OneKeyMore ==
    ASSUME NEW p, IsList(p), NEW c \in BOOLEAN, NEW key, NEW v
    PROVE  LET q == p \o KeyIf(c, key, v)
           IN  /\ IsList(q)
               /\ \A k : Has(q, k) <=> Has(p, k) \/ (c /\ k = key)
               /\ \A k, d : At(q, k, d) = IF c /\ k = key THEN v ELSE At(p, k, d)
               /\ \A k, w : Holds(q, k, w) <=> Holds(p, k, w) \/ (c /\ k = key /\ w = v)
<1>1. PICK n \in Nat : n = Len(p) /\ DOMAIN p = 1 .. n
  BY ListHas
<1>2. PICK S : p \in Seq(S)
  BY DEF IsList
<1>3. CASE c = FALSE
  <2>1. KeyIf(c, key, v) = << >>
    BY <1>3 DEF KeyIf
  <2>2. p \o << >> = p
    BY <1>2
  <2>3. p \o KeyIf(c, key, v) = p
    BY <2>1, <2>2
  <2>4. QED
    BY <1>3, <2>3
<1>4. CASE c = TRUE
  <2> DEFINE e == [key |-> key, val |-> v]
             q == p \o <<e>>
             U == S \cup {e}
  <2>1. p \o KeyIf(c, key, v) = q
    BY <1>4 DEF KeyIf, Key
  <2>2. e.key = key /\ e.val = v
    OBVIOUS
  <2> HIDE DEF e
  <2>3. p \in Seq(U) /\ <<e>> \in Seq(U)
    BY <1>2
  <2>4. q \in Seq(U) /\ Len(q) = n + 1 /\ \A i \in 1 .. n + 1 : q[i] = IF i <= n THEN p[i] ELSE <<e>>[i - n]
    <3>1. Len(<<e>>) = 1
      OBVIOUS
    <3> HIDE DEF U
    <3>2. QED
      BY <1>1, <2>3, <3>1, ConcatProperties
  <2>5. q[n + 1] = e /\ \A i \in 1 .. n : q[i] = p[i]
    BY <2>4
  <2>6. IsList(q) /\ DOMAIN q = 1 .. n + 1
    <3>1. IsList(q)
      BY <2>4 DEF IsList
    <3>2. QED
      BY <2>4, <3>1, ListHas
  <2> HIDE DEF q, U
  <2>7. \A k : Has(q, k) <=> Has(p, k) \/ k = key
    BY <1>1, <2>2, <2>5, <2>6 DEF Has
  <2>8. \A k, w : Holds(q, k, w) <=> Holds(p, k, w) \/ (k = key /\ w = v)
    BY <1>1, <2>2, <2>5, <2>6 DEF Holds
  <2>9. ASSUME NEW d PROVE At(q, key, d) = v
    <3>1. LastAt(q, key, n + 1)
      BY <2>2, <2>4, <2>5, <2>6 DEF LastAt
    <3>2. QED
      BY <2>2, <2>5, <2>6, <3>1, AtLast
  <2>10. ASSUME NEW d, NEW k, k # key PROVE At(q, k, d) = At(p, k, d)
    <3>1. CASE ~Has(p, k)
      BY <2>7, <2>10, <3>1 DEF At
    <3>2. CASE Has(p, k)
      <4>1. PICK m : LastAt(p, k, m)
        BY <3>2, HasLast
      <4>2. LastAt(q, k, m) /\ m \in 1 .. n
        <5>1. m \in 1 .. n /\ p[m].key = k /\ \A j \in m + 1 .. n : p[j].key # k
          BY <1>1, <4>1 DEF LastAt
        <5>2. \A j \in m + 1 .. n + 1 : q[j].key # k
          BY <2>2, <2>5, <2>10, <5>1
        <5>3. QED
          BY <2>4, <2>5, <2>6, <5>1, <5>2 DEF LastAt
      <4>3. At(p, k, d) = p[m].val
        BY <4>1, AtLast
      <4>4. At(q, k, d) = q[m].val
        BY <2>6, <4>2, AtLast
      <4>5. QED
        BY <2>5, <4>2, <4>3, <4>4
    <3>3. QED
      BY <3>1, <3>2
  <2>11. QED
    BY <1>4, <2>1, <2>6, <2>7, <2>8, <2>9, <2>10
<1>5. QED
  BY <1>3, <1>4

(* Nothing is read of no keys. *)
LEMMA NoKey ==
    /\ IsList(<< >>) /\ \A k : ~Has(<< >>, k) /\ \A d : At(<< >>, k, d) = d
    /\ \A k, w : ~Holds(<< >>, k, w)
<1>1. DOMAIN << >> = {}
  OBVIOUS
<1>2. IsList(<< >>)
  <2>1. << >> \in Seq({})
    OBVIOUS
  <2>2. QED
    BY <2>1 DEF IsList
<1>3. \A k : ~Has(<< >>, k)
  BY <1>1 DEF Has
<1>4. QED
  BY <1>1, <1>2, <1>3 DEF At, Holds

-----------------------------------------------------------------------------
(* What one more key changes; keys that a list only has; and lists that agree
   on every key that is not of a set. *)
More(p, q, c, key, v) ==
    /\ IsList(q)
    /\ \A k : Has(q, k) <=> Has(p, k) \/ (c /\ k = key)
    /\ \A k, d : At(q, k, d) = IF c /\ k = key THEN v ELSE At(p, k, d)
    /\ \A k, w : Holds(q, k, w) <=> Holds(p, k, w) \/ (c /\ k = key /\ w = v)

OnlyHas(p, ks) == \A k : k \notin ks => ~Has(p, k)
Alike(p, q, ks) == \A k : k \notin ks => (Has(q, k) <=> Has(p, k)) /\ \A d : At(q, k, d) = At(p, k, d)
Reads(p, k, c, v) == (Has(p, k) <=> c) /\ \A d : At(p, k, d) = IF c THEN v ELSE d

(* A key is written after others, or not. *)
LEMMA MoreKeys ==
    ASSUME NEW p, IsList(p), NEW c \in BOOLEAN, NEW key, NEW v, NEW q, q = p \o KeyIf(c, key, v)
    PROVE  IsList(q) /\ More(p, q, c, key, v)
<1>1. IsList(q)
  BY OneKeyMore
<1>2. \A k : Has(q, k) <=> Has(p, k) \/ (c /\ k = key)
  BY OneKeyMore
<1>3. \A k, d : At(q, k, d) = IF c /\ k = key THEN v ELSE At(p, k, d)
  BY OneKeyMore
<1>4. \A k, w : Holds(q, k, w) <=> Holds(p, k, w) \/ (c /\ k = key /\ w = v)
  BY OneKeyMore
<1>5. QED
  BY <1>1, <1>2, <1>3, <1>4 DEF More

(* One key more that a list may have. *)
LEMMA OnlyMore ==
    ASSUME NEW p, NEW ks, OnlyHas(p, ks), NEW q, NEW c, NEW key, NEW v, More(p, q, c, key, v)
    PROVE  OnlyHas(q, ks \cup {key})
BY DEF OnlyHas, More

(* Lists that are read alike up to one key more. *)
LEMMA AlikeMore ==
    ASSUME NEW p, NEW q, NEW c, NEW key, NEW v, More(p, q, c, key, v), NEW r, NEW ks, Alike(q, r, ks)
    PROVE  Alike(p, r, ks \cup {key})
BY DEF Alike, More

(* A key that is written once is read as it was written, whatever comes before
   and after it. *)
LEMMA ReadsNew ==
    ASSUME NEW p, NEW ks, OnlyHas(p, ks), NEW q, NEW c \in BOOLEAN, NEW k, NEW v, More(p, q, c, k, v), k \notin ks,
           NEW r, NEW ls, Alike(q, r, ls), k \notin ls
    PROVE  Reads(r, k, c, v)
<1>1. ~Has(p, k)
  BY DEF OnlyHas
<1>2. \A d : At(p, k, d) = d
  BY <1>1 DEF At
<1>3. (Has(q, k) <=> c) /\ \A d : At(q, k, d) = IF c THEN v ELSE d
  BY <1>1, <1>2 DEF More
<1>4. (Has(r, k) <=> Has(q, k)) /\ \A d : At(r, k, d) = At(q, k, d)
  BY DEF Alike
<1>5. QED
  BY <1>3, <1>4 DEF Reads

Spaced(b) == IF b.separator THEN b.sepWidth > 0 ELSE b.sepWidth >= 0

(* Whether the width of the separator is written. *)
LEMMA SpacedIs == ASSUME NEW b, IsBlock(b) PROVE Spaced(b) \in BOOLEAN
<1>1. PICK w \in Int, s \in BOOLEAN : w = b.sepWidth /\ s = b.separator
  BY DEF IsBlock
<1>2. (w > 0) \in BOOLEAN /\ (w >= 0) \in BOOLEAN
  OBVIOUS
<1>3. Spaced(b) = IF s THEN w > 0 ELSE w >= 0
  BY <1>1 DEF Spaced
<1>4. CASE s = TRUE
  BY <1>2, <1>3, <1>4
<1>5. CASE s = FALSE
  BY <1>2, <1>3, <1>5
<1>6. QED
  BY <1>4, <1>5

OneOf(s, w, k) == IF s # "" THEN Key(k, s) ELSE KeyIf(w # 0, k, w)

(* Of two keys of which one is written, one is, or none. *)
LEMMA OneOrOther ==
    ASSUME NEW s, NEW w, NEW k
    PROVE  \E c, v : c \in BOOLEAN /\ OneOf(s, w, k) = KeyIf(c, k, v)
<1>1. CASE s # ""
  <2>1. PICK c \in BOOLEAN : c = (s # "")
    OBVIOUS
  <2>2. OneOf(s, w, k) = KeyIf(c, k, s)
    BY <1>1, <2>1 DEF KeyIf, OneOf
  <2>3. QED
    BY <2>2
<1>2. CASE s = ""
  <2>1. PICK c \in BOOLEAN : c = (w # 0)
    OBVIOUS
  <2>2. OneOf(s, w, k) = KeyIf(c, k, w)
    BY <1>2, <2>1 DEF OneOf
  <2>3. QED
    BY <2>2
<1>3. QED
  BY <1>1, <1>2

(* What i3bar reads of the keys of a block (Block.AppendJSON). *)
LEMMA BlockIsRead ==
    ASSUME NEW b, IsBlock(b)
    PROVE  /\ IsList(Encode(b))
           /\ Reads(Encode(b), "color", b.color # NoColor, HexColor(b.color))
           /\ Reads(Encode(b), "name", b.name # "", b.name)
           /\ Reads(Encode(b), "instance", b.instance # "", b.instance)
           /\ Reads(Encode(b), "background", b.background # NoColor, HexColor(b.background))
           /\ Reads(Encode(b), "border", b.border # NoColor, HexColor(b.border))
           /\ Reads(Encode(b), "border_top", b.top # 0, Border(b.top))
           /\ Reads(Encode(b), "border_right", b.right # 0, Border(b.right))
           /\ Reads(Encode(b), "border_bottom", b.bottom # 0, Border(b.bottom))
           /\ Reads(Encode(b), "border_left", b.left # 0, Border(b.left))
           /\ Reads(Encode(b), "separator", TRUE, b.separator)
           /\ Reads(Encode(b), "separator_block_width", Spaced(b), b.sepWidth)
<1> DEFINE p1 == Key("full_text", b.text)
           p2 == p1 \o KeyIf(b.short # "", "short_text", b.short)
           p3 == p2 \o KeyIf(b.color # NoColor, "color", HexColor(b.color))
           p4 == p3 \o KeyIf(b.name # "", "name", b.name)
           p5 == p4 \o KeyIf(b.instance # "", "instance", b.instance)
           p6 == p5 \o KeyIf(b.background # NoColor, "background", HexColor(b.background))
           p7 == p6 \o KeyIf(b.border # NoColor, "border", HexColor(b.border))
           p8 == p7 \o KeyIf(b.top # 0, "border_top", Border(b.top))
           p9 == p8 \o KeyIf(b.right # 0, "border_right", Border(b.right))
           p10 == p9 \o KeyIf(b.bottom # 0, "border_bottom", Border(b.bottom))
           p11 == p10 \o KeyIf(b.left # 0, "border_left", Border(b.left))
           p12 == p11 \o OneOf(b.minWidthString, b.minWidth, "min_width")
           p13 == p12 \o KeyIf(b.align # "", "align", b.align)
           p14 == p13 \o KeyIf(b.urgent, "urgent", TRUE)
           p15 == p14 \o Key("separator", b.separator)
           p16 == p15 \o KeyIf(Spaced(b), "separator_block_width", b.sepWidth)
           p17 == p16 \o KeyIf(b.pango, "markup", "pango")
<1>1. Encode(b) = p17
  BY DEF Encode, Spaced, OneOf
<1>2. \A k, v : Key(k, v) = KeyIf(TRUE, k, v)
  BY DEF KeyIf
<1>p1. PICK p0 : p0 = << >> /\ IsList(p0) /\ OnlyHas(p0, {}) /\ p1 = p0 \o KeyIf(TRUE, "full_text", b.text)
  <2>1. \A k, v : << >> \o Key(k, v) = Key(k, v)
    BY DEF Key
  <2>2. OnlyHas(<< >>, {})
    BY NoKey DEF OnlyHas
  <2>3. QED
    BY <1>2, <2>1, <2>2, NoKey, Zenon
<1>p2. p2 = p1 \o KeyIf(b.short # "", "short_text", b.short)
  OBVIOUS
<1>p3. p3 = p2 \o KeyIf(b.color # NoColor, "color", HexColor(b.color))
  OBVIOUS
<1>p4. p4 = p3 \o KeyIf(b.name # "", "name", b.name)
  OBVIOUS
<1>p5. p5 = p4 \o KeyIf(b.instance # "", "instance", b.instance)
  OBVIOUS
<1>p6. p6 = p5 \o KeyIf(b.background # NoColor, "background", HexColor(b.background))
  OBVIOUS
<1>p7. p7 = p6 \o KeyIf(b.border # NoColor, "border", HexColor(b.border))
  OBVIOUS
<1>p8. p8 = p7 \o KeyIf(b.top # 0, "border_top", Border(b.top))
  OBVIOUS
<1>p9. p9 = p8 \o KeyIf(b.right # 0, "border_right", Border(b.right))
  OBVIOUS
<1>p10. p10 = p9 \o KeyIf(b.bottom # 0, "border_bottom", Border(b.bottom))
  OBVIOUS
<1>p11. p11 = p10 \o KeyIf(b.left # 0, "border_left", Border(b.left))
  OBVIOUS
<1>k12. PICK c12, v12 : c12 \in BOOLEAN /\ OneOf(b.minWidthString, b.minWidth, "min_width") = KeyIf(c12, "min_width", v12)
  BY OneOrOther
<1>p12. p12 = p11 \o KeyIf(c12, "min_width", v12)
  BY <1>k12, Zenon
<1>p13. p13 = p12 \o KeyIf(b.align # "", "align", b.align)
  OBVIOUS
<1>p14. p14 = p13 \o KeyIf(b.urgent, "urgent", TRUE)
  OBVIOUS
<1>p15. p15 = p14 \o KeyIf(TRUE, "separator", b.separator)
  BY <1>2
<1>p16. p16 = p15 \o KeyIf(Spaced(b), "separator_block_width", b.sepWidth)
  OBVIOUS
<1>p17. p17 = p16 \o KeyIf(b.pango, "markup", "pango")
  OBVIOUS
<1> HIDE DEF p1, p2, p3, p4, p5, p6, p7, p8, p9, p10, p11, p12, p13, p14, p15, p16, p17
<1>m1. IsList(p1) /\ More(p0, p1, TRUE, "full_text", b.text)
  BY <1>p1, <1>p1, MoreKeys
<1>m2. IsList(p2) /\ More(p1, p2, b.short # "", "short_text", b.short)
  BY <1>m1, <1>p2, MoreKeys
<1>m3. IsList(p3) /\ More(p2, p3, b.color # NoColor, "color", HexColor(b.color))
  BY <1>m2, <1>p3, MoreKeys
<1>m4. IsList(p4) /\ More(p3, p4, b.name # "", "name", b.name)
  BY <1>m3, <1>p4, MoreKeys
<1>m5. IsList(p5) /\ More(p4, p5, b.instance # "", "instance", b.instance)
  BY <1>m4, <1>p5, MoreKeys
<1>m6. IsList(p6) /\ More(p5, p6, b.background # NoColor, "background", HexColor(b.background))
  BY <1>m5, <1>p6, MoreKeys
<1>m7. IsList(p7) /\ More(p6, p7, b.border # NoColor, "border", HexColor(b.border))
  BY <1>m6, <1>p7, MoreKeys
<1>m8. IsList(p8) /\ More(p7, p8, b.top # 0, "border_top", Border(b.top))
  BY <1>m7, <1>p8, MoreKeys
<1>m9. IsList(p9) /\ More(p8, p9, b.right # 0, "border_right", Border(b.right))
  BY <1>m8, <1>p9, MoreKeys
<1>m10. IsList(p10) /\ More(p9, p10, b.bottom # 0, "border_bottom", Border(b.bottom))
  BY <1>m9, <1>p10, MoreKeys
<1>m11. IsList(p11) /\ More(p10, p11, b.left # 0, "border_left", Border(b.left))
  BY <1>m10, <1>p11, MoreKeys
<1>m12. IsList(p12) /\ More(p11, p12, c12, "min_width", v12)
  BY <1>m11, <1>p12, <1>k12, MoreKeys
<1>m13. IsList(p13) /\ More(p12, p13, b.align # "", "align", b.align)
  BY <1>m12, <1>p13, MoreKeys
<1>m14. IsList(p14) /\ More(p13, p14, b.urgent, "urgent", TRUE)
  <2>1. b.urgent \in BOOLEAN
    BY DEF IsBlock
  <2>2. QED
    BY <1>m13, <1>p14, <2>1, MoreKeys
<1>m15. IsList(p15) /\ More(p14, p15, TRUE, "separator", b.separator)
  BY <1>m14, <1>p15, MoreKeys
<1>m16. IsList(p16) /\ More(p15, p16, Spaced(b), "separator_block_width", b.sepWidth)
  <2>1. Spaced(b) \in BOOLEAN
    BY SpacedIs
  <2>2. QED
    BY <1>m15, <1>p16, <2>1, MoreKeys
<1>m17. IsList(p17) /\ More(p16, p17, b.pango, "markup", "pango")
  <2>1. b.pango \in BOOLEAN
    BY DEF IsBlock
  <2>2. QED
    BY <1>m16, <1>p17, <2>1, MoreKeys
<1> DEFINE k0 == {}
           k1 == k0 \cup {"full_text"}
           k2 == k1 \cup {"short_text"}
           k3 == k2 \cup {"color"}
           k4 == k3 \cup {"name"}
           k5 == k4 \cup {"instance"}
           k6 == k5 \cup {"background"}
           k7 == k6 \cup {"border"}
           k8 == k7 \cup {"border_top"}
           k9 == k8 \cup {"border_right"}
           k10 == k9 \cup {"border_bottom"}
           k11 == k10 \cup {"border_left"}
           k12 == k11 \cup {"min_width"}
           k13 == k12 \cup {"align"}
           k14 == k13 \cup {"urgent"}
           k15 == k14 \cup {"separator"}
           k16 == k15 \cup {"separator_block_width"}
           l17 == {}
           l16 == l17 \cup {"markup"}
           l15 == l16 \cup {"separator_block_width"}
           l14 == l15 \cup {"separator"}
           l13 == l14 \cup {"urgent"}
           l12 == l13 \cup {"align"}
           l11 == l12 \cup {"min_width"}
           l10 == l11 \cup {"border_left"}
           l9 == l10 \cup {"border_bottom"}
           l8 == l9 \cup {"border_right"}
           l7 == l8 \cup {"border_top"}
           l6 == l7 \cup {"border"}
           l5 == l6 \cup {"background"}
           l4 == l5 \cup {"instance"}
           l3 == l4 \cup {"name"}
           l2 == l3 \cup {"color"}
           l1 == l2 \cup {"short_text"}
<1>n3. "color" \notin k2 /\ "color" \notin l3
  OBVIOUS
<1>n4. "name" \notin k3 /\ "name" \notin l4
  OBVIOUS
<1>n5. "instance" \notin k4 /\ "instance" \notin l5
  OBVIOUS
<1>n6. "background" \notin k5 /\ "background" \notin l6
  OBVIOUS
<1>n7. "border" \notin k6 /\ "border" \notin l7
  OBVIOUS
<1>n8. "border_top" \notin k7 /\ "border_top" \notin l8
  OBVIOUS
<1>n9. "border_right" \notin k8 /\ "border_right" \notin l9
  OBVIOUS
<1>n10. "border_bottom" \notin k9 /\ "border_bottom" \notin l10
  OBVIOUS
<1>n11. "border_left" \notin k10 /\ "border_left" \notin l11
  OBVIOUS
<1>n15. "separator" \notin k14 /\ "separator" \notin l15
  OBVIOUS
<1>n16. "separator_block_width" \notin k15 /\ "separator_block_width" \notin l16
  OBVIOUS
<1>o0. OnlyHas(p0, k0)
  BY <1>p1
<1>a17. Alike(p17, p17, l17)
  BY DEF Alike
<1>4. /\ k1 = k0 \cup {"full_text"}
      /\ k2 = k1 \cup {"short_text"}
      /\ k3 = k2 \cup {"color"}
      /\ k4 = k3 \cup {"name"}
      /\ k5 = k4 \cup {"instance"}
      /\ k6 = k5 \cup {"background"}
      /\ k7 = k6 \cup {"border"}
      /\ k8 = k7 \cup {"border_top"}
      /\ k9 = k8 \cup {"border_right"}
      /\ k10 = k9 \cup {"border_bottom"}
      /\ k11 = k10 \cup {"border_left"}
      /\ k12 = k11 \cup {"min_width"}
      /\ k13 = k12 \cup {"align"}
      /\ k14 = k13 \cup {"urgent"}
      /\ k15 = k14 \cup {"separator"}
      /\ k16 = k15 \cup {"separator_block_width"}
  OBVIOUS
<1>5. /\ l1 = l2 \cup {"short_text"}
      /\ l2 = l3 \cup {"color"}
      /\ l3 = l4 \cup {"name"}
      /\ l4 = l5 \cup {"instance"}
      /\ l5 = l6 \cup {"background"}
      /\ l6 = l7 \cup {"border"}
      /\ l7 = l8 \cup {"border_top"}
      /\ l8 = l9 \cup {"border_right"}
      /\ l9 = l10 \cup {"border_bottom"}
      /\ l10 = l11 \cup {"border_left"}
      /\ l11 = l12 \cup {"min_width"}
      /\ l12 = l13 \cup {"align"}
      /\ l13 = l14 \cup {"urgent"}
      /\ l14 = l15 \cup {"separator"}
      /\ l15 = l16 \cup {"separator_block_width"}
      /\ l16 = l17 \cup {"markup"}
  OBVIOUS
<1> HIDE DEF k0, k1, k2, k3, k4, k5, k6, k7, k8, k9, k10, k11, k12, k13, k14, k15, k16, l1, l2, l3, l4, l5, l6, l7, l8, l9, l10, l11, l12, l13, l14, l15, l16, l17
<1>o1. OnlyHas(p1, k1)
  BY <1>o0, <1>m1, <1>4, OnlyMore, Zenon
<1>o2. OnlyHas(p2, k2)
  BY <1>o1, <1>m2, <1>4, OnlyMore, Zenon
<1>o3. OnlyHas(p3, k3)
  BY <1>o2, <1>m3, <1>4, OnlyMore, Zenon
<1>o4. OnlyHas(p4, k4)
  BY <1>o3, <1>m4, <1>4, OnlyMore, Zenon
<1>o5. OnlyHas(p5, k5)
  BY <1>o4, <1>m5, <1>4, OnlyMore, Zenon
<1>o6. OnlyHas(p6, k6)
  BY <1>o5, <1>m6, <1>4, OnlyMore, Zenon
<1>o7. OnlyHas(p7, k7)
  BY <1>o6, <1>m7, <1>4, OnlyMore, Zenon
<1>o8. OnlyHas(p8, k8)
  BY <1>o7, <1>m8, <1>4, OnlyMore, Zenon
<1>o9. OnlyHas(p9, k9)
  BY <1>o8, <1>m9, <1>4, OnlyMore, Zenon
<1>o10. OnlyHas(p10, k10)
  BY <1>o9, <1>m10, <1>4, OnlyMore, Zenon
<1>o11. OnlyHas(p11, k11)
  BY <1>o10, <1>m11, <1>4, OnlyMore, Zenon
<1>o12. OnlyHas(p12, k12)
  BY <1>o11, <1>m12, <1>4, OnlyMore, Zenon
<1>o13. OnlyHas(p13, k13)
  BY <1>o12, <1>m13, <1>4, OnlyMore, Zenon
<1>o14. OnlyHas(p14, k14)
  BY <1>o13, <1>m14, <1>4, OnlyMore, Zenon
<1>o15. OnlyHas(p15, k15)
  BY <1>o14, <1>m15, <1>4, OnlyMore, Zenon
<1>o16. OnlyHas(p16, k16)
  BY <1>o15, <1>m16, <1>4, OnlyMore, Zenon
<1>a16. Alike(p16, p17, l16)
  BY <1>a17, <1>m17, <1>5, AlikeMore, Zenon
<1>a15. Alike(p15, p17, l15)
  BY <1>a16, <1>m16, <1>5, AlikeMore, Zenon
<1>a14. Alike(p14, p17, l14)
  BY <1>a15, <1>m15, <1>5, AlikeMore, Zenon
<1>a13. Alike(p13, p17, l13)
  BY <1>a14, <1>m14, <1>5, AlikeMore, Zenon
<1>a12. Alike(p12, p17, l12)
  BY <1>a13, <1>m13, <1>5, AlikeMore, Zenon
<1>a11. Alike(p11, p17, l11)
  BY <1>a12, <1>m12, <1>5, AlikeMore, Zenon
<1>a10. Alike(p10, p17, l10)
  BY <1>a11, <1>m11, <1>5, AlikeMore, Zenon
<1>a9. Alike(p9, p17, l9)
  BY <1>a10, <1>m10, <1>5, AlikeMore, Zenon
<1>a8. Alike(p8, p17, l8)
  BY <1>a9, <1>m9, <1>5, AlikeMore, Zenon
<1>a7. Alike(p7, p17, l7)
  BY <1>a8, <1>m8, <1>5, AlikeMore, Zenon
<1>a6. Alike(p6, p17, l6)
  BY <1>a7, <1>m7, <1>5, AlikeMore, Zenon
<1>a5. Alike(p5, p17, l5)
  BY <1>a6, <1>m6, <1>5, AlikeMore, Zenon
<1>a4. Alike(p4, p17, l4)
  BY <1>a5, <1>m5, <1>5, AlikeMore, Zenon
<1>a3. Alike(p3, p17, l3)
  BY <1>a4, <1>m4, <1>5, AlikeMore, Zenon
<1>a2. Alike(p2, p17, l2)
  BY <1>a3, <1>m3, <1>5, AlikeMore, Zenon
<1>a1. Alike(p1, p17, l1)
  BY <1>a2, <1>m2, <1>5, AlikeMore, Zenon
<1>r3. Reads(p17, "color", b.color # NoColor, HexColor(b.color))
  BY <1>o2, <1>m3, <1>n3, <1>a3, ReadsNew
<1>r4. Reads(p17, "name", b.name # "", b.name)
  BY <1>o3, <1>m4, <1>n4, <1>a4, ReadsNew
<1>r5. Reads(p17, "instance", b.instance # "", b.instance)
  BY <1>o4, <1>m5, <1>n5, <1>a5, ReadsNew
<1>r6. Reads(p17, "background", b.background # NoColor, HexColor(b.background))
  BY <1>o5, <1>m6, <1>n6, <1>a6, ReadsNew
<1>r7. Reads(p17, "border", b.border # NoColor, HexColor(b.border))
  BY <1>o6, <1>m7, <1>n7, <1>a7, ReadsNew
<1>r8. Reads(p17, "border_top", b.top # 0, Border(b.top))
  BY <1>o7, <1>m8, <1>n8, <1>a8, ReadsNew
<1>r9. Reads(p17, "border_right", b.right # 0, Border(b.right))
  BY <1>o8, <1>m9, <1>n9, <1>a9, ReadsNew
<1>r10. Reads(p17, "border_bottom", b.bottom # 0, Border(b.bottom))
  BY <1>o9, <1>m10, <1>n10, <1>a10, ReadsNew
<1>r11. Reads(p17, "border_left", b.left # 0, Border(b.left))
  BY <1>o10, <1>m11, <1>n11, <1>a11, ReadsNew
<1>r15. Reads(p17, "separator", TRUE, b.separator)
  BY <1>o14, <1>m15, <1>n15, <1>a15, ReadsNew
<1>r16. Reads(p17, "separator_block_width", Spaced(b), b.sepWidth)
  BY <1>o15, <1>m16, <1>n16, <1>a16, SpacedIs, ReadsNew
<1>3. QED
  BY <1>1, <1>m17, <1>r3, <1>r4, <1>r5, <1>r6, <1>r7, <1>r8, <1>r9, <1>r10, <1>r11, <1>r15, <1>r16

-----------------------------------------------------------------------------
(* A byte comes back from its two digits. *)
LEMMA DigitsOfByte ==
    ASSUME NEW x \in Bytes
    PROVE  Digits(x) \in Seq(Nat) /\ Len(Digits(x)) = 2 /\ 16 * Digits(x)[1] + Digits(x)[2] = x
<1>1. x \in 0 .. 255
  BY DEF Bytes
<1>2. PICK d \in 0 .. 15, e \in 0 .. 15 : d = x \div 16 /\ e = x % 16 /\ 16 * d + e = x
  BY <1>1
<1>3. Digits(x) = <<d, e>>
  BY <1>2 DEF Digits
<1>4. <<d, e>> \in Seq(Nat) /\ Len(<<d, e>>) = 2 /\ <<d, e>>[1] = d /\ <<d, e>>[2] = e
  OBVIOUS
<1>5. QED
  BY <1>2, <1>3, <1>4

(* Two sequences that are joined. *)
LEMMA JoinedTwo ==
    ASSUME NEW u \in Seq(Nat), NEW v \in Seq(Nat)
    PROVE  /\ u \o v \in Seq(Nat) /\ Len(u \o v) = Len(u) + Len(v)
           /\ \A i \in 1 .. Len(u) : (u \o v)[i] = u[i]
           /\ \A i \in 1 .. Len(v) : (u \o v)[i + Len(u)] = v[i]
<1>1. u \o v \in Seq(Nat) /\ Len(u \o v) = Len(u) + Len(v)
  OBVIOUS
<1>2. QED
  BY <1>1, Elements

(* A color comes back, whether its alpha is written or not. *)
LEMMA ColorIsRead ==
    ASSUME NEW c, c \in Colors PROVE ReadColor(HexColor(c)) = c
<1>1. c \in [1 .. 4 -> Bytes]
  BY DEF Colors
<1>2. PICK e : e = (IF c[4] = 255 THEN << >> ELSE Digits(c[4]))
  OBVIOUS
<1>3. PICK d1, d2, d3 : d1 = Digits(c[1]) /\ d2 = Digits(c[2]) /\ d3 = Digits(c[3])
  OBVIOUS
<1>4. /\ d1 \in Seq(Nat) /\ Len(d1) = 2 /\ 16 * d1[1] + d1[2] = c[1]
      /\ d2 \in Seq(Nat) /\ Len(d2) = 2 /\ 16 * d2[1] + d2[2] = c[2]
      /\ d3 \in Seq(Nat) /\ Len(d3) = 2 /\ 16 * d3[1] + d3[2] = c[3]
  <2>1. c[1] \in Bytes /\ c[2] \in Bytes /\ c[3] \in Bytes
    BY <1>1
  <2>2. QED
    BY <1>3, <2>1, DigitsOfByte
<1>5. /\ e \in Seq(Nat)
      /\ (c[4] = 255 /\ Len(e) = 0) \/ (Len(e) = 2 /\ 16 * e[1] + e[2] = c[4])
  <2>1. CASE c[4] = 255
    <3>1. e = << >>
      BY <1>2, <2>1
    <3>2. QED
      BY <2>1, <3>1
  <2>2. CASE c[4] # 255
    <3>1. e = Digits(c[4])
      BY <1>2, <2>2
    <3>2. c[4] \in Bytes
      BY <1>1
    <3>3. QED
      BY <3>1, <3>2, DigitsOfByte
  <2>3. QED
    BY <2>1, <2>2
<1>6. PICK u : u = d1 \o d2
  OBVIOUS
<1>7. PICK v : v = u \o d3
  OBVIOUS
<1>8. PICK w : w = v \o e
  OBVIOUS
<1>9. HexColor(c) = w
  BY <1>2, <1>3, <1>6, <1>7, <1>8 DEF HexColor
<1>10. u \in Seq(Nat) /\ Len(u) = 4 /\ u[1] = d1[1] /\ u[2] = d1[2] /\ u[3] = d2[1] /\ u[4] = d2[2]
  <2>1. /\ u \in Seq(Nat) /\ Len(u) = Len(d1) + Len(d2)
        /\ (\A i \in 1 .. Len(d1) : u[i] = d1[i]) /\ (\A i \in 1 .. Len(d2) : u[i + Len(d1)] = d2[i])
    <3>1. d1 \in Seq(Nat) /\ d2 \in Seq(Nat)
      BY <1>4
    <3>2. u = d1 \o d2
      BY <1>6
    <3>3. QED
      BY <3>1, <3>2, JoinedTwo
  <2>2. QED
    BY <1>4, <2>1
<1>11. /\ v \in Seq(Nat) /\ Len(v) = 6
       /\ v[1] = d1[1] /\ v[2] = d1[2] /\ v[3] = d2[1] /\ v[4] = d2[2] /\ v[5] = d3[1] /\ v[6] = d3[2]
  <2>1. /\ v \in Seq(Nat) /\ Len(v) = Len(u) + Len(d3)
        /\ (\A i \in 1 .. Len(u) : v[i] = u[i]) /\ (\A i \in 1 .. Len(d3) : v[i + Len(u)] = d3[i])
    <3>1. u \in Seq(Nat) /\ d3 \in Seq(Nat)
      BY <1>4, <1>10
    <3>2. v = u \o d3
      BY <1>7
    <3>3. QED
      BY <3>1, <3>2, JoinedTwo
  <2>2. v[1] = u[1] /\ v[2] = u[2] /\ v[3] = u[3] /\ v[4] = u[4] /\ v[5] = d3[1] /\ v[6] = d3[2] /\ Len(v) = 6
    BY <1>4, <1>10, <2>1
  <2>3. QED
    BY <1>10, <2>1, <2>2
<1>n. PICK n \in Nat : n = Len(e)
  BY <1>5
<1>12. w \in Seq(Nat) /\ Len(w) = 6 + n /\ (\A i \in 1 .. 6 : w[i] = v[i]) /\ (\A i \in 1 .. n : w[i + 6] = e[i])
  <2>1. /\ w \in Seq(Nat) /\ Len(w) = Len(v) + Len(e)
        /\ (\A i \in 1 .. Len(v) : w[i] = v[i]) /\ (\A i \in 1 .. Len(e) : w[i + Len(v)] = e[i])
    <3>1. v \in Seq(Nat) /\ e \in Seq(Nat)
      BY <1>5, <1>11
    <3>2. w = v \o e
      BY <1>8
    <3>3. QED
      BY <3>1, <3>2, JoinedTwo
  <2>2. QED
    BY <1>11, <1>n, <2>1
<1>13. 16 * w[1] + w[2] = c[1] /\ 16 * w[3] + w[4] = c[2] /\ 16 * w[5] + w[6] = c[3]
  <2>1. w[1] = v[1] /\ w[2] = v[2] /\ w[3] = v[3] /\ w[4] = v[4] /\ w[5] = v[5] /\ w[6] = v[6]
    BY <1>12
  <2>2. w[1] = d1[1] /\ w[2] = d1[2] /\ w[3] = d2[1] /\ w[4] = d2[2] /\ w[5] = d3[1] /\ w[6] = d3[2]
    BY <1>11, <2>1
  <2>3. QED
    BY <1>4, <2>2
<1>14. (IF 8 > Len(w) THEN 255 ELSE 16 * w[7] + w[8]) = c[4] /\ Len(w) \in {6, 8}
  <2>1. CASE c[4] = 255 /\ Len(e) = 0
    <3>1. Len(w) = 6
      BY <1>12, <1>n, <2>1
    <3>2. QED
      BY <2>1, <3>1
  <2>2. CASE Len(e) = 2 /\ 16 * e[1] + e[2] = c[4]
    <3>1. n = 2
      BY <1>n, <2>2
    <3>2. Len(w) = 8
      BY <1>12, <3>1
    <3>3. 1 \in 1 .. n /\ 2 \in 1 .. n
      BY <3>1
    <3>4. w[1 + 6] = e[1] /\ w[2 + 6] = e[2]
      BY <1>12, <3>3
    <3>5. w[7] = e[1] /\ w[8] = e[2]
      BY <3>4
    <3>6. QED
      BY <2>2, <3>2, <3>5
  <2>3. QED
    BY <1>5, <2>1, <2>2
<1>15. ReadColor(w) = [i \in 1 .. 4 |-> IF 2 * i > Len(w) THEN 255 ELSE 16 * w[2 * i - 1] + w[2 * i]]
  BY DEF ReadColor
<1>16. ASSUME NEW i \in 1 .. 4 PROVE ReadColor(w)[i] = c[i]
  <2>1. Len(w) \in {6, 8}
    BY <1>14
  <2>2. CASE i = 1
    BY <1>13, <1>15, <2>1, <2>2
  <2>3. CASE i = 2
    BY <1>13, <1>15, <2>1, <2>3
  <2>4. CASE i = 3
    BY <1>13, <1>15, <2>1, <2>4
  <2>5. CASE i = 4
    BY <1>14, <1>15, <2>1, <2>5
  <2>6. QED
    BY <2>2, <2>3, <2>4, <2>5
<1>17. DOMAIN ReadColor(w) = 1 .. 4 /\ ReadColor(w) = [i \in 1 .. 4 |-> ReadColor(w)[i]]
  BY <1>15
<1>18. QED
  BY <1>1, <1>9, <1>16, <1>17

(* A color of a block is read as it is, or not written if there is none. *)
LEMMA ColorOfBlock ==
    ASSUME NEW p, NEW k, NEW c, c \in Colors, Reads(p, k, c # NoColor, HexColor(c))
    PROVE  (IF Has(p, k) THEN ReadColor(At(p, k, << >>)) ELSE NoColor) = c
<1>1. CASE c = NoColor
  BY <1>1 DEF Reads
<1>2. CASE c # NoColor
  BY <1>2, ColorIsRead DEF Reads
<1>3. QED
  BY <1>1, <1>2

(* A border of a block is read as it is meant. *)
LEMMA BorderOfBlock ==
    ASSUME NEW p, NEW k, NEW x \in Int, Reads(p, k, x # 0, Border(x))
    PROVE  At(p, k, DefaultBorder) = Meant(x)
<1>1. At(p, k, DefaultBorder) = IF x # 0 THEN Border(x) ELSE DefaultBorder
  BY DEF Reads
<1>2. QED
  BY <1>1 DEF Border, Meant, DefaultBorder

(* The width of a separator is read as it is meant. *)
LEMMA WidthOfBlock ==
    ASSUME NEW b, IsBlock(b), NEW p, Reads(p, "separator_block_width", Spaced(b), b.sepWidth)
    PROVE  At(p, "separator_block_width", DefaultWidth)
           = IF b.sepWidth = (IF b.separator THEN 0 ELSE -1) \/ b.sepWidth < 0 THEN DefaultWidth ELSE b.sepWidth
<1>1. PICK w \in Int, s \in BOOLEAN : w = b.sepWidth /\ s = b.separator
  BY DEF IsBlock
<1>2. (s /\ (Spaced(b) <=> w > 0)) \/ (~s /\ (Spaced(b) <=> w >= 0))
  <2>1. CASE s
    BY <1>1, <2>1 DEF Spaced
  <2>2. CASE ~s
    BY <1>1, <2>2 DEF Spaced
  <2>3. QED
    BY <2>1, <2>2
<1>3. At(p, "separator_block_width", DefaultWidth) = IF Spaced(b) THEN w ELSE DefaultWidth
  BY <1>1 DEF Reads
<1>4. PICK n : n = DefaultWidth
  OBVIOUS
<1>5. (IF Spaced(b) THEN w ELSE n) = IF w = (IF s THEN 0 ELSE -1) \/ w < 0 THEN n ELSE w
  <2>1. CASE w > 0
    <3>1. Spaced(b)
      BY <1>2, <2>1
    <3>2. QED
      BY <2>1, <3>1
  <2>2. CASE w = 0
    BY <1>2, <2>2
  <2>3. CASE w < 0
    <3>1. ~Spaced(b)
      BY <1>2, <2>3
    <3>2. QED
      BY <2>3, <3>1
  <2>4. QED
    BY <2>1, <2>2, <2>3
<1>6. QED
  BY <1>1, <1>3, <1>4, <1>5, Zenon

(* Of a block, the colors, the borders and the separator are read as meant. *)
LEMMA BlockAlwaysSurvives ==
    ASSUME NEW b, IsBlock(b) PROVE BlockSurvives(b)
<1> DEFINE p == Encode(b)
           color(k) == IF Has(p, k) THEN ReadColor(At(p, k, << >>)) ELSE NoColor
<1>1. color("color") = b.color
  BY BlockIsRead, ColorOfBlock DEF IsBlock
<1>2. color("background") = b.background
  BY BlockIsRead, ColorOfBlock DEF IsBlock
<1>3. color("border") = b.border
  BY BlockIsRead, ColorOfBlock DEF IsBlock
<1>b. b.top \in Int /\ b.right \in Int /\ b.bottom \in Int /\ b.left \in Int
  BY DEF IsBlock
<1>4. At(p, "border_top", DefaultBorder) = Meant(b.top)
  BY <1>b, BlockIsRead, BorderOfBlock
<1>5. At(p, "border_right", DefaultBorder) = Meant(b.right)
  BY <1>b, BlockIsRead, BorderOfBlock
<1>6. At(p, "border_bottom", DefaultBorder) = Meant(b.bottom)
  BY <1>b, BlockIsRead, BorderOfBlock
<1>7. At(p, "border_left", DefaultBorder) = Meant(b.left)
  BY <1>b, BlockIsRead, BorderOfBlock
<1>8. At(p, "separator", TRUE) = b.separator
  BY BlockIsRead DEF Reads
<1>9. At(p, "separator_block_width", DefaultWidth)
      = IF b.sepWidth = (IF b.separator THEN 0 ELSE -1) \/ b.sepWidth < 0 THEN DefaultWidth ELSE b.sepWidth
  BY BlockIsRead, WidthOfBlock
<1>10. <<At(p, "border_top", DefaultBorder), At(p, "border_right", DefaultBorder),
         At(p, "border_bottom", DefaultBorder), At(p, "border_left", DefaultBorder)>>
       = <<Meant(b.top), Meant(b.right), Meant(b.bottom), Meant(b.left)>>
  BY <1>4, <1>5, <1>6, <1>7, Zenon
<1>11. QED
  BY <1>1, <1>2, <1>3, <1>8, <1>9, <1>10, Zenon DEF BlockSurvives

-----------------------------------------------------------------------------
(* What is read of the keys of an event (Event.FromJSON). *)
LEMMA EventFields ==
    ASSUME NEW q
    PROVE  LET e == FromJSON(q)
           IN  /\ e.name = At(q, "name", "") /\ e.instance = At(q, "instance", "")
               /\ e.button = At(q, "button", 0) /\ e.x = At(q, "x", 0) /\ e.y = At(q, "y", 0)
               /\ e.modifiers = {Modifiers[m] : m \in Named(q)}
BY DEF FromJSON, NoEvent

NamesOf(mods) == {n \in DOMAIN Modifiers : \E i \in DOMAIN mods : mods[i] = n}
OnlyModifiers(q, mods) == \A w : Holds(q, "modifiers", w) <=> w = mods

(* The modifiers of an event are those of its one list of them. *)
LEMMA NamedIs ==
    ASSUME NEW q, NEW mods, OnlyModifiers(q, mods)
    PROVE  Named(q) = NamesOf(mods)
<1>1. ASSUME NEW m
      PROVE  (\E i \in DOMAIN q : q[i].key = "modifiers" /\ \E n \in DOMAIN q[i].val : q[i].val[n] = m)
             <=> \E n \in DOMAIN mods : mods[n] = m
  <2>1. ASSUME NEW i \in DOMAIN q, q[i].key = "modifiers" PROVE q[i].val = mods
    BY <2>1 DEF Holds, OnlyModifiers
  <2>2. PICK i \in DOMAIN q : q[i].key = "modifiers" /\ q[i].val = mods
    BY DEF Holds, OnlyModifiers
  <2>3. QED
    BY <2>1, <2>2
<1>2. QED
  BY <1>1 DEF Named, NamesOf

(* What is read of the keys of a click. *)
LEMMA ClickIsRead ==
    ASSUME NEW b, IsBlock(b), NEW button, NEW mods
    PROVE  LET q == Clicked(b, button, mods)
           IN  /\ At(q, "name", "") = b.name /\ At(q, "instance", "") = b.instance
               /\ At(q, "button", 0) = button /\ At(q, "x", 0) = 5 /\ At(q, "y", 0) = 0
               /\ OnlyModifiers(q, mods)
<1> DEFINE p == Encode(b)
           q1 == Key("unknown", 0)
           q2 == q1 \o KeyIf(Has(p, "name"), "name", At(p, "name", ""))
           q3 == q2 \o KeyIf(Has(p, "instance"), "instance", At(p, "instance", ""))
           q4 == q3 \o Key("button", button)
           q5 == q4 \o Key("modifiers", mods)
           q6 == q5 \o Key("x", 5)
<1>1. Clicked(b, button, mods) = q6
  BY DEF Clicked
<1>2. \A k, v : Key(k, v) = KeyIf(TRUE, k, v)
  BY DEF KeyIf
<1>3. Reads(p, "name", b.name # "", b.name) /\ Reads(p, "instance", b.instance # "", b.instance)
  BY BlockIsRead
<1> HIDE DEF p
<1>p1. PICK q0 : q0 = << >> /\ IsList(q0) /\ OnlyHas(q0, {}) /\ q1 = q0 \o KeyIf(TRUE, "unknown", 0)
  <2>1. \A k, v : << >> \o Key(k, v) = Key(k, v)
    BY DEF Key
  <2>2. OnlyHas(<< >>, {})
    BY NoKey DEF OnlyHas
  <2>3. QED
    BY <1>2, <2>1, <2>2, NoKey, Zenon
<1>p2. q2 = q1 \o KeyIf(b.name # "", "name", b.name)
  <2>1. KeyIf(Has(p, "name"), "name", At(p, "name", "")) = KeyIf(b.name # "", "name", b.name)
    <3>1. CASE b.name = ""
      BY <1>3, <3>1 DEF Reads, KeyIf
    <3>2. CASE b.name # ""
      <4>1. Has(p, "name") /\ At(p, "name", "") = b.name
        BY <1>3, <3>2 DEF Reads
      <4>2. QED
        BY <3>2, <4>1 DEF KeyIf
    <3>3. QED
      BY <3>1, <3>2
  <2>2. QED
    BY <2>1, Zenon
<1>p3. q3 = q2 \o KeyIf(b.instance # "", "instance", b.instance)
  <2>1. KeyIf(Has(p, "instance"), "instance", At(p, "instance", "")) = KeyIf(b.instance # "", "instance", b.instance)
    <3>1. CASE b.instance = ""
      BY <1>3, <3>1 DEF Reads, KeyIf
    <3>2. CASE b.instance # ""
      <4>1. Has(p, "instance") /\ At(p, "instance", "") = b.instance
        BY <1>3, <3>2 DEF Reads
      <4>2. QED
        BY <3>2, <4>1 DEF KeyIf
    <3>3. QED
      BY <3>1, <3>2
  <2>2. QED
    BY <2>1, Zenon
<1>p4. q4 = q3 \o KeyIf(TRUE, "button", button)
  BY <1>2, Zenon
<1>p5. q5 = q4 \o KeyIf(TRUE, "modifiers", mods)
  BY <1>2, Zenon
<1>p6. q6 = q5 \o KeyIf(TRUE, "x", 5)
  BY <1>2, Zenon
<1> HIDE DEF q1, q2, q3, q4, q5, q6
<1>m1. IsList(q1) /\ More(q0, q1, TRUE, "unknown", 0)
  BY <1>p1, MoreKeys
<1>m2. IsList(q2) /\ More(q1, q2, b.name # "", "name", b.name)
  BY <1>m1, <1>p2, MoreKeys
<1>m3. IsList(q3) /\ More(q2, q3, b.instance # "", "instance", b.instance)
  BY <1>m2, <1>p3, MoreKeys
<1>m4. IsList(q4) /\ More(q3, q4, TRUE, "button", button)
  BY <1>m3, <1>p4, MoreKeys
<1>m5. IsList(q5) /\ More(q4, q5, TRUE, "modifiers", mods)
  BY <1>m4, <1>p5, MoreKeys
<1>m6. IsList(q6) /\ More(q5, q6, TRUE, "x", 5)
  BY <1>m5, <1>p6, MoreKeys
<1>4. /\ ~Has(q0, "name") /\ ~Has(q0, "instance") /\ ~Has(q0, "button") /\ ~Has(q0, "x") /\ ~Has(q0, "y")
      /\ ~Has(q0, "modifiers")
  BY <1>p1 DEF OnlyHas
<1>5. ASSUME NEW k, ~Has(q0, k), NEW d PROVE At(q0, k, d) = d
  BY <1>5 DEF At
<1>6. \A w : ~Holds(q0, "modifiers", w)
  BY <1>4 DEF Has, Holds
<1>7. ASSUME NEW k, k # "unknown", NEW d PROVE At(q1, k, d) = At(q0, k, d)
  BY <1>m1, <1>7 DEF More
<1>8. ASSUME NEW k, k # "name", NEW d PROVE At(q2, k, d) = At(q1, k, d)
  BY <1>m2, <1>8 DEF More
<1>9. ASSUME NEW k, k # "instance", NEW d PROVE At(q3, k, d) = At(q2, k, d)
  BY <1>m3, <1>9 DEF More
<1>10. ASSUME NEW k, k # "button", NEW d PROVE At(q4, k, d) = At(q3, k, d)
  BY <1>m4, <1>10 DEF More
<1>11. ASSUME NEW k, k # "modifiers", NEW d PROVE At(q5, k, d) = At(q4, k, d)
  BY <1>m5, <1>11 DEF More
<1>12. ASSUME NEW k, k # "x", NEW d PROVE At(q6, k, d) = At(q5, k, d)
  BY <1>m6, <1>12 DEF More
<1>13. At(q6, "name", "") = b.name
  <2>1. At(q1, "name", "") = ""
    <3>1. At(q0, "name", "") = ""
      BY <1>4, <1>5
    <3>2. "name" # "unknown"
      OBVIOUS
    <3>3. QED
      BY <1>7, <3>1, <3>2
  <2>2. At(q2, "name", "") = IF b.name # "" THEN b.name ELSE At(q1, "name", "")
    BY <1>m2 DEF More
  <2>3. At(q2, "name", "") = b.name
    BY <2>1, <2>2
  <2>4. At(q3, "name", "") = b.name
    BY <1>9, <2>3
  <2>5. At(q4, "name", "") = b.name
    BY <1>10, <2>4
  <2>6. At(q5, "name", "") = b.name
    BY <1>11, <2>5
  <2>7. QED
    BY <1>12, <2>6
<1>14. At(q6, "instance", "") = b.instance
  <2>1. At(q2, "instance", "") = ""
    <3>1. At(q0, "instance", "") = ""
      BY <1>4, <1>5
    <3>2. At(q1, "instance", "") = ""
      BY <1>7, <3>1
    <3>3. QED
      BY <1>8, <3>2
  <2>2. At(q3, "instance", "") = IF b.instance # "" THEN b.instance ELSE At(q2, "instance", "")
    BY <1>m3 DEF More
  <2>3. At(q3, "instance", "") = b.instance
    BY <2>1, <2>2
  <2>4. At(q4, "instance", "") = b.instance
    BY <1>10, <2>3
  <2>5. At(q5, "instance", "") = b.instance
    BY <1>11, <2>4
  <2>6. QED
    BY <1>12, <2>5
<1>15. At(q6, "button", 0) = button
  <2>1. At(q4, "button", 0) = button
    BY <1>m4 DEF More
  <2>2. QED
    BY <1>11, <1>12, <2>1
<1>16. At(q6, "x", 0) = 5
  BY <1>m6 DEF More
<1>17. At(q6, "y", 0) = 0
  <2>1. At(q0, "y", 0) = 0
    BY <1>4, <1>5
  <2>2. At(q1, "y", 0) = 0
    BY <1>7, <2>1
  <2>3. At(q2, "y", 0) = 0
    BY <1>8, <2>2
  <2>4. At(q3, "y", 0) = 0
    BY <1>9, <2>3
  <2>5. At(q4, "y", 0) = 0
    BY <1>10, <2>4
  <2>6. At(q5, "y", 0) = 0
    BY <1>11, <2>5
  <2>7. QED
    BY <1>12, <2>6
<1>18. ASSUME NEW w PROVE Holds(q6, "modifiers", w) <=> w = mods
  <2>1. ~Holds(q1, "modifiers", w)
    BY <1>6, <1>m1 DEF More
  <2>2. ~Holds(q2, "modifiers", w)
    BY <2>1, <1>m2 DEF More
  <2>3. ~Holds(q3, "modifiers", w)
    BY <2>2, <1>m3 DEF More
  <2>4. ~Holds(q4, "modifiers", w)
    BY <2>3, <1>m4 DEF More
  <2>5. Holds(q5, "modifiers", w) <=> w = mods
    BY <2>4, <1>m5 DEF More
  <2>6. QED
    BY <2>5, <1>m6 DEF More
<1>19. OnlyModifiers(q6, mods)
  BY <1>18 DEF OnlyModifiers
<1>20. QED
  BY <1>1, <1>13, <1>14, <1>15, <1>16, <1>17, <1>19

(* A click on a block names it: its name and instance, with the button and the
   modifiers of the click. *)
LEMMA ClickAlwaysFindsBlock ==
    ASSUME NEW b, IsBlock(b), NEW button, NEW mods PROVE ClickFindsBlock(b, button, mods)
<1> DEFINE q == Clicked(b, button, mods)
           e == FromJSON(q)
<1>1. /\ At(q, "name", "") = b.name /\ At(q, "instance", "") = b.instance
      /\ At(q, "button", 0) = button /\ At(q, "x", 0) = 5 /\ At(q, "y", 0) = 0
      /\ OnlyModifiers(q, mods)
  BY ClickIsRead
<1>2. Named(q) = NamesOf(mods)
  <2> HIDE DEF q
  <2>1. QED
    BY <1>1, NamedIs
<1>3. /\ e.name = At(q, "name", "") /\ e.instance = At(q, "instance", "")
      /\ e.button = At(q, "button", 0) /\ e.x = At(q, "x", 0) /\ e.y = At(q, "y", 0)
      /\ e.modifiers = {Modifiers[m] : m \in Named(q)}
  BY EventFields
<1>4. /\ e.name = b.name /\ e.instance = b.instance /\ e.button = button /\ e.x = 5 /\ e.y = 0
      /\ e.modifiers = {Modifiers[m] : m \in NamesOf(mods)}
  <2> HIDE DEF q, e
  <2>1. QED
    BY <1>1, <1>2, <1>3
<1>5. QED
  BY <1>4, Zenon DEF ClickFindsBlock, NamesOf

-----------------------------------------------------------------------------
(* The inputs of the questions about the protocol of the bar. *)
LEMMA EncodingInputs ==
    /\ "string" \in DOMAIN Inputs /\ "click" \in DOMAIN Inputs
    /\ Inputs["string"] \subseteq Quotes
    /\ \A x \in Inputs["click"] : IsBlock(x.block)
BY InputsAssumption

(* Whatever a string or a block holds, i3bar reads what is meant, and a click
   on the block names it (barproto). *)
THEOREM EncodingAlwaysSurvives == Spec => []EncodingSurvives
<1>1. Asked => EncodingSurvives
  <2> DEFINE x == in.x
  <2>1. SUFFICES ASSUME Asked PROVE EncodingSurvives
    OBVIOUS
  <2>2. ASSUME in.q = "string" PROVE StringSurvives(x.s, x.after)
    <3>1. x \in Quotes
      BY <2>1, <2>2, OfItsQuestion, EncodingInputs
    <3>2. x.s \in Seq(Nat) /\ x.after \in Seq(Nat)
      BY <3>1 DEF Quotes
    <3>3. QED
      BY <3>2, StringsAlwaysSurvive
  <2>3. ASSUME in.q = "click" PROVE BlockSurvives(x.block) /\ ClickFindsBlock(x.block, x.button, x.mods)
    <3>1. IsBlock(x.block)
      BY <2>1, <2>3, OfItsQuestion, EncodingInputs
    <3>2. QED
      BY <3>1, BlockAlwaysSurvives, ClickAlwaysFindsBlock
  <2>4. QED
    BY <2>2, <2>3 DEF EncodingSurvives
<1>2. QED
  BY <1>1, AlwaysAsked, PTL
=============================================================================
