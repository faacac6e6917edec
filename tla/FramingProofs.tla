--------------------------- MODULE FramingProofs -----------------------------
(***************************************************************************)
(* For any payloads, handles, numbers, limits and buffers: the readers of  *)
(* both libraries decode what the other side sent, in order, however the   *)
(* bytes arrive and whatever the pooled arrays held before.  Two parts:    *)
(* what one packet holds (encoding followed by decoding is the identity on *)
(* messages), and how a stream is cut into packets (the reader is always   *)
(* at the start or after the header of the packet it decodes next).        *)
(***************************************************************************)
EXTENDS Framing, WellFoundedInduction, TLAPS

(* A nonempty set of naturals has a least element; proofs by induction    *)
(* below look at the least counterexample.                                *)
LEMMA Least ==
  ASSUME NEW T \in SUBSET Nat, T # {}
  PROVE  \E m \in T : \A k \in T : m =< k
<1> DEFINE R == OpToRel(<, Nat)
<1>1. \A x, y \in Nat : x < y => <<x, y>> \in R
  BY Zenon DEF OpToRel
<1>2. IsWellFoundedOn(R, Nat)
  BY NatLessThanWellFounded, Zenon
<1> HIDE DEF R
<1>3. PICK m \in T : \A y \in T : ~ (<<y, m>> \in R)
  BY <1>2, WFMin, Zenon
<1>4. \A y \in T : ~(y < m) /\ y \in Nat /\ m \in Nat
  BY <1>1, <1>3, Zenon
<1> QED
  BY <1>4

(* A recursive definition: where it stops and what it is there, the        *)
(* argument it goes on with and what it makes of the value there.          *)
WellDefined(V, stop, base, pred, step) ==
  /\ \A n \in Nat \cap stop : base[n] \in V
  /\ \A n \in Nat \ stop : pred[n] \in 0 .. n - 1
  /\ \A n \in Nat \ stop : \A v \in V : step[n][v] \in V

(* f is what the definition says.                                          *)
Solves(f, stop, base, pred, step) ==
  \A n \in Nat : f[n] = IF n \in stop THEN base[n] ELSE step[n][f[pred[n]]]

(* A definition by recursion whose argument descends has a solution, so    *)
(* the function the definition names is one.                               *)
LEMMA Recursion ==
  ASSUME NEW V, NEW stop, NEW base, NEW pred, NEW step, WellDefined(V, stop, base, pred, step)
  PROVE  \E f \in [Nat -> V] : Solves(f, stop, base, pred, step)
<1> USE DEF WellDefined
<1> DEFINE E(g, n) == IF n \in stop THEN base[n] ELSE step[n][g[pred[n]]]
           Good(k) == {g \in [0 .. k -> V] : \A n \in 0 .. k : g[n] = E(g, n)}
<1>1. ASSUME NEW k \in Nat PROVE Good(k) # {}
  <2> DEFINE T == {i \in Nat : Good(i) = {}}
  <2> SUFFICES ASSUME T # {} PROVE FALSE
    OBVIOUS
  <2>0. T \in SUBSET Nat
    OBVIOUS
  <2> HIDE DEF T
  <2>1. PICK m \in T : \A i \in T : m =< i
    BY Zenon, <2>0, Least
  <2>a. m \in Nat /\ (m # 0 => m - 1 \in Nat /\ m - 1 \notin T)
    BY <2>0, <2>1
  <2>b. Good(m) = {}
    BY <2>1, Zenon DEF T
  <2>2. CASE m \in stop /\ m = 0
    <3> DEFINE g == [i \in 0 .. 0 |-> base[0]]
    <3>1. g \in Good(m)
      BY <2>2
    <3> QED
      BY <2>b, <3>1, Zenon
  <2>3. CASE m # 0
    <3>1. Good(m - 1) # {} /\ m \in Nat
      BY <2>a, <2>3, Zenon DEF T
    <3>2. PICK h \in Good(m - 1) : TRUE
      BY Zenon, <3>1
    <3>a. h \in [0 .. m - 1 -> V] /\ \A n \in 0 .. m - 1 : h[n] = E(h, n)
      BY Zenon, <3>2
    <3> DEFINE g == [i \in 0 .. m |-> IF i = m THEN E(h, m) ELSE h[i]]
    <3>3. E(h, m) \in V
      BY Zenon, <3>1, <3>a
    <3>4. g \in [0 .. m -> V]
      BY <3>1, <3>a, <3>3
    <3>5. ASSUME NEW n \in 0 .. m PROVE g[n] = E(g, n)
      BY <3>1, <3>a, <3>5
    <3>6. g \in Good(m)
      BY Zenon, <3>4, <3>5
    <3> QED
      BY <2>b, <3>6, Zenon
  <2>4. 0 \in stop
    OBVIOUS
  <2> QED
    BY Zenon, <2>2, <2>3, <2>4
<1>2. ASSUME NEW k \in Nat, NEW l \in Nat, NEW g \in Good(k), NEW h \in Good(l), NEW n \in Nat, n =< k, n =< l
      PROVE  g[n] = h[n]
  <2> DEFINE T == {i \in Nat : i =< k /\ i =< l /\ g[i] # h[i]}
  <2> SUFFICES ASSUME T # {} PROVE FALSE
    BY Zenon, <1>2
  <2>1. PICK m \in T : \A i \in T : m =< i
    <3> HIDE DEF T
    <3>1. T \in SUBSET Nat
      BY Zenon DEF T
    <3> QED
      BY Zenon, <3>1, Least
  <2>2. m \in 0 .. k /\ m \in 0 .. l /\ m \in Nat /\ g[m] # h[m]
    BY <2>1
  <2>3. g[m] = E(g, m) /\ h[m] = E(h, m)
    BY Zenon, <2>2
  <2>4. m \notin stop
    BY Zenon, <2>2, <2>3
  <2>5. pred[m] \in Nat /\ pred[m] < m
    BY <2>2, <2>4
  <2>6. g[pred[m]] = h[pred[m]]
    BY <2>1, <2>2, <2>5
  <2> QED
    BY Zenon, <2>2, <2>3, <2>6
<1> DEFINE G(n) == CHOOSE g : g \in Good(n)
           f == [n \in Nat |-> G(n)[n]]
<1>3. \A n \in Nat : G(n) \in Good(n)
  BY <1>1, Zenon
<1>a. \A n \in Nat : n \in 0 .. n
  OBVIOUS
<1>b. \A n \in Nat : G(n) \in [0 .. n -> V] /\ G(n)[n] = E(G(n), n)
  <2> HIDE DEF G
  <2> QED
    BY Zenon, <1>3, <1>a
<1>4. f \in [Nat -> V]
  <2> HIDE DEF G
  <2> QED
    BY Zenon, <1>a, <1>b
<1>5. ASSUME NEW n \in Nat PROVE f[n] = E(f, n)
  <2>1. f[n] = E(G(n), n)
    <3>1. f[n] = G(n)[n]
      BY Zenon
    <3> HIDE DEF f, G
    <3> QED
      BY Zenon, <1>b, <3>1
  <2>2. CASE n \in stop
    BY Zenon, <2>1, <2>2
  <2>3. CASE n \notin stop
    <3>1. pred[n] \in Nat /\ pred[n] =< n
      BY <2>3
    <3>2. G(pred[n]) \in Good(pred[n]) /\ G(n) \in Good(n)
      BY Zenon, <1>3, <3>1
    <3>3. G(pred[n])[pred[n]] = G(n)[pred[n]]
      <4> HIDE DEF Good, G
      <4> QED
        BY <1>2, <3>1, <3>2
    <3>4. f[pred[n]] = G(n)[pred[n]]
      BY Zenon, <3>1, <3>3
    <3> HIDE DEF f, G
    <3> QED
      BY Zenon, <2>1, <2>3, <3>4
  <2> QED
    BY Zenon, <2>2, <2>3
<1> QED
  BY Zenon, <1>4, <1>5 DEF Solves

-----------------------------------------------------------------------------
(* strconv.Itoa and ParseUint.                                             *)

(* Division by ten descends.                                               *)
LEMMA DivTen ==
  ASSUME NEW n \in Nat, n >= 10
  PROVE  /\ n \div 10 \in 0 .. n - 1
         /\ n % 10 \in 0 .. 9
         /\ n = 10 * (n \div 10) + (n % 10)
OBVIOUS

(* The decimal digits of a number: those of its tenth, then one.           *)
LEMMA DigitsStep ==
  \A n \in Nat : Digits[n] = IF n < 10 THEN <<48 + n>> ELSE Append(Digits[n \div 10], 48 + (n % 10))
<1> DEFINE base == [n \in Nat |-> <<48 + n>>]
           pred == [n \in Nat |-> n \div 10]
           step == [n \in Nat |-> [v \in Seq(Nat) |-> Append(v, 48 + (n % 10))]]
<1>1. \A n \in Nat \cap 0 .. 9 : base[n] \in Seq(Nat)
  OBVIOUS
<1>2. \A n \in Nat \ (0 .. 9) : pred[n] \in 0 .. n - 1
  BY DivTen
<1>3. \A n \in Nat \ (0 .. 9) : \A v \in Seq(Nat) : step[n][v] \in Seq(Nat)
  BY DivTen
<1>4. PICK f \in [Nat -> Seq(Nat)] : Solves(f, 0 .. 9, base, pred, step)
  <2> HIDE DEF base, pred, step
  <2>1. WellDefined(Seq(Nat), 0 .. 9, base, pred, step)
    BY <1>1, <1>2, <1>3, Zenon DEF WellDefined
  <2> QED
    BY <2>1, Recursion, Zenon
<1>5. \A n \in Nat : f[n] = IF n < 10 THEN <<48 + n>> ELSE Append(f[n \div 10], 48 + (n % 10))
  <2> SUFFICES ASSUME NEW n \in Nat
               PROVE  f[n] = IF n < 10 THEN <<48 + n>> ELSE Append(f[n \div 10], 48 + (n % 10))
    BY Zenon
  <2>1. CASE n < 10
    <3>1. n \in 0 .. 9
      BY <2>1
    <3>2. f[n] = base[n]
      BY <1>4, <3>1, Zenon DEF Solves
    <3> QED
      BY Zenon, <2>1, <3>2
  <2>2. CASE n >= 10
    <3>1. n \notin 0 .. 9 /\ n \div 10 \in Nat /\ ~(n < 10)
      BY <2>2, DivTen
    <3>2. f[n] = step[n][f[pred[n]]]
      BY <1>4, <3>1, Zenon DEF Solves
    <3>3. pred[n] = n \div 10 /\ f[n \div 10] \in Seq(Nat)
      BY Zenon, <3>1
    <3>4. step[n][f[n \div 10]] = Append(f[n \div 10], 48 + (n % 10))
      BY Zenon, <3>3
    <3> QED
      BY <3>1, <3>2, <3>3, <3>4, Zenon
  <2> QED
    BY <2>1, <2>2
<1>6. f = [n \in Nat |-> IF n < 10 THEN <<48 + n>> ELSE Append(f[n \div 10], 48 + (n % 10))]
  BY Zenon, <1>5
<1>7. Digits = [n \in Nat |-> IF n < 10 THEN <<48 + n>> ELSE Append(Digits[n \div 10], 48 + (n % 10))]
  BY Zenon, <1>6 DEF Digits
<1> QED
  BY Zenon, <1>7

(* The value of a text: that of all but its last character, and that       *)
(* character.                                                              *)
LEMMA ValueStep ==
  ASSUME NEW s \in Seq(Int)
  PROVE  \E v \in [0 .. Len(s) -> Int] :
           /\ v[0] = 0 /\ Value(s) = v[Len(s)]
           /\ \A i \in 1 .. Len(s) : v[i] = 10 * v[i - 1] + (s[i] - 48)
<1> DEFINE pred == [i \in Nat |-> i - 1]
           step == [i \in Nat |-> [n \in Int |-> IF i \in 1 .. Len(s) THEN 10 * n + (s[i] - 48) ELSE 0]]
           base == [i \in {0} |-> 0]
<1>0. Len(s) \in Nat /\ \A i \in 1 .. Len(s) : s[i] \in Int
  OBVIOUS
<1>1. \A i \in Nat \cap {0} : base[i] \in Int
  OBVIOUS
<1>2. \A i \in Nat \ {0} : pred[i] \in 0 .. i - 1
  OBVIOUS
<1>3. \A i \in Nat \ {0} : \A n \in Int : step[i][n] \in Int
  OBVIOUS
<1>4. PICK f \in [Nat -> Int] : Solves(f, {0}, base, pred, step)
  <2> HIDE DEF base, pred, step
  <2>1. WellDefined(Int, {0}, base, pred, step)
    BY <1>1, <1>2, <1>3, Zenon DEF WellDefined
  <2> QED
    BY <2>1, Recursion, Zenon
<1>5. f[0] = 0
  BY Zenon, <1>4 DEF Solves
<1>6. ASSUME NEW i \in 1 .. Len(s) PROVE f[i] = 10 * f[i - 1] + (s[i] - 48)
  <2>1. i \in Nat /\ i \notin {0} /\ i - 1 \in Nat
    BY <1>0
  <2>2. f[i] = step[i][f[pred[i]]]
    BY <1>4, <2>1, Zenon DEF Solves
  <2>3. pred[i] = i - 1 /\ f[i - 1] \in Int
    BY Zenon, <2>1
  <2>4. step[i][f[i - 1]] = 10 * f[i - 1] + (s[i] - 48)
    BY Zenon, <2>1, <2>3
  <2> QED
    BY <2>2, <2>3, <2>4, Zenon
<1> DEFINE w == [i \in 0 .. Len(s) |-> f[i]]
<1>7. w = [i \in 0 .. Len(s) |-> IF i = 0 THEN 0 ELSE 10 * w[i - 1] + (s[i] - 48)]
  <2> SUFFICES ASSUME NEW i \in 0 .. Len(s)
               PROVE  w[i] = IF i = 0 THEN 0 ELSE 10 * w[i - 1] + (s[i] - 48)
    BY Zenon
  <2>1. CASE i = 0
    BY Zenon, <1>5, <2>1
  <2>2. CASE i # 0
    <3>1. i \in 1 .. Len(s) /\ i - 1 \in 0 .. Len(s)
      BY <1>0, <2>2
    <3>2. w[i] = f[i] /\ w[i - 1] = f[i - 1]
      BY Zenon, <3>1
    <3> HIDE DEF w
    <3> QED
      BY Zenon, <1>6, <2>2, <3>1, <3>2
  <2> QED
    BY Zenon, <2>1, <2>2
<1>8. PICK v : /\ v = [i \in 0 .. Len(s) |-> IF i = 0 THEN 0 ELSE 10 * v[i - 1] + (s[i] - 48)]
               /\ Value(s) = v[Len(s)]
  <2> HIDE DEF w
  <2> QED
    BY Zenon, <1>7 DEF Value
<1>9. v[0] = 0 /\ \A i \in 1 .. Len(s) : v[i] = 10 * v[i - 1] + (s[i] - 48)
  <2>1. \A i \in 0 .. Len(s) : v[i] = IF i = 0 THEN 0 ELSE 10 * v[i - 1] + (s[i] - 48)
    BY <1>8, Zenon
  <2>2. 0 \in 0 .. Len(s) /\ \A i \in 1 .. Len(s) : i \in 0 .. Len(s) /\ i # 0
    BY <1>0
  <2> QED
    BY <2>1, <2>2, Zenon
<1>10. ASSUME NEW i \in 0 .. Len(s) PROVE v[i] \in Int
  <2> DEFINE T == {k \in 0 .. Len(s) : v[k] \notin Int}
  <2> SUFFICES ASSUME T # {} PROVE FALSE
    BY Zenon, <1>10
  <2>0. T \in SUBSET Nat
    OBVIOUS
  <2>1. PICK m \in T : \A k \in T : m =< k
    <3> HIDE DEF T
    <3> QED
      BY Zenon, <2>0, Least
  <2>a. m \in 0 .. Len(s) /\ v[m] \notin Int
    BY Zenon, <2>1
  <2>b. m # 0
    BY <1>9, <2>a
  <2>c. m \in 1 .. Len(s) /\ m - 1 \in 0 .. Len(s) /\ ~(m =< m - 1)
    BY <1>0, <2>a, <2>b
  <2>d. m - 1 \notin T
    BY <2>1, <2>c, Zenon
  <2>2. v[m - 1] \in Int
    BY Zenon, <2>c, <2>d
  <2>3. v[m] = 10 * v[m - 1] + (s[m] - 48) /\ s[m] \in Int
    BY Zenon, <1>0, <1>9, <2>c
  <2>4. \A x, y \in Int : 10 * x + (y - 48) \in Int
    OBVIOUS
  <2> QED
    BY <2>a, <2>2, <2>3, <2>4, Zenon
<1>11. v \in [0 .. Len(s) -> Int]
  BY Zenon, <1>8, <1>10
<1> QED
  BY Zenon, <1>8, <1>9, <1>11

(* One more character.                                                     *)
LEMMA ValueAppend ==
  ASSUME NEW s \in Seq(Int), NEW c \in Int
  PROVE  Value(Append(s, c)) = 10 * Value(s) + (c - 48)
<1>1. PICK v \in [0 .. Len(s) -> Int] :
               /\ v[0] = 0 /\ Value(s) = v[Len(s)]
               /\ \A i \in 1 .. Len(s) : v[i] = 10 * v[i - 1] + (s[i] - 48)
  BY Zenon, ValueStep
<1> DEFINE t == Append(s, c)
<1>2. t \in Seq(Int) /\ Len(t) = Len(s) + 1 /\ t[Len(s) + 1] = c /\ \A i \in 1 .. Len(s) : t[i] = s[i]
  OBVIOUS
<1> HIDE DEF t
<1>3. PICK w \in [0 .. Len(t) -> Int] :
               /\ w[0] = 0 /\ Value(t) = w[Len(t)]
               /\ \A i \in 1 .. Len(t) : w[i] = 10 * w[i - 1] + (t[i] - 48)
  BY Zenon, <1>2, ValueStep
<1>4. ASSUME NEW i \in 0 .. Len(s) PROVE v[i] = w[i]
  <2> DEFINE T == {k \in 0 .. Len(s) : v[k] # w[k]}
  <2> SUFFICES ASSUME T # {} PROVE FALSE
    BY Zenon, <1>4
  <2>1. PICK m \in T : \A k \in T : m =< k
    <3>1. T \in SUBSET Nat
      OBVIOUS
    <3> HIDE DEF T
    <3> QED
      BY Zenon, <3>1, Least
  <2>a. m \in 0 .. Len(s) /\ v[m] # w[m] /\ Len(s) \in Nat
    BY <2>1
  <2>b. m # 0
    BY Zenon, <1>1, <1>3, <2>a
  <2>c. m \in 1 .. Len(s) /\ m \in 1 .. Len(t) /\ m - 1 \in 0 .. Len(s) /\ ~(m =< m - 1)
    BY <1>2, <2>a, <2>b
  <2>d. m - 1 \notin T
    BY <2>1, <2>c, Zenon
  <2>e. v[m - 1] = w[m - 1]
    BY Zenon, <2>c, <2>d
  <2>f. v[m] = 10 * v[m - 1] + (s[m] - 48) /\ w[m] = 10 * w[m - 1] + (t[m] - 48) /\ t[m] = s[m]
    BY <1>1, <1>2, <1>3, <2>c, Zenon
  <2> QED
    BY <2>a, <2>e, <2>f, Zenon
<1>5. Value(t) = 10 * w[Len(s)] + (c - 48)
  <2>1. Len(t) \in 1 .. Len(t) /\ Len(t) - 1 = Len(s) /\ t[Len(t)] = c
    BY <1>2
  <2> QED
    BY <1>3, <2>1, Zenon
<1> QED
  BY <1>1, <1>4, <1>5 DEF t

(* The value of one character.                                             *)
LEMMA ValueOne ==
  ASSUME NEW c \in Int
  PROVE  Value(<<c>>) = c - 48
<1>1. PICK v \in [0 .. 1 -> Int] :
               /\ v[0] = 0 /\ Value(<<c>>) = v[1]
               /\ \A i \in 1 .. 1 : v[i] = 10 * v[i - 1] + (<<c>>[i] - 48)
  <2>1. <<c>> \in Seq(Int) /\ Len(<<c>>) = 1
    OBVIOUS
  <2> QED
    BY Zenon, <2>1, ValueStep
<1> QED
  BY <1>1

(* What Itoa writes of a natural number, ParseUint reads back.             *)
LEMMA DigitsValue ==
  ASSUME NEW n \in Nat
  PROVE  /\ Digits[n] \in Seq(48 .. 57) /\ Digits[n] # << >>
         /\ Value(Digits[n]) = n
<1> DEFINE Read(k) == Digits[k] \in Seq(48 .. 57) /\ Digits[k] # << >> /\ Value(Digits[k]) = k
           T == {k \in Nat : ~Read(k)}
<1> SUFFICES ASSUME T # {} PROVE FALSE
  OBVIOUS
<1>0. T \in SUBSET Nat
  OBVIOUS
<1> HIDE DEF T
<1>1. PICK m \in T : \A k \in T : m =< k
  BY Zenon, <1>0, Least
<1>2. m \in Nat /\ \A k \in 0 .. m - 1 : k \notin T /\ k \in Nat
  BY <1>0, <1>1
<1>3. \A k \in 0 .. m - 1 : Read(k)
  BY <1>2, Zenon DEF T
<1>4. ~Read(m)
  BY Zenon, <1>1 DEF T
<1>5. CASE m < 10
  <2>1. Digits[m] = <<48 + m>>
    BY Zenon, <1>2, <1>5, DigitsStep
  <2>2. Value(<<48 + m>>) = m
    BY <1>2, ValueOne
  <2>3. <<48 + m>> \in Seq(48 .. 57) /\ <<48 + m>> # << >>
    BY <1>2, <1>5
  <2> QED
    BY Zenon, <1>4, <2>1, <2>2, <2>3
<1>6. CASE m >= 10
  <2> DEFINE k == m \div 10
  <2>1. k \in 0 .. m - 1 /\ m % 10 \in 0 .. 9 /\ m = 10 * k + (m % 10)
    BY Zenon, <1>2, <1>6, DivTen
  <2>2. Digits[m] = Append(Digits[k], 48 + (m % 10))
    <3>1. ~(m < 10)
      BY <1>2, <1>6
    <3> QED
      BY <1>2, <3>1, DigitsStep, Zenon
  <2> HIDE DEF k
  <2>3. Read(k)
    BY Zenon, <1>3, <2>1
  <2>4. Value(Digits[m]) = 10 * k + (m % 10)
    <3>1. Digits[k] \in Seq(Int)
      BY <2>3
    <3>a. 48 + (m % 10) \in Int
      BY <2>1
    <3>2. Value(Digits[m]) = 10 * Value(Digits[k]) + ((48 + (m % 10)) - 48)
      BY <2>2, <3>a, <3>1, ValueAppend, Zenon
    <3> QED
      BY <2>1, <2>3, <3>2
  <2>5. Digits[m] \in Seq(48 .. 57) /\ Digits[m] # << >>
    <3>1. 48 + (m % 10) \in 48 .. 57
      BY <2>1
    <3>2. \A d \in Seq(48 .. 57), c \in 48 .. 57 : Append(d, c) \in Seq(48 .. 57) /\ Append(d, c) # << >>
      OBVIOUS
    <3> QED
      BY <2>2, <2>3, <3>1, <3>2, Zenon
  <2> QED
    BY Zenon, <1>4, <2>1, <2>4, <2>5
<1> QED
  BY <1>2, <1>5, <1>6

(* ParseUint of Itoa(n) is n for a natural number, and an error for a      *)
(* negative one.                                                           *)
LEMMA ItoaParsed ==
  ASSUME NEW n \in Int
  PROVE  /\ Itoa(n) \in Seq(45 .. 57) /\ Itoa(n) # << >>
         /\ ParseUint(Itoa(n)) = IF n < 0 THEN Invalid ELSE n
<1>1. CASE n >= 0
  <2>1. Itoa(n) = Digits[n] /\ n \in Nat
    BY <1>1 DEF Itoa
  <2>2. Digits[n] \in Seq(48 .. 57) /\ Digits[n] # << >> /\ Value(Digits[n]) = n
    BY Zenon, <2>1, DigitsValue
  <2>3. \A i \in DOMAIN Digits[n] : Digits[n][i] \in 48 .. 57
    BY <2>2
  <2>4. ParseUint(Digits[n]) = n
    BY <2>2, <2>3, Zenon DEF ParseUint
  <2>5. Digits[n] \in Seq(45 .. 57)
    BY <2>2
  <2> QED
    BY <1>1, <2>1, <2>2, <2>4, <2>5
<1>2. CASE n < 0
  <2> DEFINE d == Digits[-n]
  <2>1. d \in Seq(48 .. 57) /\ Itoa(n) = <<45>> \o d
    BY <1>2, DigitsValue DEF Itoa
  <2> HIDE DEF d
  <2>2. <<45>> \o d \in Seq(45 .. 57) /\ <<45>> \o d # << >> /\ (<<45>> \o d)[1] = 45
        /\ 1 \in DOMAIN (<<45>> \o d) /\ 45 \notin 48 .. 57
    BY <2>1
  <2>3. ParseUint(<<45>> \o d) = Invalid
    BY <2>2, Zenon DEF ParseUint
  <2> QED
    BY Zenon, <1>2, <2>1, <2>2, <2>3
<1> QED
  BY <1>1, <1>2

-----------------------------------------------------------------------------
(* Fields: what is before and after the first separator.                   *)

(* A sequence over a set is one over a larger set.                         *)
LEMMA SeqOfMore ==
  ASSUME NEW S, NEW T, NEW s \in Seq(S), S \subseteq T
  PROVE  s \in Seq(T)
OBVIOUS

(* The elements of a sequence.                                             *)
LEMMA SeqElement ==
  ASSUME NEW S, NEW s \in Seq(S), NEW i \in 1 .. Len(s)
  PROVE  s[i] \in S
OBVIOUS

(* A concatenation, by index.                                              *)
LEMMA CatSeq ==
  ASSUME NEW a \in Seq(Int), NEW b \in Seq(Int)
  PROVE  /\ a \o b \in Seq(Int) /\ Len(a \o b) = Len(a) + Len(b) /\ Len(a) \in Nat /\ Len(b) \in Nat
         /\ DOMAIN (a \o b) = 1 .. Len(a) + Len(b) /\ DOMAIN a = 1 .. Len(a) /\ DOMAIN b = 1 .. Len(b)
         /\ \A i \in 1 .. Len(a) : (a \o b)[i] = a[i]
         /\ \A i \in 1 .. Len(b) : (a \o b)[Len(a) + i] = b[i]
OBVIOUS

(* Sequences with the same elements are equal.                             *)
LEMMA SameSeq ==
  ASSUME NEW a \in Seq(Int), NEW b \in Seq(Int), Len(a) = Len(b), \A i \in 1 .. Len(b) : a[i] = b[i]
  PROVE  a = b
OBVIOUS

(* A text without NUL has no index of one.                                 *)
LEMMA NoNUL ==
  ASSUME NEW s \in Seq(Int), IndexNUL(s) = 0
  PROVE  \A i \in 1 .. Len(s) : s[i] # 0
<1> DEFINE at == {i \in DOMAIN s : s[i] = 0}
<1> SUFFICES ASSUME at # {} PROVE FALSE
  OBVIOUS
<1>1. at \in SUBSET Nat /\ 0 \notin at
  OBVIOUS
<1>2. IndexNUL(s) = Min(at)
  BY Zenon DEF IndexNUL
<1> HIDE DEF at
<1>3. \E m \in at : \A k \in at : m =< k
  BY <1>1, Least, Zenon
<1>4. Min(at) \in at
  BY <1>3, Zenon DEF Min
<1> QED
  BY <1>1, <1>2, <1>4, Zenon

(* The first NUL of a text.                                                *)
LEMMA FirstNUL ==
  ASSUME NEW s \in Seq(Int), NEW k \in 1 .. Len(s), s[k] = 0, \A i \in 1 .. k - 1 : s[i] # 0
  PROVE  IndexNUL(s) = k
<1> DEFINE at == {i \in DOMAIN s : s[i] = 0}
<1>1. k \in at /\ \A i \in at : k =< i /\ i \in Nat
  OBVIOUS
<1>2. IndexNUL(s) = Min(at)
  BY Zenon, <1>1 DEF IndexNUL
<1> HIDE DEF at
<1>3. Min(at) \in at /\ \A i \in at : Min(at) =< i
  BY <1>1, Zenon DEF Min
<1>4. Min(at) =< k /\ k =< Min(at)
  BY <1>1, <1>3, Zenon
<1>5. Min(at) \in Nat /\ k \in Nat
  BY Zenon, <1>1, <1>3
<1> QED
  BY <1>2, <1>4, <1>5

(* bytes.SplitN and bytes.IndexByte find the separator that was put in.    *)
LEMMA Fields ==
  ASSUME NEW a \in Seq(Int), NEW b \in Seq(Int), IndexNUL(a) = 0
  PROVE  /\ IndexNUL(a \o NUL \o b) = Len(a) + 1
         /\ Before(a \o NUL \o b) = a /\ After(a \o NUL \o b) = b
<1> DEFINE c == a \o NUL
           s == c \o b
<1>1. /\ c \in Seq(Int) /\ Len(c) = Len(a) + 1 /\ Len(a) \in Nat /\ c[Len(a) + 1] = 0
      /\ \A i \in 1 .. Len(a) : c[i] = a[i]
  BY DEF NUL
<1> HIDE DEF c
<1>2. /\ s \in Seq(Int) /\ Len(s) = Len(a) + 1 + Len(b) /\ Len(b) \in Nat
      /\ \A i \in 1 .. Len(a) : s[i] = a[i]
      /\ s[Len(a) + 1] = 0
      /\ \A i \in 1 .. Len(b) : s[Len(a) + 1 + i] = b[i]
  <2>1. /\ s \in Seq(Int) /\ Len(s) = Len(c) + Len(b) /\ Len(b) \in Nat
        /\ \A i \in 1 .. Len(c) : s[i] = c[i]
        /\ \A i \in 1 .. Len(b) : s[Len(c) + i] = b[i]
    BY <1>1, CatSeq, Zenon
  <2>2. \A i \in 1 .. Len(a) : i \in 1 .. Len(c)
    BY <1>1
  <2>3. Len(a) + 1 \in 1 .. Len(c)
    BY <1>1
  <2> HIDE DEF s
  <2> QED
    BY <1>1, <2>1, <2>2, <2>3, Zenon
<1> HIDE DEF s
<1>3. \A i \in 1 .. Len(a) : s[i] # 0
  BY ZenonT(30), <1>2, NoNUL
<1>4. IndexNUL(s) = Len(a) + 1
  <2>1. Len(a) + 1 \in 1 .. Len(s) /\ (Len(a) + 1) - 1 = Len(a)
    BY <1>1, <1>2
  <2>2. \A i \in 1 .. (Len(a) + 1) - 1 : s[i] # 0
    BY <1>3, <2>1, Zenon
  <2> QED
    BY <1>2, <2>1, <2>2, FirstNUL, Zenon
<1>5. Before(s) = SubSeq(s, 1, Len(a)) /\ After(s) = SubSeq(s, Len(a) + 2, Len(s))
  BY <1>1, <1>4 DEF Before, After
<1>6. SubSeq(s, 1, Len(a)) = a
  BY <1>1, <1>2
<1>7. SubSeq(s, Len(a) + 2, Len(s)) = b
  <2>1. Len(s) - (Len(a) + 2) + 1 = Len(b)
    BY <1>1, <1>2
  <2> DEFINE r == SubSeq(s, Len(a) + 2, Len(s))
  <2>2. r \in Seq(Int) /\ Len(r) = Len(b)
    BY <1>1, <1>2
  <2>3. ASSUME NEW i \in 1 .. Len(b) PROVE r[i] = s[Len(a) + 1 + i]
    <3>1. i \in 1 .. Len(s) - (Len(a) + 2) + 1 /\ (Len(a) + 2) + i - 1 = Len(a) + 1 + i
      BY <1>1, <1>2
    <3>2. r[i] = s[(Len(a) + 2) + i - 1]
      BY <1>1, <1>2, <3>1
    <3> QED
      BY <3>1, <3>2, Zenon
  <2> HIDE DEF r
  <2>4. \A i \in 1 .. Len(b) : r[i] = b[i]
    BY <1>2, <2>3, Zenon
  <2>5. r = b
    BY <2>2, <2>4, SameSeq, Zenon
  <2> QED
    BY Zenon, <2>5 DEF r
<1> QED
  BY Zenon, <1>4, <1>5, <1>6, <1>7 DEF c, s

-----------------------------------------------------------------------------
(* Packets: the header and the body.                                       *)

(* p is the packet with this header and this body.                         *)
IsPacket(p, magic, type, body) ==
  /\ p \in Seq(Int) /\ Len(p) = 3 + Len(body) /\ Len(body) \in Nat
  /\ p[1] = magic /\ p[2] = type /\ p[3] = Len(body)
  /\ \A i \in 1 .. Len(body) : p[3 + i] = body[i]

(* The header and the body of a packet, by index.                          *)
LEMMA PacketParts ==
  ASSUME NEW magic \in Int, NEW type \in Int, NEW body \in Seq(Int)
  PROVE  IsPacket(newPacket(magic, type, body), magic, type, body)
<1> DEFINE h == <<magic, type, Len(body)>>
<1>1. h \in Seq(Int) /\ Len(h) = 3 /\ h[1] = magic /\ h[2] = type /\ h[3] = Len(body)
      /\ 1 \in 1 .. 3 /\ 2 \in 1 .. 3 /\ 3 \in 1 .. 3
  OBVIOUS
<1>2. newPacket(magic, type, body) = h \o body
  BY Zenon DEF newPacket
<1> HIDE DEF h
<1>3. /\ h \o body \in Seq(Int) /\ Len(h \o body) = Len(h) + Len(body) /\ Len(body) \in Nat
      /\ \A i \in 1 .. Len(h) : (h \o body)[i] = h[i]
      /\ \A i \in 1 .. Len(body) : (h \o body)[Len(h) + i] = body[i]
  BY <1>1, CatSeq, Zenon
<1> QED
  BY <1>1, <1>2, <1>3, Zenon DEF IsPacket

(* What follows the header of a packet is its body.                        *)
LEMMA PacketBody ==
  ASSUME NEW magic \in Int, NEW type \in Int, NEW body \in Seq(Int)
  PROVE  /\ Type(newPacket(magic, type, body)) = type
         /\ Body(newPacket(magic, type, body)) = body
         /\ ~Truncated(newPacket(magic, type, body))
<1> DEFINE p == newPacket(magic, type, body)
<1>0. IsPacket(p, magic, type, body)
  BY PacketParts, Zenon
<1> HIDE DEF p
<1>1. /\ p \in Seq(Int) /\ Len(p) = 3 + Len(body) /\ Len(body) \in Nat
      /\ p[2] = type /\ p[3] = Len(body)
      /\ \A i \in 1 .. Len(body) : p[3 + i] = body[i]
  BY <1>0, Zenon DEF IsPacket
<1> DEFINE b == SubSeq(p, 4, 3 + Len(body))
<1>2. b \in Seq(Int) /\ Len(b) = Len(body)
  BY <1>1
<1>3. ASSUME NEW i \in 1 .. Len(body) PROVE b[i] = p[3 + i]
  <2>1. 4 + i - 1 = 3 + i
    BY <1>1
  <2>2. b[i] = p[4 + i - 1]
    BY <1>1
  <2> QED
    BY <2>1, <2>2, Zenon
<1>4. b = body
  <2> HIDE DEF b
  <2> QED
    BY Zenon, <1>1, <1>2, <1>3, SameSeq
<1>5. Type(p) = type /\ Body(p) = b
  BY <1>1 DEF Type, Body, MinPacketLength
<1>6. ~Truncated(p)
  BY <1>1 DEF Truncated, MinPacketLength
<1> QED
  BY Zenon, <1>4, <1>5, <1>6 DEF p

(* The body agent.write puts on the wire.                                  *)
OutBody(out) ==
  IF out.type = dt.WorkFail THEN out.handle
  ELSE IF out.handle = << >> THEN out.data ELSE out.handle \o NUL \o out.data

(* An outgoing packet has its types.                                       *)
IsOut(out) == out.type \in Int /\ out.data \in Seq(Int) /\ out.handle \in Seq(Int)

(* The body of an outgoing packet, by index.                               *)
LEMMA OutBodyAt ==
  ASSUME NEW out, IsOut(out)
  PROVE  /\ OutBody(out) \in Seq(Int)
         /\ EncodedLen(out) = 3 + Len(OutBody(out)) /\ Len(OutBody(out)) \in Nat
<1> DEFINE h == out.handle
           d == out.data
           c == h \o NUL
<1>1. h \in Seq(Int) /\ d \in Seq(Int) /\ Len(h) \in Nat /\ Len(d) \in Nat
  BY DEF IsOut
<1>2. c \in Seq(Int) /\ Len(c) = Len(h) + 1
  BY <1>1 DEF NUL
<1>3. c \o d \in Seq(Int) /\ Len(c \o d) = Len(c) + Len(d)
  BY <1>1, <1>2, CatSeq, Zenon
<1>4. CASE out.type = dt.WorkFail
  BY Zenon, <1>1, <1>4 DEF OutBody, EncodedLen, MinPacketLength
<1>5. CASE out.type # dt.WorkFail /\ h = << >>
  BY <1>1, <1>5 DEF OutBody, EncodedLen, MinPacketLength
<1>6. CASE out.type # dt.WorkFail /\ h # << >>
  <2>1. OutBody(out) = c \o d /\ EncodedLen(out) = 3 + (Len(d) + (Len(h) + 1))
    BY Zenon, <1>6 DEF OutBody, EncodedLen, MinPacketLength
  <2> HIDE DEF c, d, h
  <2>2. 3 + (Len(d) + (Len(h) + 1)) = 3 + Len(c \o d) /\ Len(c \o d) \in Nat
    BY <1>1, <1>2, <1>3
  <2> QED
    BY <1>3, <2>1, <2>2, Zenon
<1> QED
  BY Zenon, <1>4, <1>5, <1>6

(* What encodeInto writes at an index of the packet.                       *)
LEMMA EncodeHeader ==
  ASSUME NEW out, IsOut(out), NEW array, NEW i \in 1 .. 3
  PROVE  EncodeAt(out, array, TRUE, i) = <<req, out.type, EncodedLen(out) - 3>>[i]
<1>1. Len(out.handle) \in Nat /\ DOMAIN out.data = 1 .. Len(out.data) /\ Len(out.data) \in Nat
  BY DEF IsOut
<1> QED
  BY <1>1 DEF EncodeAt, MinPacketLength

(* Where the handle goes.                                                  *)
LEMMA EncodeHandle ==
  ASSUME NEW out, IsOut(out), NEW array, NEW j \in 1 .. Len(out.handle)
  PROVE  EncodeAt(out, array, TRUE, 3 + j) = out.handle[j]
<1>1. Len(out.handle) \in Nat /\ DOMAIN out.data = 1 .. Len(out.data) /\ Len(out.data) \in Nat
  BY DEF IsOut
<1>2. (3 + j) - 3 = j
  BY <1>1
<1> QED
  BY <1>1, <1>2 DEF EncodeAt, MinPacketLength

(* Where the separator goes.                                               *)
LEMMA EncodeSeparator ==
  ASSUME NEW out, IsOut(out), NEW array, Len(out.handle) > 0, out.type # dt.WorkFail
  PROVE  EncodeAt(out, array, TRUE, 3 + (Len(out.handle) + 1)) = 0
<1>1. Len(out.handle) \in Nat /\ DOMAIN out.data = 1 .. Len(out.data) /\ Len(out.data) \in Nat
  BY DEF IsOut
<1>2. (3 + (Len(out.handle) + 1)) - 3 = Len(out.handle) + 1
  BY <1>1
<1> QED
  BY <1>1, <1>2 DEF EncodeAt, MinPacketLength

(* Where the data goes.                                                    *)
LEMMA EncodeData ==
  ASSUME NEW out, IsOut(out), NEW array, out.type # dt.WorkFail, NEW k \in 1 .. Len(out.data)
  PROVE  /\ Len(out.handle) = 0 => EncodeAt(out, array, TRUE, 3 + k) = out.data[k]
         /\ Len(out.handle) # 0 => EncodeAt(out, array, TRUE, 3 + (Len(out.handle) + 1 + k)) = out.data[k]
<1> DEFINE n == Len(out.handle)
           j == n + 1 + k
<1>1. n \in Nat /\ DOMAIN out.data = 1 .. Len(out.data) /\ Len(out.data) \in Nat /\ k \in DOMAIN out.data
  BY DEF IsOut
<1>2. CASE n = 0
  <2>1. (3 + k) - 3 = k /\ ~(k =< 0)
    BY <1>1
  <2> QED
    BY <1>1, <1>2, <2>1 DEF EncodeAt, MinPacketLength
<1>3. CASE n # 0
  <2>1. (3 + j) - 3 = j /\ ~(j =< 0) /\ ~(j =< n) /\ j # n + 1 /\ j - n - 1 = k
    <3> HIDE DEF n
    <3> QED
      BY <1>1, <1>3
  <2> QED
    BY <1>1, <1>3, <2>1, Zenon DEF EncodeAt, MinPacketLength
<1> QED
  BY Zenon, <1>2, <1>3

(* What encodeInto writes after the header is the body.                    *)
LEMMA EncodeBody ==
  ASSUME NEW out, IsOut(out), NEW array, NEW j \in 1 .. Len(OutBody(out))
  PROVE  EncodeAt(out, array, TRUE, 3 + j) = OutBody(out)[j]
<1> DEFINE h == out.handle
           d == out.data
<1>1. h \in Seq(Int) /\ d \in Seq(Int) /\ Len(h) \in Nat /\ Len(d) \in Nat
  BY DEF IsOut
<1>2. CASE out.type = dt.WorkFail
  <2>1. OutBody(out) = h
    BY Zenon, <1>2 DEF OutBody
  <2> QED
    BY Zenon, <2>1, EncodeHandle
<1>3. CASE out.type # dt.WorkFail /\ h = << >>
  <2>1. OutBody(out) = d /\ Len(h) = 0
    BY Zenon, <1>3 DEF OutBody
  <2>2. j \in 1 .. Len(out.data)
    BY Zenon, <2>1
  <2>3. EncodeAt(out, array, TRUE, 3 + j) = out.data[j]
    BY <1>3, <2>1, <2>2, EncodeData, Zenon
  <2> QED
    BY Zenon, <2>1, <2>3
<1>4. CASE out.type # dt.WorkFail /\ h # << >>
  <2> DEFINE c == h \o NUL
  <2>1. OutBody(out) = c \o d
    BY Zenon, <1>4 DEF OutBody
  <2>2. /\ c \in Seq(Int) /\ Len(c) = Len(h) + 1 /\ c[Len(h) + 1] = 0 /\ Len(h) > 0
        /\ \A i \in 1 .. Len(h) : c[i] = h[i]
    BY <1>1, <1>4 DEF NUL
  <2> HIDE DEF c, h, d
  <2>3. /\ Len(c \o d) = Len(c) + Len(d)
        /\ \A i \in 1 .. Len(c) : (c \o d)[i] = c[i]
        /\ \A i \in 1 .. Len(d) : (c \o d)[Len(c) + i] = d[i]
    BY <1>1, <2>2, CatSeq, Zenon
  <2>4. CASE j \in 1 .. Len(h)
    <3>1. j \in 1 .. Len(c)
      BY <1>1, <2>2, <2>4
    <3>2. OutBody(out)[j] = h[j]
      BY <2>1, <2>2, <2>3, <2>4, <3>1, Zenon
    <3> QED
      BY <2>4, <3>2, EncodeHandle, Zenon DEF h
  <2>5. CASE j = Len(h) + 1
    <3>1. j \in 1 .. Len(c)
      BY <1>1, <2>2, <2>5
    <3>2. OutBody(out)[j] = 0
      BY <2>1, <2>2, <2>3, <2>5, <3>1, Zenon
    <3> QED
      BY <1>4, <2>2, <2>5, <3>2, EncodeSeparator, Zenon DEF h
  <2>6. CASE j > Len(h) + 1
    <3> DEFINE k == j - (Len(h) + 1)
    <3>1. k \in 1 .. Len(d) /\ j = Len(c) + k /\ j = Len(h) + 1 + k /\ Len(h) # 0
      BY <1>1, <2>1, <2>2, <2>3, <2>6
    <3> HIDE DEF k
    <3>2. OutBody(out)[j] = d[k]
      BY <2>1, <2>3, <3>1, Zenon
    <3> QED
      BY <1>4, <3>1, <3>2, EncodeData, Zenon DEF d, h
  <2>7. j \in Nat /\ j > 0
    OBVIOUS
  <2>8. j \in 1 .. Len(h) \/ j = Len(h) + 1 \/ j > Len(h) + 1
    BY <1>1, <2>7
  <2> QED
    BY <2>4, <2>5, <2>6, <2>8, Zenon
<1> QED
  BY Zenon, <1>2, <1>3, <1>4

(* encodeInto leaves the packet at the front of the array it is given,     *)
(* whatever the array held before, and leaves an array as long as that     *)
(* one or as the packet.                                                   *)
LEMMA Encoded ==
  ASSUME NEW S \in SUBSET Int, NEW out, out.type \in S, out.data \in Seq(S), out.handle \in Seq(S),
         NEW array \in Seq(S), 0 \in S, req \in S, Len(OutBody(out)) \in S
  PROVE  /\ encodeInto(out, array) \in Seq(S)
         /\ Len(encodeInto(out, array)) = IF Len(array) < EncodedLen(out) THEN EncodedLen(out) ELSE Len(array)
         /\ SubSeq(encodeInto(out, array), 1, EncodedLen(out)) = newPacket(req, out.type, OutBody(out))
<1> DEFINE room == Room(out, array)
           n == EncodedLen(out)
           e == encodeInto(out, array)
           p == newPacket(req, out.type, OutBody(out))
<1>1. IsOut(out)
  BY Zenon, SeqOfMore DEF IsOut
<1>2. OutBody(out) \in Seq(Int) /\ n = 3 + Len(OutBody(out)) /\ Len(OutBody(out)) \in Nat
  BY Zenon, <1>1, OutBodyAt
<1>3. room \in Seq(S) /\ Len(room) = IF Len(array) < n THEN n ELSE Len(array)
  <2> HIDE DEF n
  <2>1. n \in Nat
    BY <1>2
  <2>2. CASE Len(array) < n
    <3>1. room = [i \in 1 .. n |-> 0]
      BY Zenon, <2>2 DEF Room, n
    <3> QED
      BY <2>1, <2>2, <3>1
  <2>3. CASE ~(Len(array) < n)
    BY Zenon, <2>3 DEF Room, n
  <2> QED
    BY Zenon, <2>2, <2>3
<1>4. n =< Len(room) /\ Len(room) \in Nat /\ DOMAIN room = 1 .. Len(room)
  BY <1>2, <1>3
<1>5. e = [i \in 1 .. Len(room) |-> EncodeAt(out, room, TRUE, i)]
  BY Zenon, <1>4 DEF encodeInto
<1> HIDE DEF room, e
<1>6. ASSUME NEW i \in 1 .. Len(room) PROVE EncodeAt(out, room, TRUE, i) \in S
  <2>1. room[i] \in S
    BY <1>3
  <2>2. CASE i =< 3
    <3>1. i \in 1 .. 3 /\ EncodedLen(out) - 3 = Len(OutBody(out))
      BY <1>2, <2>2
    <3>2. <<req, out.type, Len(OutBody(out))>>[i] \in S
      BY <3>1
    <3> QED
      BY <1>1, <3>1, <3>2, EncodeHeader, Zenon
  <2>3. CASE i > 3
    <3>1. \A j \in 1 .. Len(out.handle) : out.handle[j] \in S
      OBVIOUS
    <3>2. \A j \in DOMAIN out.data : out.data[j] \in S
      OBVIOUS
    <3>3. ~(i - 3 =< 0) /\ i - 3 \in Nat
      BY <2>3
    <3>4. i - 3 > 0 /\ i - 3 =< Len(out.handle) => i - 3 \in 1 .. Len(out.handle)
      BY <3>3
    <3> QED
      BY Zenon, <2>1, <3>1, <3>2, <3>3, <3>4 DEF EncodeAt, MinPacketLength
  <2>4. i \in Nat /\ (i =< 3 \/ i > 3)
    BY <1>4
  <2> QED
    BY <2>2, <2>3, <2>4, Zenon
<1>7. e \in Seq(S) /\ Len(e) = Len(room)
  <2>1. \A i \in 1 .. Len(room) : EncodeAt(out, room, TRUE, i) \in S
    BY <1>6, Zenon
  <2>2. e \in [1 .. Len(room) -> S]
    BY <1>5, <2>1, Zenon
  <2> QED
    BY <1>4, <2>2
<1>8. p \in Seq(Int) /\ Len(p) = n /\ p[1] = req /\ p[2] = out.type /\ p[3] = Len(OutBody(out))
      /\ \A i \in 1 .. Len(OutBody(out)) : p[3 + i] = OutBody(out)[i]
  <2>1. req \in Int /\ out.type \in Int
    BY Zenon
  <2>2. IsPacket(p, req, out.type, OutBody(out))
    BY <1>2, <2>1, PacketParts, Zenon
  <2> QED
    BY Zenon, <1>2, <2>2 DEF IsPacket
<1>9. ASSUME NEW i \in 1 .. n PROVE e[i] = p[i]
  <2>0. i \in 1 .. Len(room)
    BY <1>2, <1>4
  <2>1. e[i] = EncodeAt(out, room, TRUE, i)
    BY <1>5, <2>0, Zenon
  <2>2. CASE i =< 3
    <3>1. i \in 1 .. 3 /\ EncodedLen(out) - 3 = Len(OutBody(out))
      BY <1>2, <2>2
    <3>2. <<req, out.type, Len(OutBody(out))>>[i] = p[i]
      <4> HIDE DEF p
      <4>1. i = 1 \/ i = 2 \/ i = 3
        BY <3>1
      <4> DEFINE t == <<req, out.type, Len(OutBody(out))>>
      <4>2. t[1] = req /\ t[2] = out.type /\ t[3] = Len(OutBody(out))
        OBVIOUS
      <4> HIDE DEF t
      <4>3. t[i] = p[i]
        BY <1>8, <4>1, <4>2, Zenon
      <4> QED
        BY <4>3, Zenon DEF t
    <3> QED
      BY <1>1, <2>1, <3>1, <3>2, EncodeHeader, Zenon
  <2>3. CASE i > 3
    <3> DEFINE j == i - 3
    <3>1. j \in 1 .. Len(OutBody(out)) /\ i = 3 + j
      BY <1>2, <2>3
    <3> HIDE DEF j, p
    <3>2. p[i] = OutBody(out)[j]
      BY <1>8, <3>1, Zenon
    <3> QED
      BY <1>1, <2>1, <3>1, <3>2, EncodeBody, Zenon
  <2> QED
    BY <1>2, <2>2, <2>3
<1>10. SubSeq(e, 1, n) = p
  <2> HIDE DEF p, n
  <2> DEFINE q == SubSeq(e, 1, n)
  <2>0. n \in Nat /\ n =< Len(e)
    BY <1>2, <1>4, <1>7
  <2>a. e \in Seq(Int)
    BY <1>7, SeqOfMore, Zenon
  <2>1. q \in Seq(Int) /\ Len(q) = n /\ \A i \in 1 .. n : q[i] = e[i]
    BY <2>0, <2>a
  <2> HIDE DEF q
  <2>3. \A i \in 1 .. n : q[i] = p[i]
    BY <1>9, <2>1, Zenon
  <2>2. q = p
    BY <1>8, <2>1, <2>3, SameSeq, Zenon
  <2> QED
    BY Zenon, <2>2 DEF q
<1> QED
  BY Zenon, <1>3, <1>7, <1>10 DEF e

-----------------------------------------------------------------------------
(* What the accessors make of a packet.                                    *)

(* Bytes of a payload.                                                     *)
Text == 0 .. 255

(* The packet types the two readers tell apart.                            *)
LEMMA Codes ==
  /\ dt.SubmitJob = 7 /\ dt.JobCreated = 8 /\ dt.JobAssign = 11 /\ dt.WorkStatus = 12
  /\ dt.WorkComplete = 13 /\ dt.WorkFail = 14 /\ dt.GetStatus = 15 /\ dt.EchoReq = 16
  /\ dt.EchoRes = 17 /\ dt.StatusRes = 20 /\ dt.WorkException = 25 /\ dt.WorkData = 28
  /\ dt.WorkWarning = 29 /\ dt.JobAssignUniq = 31
BY Zenon DEF dt

(* Bodies of a handle, a separator and more.                               *)
Fielded == {dt.StatusRes, dt.WorkData, dt.WorkWarning, dt.WorkStatus, dt.WorkComplete, dt.WorkException}

(* None of them is taken for another.                                      *)
LEMMA Kinds ==
  /\ \A t \in Fielded : t \in Int /\ t # dt.JobCreated /\ t # dt.WorkFail
  /\ \A t \in {dt.WorkComplete, dt.WorkFail, dt.WorkException} :
       t \notin {dt.WorkData, dt.WorkWarning, dt.WorkStatus, dt.StatusRes}
  /\ \A t \in {dt.WorkData, dt.WorkWarning} :
       t \notin {dt.WorkComplete, dt.WorkFail, dt.WorkException, dt.WorkStatus, dt.StatusRes}
  /\ dt.WorkStatus \notin {dt.WorkComplete, dt.WorkFail, dt.WorkException, dt.WorkData, dt.WorkWarning,
                           dt.StatusRes}
  /\ dt.StatusRes \notin {dt.WorkComplete, dt.WorkFail, dt.WorkException, dt.WorkData, dt.WorkWarning,
                          dt.WorkStatus}
  /\ \A t \in {dt.JobCreated, dt.EchoRes} :
       t \notin {dt.WorkComplete, dt.WorkFail, dt.WorkException, dt.WorkData, dt.WorkWarning,
                 dt.WorkStatus, dt.StatusRes}
BY Codes DEF Fielded

(* Text is made of bytes.                                                  *)
LEMMA TextFacts ==
  ASSUME NEW s \in Seq(Text)
  PROVE  s \in Seq(Int) /\ Len(s) \in Nat
<1>1. Text \subseteq Int
  BY DEF Text
<1>2. s \in Seq(Int)
  BY <1>1, SeqOfMore, Zenon
<1> QED
  BY <1>2

(* The decoded response of such a body has the handle and what follows     *)
(* it.                                                                     *)
LEMMA DecodeFields ==
  ASSUME NEW type \in Fielded,
         NEW h \in Seq(Int), NEW d \in Seq(Int), IndexNUL(h) = 0
  PROVE  decodeResponse(newPacket(res, type, h \o NUL \o d)) = Response(type, h, d)
<1> DEFINE b == h \o NUL \o d
           p == newPacket(res, type, b)
<1>1. IndexNUL(b) = Len(h) + 1 /\ Before(b) = h /\ After(b) = d
  BY Fields, Zenon
<1>2. b \in Seq(Int)
  <2>1. h \o NUL \in Seq(Int)
    BY DEF NUL
  <2> QED
    BY <2>1, CatSeq, Zenon
<1>3. type \in Int /\ type # dt.JobCreated /\ type # dt.WorkFail /\ res \in Int
  <2>1. res \in Int
    BY DEF res
  <2> QED
    BY <2>1, Kinds, Zenon
<1> HIDE DEF b
<1>4. Type(p) = type /\ Body(p) = b /\ ~Truncated(p)
  BY <1>2, <1>3, PacketBody, Zenon
<1>5. IndexNUL(b) # 0
  BY <1>1
<1> HIDE DEF p
<1>6. decodeResponse(p) = Response(type, h, d)
  BY <1>1, <1>3, <1>4, <1>5 DEF decodeResponse, Fielded
<1> QED
  BY Zenon, <1>6 DEF p, b

(* Bodies that are one field.                                              *)
LEMMA DecodeWhole ==
  ASSUME NEW h \in Seq(Int)
  PROVE  /\ decodeResponse(newPacket(res, dt.JobCreated, h)) = Response(dt.JobCreated, h, << >>)
         /\ decodeResponse(newPacket(res, dt.EchoRes, h)) = Response(dt.EchoRes, << >>, h)
         /\ IndexNUL(h) = 0 =>
              decodeResponse(newPacket(res, dt.WorkFail, h)) = Response(dt.WorkFail, h, << >>)
<1>1. res \in Int /\ dt.JobCreated \in Int /\ dt.EchoRes \in Int /\ dt.WorkFail \in Int
  BY Codes DEF res
<1>2. \A type \in {dt.JobCreated, dt.EchoRes, dt.WorkFail} :
         /\ Type(newPacket(res, type, h)) = type
         /\ Body(newPacket(res, type, h)) = h
         /\ ~Truncated(newPacket(res, type, h))
  BY <1>1, PacketBody, Zenon
<1>3. /\ dt.EchoRes \notin {dt.JobCreated, dt.StatusRes, dt.WorkData, dt.WorkWarning, dt.WorkStatus,
                            dt.WorkComplete, dt.WorkException, dt.WorkFail}
      /\ dt.WorkFail \notin {dt.JobCreated, dt.StatusRes, dt.WorkData, dt.WorkWarning, dt.WorkStatus,
                             dt.WorkComplete, dt.WorkException}
      /\ dt.JobCreated \notin {dt.StatusRes, dt.WorkData, dt.WorkWarning, dt.WorkStatus, dt.WorkComplete,
                               dt.WorkException, dt.WorkFail}
  BY Codes
<1>4. decodeResponse(newPacket(res, dt.JobCreated, h)) = Response(dt.JobCreated, h, << >>)
  BY <1>2, <1>3 DEF decodeResponse
<1>5. decodeResponse(newPacket(res, dt.EchoRes, h)) = Response(dt.EchoRes, << >>, h)
  BY <1>2, <1>3 DEF decodeResponse
<1>6. IndexNUL(h) = 0 => decodeResponse(newPacket(res, dt.WorkFail, h)) = Response(dt.WorkFail, h, << >>)
  BY <1>2, <1>3 DEF decodeResponse
<1> QED
  BY <1>4, <1>5, <1>6

(* A decoded response is not the error.                                    *)
LEMMA NotInvalid ==
  ASSUME NEW type \in Int, NEW h \in Seq(Int), NEW d \in Seq(Int)
  PROVE  Response(type, h, d) # Invalid
BY PacketsAssumption DEF Response

(* What a client's reader makes of a decoded response.                     *)
Sees(type, body, h, d) ==
  /\ type \in {dt.WorkComplete, dt.WorkFail, dt.WorkException} =>
       Observe("client", newPacket(res, type, body)) = <<h, Result(Response(type, h, d))>>
  /\ type \in {dt.WorkData, dt.WorkWarning} =>
       Observe("client", newPacket(res, type, body)) = <<h, Update(Response(type, h, d))>>
  /\ type = dt.WorkStatus => Observe("client", newPacket(res, type, body)) = <<h, Status(Response(type, h, d))>>
  /\ type = dt.StatusRes => Observe("client", newPacket(res, type, body)) = <<h, _status(Response(type, h, d))>>
  /\ type \in {dt.JobCreated, dt.EchoRes} => Observe("client", newPacket(res, type, body)) = <<h, d>>

(* What a client makes of a packet, given what its body splits into.       *)
LEMMA ObserveClient ==
  ASSUME NEW type \in Int, NEW body \in Seq(Int), NEW h \in Seq(Int), NEW d \in Seq(Int),
         decodeResponse(newPacket(res, type, body)) = Response(type, h, d)
  PROVE  Sees(type, body, h, d)
<1> DEFINE p == newPacket(res, type, body)
           resp == Response(type, h, d)
<1>1. resp # Invalid /\ resp.Handle = h /\ resp.Data = d
  BY NotInvalid DEF Response
<1>2. Type(p) = type
  BY PacketBody DEF res
<1> HIDE DEF p, resp
<1>3. decodeResponse(p) = resp
  BY DEF p, resp
<1>4. "client" # "worker"
  OBVIOUS
<1>5. type \in {dt.WorkComplete, dt.WorkFail, dt.WorkException} => Observe("client", p) = <<h, Result(resp)>>
  <2> SUFFICES ASSUME type \in {dt.WorkComplete, dt.WorkFail, dt.WorkException}
               PROVE  Observe("client", p) = <<h, Result(resp)>>
    BY Zenon
  <2>1. type \notin {dt.WorkData, dt.WorkWarning, dt.WorkStatus, dt.StatusRes}
    BY Kinds, Zenon
  <2> QED
    BY <1>1, <1>2, <1>3, <2>1, <1>4, Zenon DEF Observe
<1>6. type \in {dt.WorkData, dt.WorkWarning} => Observe("client", p) = <<h, Update(resp)>>
  <2> SUFFICES ASSUME type \in {dt.WorkData, dt.WorkWarning}
               PROVE  Observe("client", p) = <<h, Update(resp)>>
    BY Zenon
  <2>1. type \notin {dt.WorkComplete, dt.WorkFail, dt.WorkException, dt.WorkStatus, dt.StatusRes}
    BY Kinds, Zenon
  <2> QED
    BY <1>1, <1>2, <1>3, <2>1, <1>4, Zenon DEF Observe
<1>7. type = dt.WorkStatus => Observe("client", p) = <<h, Status(resp)>>
  <2> SUFFICES ASSUME type = dt.WorkStatus
               PROVE  Observe("client", p) = <<h, Status(resp)>>
    BY Zenon
  <2>1. type \notin {dt.WorkComplete, dt.WorkFail, dt.WorkException, dt.WorkData, dt.WorkWarning, dt.StatusRes}
    BY Kinds, Zenon
  <2> QED
    BY <1>1, <1>2, <1>3, <2>1, <1>4, Zenon DEF Observe
<1>8. type = dt.StatusRes => Observe("client", p) = <<h, _status(resp)>>
  <2> SUFFICES ASSUME type = dt.StatusRes
               PROVE  Observe("client", p) = <<h, _status(resp)>>
    BY Zenon
  <2>1. type \notin {dt.WorkComplete, dt.WorkFail, dt.WorkException, dt.WorkData, dt.WorkWarning, dt.WorkStatus}
    BY Kinds, Zenon
  <2> QED
    BY <1>1, <1>2, <1>3, <2>1, <1>4, Zenon DEF Observe
<1>9. type \in {dt.JobCreated, dt.EchoRes} => Observe("client", p) = <<h, d>>
  <2> SUFFICES ASSUME type \in {dt.JobCreated, dt.EchoRes}
               PROVE  Observe("client", p) = <<h, d>>
    BY Zenon
  <2>1. type \notin {dt.WorkComplete, dt.WorkFail, dt.WorkException, dt.WorkData, dt.WorkWarning,
                     dt.WorkStatus, dt.StatusRes}
    BY Kinds, Zenon
  <2> QED
    BY <1>1, <1>2, <1>3, <2>1, <1>4, Zenon DEF Observe
<1> QED
  BY <1>5, <1>6, <1>7, <1>8, <1>9, Zenon DEF Sees, p, resp

-----------------------------------------------------------------------------
(* The fields of messages.                                                 *)

(* What is sent is text; handles and names hold no separator.              *)
LEMMA Constants ==
  /\ \A h \in Handles : h \in Seq(Text) /\ h # << >> /\ IndexNUL(h) = 0
  /\ \A d \in Datas : d \in Seq(Text)
  /\ \A n \in Names : n \in Seq(Text) /\ IndexNUL(n) = 0
  /\ \A n \in Numbers : n \in Int
BY FramingAssumption DEF Text

(* Digits and signs are text without a separator.                          *)
LEMMA NumberText ==
  ASSUME NEW s \in Seq(45 .. 57)
  PROVE  s \in Seq(Text) /\ IndexNUL(s) = 0
<1>1. 45 .. 57 \subseteq Text
  BY DEF Text
<1>2. s \in Seq(Text)
  BY <1>1, SeqOfMore, Zenon
<1>3. {i \in DOMAIN s : s[i] = 0} = {}
  OBVIOUS
<1>4. IndexNUL(s) = 0
  BY <1>3, Zenon DEF IndexNUL
<1> QED
  BY <1>2, <1>4

(* Fields joined with a separator are text.                                *)
LEMMA Joined ==
  ASSUME NEW a \in Seq(Text), NEW b \in Seq(Text)
  PROVE  a \o NUL \o b \in Seq(Text)
<1>1. NUL \in Seq(Text)
  BY DEF NUL, Text
<1>2. \A x, y \in Seq(Text) : x \o y \in Seq(Text)
  OBVIOUS
<1> QED
  BY <1>1, <1>2, Zenon

(* So is a number that is written.                                         *)
LEMMA ItoaText ==
  ASSUME NEW n \in Int
  PROVE  Itoa(n) \in Seq(Text) /\ IndexNUL(Itoa(n)) = 0
<1>1. Itoa(n) \in Seq(45 .. 57)
  BY ItoaParsed, Zenon
<1> QED
  BY <1>1, NumberText, Zenon

(* Ways to read a concatenation of two or three fields.                    *)
Assoc(a, b, c)    == (a \o b) \o c = a \o (b \o c)
Nested(a, b, c)   == a \o NUL \o b \o NUL \o c = a \o NUL \o (b \o NUL \o c)

(* Concatenation is associative.                                           *)
LEMMA CatAssoc ==
  ASSUME NEW a \in Seq(Int), NEW b \in Seq(Int), NEW c \in Seq(Int)
  PROVE  Assoc(a, b, c)
<1> DEFINE l == (a \o b) \o c
           r == a \o (b \o c)
<1>1. l \in Seq(Int) /\ r \in Seq(Int) /\ Len(l) = Len(r)
  OBVIOUS
<1>2. ASSUME NEW i \in 1 .. Len(l) PROVE l[i] = r[i]
  OBVIOUS
<1> HIDE DEF l, r
<1>3. l = r
  BY <1>1, <1>2, SameSeq
<1> QED
  BY <1>3, Zenon DEF Assoc, l, r

(* A field put before two others.                                          *)
LEMMA JoinAssoc ==
  ASSUME NEW a \in Seq(Int), NEW b \in Seq(Int), NEW c \in Seq(Int)
  PROVE  Nested(a, b, c)
<1> DEFINE g == a \o NUL
           k == b \o NUL
<1>1. g \in Seq(Int) /\ k \in Seq(Int) /\ NUL \in Seq(Int)
  BY DEF NUL
<1> HIDE DEF g
<1>2. Assoc(g, b, NUL) /\ (g \o b) \o NUL \in Seq(Int)
  <2>1. \A u, v \in Seq(Int) : u \o v \in Seq(Int)
    OBVIOUS
  <2> QED
    BY <1>1, <2>1, CatAssoc, Zenon
<1> HIDE DEF k
<1>3. Assoc(g, k, c)
  BY <1>1, CatAssoc, Zenon
<1>4. ((g \o b) \o NUL) \o c = g \o (k \o c)
  BY <1>2, <1>3, Zenon DEF Assoc, k
<1> QED
  BY <1>4, Zenon DEF g, k, Nested

-----------------------------------------------------------------------------
(* What a worker sends.                                                    *)

(* An outgoing packet is made of text.                                     *)
IsText(out) == out.type \in Text /\ out.data \in Seq(Text) /\ out.handle \in Seq(Text)

(* The packet the server makes of what a worker sends.                     *)
PacketOut(m) == newPacket(res, OutPackOf(m).type, OutBody(OutPackOf(m)))

(* The client takes that packet for the message that was meant.            *)
Carried(m) == IsText(OutPackOf(m)) /\ Observe("client", PacketOut(m)) = Expected(m)

(* The result of a job, or its failure.                                    *)
LEMMA ResultCarried ==
  ASSUME NEW m \in [kind : {"result"}, handle : Handles, data : Datas, failed : BOOLEAN]
  PROVE  Carried(m)
<1> DEFINE h == m.handle
           d == m.data
           out == ExecOutPack(h, d, m.failed)
           p == newPacket(res, out.type, OutBody(out))
<1>1. h \in Handles /\ d \in Datas /\ m.failed \in BOOLEAN /\ m.kind = "result"
  OBVIOUS
<1>2. OutPackOf(m) = out
  BY <1>1 DEF OutPackOf
<1>3. h \in Seq(Text) /\ h # << >> /\ IndexNUL(h) = 0 /\ d \in Seq(Text)
  BY <1>1, Constants, Zenon
<1>4. h \in Seq(Int) /\ d \in Seq(Int) /\ << >> \in Seq(Int)
  <2>1. << >> \in Seq(Int)
    OBVIOUS
  <2> QED
    BY <1>3, <2>1, TextFacts, Zenon
<1> HIDE DEF h, d
<1>5. Expected(m) = <<h, [data |-> d, err |-> IF ~m.failed THEN "nil"
                            ELSE IF d = << >> THEN "ErrWorkFail" ELSE "ErrWorkException"]>>
  BY <1>1 DEF Expected, h, d
<1>6. out.type \in Text /\ out.data = d /\ out.handle = h
  BY Codes DEF ExecOutPack, OutPack, Text
<1>7. Observe("client", p) = Expected(m)
  <2>1. CASE m.failed /\ d = << >>
    <3>1. out.type = dt.WorkFail /\ OutBody(out) = h
      BY <2>1 DEF ExecOutPack, OutPack, OutBody
    <3>2. decodeResponse(p) = Response(dt.WorkFail, h, << >>)
      BY <1>3, <1>4, <3>1, DecodeWhole, Zenon
    <3>3. Observe("client", p) = <<h, Result(Response(dt.WorkFail, h, << >>))>>
      <4>1. dt.WorkFail \in Int
        BY Codes
      <4>2. p = newPacket(res, dt.WorkFail, h)
        BY <3>1, Zenon
      <4>3. Sees(dt.WorkFail, h, h, << >>)
        <5> HIDE DEF p
        <5> QED
          BY <1>4, <3>2, <4>1, <4>2, ObserveClient, Zenon
      <4> QED
        BY <4>2, <4>3, Zenon DEF Sees
    <3>4. Result(Response(dt.WorkFail, h, << >>)) = [data |-> << >>, err |-> "ErrWorkFail"]
      BY Codes DEF Result, Response
    <3> QED
      BY <1>5, <2>1, <3>3, <3>4, Zenon
  <2>2. CASE ~(m.failed /\ d = << >>)
    <3> DEFINE t == IF m.failed THEN dt.WorkException ELSE dt.WorkComplete
    <3>1. out.type = t /\ OutBody(out) = h \o NUL \o d
      BY <1>3, <2>2, Codes DEF ExecOutPack, OutPack, OutBody
    <3>a. t \in {dt.WorkComplete, dt.WorkFail, dt.WorkException} /\ t \in Fielded /\ t \in Int /\ h \o NUL \o d \in Seq(Int)
      <4>1. h \o NUL \o d \in Seq(Int)
        BY <1>3, Joined, TextFacts, Zenon
      <4> QED
        BY <4>1, Codes DEF Fielded
    <3>b. Result(Response(t, h, d))
            = [data |-> d, err |-> IF m.failed THEN "ErrWorkException" ELSE "nil"]
      BY Codes DEF Result, Response
    <3> HIDE DEF t
    <3>c. p = newPacket(res, t, h \o NUL \o d)
      BY <3>1, Zenon
    <3> HIDE DEF p
    <3>2. decodeResponse(p) = Response(t, h, d)
      BY <1>3, <1>4, <3>a, <3>c, DecodeFields, Zenon
    <3>3. Sees(t, h \o NUL \o d, h, d)
      BY <1>4, <3>a, <3>c, <3>2, ObserveClient, Zenon
    <3>5. Observe("client", p) = <<h, Result(Response(t, h, d))>>
      BY <3>a, <3>c, <3>3, Zenon DEF Sees
    <3>4. Expected(m) = <<h, [data |-> d, err |-> IF m.failed THEN "ErrWorkException" ELSE "nil"]>>
      BY <1>5, <2>2
    <3> QED
      BY <3>5, <3>4, <3>b, Zenon
  <2> QED
    BY <2>1, <2>2
<1> QED
  BY <1>2, <1>3, <1>6, <1>7 DEF Carried, IsText, PacketOut

(* Data and warnings of a job.                                             *)
LEMMA UpdateCarried ==
  ASSUME NEW m \in [kind : {"data", "warning"}, handle : Handles, data : Datas]
  PROVE  Carried(m)
<1> DEFINE h == m.handle
           d == m.data
           t == IF m.kind = "data" THEN dt.WorkData ELSE dt.WorkWarning
           b == h \o NUL \o d
           out == OutPack(t, b, << >>)
           p == newPacket(res, t, b)
<1>1. h \in Handles /\ d \in Datas /\ m.kind \in {"data", "warning"}
  OBVIOUS
<1>2. OutPackOf(m) = out
  BY <1>1 DEF OutPackOf, SendData, SendWarning
<1>3. h \in Seq(Text) /\ IndexNUL(h) = 0 /\ d \in Seq(Text)
  BY <1>1, Constants, Zenon
<1>4. h \in Seq(Int) /\ d \in Seq(Int) /\ b \in Seq(Text) /\ b \in Seq(Int)
  BY <1>3, Joined, TextFacts, Zenon
<1>5. t \in {dt.WorkData, dt.WorkWarning} /\ t \in Fielded /\ t \in Text /\ t \in Int /\ t # dt.WorkFail
  BY Codes DEF Text, Fielded
<1>6. Update(Response(t, h, d))
        = [data |-> d, err |-> IF m.kind = "data" THEN "nil" ELSE "ErrWorkWarning"]
  BY Codes DEF Update, Response
<1> HIDE DEF h, d, t
<1>7. Expected(m) = <<h, [data |-> d, err |-> IF m.kind = "data" THEN "nil" ELSE "ErrWorkWarning"]>>
  BY <1>1 DEF Expected, h, d
<1>8. out.type = t /\ out.data = b /\ out.handle = << >> /\ << >> \in Seq(Text)
  BY DEF OutPack
<1>9. OutBody(out) = b
  BY <1>5, <1>8, Zenon DEF OutBody
<1>10. Observe("client", p) = Expected(m)
  <2>2. decodeResponse(p) = Response(t, h, d)
    BY <1>3, <1>4, <1>5, DecodeFields, Zenon
  <2>1. Sees(t, b, h, d)
    <3> HIDE DEF b
    <3> QED
      BY <1>4, <1>5, <2>2, ObserveClient, Zenon
  <2>3. Observe("client", p) = <<h, Update(Response(t, h, d))>>
    BY <1>5, <2>1, Zenon DEF Sees
  <2> QED
    BY <1>6, <1>7, <2>3, Zenon
<1> HIDE DEF b, out
<1> QED
  BY <1>2, <1>4, <1>5, <1>8, <1>9, <1>10, Zenon DEF Carried, IsText, PacketOut

(* The progress of a job.                                                  *)
LEMMA ProgressCarried ==
  ASSUME NEW m \in [kind : {"progress"}, handle : Handles, num : Numbers, den : Numbers]
  PROVE  Carried(m)
<1> DEFINE h == m.handle
           x == Itoa(m.num)
           y == Itoa(m.den)
           c == h \o NUL \o x \o NUL \o y
           d == x \o NUL \o y
           b == h \o NUL \o d
           out == OutPack(dt.WorkStatus, c, << >>)
           p == newPacket(res, dt.WorkStatus, b)
<1>1. h \in Handles /\ m.num \in Numbers /\ m.den \in Numbers /\ m.kind = "progress"
  OBVIOUS
<1>2. OutPackOf(m) = out
  BY <1>1 DEF OutPackOf, UpdateStatus
<1>3. h \in Seq(Text) /\ IndexNUL(h) = 0 /\ m.num \in Int /\ m.den \in Int
  BY <1>1, Constants, Zenon
<1>a. /\ x \in Seq(Text) /\ IndexNUL(x) = 0 /\ y \in Seq(Text)
      /\ ParseUint(x) = IF m.num < 0 THEN Invalid ELSE m.num
      /\ ParseUint(y) = IF m.den < 0 THEN Invalid ELSE m.den
  BY <1>3, ItoaText, ItoaParsed, Zenon
<1>7. Expected(m) = <<h, IF m.num < 0 \/ m.den < 0 THEN Invalid
                         ELSE JobStatus(TRUE, TRUE, m.num, m.den)>>
  BY Zenon, <1>1 DEF Expected, h
<1> HIDE DEF h, x, y
<1>4. h \in Seq(Int) /\ d \in Seq(Int) /\ b \in Seq(Text) /\ b \in Seq(Int) /\ x \in Seq(Int) /\ y \in Seq(Int)
  BY <1>3, <1>a, Joined, TextFacts, Zenon
<1>b. c = b
  <2>1. Nested(h, x, y)
    BY <1>4, JoinAssoc, Zenon
  <2> QED
    BY <2>1, Zenon DEF Nested
<1>5. dt.WorkStatus \in Fielded /\ dt.WorkStatus \in Text /\ dt.WorkStatus \in Int /\ dt.WorkStatus # dt.WorkFail
  BY Codes DEF Text, Fielded
<1>6. Status(Response(dt.WorkStatus, h, d)) = IF m.num < 0 \/ m.den < 0 THEN Invalid
                                              ELSE JobStatus(TRUE, TRUE, m.num, m.den)
  <2>1. IndexNUL(d) = Len(x) + 1 /\ Before(d) = x /\ After(d) = y
    BY <1>4, <1>a, Fields, Zenon
  <2>2. IndexNUL(d) # 0 /\ Response(dt.WorkStatus, h, d).Data = d
    BY <1>4, <2>1 DEF Response
  <2> HIDE DEF d
  <2>3. m.num # Invalid /\ m.den # Invalid
    BY <1>3, PacketsAssumption
  <2> QED
    BY <1>a, <2>1, <2>2, <2>3, Zenon DEF Status
<1>8. out.type = dt.WorkStatus /\ out.data = b /\ out.handle = << >> /\ << >> \in Seq(Text)
  <2> HIDE DEF b, c
  <2> QED
    BY <1>b DEF OutPack
<1>9. OutBody(out) = b
  BY <1>5, <1>8, Zenon DEF OutBody
<1>10. Observe("client", p) = Expected(m)
  <2>2. decodeResponse(p) = Response(dt.WorkStatus, h, d)
    BY <1>3, <1>4, <1>5, DecodeFields, Zenon
  <2>1. Sees(dt.WorkStatus, b, h, d)
    <3> HIDE DEF b, d
    <3> QED
      BY <1>4, <1>5, <2>2, ObserveClient, Zenon
  <2>3. Observe("client", p) = <<h, Status(Response(dt.WorkStatus, h, d))>>
    BY <2>1, Zenon DEF Sees
  <2> QED
    BY <1>6, <1>7, <2>3, Zenon
<1> HIDE DEF b, out
<1> QED
  BY <1>2, <1>4, <1>5, <1>8, <1>9, <1>10, Zenon DEF Carried, IsText, PacketOut

(* The client takes what a worker sends for the message that was meant.    *)
LEMMA WorkerCarried ==
  ASSUME NEW m \in FromWorker
  PROVE  Carried(m)
BY ResultCarried, UpdateCarried, ProgressCarried, Zenon DEF FromWorker

-----------------------------------------------------------------------------
(* What the job server sends.                                              *)

(* A packet of the server's that its receiver takes for m.                 *)
Delivers(who, p, m) ==
  \E type \in Text, body \in Seq(Text) : p = newPacket(res, type, body) /\ Observe(who, p) = Expected(m)

(* The body a server reads out of a request is the one the client put in.  *)
LEMMA RequestBody ==
  ASSUME NEW type \in Int, NEW s \in Seq(Text)
  PROVE  Body(encodeRequest(type, s)) = s
<1>1. s \in Seq(Int) /\ req \in Int
  BY TextFacts DEF req
<1> QED
  BY <1>1, PacketBody, Zenon DEF encodeRequest

(* The answer to a job submitted.                                          *)
LEMMA CreatedDelivered ==
  ASSUME NEW m \in [kind : {"created"}, handle : Handles]
  PROVE  Delivers("client", ServerPacket(m), m)
<1> DEFINE h == m.handle
<1>1. h \in Handles /\ m.kind = "created"
  OBVIOUS
<1>2. ServerPacket(m) = newPacket(res, dt.JobCreated, h) /\ Expected(m) = <<h, << >>>>
  BY <1>1 DEF ServerPacket, Expected
<1>3. h \in Seq(Text)
  BY <1>1, Constants, Zenon
<1> HIDE DEF h
<1>4. h \in Seq(Int) /\ << >> \in Seq(Int) /\ dt.JobCreated \in Int /\ dt.JobCreated \in Text
  BY <1>3, TextFacts, Codes DEF Text
<1>5. decodeResponse(newPacket(res, dt.JobCreated, h)) = Response(dt.JobCreated, h, << >>)
  BY <1>4, DecodeWhole, Zenon
<1>6. Sees(dt.JobCreated, h, h, << >>)
  BY <1>4, <1>5, ObserveClient, Zenon
<1>7. Observe("client", newPacket(res, dt.JobCreated, h)) = <<h, << >>>>
  BY <1>6, Zenon DEF Sees
<1> QED
  BY <1>2, <1>3, <1>4, <1>7, Zenon DEF Delivers

(* The answer to an echo request.                                          *)
LEMMA EchoDelivered ==
  ASSUME NEW m \in [kind : {"echo"}, data : Datas]
  PROVE  Delivers("client", ServerPacket(m), m)
<1> DEFINE d == m.data
<1>1. d \in Datas /\ m.kind = "echo"
  OBVIOUS
<1>3. d \in Seq(Text)
  BY <1>1, Constants, Zenon
<1>4. d \in Seq(Int) /\ << >> \in Seq(Int) /\ dt.EchoRes \in Int /\ dt.EchoRes \in Text /\ dt.EchoReq \in Int
  BY <1>3, TextFacts, Codes DEF Text
<1>a. ServerPacket(m) = newPacket(res, dt.EchoRes, Body(encodeRequest(dt.EchoReq, d)))
      /\ Expected(m) = << << >>, d>>
  BY <1>1 DEF ServerPacket, Expected
<1> HIDE DEF d
<1>b. Body(encodeRequest(dt.EchoReq, d)) = d
  BY <1>3, <1>4, RequestBody, Zenon
<1>2. ServerPacket(m) = newPacket(res, dt.EchoRes, d)
  BY <1>a, <1>b, Zenon
<1>5. decodeResponse(newPacket(res, dt.EchoRes, d)) = Response(dt.EchoRes, << >>, d)
  BY <1>4, DecodeWhole, Zenon
<1>6. Sees(dt.EchoRes, d, << >>, d)
  BY <1>4, <1>5, ObserveClient, Zenon
<1>7. Observe("client", newPacket(res, dt.EchoRes, d)) = << << >>, d>>
  BY <1>6, Zenon DEF Sees
<1> QED
  BY <1>2, <1>3, <1>4, <1>7, <1>a, Zenon DEF Delivers

(* A flag is written as one character without a separator.                 *)
LEMMA FlagText ==
  ASSUME NEW b \in BOOLEAN
  PROVE  Flag(b) \in Seq(45 .. 57) /\ Flag(b) # << >> /\ (Flag(b)[1] = 49) = b
<1>1. /\ <<49>> \in Seq(45 .. 57) /\ <<49>> # << >> /\ <<49>>[1] = 49
      /\ <<48>> \in Seq(45 .. 57) /\ <<48>> # << >> /\ <<48>>[1] # 49
  OBVIOUS
<1> QED
  BY <1>1, Zenon DEF Flag

(* A number of the status response is read back.                           *)
LEMMA DigitsParsed ==
  ASSUME NEW n \in Nat
  PROVE  Digits[n] \in Seq(45 .. 57) /\ ParseUint(Digits[n]) = n
<1>1. Itoa(n) = Digits[n] /\ n \in Int /\ ~(n < 0)
  BY DEF Itoa
<1> QED
  BY <1>1, ItoaParsed, Zenon

(* Five fields, the first one outermost.                                   *)
Nested5(h, f, g, x, y) ==
  h \o NUL \o f \o NUL \o g \o NUL \o x \o NUL \o y
    = h \o NUL \o (f \o NUL \o (g \o NUL \o (x \o NUL \o y)))

(* Five fields joined from the left are five fields nested to the right.   *)
LEMMA FiveFields ==
  ASSUME NEW h \in Seq(Int), NEW f \in Seq(Int), NEW g \in Seq(Int), NEW x \in Seq(Int), NEW y \in Seq(Int)
  PROVE  Nested5(h, f, g, x, y)
<1> DEFINE u == h \o NUL \o f
           w == u \o NUL \o g
           z == x \o NUL \o y
           v == g \o NUL \o z
<1>0. NUL \in Seq(Int) /\ \A a, b \in Seq(Int) : a \o b \in Seq(Int)
  BY DEF NUL
<1>1. u \in Seq(Int) /\ w \in Seq(Int) /\ z \in Seq(Int) /\ v \in Seq(Int)
  BY <1>0, Zenon
<1>2. Nested(w, x, y) /\ Nested(u, g, z) /\ Nested(h, f, v)
  <2> HIDE DEF u, w, z, v
  <2> QED
    BY <1>1, JoinAssoc, Zenon
<1>3. w \o NUL \o x \o NUL \o y = w \o NUL \o z
  BY <1>2, Zenon DEF Nested
<1>4. w \o NUL \o z = u \o NUL \o v
  BY <1>2, Zenon DEF Nested
<1>5. u \o NUL \o v = h \o NUL \o (f \o NUL \o v)
  BY <1>2, Zenon DEF Nested
<1> QED
  BY <1>3, <1>4, <1>5, Zenon DEF Nested5

(* The answer to a status request.                                         *)
LEMMA StatusDelivered ==
  ASSUME NEW m \in [kind : {"status"}, handle : Handles, known : BOOLEAN, running : BOOLEAN,
             num : Numbers \cap Nat, den : Numbers \cap Nat]
  PROVE  Delivers("client", ServerPacket(m), m)
<1> DEFINE h == m.handle
           f == Flag(m.known)
           g == Flag(m.running)
           x == Digits[m.num]
           y == Digits[m.den]
           z == x \o NUL \o y
           v == g \o NUL \o z
           d == f \o NUL \o v
           b == h \o NUL \o d
           resp == Response(dt.StatusRes, h, d)
<1>1. h \in Handles /\ m.known \in BOOLEAN /\ m.running \in BOOLEAN /\ m.num \in Nat /\ m.den \in Nat
      /\ m.kind = "status"
  OBVIOUS
<1>2. h \in Seq(Text) /\ IndexNUL(h) = 0
  BY <1>1, Constants, Zenon
<1>3. /\ f \in Seq(45 .. 57) /\ f # << >> /\ (f[1] = 49) = m.known
      /\ g \in Seq(45 .. 57) /\ g # << >> /\ (g[1] = 49) = m.running
  BY <1>1, FlagText
<1>4. /\ x \in Seq(45 .. 57) /\ ParseUint(x) = m.num
      /\ y \in Seq(45 .. 57) /\ ParseUint(y) = m.den
  BY <1>1, DigitsParsed, Zenon
<1>5. dt.GetStatus \in Int /\ dt.StatusRes \in Int /\ dt.StatusRes \in Text /\ dt.StatusRes \in Fielded
  BY Codes DEF Text, Fielded
<1>a. Body(encodeRequest(dt.GetStatus, h)) = h
  BY <1>2, <1>5, RequestBody, Zenon
<1>6. /\ ServerPacket(m) = newPacket(res, dt.StatusRes, h \o NUL \o f \o NUL \o g \o NUL \o x \o NUL \o y)
      /\ Expected(m) = <<h, JobStatus(m.known, m.running, m.num, m.den)>>
  BY <1>1, <1>a DEF ServerPacket, Expected
<1> HIDE DEF h, f, g, x, y
<1>7. /\ f \in Seq(Text) /\ IndexNUL(f) = 0 /\ g \in Seq(Text) /\ IndexNUL(g) = 0
      /\ x \in Seq(Text) /\ IndexNUL(x) = 0 /\ y \in Seq(Text)
  BY <1>3, <1>4, NumberText, Zenon
<1>8. z \in Seq(Text) /\ v \in Seq(Text) /\ d \in Seq(Text) /\ b \in Seq(Text)
  <2>1. z \in Seq(Text)
    BY <1>7, Joined, Zenon
  <2>2. v \in Seq(Text)
    <3> HIDE DEF z
    <3> QED
      BY <1>7, <2>1, Joined, Zenon
  <2>3. d \in Seq(Text)
    <3> HIDE DEF v
    <3> QED
      BY <1>7, <2>2, Joined, Zenon
  <2>4. b \in Seq(Text)
    <3> HIDE DEF d
    <3> QED
      BY <1>2, <2>3, Joined, Zenon
  <2> QED
    BY <2>1, <2>2, <2>3, <2>4
<1>9. ServerPacket(m) = newPacket(res, dt.StatusRes, b)
  <2>1. h \in Seq(Int) /\ f \in Seq(Int) /\ g \in Seq(Int) /\ x \in Seq(Int) /\ y \in Seq(Int)
    BY <1>2, <1>7, TextFacts, Zenon
  <2>2. h \o NUL \o f \o NUL \o g \o NUL \o x \o NUL \o y = b
    <3>1. Nested5(h, f, g, x, y)
      BY <2>1, FiveFields, Zenon
    <3> QED
      BY <3>1, Zenon DEF Nested5
  <2> HIDE DEF b
  <2> QED
    BY <1>6, <2>2, Zenon
<1>10. _status(resp) = JobStatus(m.known, m.running, m.num, m.den)
  <2>0. /\ f \in Seq(Int) /\ g \in Seq(Int) /\ x \in Seq(Int) /\ y \in Seq(Int)
        /\ z \in Seq(Int) /\ v \in Seq(Int)
    BY <1>7, <1>8, TextFacts, Zenon
  <2>1. IndexNUL(z) = Len(x) + 1 /\ Before(z) = x /\ After(z) = y
    BY <1>7, <2>0, Fields, Zenon
  <2> HIDE DEF z
  <2>2. IndexNUL(v) = Len(g) + 1 /\ Before(v) = g /\ After(v) = z
    BY <1>7, <2>0, Fields, Zenon
  <2> HIDE DEF v
  <2>3. IndexNUL(d) = Len(f) + 1 /\ Before(d) = f /\ After(d) = v
    BY <1>7, <2>0, Fields, Zenon
  <2> HIDE DEF d
  <2>4. IndexNUL(z) # 0 /\ IndexNUL(v) # 0 /\ IndexNUL(d) # 0
    BY <2>0, <2>1, <2>2, <2>3
  <2>5. resp.Data = d
    BY DEF Response
  <2> HIDE DEF resp
  <2>6. m.num # Invalid /\ m.den # Invalid
    BY <1>1, PacketsAssumption
  <2>7. _status(resp) = JobStatus(f[1] = 49, g[1] = 49, m.num, m.den)
    BY <1>3, <1>4, <2>1, <2>2, <2>3, <2>4, <2>5, <2>6, Zenon DEF _status
  <2> QED
    BY <1>3, <2>7, Zenon
<1>11. Observe("client", newPacket(res, dt.StatusRes, b)) = <<h, JobStatus(m.known, m.running, m.num, m.den)>>
  <2>0. h \in Seq(Int) /\ d \in Seq(Int) /\ b \in Seq(Int)
    BY <1>2, <1>8, TextFacts, Zenon
  <2>1. decodeResponse(newPacket(res, dt.StatusRes, b)) = resp
    <3> HIDE DEF d
    <3> QED
      BY <1>2, <1>5, <2>0, DecodeFields, Zenon
  <2> HIDE DEF b, d
  <2>2. Sees(dt.StatusRes, b, h, d)
    BY <1>5, <2>0, <2>1, ObserveClient, Zenon
  <2> QED
    BY <1>10, <2>2, Zenon DEF Sees
<1> HIDE DEF b
<1> QED
  BY <1>5, <1>6, <1>8, <1>9, <1>11, Zenon DEF Delivers

(* The client takes what a server answers for the message that was meant.  *)
LEMMA ServerDelivered ==
  ASSUME NEW m \in FromServer
  PROVE  Delivers("client", ServerPacket(m), m)
BY CreatedDelivered, EchoDelivered, StatusDelivered, Zenon DEF FromServer

-----------------------------------------------------------------------------
(* What it assigns.                                                        *)

(* The three fields of a job that is assigned.                             *)
LEMMA JobBody ==
  ASSUME NEW fn \in Seq(Text), NEW id \in Seq(Text), NEW d \in Seq(Text), IndexNUL(fn) = 0, IndexNUL(id) = 0
  PROVE  LET job == Body(encodeJob(dt.SubmitJob, fn, id, d))
         IN Before(job) = fn /\ Before(After(job)) = id /\ After(After(job)) = d
<1> DEFINE r == id \o NUL \o d
           j == fn \o NUL \o r
<1>1. fn \in Seq(Int) /\ id \in Seq(Int) /\ d \in Seq(Int)
  BY TextFacts, Zenon
<1>2. r \in Seq(Int)
  BY Joined, TextFacts, Zenon
<1>3. fn \o NUL \o id \o NUL \o d = j
  <2>1. Nested(fn, id, d)
    BY <1>1, JoinAssoc, Zenon
  <2> QED
    BY <2>1, Zenon DEF Nested
<1>4. Before(r) = id /\ After(r) = d
  BY <1>1, Fields, Zenon
<1> HIDE DEF r
<1>5. Before(j) = fn /\ After(j) = r
  BY <1>1, <1>2, Fields, Zenon
<1>6. j \in Seq(Int) /\ req \in Int /\ dt.SubmitJob \in Int
  <2>1. NUL \in Seq(Int) /\ \A a, b \in Seq(Int) : a \o b \in Seq(Int)
    BY DEF NUL
  <2>2. j \in Seq(Int)
    BY <1>1, <1>2, <2>1, Zenon
  <2>3. req \in Int /\ dt.SubmitJob \in Int
    BY Codes DEF req
  <2> QED
    BY <2>2, <2>3
<1> HIDE DEF j
<1>7. Body(encodeJob(dt.SubmitJob, fn, id, d)) = j
  <2>1. encodeJob(dt.SubmitJob, fn, id, d) = newPacket(req, dt.SubmitJob, j)
    BY <1>3, Zenon DEF encodeJob
  <2>2. Body(newPacket(req, dt.SubmitJob, j)) = j
    BY <1>6, PacketBody, Zenon
  <2> QED
    BY <2>1, <2>2, Zenon
<1> QED
  BY <1>4, <1>5, <1>7

(* The worker takes a job that is assigned for the one that was meant.     *)
LEMMA AssignedDelivered ==
  ASSUME NEW m \in Assigned
  PROVE  Delivers("worker", Assign(m), m)
<1> DEFINE h  == m.handle
           fn == m.fn
           id == m.id
           d  == m.data
           r  == id \o NUL \o d
<1>1. h \in Handles /\ fn \in Names /\ id \in Names /\ d \in Datas /\ m.kind \in {"assign", "assign_uniq"}
  BY DEF Assigned
<1>2. /\ h \in Seq(Text) /\ IndexNUL(h) = 0 /\ fn \in Seq(Text) /\ IndexNUL(fn) = 0
      /\ id \in Seq(Text) /\ IndexNUL(id) = 0 /\ d \in Seq(Text)
  BY <1>1, Constants, Zenon
<1>3. /\ m.kind = "assign" => Expected(m) = InPack(dt.JobAssign, h, fn, << >>, d)
      /\ m.kind = "assign_uniq" => Expected(m) = InPack(dt.JobAssignUniq, h, fn, id, d)
  BY DEF Expected
<1>4. Assign(m) = IF m.kind = "assign" THEN newPacket(res, dt.JobAssign, h \o NUL \o fn \o NUL \o d)
                  ELSE newPacket(res, dt.JobAssignUniq, h \o NUL \o fn \o NUL \o id \o NUL \o d)
  <2> HIDE DEF h, fn, id, d
  <2>1. LET job == Body(encodeJob(dt.SubmitJob, fn, id, d))
        IN Before(job) = fn /\ Before(After(job)) = id /\ After(After(job)) = d
    BY <1>2, JobBody, Zenon
  <2> QED
    BY <2>1, Zenon DEF Assign, h, fn, id, d
<1> HIDE DEF h, fn, id, d
<1>5. h \in Seq(Int) /\ fn \in Seq(Int) /\ id \in Seq(Int) /\ d \in Seq(Int)
  BY <1>2, TextFacts, Zenon
<1>6. r \in Seq(Text) /\ r \in Seq(Int) /\ IndexNUL(r) = Len(id) + 1 /\ Before(r) = id /\ After(r) = d
  BY <1>2, <1>5, Joined, TextFacts, Fields, Zenon
<1>7. CASE m.kind = "assign"
  <2> DEFINE c == fn \o NUL \o d
             b == h \o NUL \o c
  <2>1. c \in Seq(Text) /\ c \in Seq(Int) /\ IndexNUL(c) = Len(fn) + 1 /\ Before(c) = fn /\ After(c) = d
    BY <1>2, <1>5, Joined, TextFacts, Fields, Zenon
  <2>2. h \o NUL \o fn \o NUL \o d = b
    <3>1. Nested(h, fn, d)
      BY <1>5, JoinAssoc, Zenon
    <3> QED
      BY <3>1, Zenon DEF Nested
  <2> HIDE DEF c
  <2>3. b \in Seq(Text) /\ b \in Seq(Int) /\ IndexNUL(b) = Len(h) + 1 /\ Before(b) = h /\ After(b) = c
    BY <1>2, <1>5, <2>1, Joined, TextFacts, Fields, Zenon
  <2>4. IndexNUL(b) # 0 /\ IndexNUL(c) # 0
    BY <1>5, <2>1, <2>3
  <2>5. dt.JobAssign \in Int /\ dt.JobAssign \in Text /\ res \in Int /\ dt.JobAssign # dt.JobAssignUniq
    BY Codes DEF res, Text
  <2> HIDE DEF b
  <2> DEFINE p == newPacket(res, dt.JobAssign, b)
  <2>6. Type(p) = dt.JobAssign /\ Body(p) = b /\ ~Truncated(p)
    BY <2>3, <2>5, PacketBody, Zenon
  <2>7. Assign(m) = p
    BY <1>4, <1>7, <2>2, Zenon
  <2> HIDE DEF p
  <2>8. decodeInPack(p) = InPack(dt.JobAssign, h, fn, << >>, d)
    BY <2>1, <2>3, <2>4, <2>5, <2>6 DEF decodeInPack
  <2>9. Observe("worker", p) = decodeInPack(p)
    BY DEF Observe
  <2>10. Observe("worker", p) = Expected(m)
    BY <1>3, <1>7, <2>8, <2>9, Zenon
  <2> QED
    BY <2>3, <2>5, <2>7, <2>10, Zenon DEF Delivers, p
<1>8. CASE m.kind = "assign_uniq"
  <2> DEFINE c == fn \o NUL \o r
             b == h \o NUL \o c
  <2>2. h \o NUL \o fn \o NUL \o id \o NUL \o d = b
    <3> DEFINE w == h \o NUL \o fn
    <3>0. w \in Seq(Int)
      BY <1>2, Joined, TextFacts, Zenon
    <3>1. Nested(h, fn, r)
      <4> HIDE DEF r
      <4> QED
        BY <1>5, <1>6, JoinAssoc, Zenon
    <3>2. Nested(w, id, d)
      <4> HIDE DEF w
      <4> QED
        BY <1>5, <3>0, JoinAssoc, Zenon
    <3>3. w \o NUL \o id \o NUL \o d = w \o NUL \o r
      BY <3>2, Zenon DEF Nested
    <3>4. w \o NUL \o r = b
      BY <3>1, Zenon DEF Nested
    <3> QED
      BY <3>3, <3>4, Zenon
  <2> HIDE DEF r
  <2>1. c \in Seq(Text) /\ c \in Seq(Int) /\ IndexNUL(c) = Len(fn) + 1 /\ Before(c) = fn /\ After(c) = r
    BY <1>2, <1>5, <1>6, Joined, TextFacts, Fields, Zenon
  <2> HIDE DEF c
  <2>3. b \in Seq(Text) /\ b \in Seq(Int) /\ IndexNUL(b) = Len(h) + 1 /\ Before(b) = h /\ After(b) = c
    BY <1>2, <1>5, <2>1, Joined, TextFacts, Fields, Zenon
  <2>4. IndexNUL(b) # 0 /\ IndexNUL(c) # 0 /\ IndexNUL(r) # 0
    BY <1>5, <1>6, <2>1, <2>3
  <2>5. /\ dt.JobAssignUniq \in Int /\ dt.JobAssignUniq \in Text /\ res \in Int
        /\ dt.JobAssign # dt.JobAssignUniq
    BY Codes DEF res, Text
  <2> HIDE DEF b
  <2> DEFINE p == newPacket(res, dt.JobAssignUniq, b)
  <2>6. Type(p) = dt.JobAssignUniq /\ Body(p) = b /\ ~Truncated(p)
    BY <2>3, <2>5, PacketBody, Zenon
  <2>7. Assign(m) = p
    BY <1>4, <1>8, <2>2, Zenon
  <2> HIDE DEF p
  <2>8. decodeInPack(p) = InPack(dt.JobAssignUniq, h, fn, id, d)
    BY <1>6, <2>1, <2>3, <2>4, <2>5, <2>6 DEF decodeInPack
  <2>9. Observe("worker", p) = decodeInPack(p)
    BY DEF Observe
  <2>10. Observe("worker", p) = Expected(m)
    BY <1>3, <1>8, <2>8, <2>9, Zenon
  <2> QED
    BY <2>3, <2>5, <2>7, <2>10, Zenon DEF Delivers, p
<1> QED
  BY <1>1, <1>7, <1>8

-----------------------------------------------------------------------------
(* Packets in a stream of bytes.                                           *)

(* What the bytes of a stream include.                                     *)
LEMMA BytesFacts ==
  /\ Bytes \subseteq Nat /\ Bytes \subseteq Int /\ Text \subseteq Bytes /\ req \in Bytes /\ res \in Bytes
  /\ 0 .. Word - 1 \subseteq Bytes /\ 0 \in Bytes /\ MaxPacketLength \in Nat /\ Word \in Nat /\ req # res
BY FramingAssumption DEF Bytes, Text, req, res

(* Text is a stream of bytes.                                              *)
LEMMA BytesSeq ==
  ASSUME NEW s \in Seq(Bytes)
  PROVE  s \in Seq(Int) /\ Len(s) \in Nat
<1>1. s \in Seq(Int)
  BY BytesFacts, SeqOfMore, Zenon
<1> QED
  BY <1>1

(* A header and the body it declares.                                      *)
Whole(p) == p \in Seq(Bytes) /\ p[3] \in Nat /\ Len(p) = 3 + p[3] /\ p[1] = res

(* What one packet sent puts on the wire: bytes the reader would take for  *)
(* the message, or a header it rejects.                                    *)
Framed(who, p, m) ==
  \/ m.kind # "bad" /\ Whole(p) /\ Observe(who, p) = Expected(m)
  \/ m.kind = "bad" /\ p \in Seq(Bytes) /\ Len(p) = 3 /\ (p[1] # res \/ TooLong(p[3]))

(* The length field of a packet holds the length of its body.              *)
LEMMA PacketWhole ==
  ASSUME NEW type \in Text, NEW body \in Seq(Text), Len(body) < Word
  PROVE  Whole(newPacket(res, type, body)) /\ newPacket(res, type, body)[3] = Len(body)
<1> DEFINE h == <<res, type, Len(body)>>
<1>1. type \in Int /\ body \in Seq(Int) /\ Len(body) \in Nat /\ res \in Int
  BY TextFacts DEF res, Text
<1>2. IsPacket(newPacket(res, type, body), res, type, body)
  BY <1>1, PacketParts, Zenon
<1>3. h \in Seq(Bytes)
  BY <1>1, BytesFacts
<1>4. body \in Seq(Bytes)
  BY BytesFacts, SeqOfMore, Zenon
<1>5. newPacket(res, type, body) \in Seq(Bytes)
  <2>1. \A a, b \in Seq(Bytes) : a \o b \in Seq(Bytes)
    OBVIOUS
  <2> QED
    BY <1>3, <1>4, <2>1, Zenon DEF newPacket
<1> QED
  BY <1>1, <1>2, <1>5, Zenon DEF IsPacket, Whole

(* A packet that is delivered is framed.                                   *)
LEMMA DeliveredWhole ==
  ASSUME NEW who, NEW p, NEW m, Delivers(who, p, m), p[3] < Word, m.kind # "bad"
  PROVE  Framed(who, p, m) /\ p \in Seq(Bytes)
<1>1. PICK type \in Text, body \in Seq(Text) : p = newPacket(res, type, body) /\ Observe(who, p) = Expected(m)
  BY Zenon DEF Delivers
<1>2. p[3] = Len(body)
  <2>1. type \in Int /\ body \in Seq(Int) /\ res \in Int
    BY TextFacts DEF res, Text
  <2>2. IsPacket(newPacket(res, type, body), res, type, body)
    BY <2>1, PacketParts, Zenon
  <2> QED
    BY <1>1, <2>2, Zenon DEF IsPacket
<1>3. Whole(p)
  BY <1>1, <1>2, PacketWhole, Zenon
<1> QED
  BY <1>1, <1>3, Zenon DEF Framed, Whole

(* agent.write: whatever the pooled buffer held, the server relays the     *)
(* packet that was meant, and the array behind the buffer is as long as it *)
(* was or as the packet.                                                   *)
LEMMA WorkerFramed ==
  ASSUME NEW m \in FromWorker, pooled \in Seq(Bytes)
  PROVE  LET data == encodeInto(OutPackOf(m), pooled)
             n == EncodedLen(OutPackOf(m))
         IN /\ data \in Seq(Bytes) /\ Len(data) \in Nat
            /\ Framed("client", Relay(SubSeq(data, 1, n)), m) /\ Relay(SubSeq(data, 1, n)) \in Seq(Bytes)
<1> DEFINE out == OutPackOf(m)
           b == OutBody(out)
           data == encodeInto(out, pooled)
           n == EncodedLen(out)
           q == newPacket(req, out.type, b)
<1>1. IsText(out) /\ Observe("client", PacketOut(m)) = Expected(m)
  BY WorkerCarried, Zenon DEF Carried
<1>2. m.kind # "bad"
  BY DEF FromWorker
<1>3. n - 3 < Word
  BY LengthAssumption, Zenon DEF MinPacketLength
<1>a. PacketOut(m) = newPacket(res, out.type, b)
  BY Zenon DEF PacketOut
<1> HIDE DEF out
<1>4. out.type \in Text /\ out.data \in Seq(Text) /\ out.handle \in Seq(Text) /\ out.type \in Int
  <2>1. Text \subseteq Int
    BY DEF Text
  <2> QED
    BY <1>1, <2>1, Zenon DEF IsText
<1>5. IsOut(out)
  BY <1>4, TextFacts, Zenon DEF IsOut
<1>6. n = 3 + Len(b) /\ Len(b) \in Nat /\ b \in Seq(Int)
  BY <1>5, OutBodyAt, Zenon
<1>7. b \in Seq(Text)
  <2>1. out.handle \o NUL \o out.data \in Seq(Text)
    BY <1>4, Joined, Zenon
  <2> QED
    BY <1>4, <2>1, Zenon DEF OutBody
<1>8. Len(b) < Word /\ Len(b) \in Bytes
  <2>1. Len(b) < Word /\ Len(b) \in 0 .. Word - 1
    BY <1>3, <1>6, BytesFacts
  <2> QED
    BY <2>1, BytesFacts, Zenon
<1>9. out.type \in Bytes /\ out.data \in Seq(Bytes) /\ out.handle \in Seq(Bytes)
  BY <1>4, BytesFacts, SeqOfMore, Zenon
<1>10. data \in Seq(Bytes) /\ SubSeq(data, 1, n) = q
  BY <1>8, <1>9, BytesFacts, Encoded, Zenon
<1>11. Type(q) = out.type /\ Body(q) = b
  <2>1. req \in Int
    BY DEF req
  <2> HIDE DEF b
  <2> QED
    BY <1>4, <1>6, <2>1, PacketBody, Zenon
<1>12. Relay(q) = newPacket(res, out.type, b)
  BY <1>11, Zenon DEF Relay
<1>13. Whole(Relay(q)) /\ Observe("client", Relay(q)) = Expected(m)
  <2>1. Whole(newPacket(res, out.type, b))
    <3> HIDE DEF b
    <3> QED
      BY <1>4, <1>7, <1>8, PacketWhole, Zenon
  <2> QED
    BY <1>1, <1>12, <1>a, <2>1, Zenon
<1>14. Len(data) \in Nat
  <2> HIDE DEF data
  <2> QED
    BY <1>10, BytesSeq, Zenon
<1> QED
  BY <1>2, <1>10, <1>13, <1>14, Zenon DEF Framed, Whole, out

(* So is what the server answers.                                          *)
LEMMA ServerFramed ==
  ASSUME NEW m \in FromServer
  PROVE  Framed("client", ServerPacket(m), m) /\ ServerPacket(m) \in Seq(Bytes)
<1>1. m.kind # "bad"
  BY DEF FromServer
<1>2. ServerPacket(m)[3] < Word
  BY LengthAssumption, Zenon
<1> QED
  BY <1>1, <1>2, ServerDelivered, DeliveredWhole, Zenon

(* So is what it assigns.                                                  *)
LEMMA AssignedFramed ==
  ASSUME NEW m \in Assigned
  PROVE  Framed("worker", Assign(m), m) /\ Assign(m) \in Seq(Bytes)
<1>1. m.kind # "bad"
  BY DEF Assigned
<1>2. Assign(m)[3] < Word
  BY LengthAssumption, Zenon
<1> QED
  BY <1>1, <1>2, AssignedDelivered, DeliveredWhole, Zenon

(* A packet out of step has a header that readers reject.                  *)
LEMMA BadFramed ==
  ASSUME NEW who, NEW magic, NEW length,
         (magic = req /\ length = 0) \/ (magic = res /\ length \in BadLengths)
  PROVE  LET p == <<magic, dt.EchoRes, length>>
         IN Framed(who, p, [kind |-> "bad"]) /\ p \in Seq(Bytes)
<1> DEFINE p == <<magic, dt.EchoRes, length>>
<1>0. \A l \in BadLengths : l \in 0 .. Word - 1 /\ l > MaxPacketLength
  <2>1. BadLengths \subseteq MaxPacketLength + 1 .. Word - 1
    BY FramingAssumption, Zenon
  <2> QED
    BY <2>1, BytesFacts
<1>1. dt.EchoRes \in Bytes /\ magic \in Bytes /\ length \in Bytes
  <2>1. dt.EchoRes \in Text
    BY Codes DEF Text
  <2>2. length \in 0 .. Word - 1 \/ length = 0
    BY <1>0, Zenon
  <2> QED
    BY Zenon, <2>1, <2>2, BytesFacts
<1>2. p \in Seq(Bytes) /\ Len(p) = 3 /\ p[1] = magic /\ p[3] = length
  BY <1>1
<1>3. magic # res \/ length > MaxPacketLength
  BY <1>0, BytesFacts, Zenon
<1> HIDE DEF p
<1>4. Framed(who, p, [kind |-> "bad"])
  BY <1>2, <1>3 DEF Framed, TooLong
<1> QED
  BY <1>2, <1>4 DEF p

-----------------------------------------------------------------------------
(* Cutting streams.                                                        *)

(* A concatenation of streams, by index.                                   *)
LEMMA CatBytes ==
  ASSUME NEW a \in Seq(Bytes), NEW b \in Seq(Bytes)
  PROVE  /\ a \o b \in Seq(Bytes) /\ Len(a \o b) = Len(a) + Len(b) /\ Len(a) \in Nat /\ Len(b) \in Nat
         /\ \A i \in 1 .. Len(a) : (a \o b)[i] = a[i]
         /\ \A i \in 1 .. Len(b) : (a \o b)[Len(a) + i] = b[i]
OBVIOUS

(* The empty stream.                                                       *)
LEMMA EmptyBytes ==
  /\ << >> \in Seq(Bytes) /\ Len(<< >>) = 0
  /\ \A a \in Seq(Bytes) : << >> \o a = a /\ a \o << >> = a /\ (Len(a) = 0 => a = << >>)
OBVIOUS

(* Streams can be cut in any order.                                        *)
LEMMA AssocBytes ==
  ASSUME NEW a \in Seq(Bytes), NEW b \in Seq(Bytes), NEW c \in Seq(Bytes)
  PROVE  Assoc(a, b, c)
<1>1. a \in Seq(Int) /\ b \in Seq(Int) /\ c \in Seq(Int)
  BY BytesSeq, Zenon
<1> QED
  BY <1>1, CatAssoc, Zenon

(* Streams with the same bytes are equal.                                  *)
LEMMA SameBytes ==
  ASSUME NEW a \in Seq(Bytes), NEW b \in Seq(Bytes), Len(a) = Len(b), \A i \in 1 .. Len(b) : a[i] = b[i]
  PROVE  a = b
OBVIOUS

(* Two ways to cut the same bytes at the same place are the same.          *)
SameCut(a, b, p, r)  == a \o b = p \o r /\ Len(a) = Len(p) => a = p /\ b = r
Agree(a, b, p, r, i) == a \o b = p \o r /\ i \in 1 .. Len(a) /\ i \in 1 .. Len(p) => a[i] = p[i]

(* The same bytes, cut at the same place.                                  *)
LEMMA CutAt ==
  ASSUME NEW a \in Seq(Bytes), NEW b \in Seq(Bytes), NEW p \in Seq(Bytes), NEW r \in Seq(Bytes)
  PROVE  SameCut(a, b, p, r)
<1> SUFFICES ASSUME a \o b = p \o r, Len(a) = Len(p)
             PROVE  a = p /\ b = r
  BY DEF SameCut
<1> DEFINE s == a \o b
           t == p \o r
<1>1. /\ Len(s) = Len(a) + Len(b) /\ Len(a) \in Nat /\ Len(b) \in Nat
      /\ \A i \in 1 .. Len(a) : s[i] = a[i]
      /\ \A i \in 1 .. Len(b) : s[Len(a) + i] = b[i]
  BY CatBytes, Zenon
<1>2. /\ Len(t) = Len(p) + Len(r) /\ Len(p) \in Nat /\ Len(r) \in Nat
      /\ \A i \in 1 .. Len(p) : t[i] = p[i]
      /\ \A i \in 1 .. Len(r) : t[Len(p) + i] = r[i]
  BY CatBytes, Zenon
<1>3. s = t
  OBVIOUS
<1> HIDE DEF s, t
<1>4. Len(b) = Len(r)
  BY <1>1, <1>2, <1>3
<1>5. \A i \in 1 .. Len(p) : a[i] = p[i]
  BY <1>1, <1>2, <1>3, Zenon
<1>6. \A i \in 1 .. Len(r) : b[i] = r[i]
  BY <1>1, <1>2, <1>3, <1>4, Zenon
<1> QED
  BY <1>4, <1>5, <1>6, SameBytes, Zenon

(* Two cuts of the same bytes agree where they overlap.                    *)
LEMMA Prefix ==
  ASSUME NEW a \in Seq(Bytes), NEW b \in Seq(Bytes), NEW p \in Seq(Bytes), NEW r \in Seq(Bytes), NEW i
  PROVE  Agree(a, b, p, r, i)
<1> SUFFICES ASSUME a \o b = p \o r, i \in 1 .. Len(a), i \in 1 .. Len(p)
             PROVE  a[i] = p[i]
  BY DEF Agree
<1>1. (a \o b)[i] = a[i] /\ (p \o r)[i] = p[i]
  BY CatBytes, Zenon
<1> QED
  BY <1>1, Zenon

(* A stream is its first n bytes and the rest.                             *)
LEMMA Parted ==
  ASSUME NEW s \in Seq(Bytes), NEW n \in 0 .. Len(s)
  PROVE  /\ SubSeq(s, 1, n) \in Seq(Bytes) /\ Len(SubSeq(s, 1, n)) = n
         /\ SubSeq(s, n + 1, Len(s)) \in Seq(Bytes) /\ Len(SubSeq(s, n + 1, Len(s))) = Len(s) - n
         /\ \A i \in 1 .. n : SubSeq(s, 1, n)[i] = s[i]
         /\ SubSeq(s, 1, n) \o SubSeq(s, n + 1, Len(s)) = s
<1> DEFINE a == SubSeq(s, 1, n)
           b == SubSeq(s, n + 1, Len(s))
<1>1. n \in Nat /\ Len(s) \in Nat /\ n =< Len(s)
  OBVIOUS
<1>2. a \in Seq(Bytes) /\ Len(a) = n /\ \A i \in 1 .. n : a[i] = s[i]
  BY <1>1
<1>3. b \in Seq(Bytes) /\ Len(b) = Len(s) - n
  BY <1>1
<1>4. ASSUME NEW i \in 1 .. Len(b) PROVE b[i] = s[n + i]
  <2>1. (n + 1) + i - 1 = n + i /\ i \in 1 .. (Len(s) - (n + 1) + 1)
    BY <1>1, <1>3
  <2>2. b[i] = s[(n + 1) + i - 1]
    BY <1>1, <2>1
  <2> QED
    BY <2>1, <2>2, Zenon
<1> HIDE DEF a, b
<1>5. /\ a \o b \in Seq(Bytes) /\ Len(a \o b) = Len(a) + Len(b)
      /\ \A i \in 1 .. Len(a) : (a \o b)[i] = a[i]
      /\ \A i \in 1 .. Len(b) : (a \o b)[Len(a) + i] = b[i]
  BY <1>2, <1>3, CatBytes, Zenon
<1>6. ASSUME NEW i \in 1 .. Len(s) PROVE (a \o b)[i] = s[i]
  <2>1. CASE i =< n
    <3>1. i \in 1 .. n
      BY <1>1, <2>1
    <3> QED
      BY <1>2, <1>5, <3>1, Zenon
  <2>2. CASE i > n
    <3> DEFINE k == i - n
    <3>1. k \in 1 .. Len(b) /\ i = n + k
      BY <1>1, <1>3, <2>2
    <3> HIDE DEF k
    <3> QED
      BY <1>2, <1>4, <1>5, <3>1, Zenon
  <2>3. i =< n \/ i > n
    BY <1>1
  <2> QED
    BY <2>1, <2>2, <2>3, Zenon
<1>7. Len(a \o b) = Len(s)
  BY <1>1, <1>2, <1>3, <1>5
<1>8. a \o b = s
  BY <1>5, <1>6, <1>7, SameBytes, Zenon
<1> QED
  BY Zenon, <1>2, <1>3, <1>8 DEF a, b

-----------------------------------------------------------------------------
(* The inductive invariant.                                                *)

(* All that can be sent.                                                   *)
Messages == FromWorker \cup FromServer \cup Assigned \cup {[kind |-> "bad"]}

(* rest[i] are the bytes that follow the first i packets sent on the       *)
(* connection, lost those the connection broke off before.                 *)
Pending(lost, rest) ==
  /\ hdr \o (buf \o (wire \o lost)) = rest[Len(got)]
  /\ rest[Len(sent)] = << >>
  /\ \A i \in Len(got) + 1 .. Len(sent) :
       \E p \in Seq(Bytes) : Framed(reader, p, sent[i]) /\ rest[i - 1] = p \o rest[i]
  /\ up => lost = << >>

(* The bytes on the connection are those of the packets not decoded yet.   *)
InStep == \E lost \in Seq(Bytes), rest \in [Nat -> Seq(Bytes)] : Pending(lost, rest)

(* A header that was taken was accepted.                                   *)
HeaderTaken == hdr # << >> => hdr[1] = res /\ hdr[3] \in 0 .. MaxPacketLength

(* What was decoded was sent.                                              *)
Decoded == \A i \in 1 .. Len(got) : sent[i].kind # "bad" /\ got[i] = Expected(sent[i])

(* The inductive invariant.                                                *)
IInv ==
  /\ TypeOK
  /\ sent \in Seq(Messages) /\ got \in Seq({Expected(m) : m \in Messages})
  /\ HeaderTaken /\ Decoded /\ InStep

(* The types that the steps rely on.                                       *)
LEMMA Lengths ==
  ASSUME IInv
  PROVE  /\ Len(got) \in Nat /\ Len(sent) \in Nat /\ Len(got) =< Len(sent) /\ Len(sent) =< packets
         /\ Len(buf) \in Nat /\ Len(hdr) \in {0, 3} /\ hdr \in Seq(Bytes) /\ buf \in Seq(Bytes)
         /\ wire \in Seq(Bytes) /\ DOMAIN got = 1 .. Len(got) /\ (hdr = << >> \/ Len(hdr) = 3)
         /\ packets \in Nat
BY DEF IInv, TypeOK, MinPacketLength

(* The first connection starts in step.                                    *)
LEMMA InitOK ==
  Init => IInv
<1> SUFFICES ASSUME Init PROVE IInv
  OBVIOUS
<1>0. /\ reader \in {"client", "worker"} /\ pooled = [i \in 1 .. EncodeBufSize |-> 0]
      /\ packets = 0 /\ sent = << >> /\ wire = << >> /\ buf = << >> /\ hdr = << >> /\ up = TRUE /\ got = << >>
  BY DEF Init
<1>1. pooled \in Seq(Bytes) /\ Len(pooled) = EncodeBufSize /\ EncodeBufSize =< EncodeBufKeep
  BY <1>0, BytesFacts, PacketsAssumption
<1>2. TypeOK
  <2>1. packets \in 0 .. MaxPackets
    <3>1. MaxPackets \in Nat
      BY FramingAssumption, Zenon
    <3> QED
      BY <1>0, <3>1
  <2>2. Len(hdr) = 0 /\ Len(got) =< Len(sent) /\ Len(sent) =< packets
    BY <1>0
  <2>3. {wire, buf, hdr} \subseteq Seq(Bytes)
    BY <1>0, EmptyBytes, Zenon
  <2> QED
    BY <1>0, <1>1, <2>1, <2>2, <2>3, Zenon DEF TypeOK
<1>3. sent \in Seq(Messages) /\ got \in Seq({Expected(m) : m \in Messages})
  BY <1>0
<1>4. HeaderTaken /\ Decoded
  BY <1>0 DEF HeaderTaken, Decoded
<1>5. Pending(<< >>, [i \in Nat |-> << >>])
  BY <1>0, EmptyBytes DEF Pending
<1>6. InStep
  <2>1. [i \in Nat |-> << >>] \in [Nat -> Seq(Bytes)]
    BY EmptyBytes
  <2> QED
    BY <1>5, <2>1, EmptyBytes, Zenon DEF InStep
<1> QED
  BY <1>2, <1>3, <1>4, <1>6, Zenon DEF IInv

(* A new connection starts in step.                                        *)
LEMMA RedialOK ==
  ASSUME IInv, Redial
  PROVE  IInv'
<1>0. /\ sent' = << >> /\ wire' = << >> /\ buf' = << >> /\ hdr' = << >> /\ up' = TRUE /\ got' = << >>
      /\ reader' = reader /\ pooled' = pooled /\ packets' = packets
  BY DEF Redial
<1>1. /\ reader \in {"client", "worker"} /\ packets \in 0 .. MaxPackets
      /\ pooled \in Seq(Bytes) /\ Len(pooled) =< EncodeBufKeep
  BY DEF IInv, TypeOK
<1>2. TypeOK'
  BY <1>0, <1>1, FramingAssumption DEF TypeOK
<1>3. (sent \in Seq(Messages) /\ got \in Seq({Expected(m) : m \in Messages}))'
  BY <1>0
<1>4. (HeaderTaken /\ Decoded)'
  BY <1>0 DEF HeaderTaken, Decoded
<1>5. Pending(<< >>, [i \in Nat |-> << >>])'
  BY <1>0, EmptyBytes DEF Pending
<1>6. InStep'
  <2>1. [i \in Nat |-> << >>] \in [Nat -> Seq(Bytes)]
    BY EmptyBytes
  <2> QED
    BY <1>5, <2>1, EmptyBytes, Zenon DEF InStep
<1> QED
  BY <1>2, <1>3, <1>4, <1>6, Zenon DEF IInv

(* A packet written joins the end of the stream.                           *)
LEMMA PutOK ==
  ASSUME IInv, NEW m \in Messages, NEW packet \in Seq(Bytes), Framed(reader, packet, m), Put(m, packet),
         pooled' \in Seq(Bytes), Len(pooled') =< EncodeBufKeep
  PROVE  IInv'
<1>0. /\ up /\ packets < MaxPackets /\ packets' = packets + 1 /\ sent' = Append(sent, m)
      /\ wire' = wire \o packet /\ reader' = reader /\ buf' = buf /\ hdr' = hdr /\ up' = up /\ got' = got
  BY DEF Put
<1>1. /\ reader \in {"client", "worker"} /\ packets \in 0 .. MaxPackets /\ up \in BOOLEAN
      /\ Len(hdr) \in {0, MinPacketLength}
      /\ sent \in Seq(Messages) /\ got \in Seq({Expected(x) : x \in Messages})
      /\ HeaderTaken /\ Decoded /\ InStep
  BY Zenon DEF IInv, TypeOK
<1>2. /\ Len(got) \in Nat /\ Len(sent) \in Nat /\ Len(got) =< Len(sent) /\ Len(sent) =< packets
      /\ hdr \in Seq(Bytes) /\ buf \in Seq(Bytes) /\ wire \in Seq(Bytes)
  BY Lengths, Zenon
<1>3. /\ sent' \in Seq(Messages) /\ Len(sent') = Len(sent) + 1 /\ sent'[Len(sent) + 1] = m
      /\ \A i \in 1 .. Len(sent) : sent'[i] = sent[i]
  BY <1>0, <1>1
<1>4. TypeOK'
  <2>1. packets' \in 0 .. MaxPackets /\ Len(got') =< Len(sent') /\ Len(sent') =< packets'
    <3>1. MaxPackets \in Nat
      BY FramingAssumption, Zenon
    <3> QED
      BY <1>0, <1>1, <1>2, <1>3, <3>1
  <2>2. wire' \in Seq(Bytes)
    BY <1>0, <1>2, CatBytes, Zenon
  <2> QED
    BY <1>0, <1>1, <1>2, <2>1, <2>2, Zenon DEF TypeOK
<1>5. HeaderTaken'
  BY <1>0, <1>1 DEF HeaderTaken
<1>6. Decoded'
  <2>1. \A i \in 1 .. Len(got) : i \in 1 .. Len(sent)
    BY <1>2
  <2> QED
    BY <1>0, <1>1, <1>3, <2>1, Zenon DEF Decoded
<1>7. InStep'
  <2>1. PICK lost \in Seq(Bytes), rest \in [Nat -> Seq(Bytes)] : Pending(lost, rest)
    BY <1>1, Zenon DEF InStep
  <2>2. /\ hdr \o (buf \o (wire \o lost)) = rest[Len(got)] /\ rest[Len(sent)] = << >>
        /\ lost = << >>
        /\ \A i \in Len(got) + 1 .. Len(sent) :
             \E p \in Seq(Bytes) : Framed(reader, p, sent[i]) /\ rest[i - 1] = p \o rest[i]
    BY <1>0, <2>1, Zenon DEF Pending
  <2>3. \A i \in Nat : rest[i] \in Seq(Bytes)
    BY Zenon
  <2>4. PICK more \in [Nat -> Seq(Bytes)] :
               \A i \in Nat : more[i] = IF i =< Len(sent) THEN rest[i] \o packet ELSE << >>
    <3> DEFINE f == [i \in Nat |-> IF i =< Len(sent) THEN rest[i] \o packet ELSE << >>]
    <3>1. \A i \in Nat : rest[i] \o packet \in Seq(Bytes)
      BY <2>3, CatBytes, Zenon
    <3>2. f \in [Nat -> Seq(Bytes)]
      BY <3>1, EmptyBytes, Zenon
    <3>3. \A i \in Nat : f[i] = IF i =< Len(sent) THEN rest[i] \o packet ELSE << >>
      BY Zenon
    <3> HIDE DEF f
    <3> QED
      BY <3>2, <3>3, Zenon
  <2>5. \A i \in 0 .. Len(sent) : more[i] = rest[i] \o packet
    <3>1. \A i \in 0 .. Len(sent) : i \in Nat /\ i =< Len(sent)
      BY <1>2
    <3> QED
      BY <2>4, <3>1, Zenon
  <2>6. more[Len(sent) + 1] = << >>
    <3>1. \A n \in Nat : n + 1 \in Nat /\ ~(n + 1 =< n)
      OBVIOUS
    <3> QED
      BY <1>2, <2>4, <3>1, Zenon
  <2>7. hdr \o (buf \o ((wire \o packet) \o << >>)) = more[Len(got)]
    <3>1. (wire \o packet) \o << >> = wire \o packet /\ wire \o lost = wire /\ wire \o packet \in Seq(Bytes)
      BY <1>2, <2>2, EmptyBytes, CatBytes, Zenon
    <3>2. buf \o wire \in Seq(Bytes) /\ Assoc(buf, wire, packet)
      BY <1>2, CatBytes, AssocBytes, Zenon
    <3>3. Assoc(hdr, buf \o wire, packet)
      BY <1>2, <3>2, AssocBytes, Zenon
    <3>4. hdr \o (buf \o (wire \o packet)) = (hdr \o (buf \o wire)) \o packet
      BY <3>2, <3>3, Zenon DEF Assoc
    <3>5. Len(got) \in 0 .. Len(sent)
      BY <1>2
    <3>6. more[Len(got)] = (hdr \o (buf \o wire)) \o packet
      BY <2>2, <2>5, <3>1, <3>5, Zenon
    <3> QED
      BY <3>1, <3>4, <3>6, Zenon
  <2>8. ASSUME NEW i \in Len(got) + 1 .. Len(sent) + 1
        PROVE  \E p \in Seq(Bytes) : Framed(reader, p, sent'[i]) /\ more[i - 1] = p \o more[i]
    <3>1. CASE i = Len(sent) + 1
      <4>1. i - 1 = Len(sent) /\ Len(sent) \in 0 .. Len(sent)
        BY <1>2, <3>1
      <4>2. more[i - 1] = << >> \o packet /\ more[i] = << >>
        BY <2>2, <2>5, <2>6, <3>1, <4>1, Zenon
      <4>3. << >> \o packet = packet /\ packet \o << >> = packet
        BY EmptyBytes, Zenon
      <4>4. Framed(reader, packet, sent'[i])
        BY <1>3, <3>1, Zenon
      <4> QED
        BY <4>2, <4>3, <4>4, Zenon
    <3>2. CASE i # Len(sent) + 1
      <4>1. /\ i \in Len(got) + 1 .. Len(sent) /\ i \in 1 .. Len(sent) /\ i \in 0 .. Len(sent)
            /\ i - 1 \in 0 .. Len(sent) /\ i \in Nat
        <5>1. \A g, n \in Nat : \A k \in g + 1 .. n + 1 : k # n + 1 =>
                /\ k \in g + 1 .. n /\ k \in 1 .. n /\ k \in 0 .. n
                /\ k - 1 \in 0 .. n /\ k \in Nat
          OBVIOUS
        <5> QED
          BY <1>2, <3>2, <5>1, Zenon
      <4>2. PICK p \in Seq(Bytes) : Framed(reader, p, sent[i]) /\ rest[i - 1] = p \o rest[i]
        BY <2>2, <4>1, Zenon
      <4>3. Framed(reader, p, sent'[i])
        BY <1>3, <4>1, <4>2, Zenon
      <4>4. Assoc(p, rest[i], packet)
        BY <2>3, <4>1, AssocBytes, Zenon
      <4>5. more[i - 1] = p \o more[i]
        BY <2>5, <4>1, <4>2, <4>4, Zenon DEF Assoc
      <4> QED
        BY <4>3, <4>5, Zenon
    <3> QED
      BY <3>1, <3>2, Zenon
  <2>9. Pending(<< >>, more)'
    BY <1>0, <1>3, <2>6, <2>7, <2>8, Zenon DEF Pending
  <2> QED
    BY <2>4, <2>9, EmptyBytes, Zenon DEF InStep
<1> QED
  BY <1>0, <1>1, <1>3, <1>4, <1>5, <1>6, <1>7, Zenon DEF IInv

(* Steps that move bytes along the connection and decode nothing.          *)
Moved ==
  /\ reader' = reader /\ pooled' = pooled /\ packets' = packets /\ sent' = sent /\ got' = got
  /\ {wire', buf', hdr'} \subseteq Seq(Bytes) /\ Len(hdr') \in {0, MinPacketLength}

(* Bytes that only move stay in step.                                      *)
LEMMA MovedOK ==
  ASSUME IInv, Moved, up' \in BOOLEAN, HeaderTaken',
         NEW lost \in Seq(Bytes), NEW rest \in [Nat -> Seq(Bytes)], Pending(lost, rest),
         NEW gone \in Seq(Bytes), up' => gone = << >>,
         hdr' \o (buf' \o (wire' \o gone)) = hdr \o (buf \o (wire \o lost))
  PROVE  IInv'
<1>1. TypeOK'
  BY Zenon DEF IInv, TypeOK, Moved
<1>2. Decoded' /\ sent' \in Seq(Messages) /\ got' \in Seq({Expected(m) : m \in Messages})
  BY Zenon DEF IInv, Decoded, Moved
<1>3. Pending(gone, rest)'
  <2>1. /\ hdr' \o (buf' \o (wire' \o gone)) = rest[Len(got)] /\ rest[Len(sent)] = << >>
        /\ \A i \in Len(got) + 1 .. Len(sent) :
             \E p \in Seq(Bytes) : Framed(reader, p, sent[i]) /\ rest[i - 1] = p \o rest[i]
    BY Zenon DEF Pending
  <2>2. sent' = sent /\ got' = got /\ reader' = reader
    BY DEF Moved
  <2> QED
    BY <2>1, <2>2, Zenon DEF Pending
<1>4. InStep'
  BY <1>3, Zenon DEF InStep
<1> QED
  BY <1>1, <1>2, <1>4, Zenon DEF IInv

(* A byte that arrives.                                                    *)
LEMMA ArriveOK ==
  ASSUME IInv, Arrive
  PROVE  IInv'
<1>0. /\ wire # << >> /\ buf' = Append(buf, Head(wire)) /\ wire' = Tail(wire)
      /\ reader' = reader /\ pooled' = pooled /\ packets' = packets /\ sent' = sent /\ hdr' = hdr
      /\ up' = up /\ got' = got
  BY DEF Arrive
<1>1. hdr \in Seq(Bytes) /\ buf \in Seq(Bytes) /\ wire \in Seq(Bytes)
  BY Lengths, Zenon
<1>2. Len(hdr) \in {0, MinPacketLength} /\ up \in BOOLEAN /\ HeaderTaken /\ InStep
  BY Zenon DEF IInv, TypeOK
<1> DEFINE c == <<Head(wire)>>
<1>3. /\ c \in Seq(Bytes) /\ Tail(wire) \in Seq(Bytes) /\ Append(buf, Head(wire)) = buf \o c
      /\ c \o Tail(wire) = wire /\ Append(buf, Head(wire)) \in Seq(Bytes)
  BY <1>0, <1>1
<1> HIDE DEF c
<1>4. Moved
  BY <1>0, <1>1, <1>2, <1>3, Zenon DEF Moved
<1>5. HeaderTaken'
  BY <1>0, <1>2, Zenon DEF HeaderTaken
<1>6. PICK lost \in Seq(Bytes), rest \in [Nat -> Seq(Bytes)] : Pending(lost, rest)
  BY <1>2, Zenon DEF InStep
<1>7. buf' \o (wire' \o lost) = buf \o (wire \o lost)
  <2>1. Tail(wire) \o lost \in Seq(Bytes)
    BY <1>3, CatBytes, Zenon
  <2>2. Assoc(buf, c, Tail(wire) \o lost) /\ Assoc(c, Tail(wire), lost)
    BY <1>1, <1>3, <2>1, AssocBytes, Zenon
  <2>3. (buf \o c) \o (Tail(wire) \o lost) = buf \o (c \o (Tail(wire) \o lost))
    BY <2>2, Zenon DEF Assoc
  <2>4. c \o (Tail(wire) \o lost) = wire \o lost
    BY <1>3, <2>2, Zenon DEF Assoc
  <2> QED
    BY <1>0, <1>3, <2>3, <2>4, Zenon
<1>8. up' => lost = << >>
  BY <1>0, <1>6, Zenon DEF Pending
<1>9. hdr' \o (buf' \o (wire' \o lost)) = hdr \o (buf \o (wire \o lost))
  BY <1>0, <1>7, Zenon
<1> QED
  BY <1>0, <1>2, <1>4, <1>5, <1>6, <1>8, <1>9, MovedOK, Zenon

(* A connection that breaks off loses what is on the wire.                 *)
LEMMA HangUpOK ==
  ASSUME IInv, HangUp
  PROVE  IInv'
<1>0. /\ up' = FALSE /\ wire' = << >> /\ buf' = buf /\ hdr' = hdr
      /\ reader' = reader /\ pooled' = pooled /\ packets' = packets /\ sent' = sent /\ got' = got
  BY DEF HangUp
<1>1. hdr \in Seq(Bytes) /\ buf \in Seq(Bytes) /\ wire \in Seq(Bytes)
  BY Lengths, Zenon
<1>2. Len(hdr) \in {0, MinPacketLength} /\ HeaderTaken /\ InStep
  BY Zenon DEF IInv, TypeOK
<1>4. Moved
  BY <1>0, <1>1, <1>2, EmptyBytes, Zenon DEF Moved
<1>5. HeaderTaken'
  BY <1>0, <1>2, Zenon DEF HeaderTaken
<1>6. PICK lost \in Seq(Bytes), rest \in [Nat -> Seq(Bytes)] : Pending(lost, rest)
  BY <1>2, Zenon DEF InStep
<1>7. PICK gone \in Seq(Bytes) : gone = wire \o lost
  BY <1>1, CatBytes, Zenon
<1>8. wire' \o gone = wire \o lost
  BY <1>0, <1>7, EmptyBytes, Zenon
<1>9. hdr' \o (buf' \o (wire' \o gone)) = hdr \o (buf \o (wire \o lost))
  BY <1>0, <1>8, Zenon
<1>10. up' \in BOOLEAN /\ (up' => gone = << >>)
  BY Zenon, <1>0
<1> QED
  BY <1>4, <1>5, <1>6, <1>9, <1>10, MovedOK, Zenon

(* A reader takes a header.                                                *)
LEMMA ReadHeaderOK ==
  ASSUME IInv, ReadHeader
  PROVE  IInv'
<1>1. CASE Redial
  BY <1>1, RedialOK, Zenon
<1>2. CASE /\ HeaderArrived /\ buf[1] = res /\ ~TooLong(buf[3])
           /\ hdr' = SubSeq(buf, 1, MinPacketLength)
           /\ buf' = SubSeq(buf, MinPacketLength + 1, Len(buf))
           /\ UNCHANGED <<reader, pooled, packets, sent, wire, up, got>>
  <2>0. /\ reader' = reader /\ pooled' = pooled /\ packets' = packets /\ sent' = sent /\ wire' = wire
        /\ up' = up /\ got' = got
    BY <1>2
  <2>1. hdr \in Seq(Bytes) /\ buf \in Seq(Bytes) /\ wire \in Seq(Bytes) /\ Len(buf) \in Nat
    BY Lengths, Zenon
  <2>2. up \in BOOLEAN /\ InStep
    BY Zenon DEF IInv, TypeOK
  <2>3. hdr = << >> /\ 3 \in 0 .. Len(buf) /\ buf[1] = res /\ ~(buf[3] > MaxPacketLength)
        /\ hdr' = SubSeq(buf, 1, 3) /\ buf' = SubSeq(buf, 3 + 1, Len(buf))
    BY <1>2, <2>1 DEF HeaderArrived, TooLong, MinPacketLength
  <2>4. /\ hdr' \in Seq(Bytes) /\ Len(hdr') = 3 /\ buf' \in Seq(Bytes) /\ hdr' \o buf' = buf
        /\ \A i \in 1 .. 3 : hdr'[i] = buf[i]
    <3>1. /\ SubSeq(buf, 1, 3) \in Seq(Bytes) /\ Len(SubSeq(buf, 1, 3)) = 3
          /\ SubSeq(buf, 3 + 1, Len(buf)) \in Seq(Bytes)
          /\ \A i \in 1 .. 3 : SubSeq(buf, 1, 3)[i] = buf[i]
          /\ SubSeq(buf, 1, 3) \o SubSeq(buf, 3 + 1, Len(buf)) = buf
      BY <2>1, <2>3, Parted, Zenon
    <3> QED
      BY <2>3, <3>1, Zenon
  <2>5. Moved
    BY <2>0, <2>1, <2>4, Zenon DEF Moved, MinPacketLength
  <2>6. HeaderTaken'
    <3>1. 3 \in 1 .. Len(buf) /\ 3 \in 1 .. 3 /\ 1 \in 1 .. 3
      BY <2>1, <2>3
    <3>2. buf[3] \in Nat
      BY <2>1, <3>1, BytesFacts, SeqElement, Zenon
    <3>3. buf[3] \in 0 .. MaxPacketLength
      <4>1. \A x \in Nat : ~(x > MaxPacketLength) => x \in 0 .. MaxPacketLength
        <5>1. MaxPacketLength \in Nat
          BY BytesFacts, Zenon
        <5> QED
          BY <5>1
      <4> QED
        BY <2>3, <3>2, <4>1, Zenon
    <3> QED
      BY <2>3, <2>4, <3>1, <3>3, Zenon DEF HeaderTaken
  <2>7. PICK lost \in Seq(Bytes), rest \in [Nat -> Seq(Bytes)] : Pending(lost, rest)
    BY <2>2, Zenon DEF InStep
  <2>8. hdr' \o (buf' \o (wire' \o lost)) = hdr \o (buf \o (wire \o lost))
    <3>1. wire \o lost \in Seq(Bytes)
      BY <2>1, CatBytes, Zenon
    <3>2. buf \o (wire \o lost) \in Seq(Bytes)
      BY <2>1, <3>1, CatBytes, Zenon
    <3>3. hdr \o (buf \o (wire \o lost)) = buf \o (wire \o lost)
      BY <2>3, <3>2, EmptyBytes, Zenon
    <3>4. PICK x \in Seq(Bytes), y \in Seq(Bytes), z \in Seq(Bytes) : x = hdr' /\ y = buf' /\ z = wire \o lost
      BY <2>4, <3>1, Zenon
    <3>5. Assoc(x, y, z)
      BY AssocBytes, Zenon
    <3> QED
      BY <2>0, <2>4, <3>3, <3>4, <3>5, Zenon DEF Assoc
  <2>9. up' \in BOOLEAN /\ (up' => lost = << >>)
    BY <2>0, <2>2, <2>7, Zenon DEF Pending
  <2> QED
    BY <2>5, <2>6, <2>7, <2>8, <2>9, MovedOK, Zenon
<1> QED
  BY <1>1, <1>2, Zenon DEF ReadHeader

(* A reader that has taken a header is at the first packet it has not      *)
(* decoded; that packet is not bad and its body has the declared length.   *)
LEMMA AtPacket ==
  ASSUME IInv, hdr # << >>,
         NEW lost \in Seq(Bytes), NEW rest \in [Nat -> Seq(Bytes)], Pending(lost, rest)
  PROVE  /\ Len(got) + 1 \in 1 .. Len(sent) /\ sent[Len(got) + 1].kind # "bad" /\ hdr[3] \in Nat
         /\ \E p \in Seq(Bytes) : /\ Len(p) = 3 + hdr[3] /\ Observe(reader, p) = Expected(sent[Len(got) + 1])
                                  /\ hdr \o (buf \o (wire \o lost)) = p \o rest[Len(got) + 1]
<1> DEFINE g == Len(got)
           s == buf \o (wire \o lost)
<1>1. /\ g \in Nat /\ Len(sent) \in Nat /\ g =< Len(sent) /\ Len(hdr) = 3
      /\ hdr \in Seq(Bytes) /\ buf \in Seq(Bytes) /\ wire \in Seq(Bytes)
  BY Lengths, Zenon
<1>2. hdr[1] = res /\ hdr[3] \in 0 .. MaxPacketLength
  BY Zenon DEF IInv, HeaderTaken
<1>3. /\ hdr \o s = rest[g] /\ rest[Len(sent)] = << >>
      /\ \A i \in g + 1 .. Len(sent) :
           \E p \in Seq(Bytes) : Framed(reader, p, sent[i]) /\ rest[i - 1] = p \o rest[i]
  BY Zenon DEF Pending
<1>4. s \in Seq(Bytes)
  <2>1. wire \o lost \in Seq(Bytes)
    BY <1>1, CatBytes, Zenon
  <2> QED
    BY <1>1, <2>1, CatBytes, Zenon
<1> HIDE DEF s
<1>5. hdr \o s # << >>
  <2>1. Len(hdr \o s) = Len(hdr) + Len(s) /\ Len(s) \in Nat
    BY <1>1, <1>4, CatBytes, Zenon
  <2>2. \A k \in Nat : 3 + k # 0
    OBVIOUS
  <2> QED
    BY <1>1, <2>1, <2>2, EmptyBytes, Zenon
<1>6. g # Len(sent)
  BY <1>3, <1>5, Zenon
<1> HIDE DEF g
<1>7. g + 1 \in g + 1 .. Len(sent) /\ g + 1 \in 1 .. Len(sent) /\ (g + 1) - 1 = g /\ g + 1 \in Nat
  BY <1>1, <1>6
<1>8. PICK p \in Seq(Bytes) : Framed(reader, p, sent[g + 1]) /\ rest[g] = p \o rest[g + 1]
  BY <1>3, <1>7, Zenon
<1>9. rest[g + 1] \in Seq(Bytes)
  BY <1>7, Zenon
<1>10. Len(p) \in Nat /\ Len(p) >= 3
  <2>1. Len(p) = 3 \/ (p[3] \in Nat /\ Len(p) = 3 + p[3])
    BY <1>8, Zenon DEF Framed, Whole
  <2>2. 3 \in Nat /\ 3 >= 3 /\ \A k \in Nat : 3 + k \in Nat /\ 3 + k >= 3
    OBVIOUS
  <2> QED
    BY <2>1, <2>2, Zenon
<1>11. hdr[1] = p[1] /\ hdr[3] = p[3]
  <2>1. 1 \in 1 .. Len(hdr) /\ 3 \in 1 .. Len(hdr) /\ 1 \in 1 .. Len(p) /\ 3 \in 1 .. Len(p)
    BY <1>1, <1>10
  <2>2. hdr \o s = p \o rest[g + 1]
    BY <1>3, <1>8, Zenon
  <2>3. Agree(hdr, s, p, rest[g + 1], 1) /\ Agree(hdr, s, p, rest[g + 1], 3)
    BY <1>1, <1>4, <1>9, Prefix, Zenon
  <2> QED
    BY <2>1, <2>2, <2>3, Zenon DEF Agree
<1>12. hdr[3] \in Nat /\ ~TooLong(hdr[3])
  <2>1. MaxPacketLength \in Nat
    BY BytesFacts, Zenon
  <2>2. \A x \in 0 .. MaxPacketLength : x \in Nat /\ ~(x > MaxPacketLength)
    BY <2>1
  <2> QED
    BY <1>2, <2>2, Zenon DEF TooLong
<1>13. sent[g + 1].kind # "bad" /\ Whole(p) /\ Observe(reader, p) = Expected(sent[g + 1])
  BY <1>2, <1>8, <1>11, <1>12, Zenon DEF Framed
<1>14. Len(p) = 3 + hdr[3]
  BY <1>11, <1>13, Zenon DEF Whole
<1> QED
  BY <1>3, <1>7, <1>8, <1>12, <1>13, <1>14, Zenon DEF g, s

(* A reader that takes a body decodes the packet that is next.             *)
LEMMA ReadBodyOK ==
  ASSUME IInv, ReadBody
  PROVE  IInv'
<1> DEFINE g == Len(got)
           n == hdr[3]
           a == SubSeq(buf, 1, n)
           b == SubSeq(buf, n + 1, Len(buf))
<1>0. /\ hdr # << >> /\ Len(buf) >= n /\ got' = Append(got, Observe(reader, hdr \o a)) /\ buf' = b /\ hdr' = << >>
      /\ reader' = reader /\ pooled' = pooled /\ packets' = packets /\ sent' = sent /\ wire' = wire /\ up' = up
  BY DEF ReadBody, BodyArrived
<1>1. /\ g \in Nat /\ Len(sent) \in Nat /\ g =< Len(sent) /\ Len(sent) =< packets /\ Len(hdr) = 3
      /\ hdr \in Seq(Bytes) /\ buf \in Seq(Bytes) /\ wire \in Seq(Bytes) /\ Len(buf) \in Nat /\ packets \in Nat
  BY <1>0, Lengths, Zenon
<1>2. /\ reader \in {"client", "worker"} /\ packets \in 0 .. MaxPackets /\ up \in BOOLEAN
      /\ pooled \in Seq(Bytes) /\ Len(pooled) =< EncodeBufKeep
      /\ sent \in Seq(Messages) /\ got \in Seq({Expected(x) : x \in Messages})
      /\ Decoded /\ InStep
  BY Zenon DEF IInv, TypeOK
<1>3. PICK lost \in Seq(Bytes), rest \in [Nat -> Seq(Bytes)] : Pending(lost, rest)
  BY <1>2, Zenon DEF InStep
<1>4. /\ g + 1 \in 1 .. Len(sent) /\ sent[g + 1].kind # "bad" /\ n \in Nat
      /\ \E p \in Seq(Bytes) : /\ Len(p) = 3 + n /\ Observe(reader, p) = Expected(sent[g + 1])
                               /\ hdr \o (buf \o (wire \o lost)) = p \o rest[g + 1]
  BY <1>0, <1>3, AtPacket, Zenon
<1>5. PICK p \in Seq(Bytes) : /\ Len(p) = 3 + n /\ Observe(reader, p) = Expected(sent[g + 1])
                              /\ hdr \o (buf \o (wire \o lost)) = p \o rest[g + 1]
  BY <1>4, Zenon
<1>6. a \in Seq(Bytes) /\ Len(a) = n /\ b \in Seq(Bytes) /\ a \o b = buf
  <2> HIDE DEF n
  <2>1. n \in 0 .. Len(buf)
    BY <1>0, <1>1, <1>4
  <2> QED
    BY <1>1, <2>1, Parted, Zenon
<1> HIDE DEF n, a, b
<1> DEFINE w == wire \o lost
<1>7. w \in Seq(Bytes) /\ rest[g + 1] \in Seq(Bytes)
  <2>1. g + 1 \in Nat
    BY <1>1
  <2> QED
    BY <1>1, <2>1, CatBytes, Zenon
<1>8. hdr \o (buf \o w) = (hdr \o a) \o (b \o w)
  <2> HIDE DEF w
  <2>1. Assoc(a, b, w) /\ b \o w \in Seq(Bytes)
    BY <1>6, <1>7, AssocBytes, CatBytes, Zenon
  <2>2. Assoc(hdr, a, b \o w)
    BY <1>1, <1>6, <2>1, AssocBytes, Zenon
  <2> QED
    BY <1>6, <2>1, <2>2, Zenon DEF Assoc
<1>9. hdr \o a = p /\ b \o w = rest[g + 1]
  <2> HIDE DEF w
  <2>1. hdr \o a \in Seq(Bytes) /\ b \o w \in Seq(Bytes) /\ Len(hdr \o a) = Len(hdr) + Len(a)
    BY <1>1, <1>6, <1>7, CatBytes, Zenon
  <2>2. (hdr \o a) \o (b \o w) = p \o rest[g + 1]
    BY <1>5, <1>8, Zenon DEF w
  <2>3. Len(hdr \o a) = Len(p)
    BY <1>1, <1>5, <1>6, <2>1, Zenon
  <2>4. SameCut(hdr \o a, b \o w, p, rest[g + 1])
    BY <1>7, <2>1, CutAt, Zenon
  <2> QED
    BY <2>2, <2>3, <2>4, Zenon DEF SameCut
<1>10. got' = Append(got, Expected(sent[g + 1]))
  BY <1>0, <1>5, <1>9, Zenon
<1>11. sent[g + 1] \in Messages
  BY <1>2, <1>4, SeqElement, Zenon
<1> DEFINE Seen == {Expected(x) : x \in Messages}
           e == Expected(sent[g + 1])
<1>12. e \in Seen
  BY <1>11, Zenon
<1> HIDE DEF Seen
<1>13. /\ got' \in Seq(Seen) /\ Len(got') = g + 1 /\ got'[g + 1] = Expected(sent[g + 1])
       /\ \A i \in 1 .. g : got'[i] = got[i]
  <2> HIDE DEF e
  <2>1. got \in Seq(Seen)
    BY <1>2 DEF Seen
  <2>2. got' = Append(got, e)
    BY <1>10 DEF e
  <2>3. /\ got' \in Seq(Seen) /\ Len(got') = g + 1 /\ got'[g + 1] = e
        /\ \A i \in 1 .. g : got'[i] = got[i]
    BY <1>12, <2>1, <2>2
  <2> QED
    BY <2>3, Zenon DEF e
<1>14. TypeOK'
  <2>1. Len(got') =< Len(sent')
    BY <1>0, <1>1, <1>4, <1>13
  <2>2. Len(hdr') = 0
    BY <1>0
  <2> QED
    BY <1>0, <1>1, <1>2, <1>6, <2>1, <2>2, EmptyBytes, Zenon DEF TypeOK
<1>15. HeaderTaken'
  BY <1>0, Zenon DEF HeaderTaken
<1> HIDE DEF g
<1>16. Decoded'
  <2>1. \A i \in 1 .. g + 1 : i \in 1 .. g \/ i = g + 1
    BY <1>1
  <2>2. \A i \in 1 .. g : sent[i].kind # "bad" /\ got[i] = Expected(sent[i])
    BY <1>2, Zenon DEF Decoded, g
  <2>3. \A i \in 1 .. Len(got') : sent[i].kind # "bad" /\ got'[i] = Expected(sent[i])
    BY <1>4, <1>13, <2>1, <2>2, Zenon
  <2> QED
    BY <1>0, <2>3, Zenon DEF Decoded
<1>17. InStep'
  <2>0. /\ rest[Len(sent)] = << >>
        /\ \A i \in g + 1 .. Len(sent) :
             \E q \in Seq(Bytes) : Framed(reader, q, sent[i]) /\ rest[i - 1] = q \o rest[i]
        /\ up => lost = << >>
    BY <1>3, Zenon DEF Pending, g
  <2>1. hdr' \o (buf' \o (wire' \o lost)) = rest[g + 1]
    <3>1. b \o w \in Seq(Bytes)
      BY <1>7, <1>9, Zenon
    <3>2. << >> \o (b \o w) = b \o w
      BY <3>1, EmptyBytes, Zenon
    <3> QED
      BY <1>0, <1>9, <3>2, Zenon
  <2>2. \A i \in (g + 1) + 1 .. Len(sent) : i \in g + 1 .. Len(sent)
    BY <1>1
  <2>3. Pending(lost, rest)'
    BY <1>0, <1>13, <2>0, <2>1, <2>2, Zenon DEF Pending
  <2> QED
    BY <2>3, Zenon DEF InStep
<1> QED
  BY <1>0, <1>2, <1>13, <1>14, <1>15, <1>16, <1>17, Zenon DEF IInv, Seen

(* agent.write keeps the stream in step, whatever array the pool gives     *)
(* it.                                                                     *)
LEMMA WorkerWriteOK ==
  ASSUME IInv, NEW m \in FromWorker, WorkerWrite(m)
  PROVE  IInv'
<1> DEFINE data == encodeInto(OutPackOf(m), pooled)
           p == Relay(SubSeq(data, 1, EncodedLen(OutPackOf(m))))
<1>1. reader = "client" /\ Put(m, p) /\ pooled' = IF Len(data) =< EncodeBufKeep THEN data ELSE pooled
  BY Zenon DEF WorkerWrite
<1>2. pooled \in Seq(Bytes) /\ Len(pooled) =< EncodeBufKeep
  BY Zenon DEF IInv, TypeOK
<1>3. data \in Seq(Bytes) /\ Framed("client", p, m) /\ p \in Seq(Bytes)
  BY <1>2, WorkerFramed, Zenon
<1>4. m \in Messages
  BY Zenon DEF Messages
<1> HIDE DEF data, p
<1>5. pooled' \in Seq(Bytes) /\ Len(pooled') =< EncodeBufKeep
  BY <1>1, <1>2, <1>3, Zenon
<1>6. Framed(reader, p, m)
  BY <1>1, <1>3, Zenon
<1> QED
  BY <1>1, <1>3, <1>4, <1>5, <1>6, PutOK, Zenon

(* So does an answer of the server.                                        *)
LEMMA ServerWriteOK ==
  ASSUME IInv, NEW m \in FromServer, ServerWrite(m)
  PROVE  IInv'
<1>1. reader = "client" /\ Put(m, ServerPacket(m)) /\ pooled' = pooled
  BY Zenon DEF ServerWrite
<1>2. pooled' \in Seq(Bytes) /\ Len(pooled') =< EncodeBufKeep
  BY <1>1, Zenon DEF IInv, TypeOK
<1>3. Framed(reader, ServerPacket(m), m) /\ ServerPacket(m) \in Seq(Bytes)
  BY <1>1, ServerFramed, Zenon
<1>4. m \in Messages
  BY Zenon DEF Messages
<1> QED
  BY <1>1, <1>2, <1>3, <1>4, PutOK, Zenon

(* So does a job that is assigned.                                         *)
LEMMA JobAssignedOK ==
  ASSUME IInv, NEW m \in Assigned, JobAssigned(m)
  PROVE  IInv'
<1>1. reader = "worker" /\ Put(m, Assign(m)) /\ pooled' = pooled
  BY Zenon DEF JobAssigned
<1>2. pooled' \in Seq(Bytes) /\ Len(pooled') =< EncodeBufKeep
  BY <1>1, Zenon DEF IInv, TypeOK
<1>3. Framed(reader, Assign(m), m) /\ Assign(m) \in Seq(Bytes)
  BY <1>1, AssignedFramed, Zenon
<1>4. m \in Messages
  BY Zenon DEF Messages
<1> QED
  BY <1>1, <1>2, <1>3, <1>4, PutOK, Zenon

(* So does a packet that readers reject.                                   *)
LEMMA DesyncOK ==
  ASSUME IInv, NEW magic, NEW length, Desync(magic, length),
         (magic = req /\ length = 0) \/ (magic = res /\ length \in BadLengths)
  PROVE  IInv'
<1> DEFINE m == [kind |-> "bad"]
           p == <<magic, dt.EchoRes, length>>
<1>1. Put(m, p) /\ pooled' = pooled
  BY Zenon DEF Desync
<1>2. pooled' \in Seq(Bytes) /\ Len(pooled') =< EncodeBufKeep
  BY <1>1, Zenon DEF IInv, TypeOK
<1>3. Framed(reader, p, m) /\ p \in Seq(Bytes)
  BY BadFramed, Zenon
<1>4. m \in Messages
  BY Zenon DEF Messages
<1> HIDE DEF m, p
<1> QED
  BY <1>1, <1>2, <1>3, <1>4, PutOK, Zenon

(* Every step keeps the invariant.                                         *)
LEMMA NextOK ==
  IInv /\ [Next]_vars => IInv'
<1> SUFFICES ASSUME IInv, [Next]_vars PROVE IInv'
  OBVIOUS
<1>1. ASSUME NEW m \in FromWorker, WorkerWrite(m) PROVE IInv'
  BY <1>1, WorkerWriteOK, Zenon
<1>2. ASSUME NEW m \in FromServer, ServerWrite(m) PROVE IInv'
  BY <1>2, ServerWriteOK, Zenon
<1>3. ASSUME NEW m \in Assigned, JobAssigned(m) PROVE IInv'
  BY <1>3, JobAssignedOK, Zenon
<1>4. CASE Desync(req, 0)
  BY <1>4, DesyncOK, Zenon
<1>5. ASSUME NEW length \in BadLengths, Desync(res, length) PROVE IInv'
  BY <1>5, DesyncOK, Zenon
<1>6. CASE Arrive
  BY <1>6, ArriveOK, Zenon
<1>7. CASE HangUp
  BY <1>7, HangUpOK, Zenon
<1>8. CASE ReadHeader
  BY <1>8, ReadHeaderOK, Zenon
<1>9. CASE ReadBody
  BY <1>9, ReadBodyOK, Zenon
<1>10. CASE ReadEOF
  <2>1. Redial
    BY <1>10, Zenon DEF ReadEOF
  <2> QED
    BY <2>1, RedialOK, Zenon
<1>11. CASE UNCHANGED vars
  BY Zenon, <1>11 DEF vars, IInv, TypeOK, HeaderTaken, Decoded, InStep, Pending
<1> QED
  BY <1>1, <1>2, <1>3, <1>4, <1>5, <1>6, <1>7, <1>8, <1>9, <1>10, <1>11, Zenon DEF Next

(* The inductive invariant: the connection's bytes stay cut into the       *)
(* packets that were sent.                                                 *)
THEOREM StreamInvariant == Spec => []IInv
BY InitOK, NextOK, PTL DEF Spec

-----------------------------------------------------------------------------
(* The state of a connection has its types; in particular the array kept   *)
(* in encodeBufPool never exceeds the limit agent.write keeps.             *)
THEOREM FramingTypes == Spec => []TypeOK
<1>1. IInv => TypeOK
  BY Zenon DEF IInv
<1> QED
  BY <1>1, StreamInvariant, PTL

(* For any handles, payloads, numbers and buffer sizes: what the readers   *)
(* decode is what the other side sent, in order.                           *)
THEOREM DecodedIsSent == Spec => []DecodedAsSent
<1>1. IInv => DecodedAsSent
  <2> SUFFICES ASSUME IInv PROVE DecodedAsSent
    OBVIOUS
  <2>1. DOMAIN got = 1 .. Len(got)
    BY Lengths, Zenon
  <2> QED
    BY <2>1, Zenon DEF IInv, Decoded, DecodedAsSent
<1> QED
  BY <1>1, StreamInvariant, PTL

(* A reader whose connection has delivered everything waits for nothing:   *)
(* it has decoded all that was sent or can take a step.                    *)
THEOREM ReaderNeverStalls == Spec => []NoStall
<1>1. IInv => NoStall
  <2> SUFFICES ASSUME IInv, up, wire = << >>, ~HeaderArrived, ~BodyArrived, Len(got) # Len(sent)
               PROVE  FALSE
    BY Zenon DEF NoStall
  <2>1. /\ Len(got) \in Nat /\ Len(sent) \in Nat /\ Len(got) =< Len(sent) /\ Len(buf) \in Nat
        /\ hdr \in Seq(Bytes) /\ buf \in Seq(Bytes) /\ (hdr = << >> \/ Len(hdr) = 3)
    BY Lengths, Zenon
  <2>2. PICK lost \in Seq(Bytes), rest \in [Nat -> Seq(Bytes)] : Pending(lost, rest)
    BY Zenon DEF IInv, InStep
  <2>3. buf \o (wire \o lost) = buf
    BY <2>1, <2>2, EmptyBytes, Zenon DEF Pending
  <2>4. CASE hdr = << >>
    <3>1. << >> \o buf = rest[Len(got)]
      BY <2>2, <2>3, <2>4, Zenon DEF Pending
    <3>2. buf = rest[Len(got)]
      BY <2>1, <3>1, EmptyBytes, Zenon
    <3>3. /\ Len(got) + 1 \in Len(got) + 1 .. Len(sent) /\ (Len(got) + 1) - 1 = Len(got) /\ Len(got) + 1 \in Nat
      <4>1. \A g, n \in Nat : g =< n /\ g # n => g + 1 \in g + 1 .. n /\ (g + 1) - 1 = g /\ g + 1 \in Nat
        OBVIOUS
      <4> QED
        BY <2>1, <4>1, Zenon
    <3>4. PICK p \in Seq(Bytes) : /\ Framed(reader, p, sent[Len(got) + 1])
                                  /\ rest[Len(got)] = p \o rest[Len(got) + 1]
      BY <2>2, <3>3, Zenon DEF Pending
    <3>5. Len(buf) = Len(p) + Len(rest[Len(got) + 1]) /\ Len(rest[Len(got) + 1]) \in Nat /\ Len(p) \in Nat
      <4>1. rest[Len(got) + 1] \in Seq(Bytes)
        BY <3>3, Zenon
      <4>2. /\ Len(p \o rest[Len(got) + 1]) = Len(p) + Len(rest[Len(got) + 1])
            /\ Len(rest[Len(got) + 1]) \in Nat /\ Len(p) \in Nat
        BY <4>1, CatBytes, Zenon
      <4> QED
        BY <3>2, <3>4, <4>2, Zenon
    <3>6. Len(p) = 3 \/ (p[3] \in Nat /\ Len(p) = 3 + p[3])
      BY <3>4, Zenon DEF Framed, Whole
    <3>7. \A k, n \in Nat : 3 + k >= 3 /\ 3 + n >= 3 /\ (3 + k) + n >= 3
      OBVIOUS
    <3>8. Len(buf) >= 3
      BY <3>5, <3>6, <3>7, Zenon
    <3> QED
      BY <2>4, <3>8, Zenon DEF HeaderArrived, MinPacketLength
  <2>5. CASE hdr # << >>
    <3>1. /\ hdr[3] \in Nat
          /\ \E p \in Seq(Bytes) : /\ Len(p) = 3 + hdr[3] /\ Observe(reader, p) = Expected(sent[Len(got) + 1])
                                   /\ hdr \o (buf \o (wire \o lost)) = p \o rest[Len(got) + 1]
      BY <2>2, <2>5, AtPacket, Zenon
    <3>2. PICK p \in Seq(Bytes) : /\ Len(p) = 3 + hdr[3] /\ hdr \o buf = p \o rest[Len(got) + 1]
      BY <2>3, <3>1, Zenon
    <3>3. Len(got) + 1 \in Nat
      BY <2>1
    <3>4. Len(hdr \o buf) = Len(hdr) + Len(buf)
      BY <2>1, CatBytes, Zenon
    <3>5. Len(p \o rest[Len(got) + 1]) = Len(p) + Len(rest[Len(got) + 1]) /\ Len(rest[Len(got) + 1]) \in Nat
      BY <3>3, CatBytes, Zenon
    <3>6. \A x, k, n \in Nat : 3 + x = (3 + k) + n => x >= k
      OBVIOUS
    <3>7. Len(buf) >= hdr[3]
      BY <2>1, <2>5, <3>1, <3>2, <3>4, <3>5, <3>6, Zenon
    <3> QED
      BY <2>5, <3>7, Zenon DEF BodyArrived
  <2> QED
    BY <2>4, <2>5
<1> QED
  BY <1>1, StreamInvariant, PTL

(* Whatever a header declares, the buffer a reader allocates for the body  *)
(* has a size between zero and the limit, as the int it is converted to.   *)
THEOREM AllocationStaysBounded == Spec => []AllocationBounded
<1>1. IInv => AllocationBounded
  <2> SUFFICES ASSUME IInv, hdr # << >> PROVE Signed(hdr[3]) \in 0 .. MaxPacketLength
    BY Zenon DEF AllocationBounded
  <2>1. hdr[3] \in 0 .. MaxPacketLength
    BY Zenon DEF IInv, HeaderTaken
  <2>2. MaxPacketLength \in Nat /\ Word \in Nat /\ MaxPacketLength < Word \div 2
    BY FramingAssumption, Zenon
  <2>3. \A x \in 0 .. MaxPacketLength : ~(x >= Word \div 2)
    BY <2>2
  <2> QED
    BY <2>1, <2>3, Zenon DEF Signed
<1> QED
  BY <1>1, StreamInvariant, PTL
=============================================================================
