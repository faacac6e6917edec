-------------------------- MODULE WorkerLocksProofs --------------------------
(***************************************************************************)
(* For any number of goroutines that call the worker's methods, no         *)
(* goroutines wait for each other's locks in a circle, and no two write to *)
(* the agent's bufio.Writer at the same time.  What a goroutine            *)
(* has left to do is checked against what it holds by rules like those of  *)
(* a type system: an operation is a derivation from "holds nothing" to     *)
(* "holds nothing".                                                        *)
(***************************************************************************)
EXTENDS WorkerLocks, SequenceTheorems, TLAPS

Locks == {"worker", "agent", "reading", "writing"}
Item  == Kinds \X ({"worker", "agent", "connMu"} \cup Nat)
Tests == {"ifNil", "ifConn", "ifRunning", "either"}

(* What a step needs to be held (h) and leaves held (g).  The order is     *)
(* worker.Mutex, the agent's Mutex, connMu; who reads connMu does nothing  *)
(* else meanwhile, and who writes it takes no other lock.                  *)
Rule(x, h, g) ==
  /\ "reading" \in h => x[1] = "runlock"
  /\ \/ x = <<"lock", "worker">> /\ h = {} /\ g = {"worker"}
     \/ x = <<"lock", "agent">> /\ h \subseteq {"worker"} /\ g = h \cup {"agent"}
     \/ /\ x[1] = "unlock" /\ x[2] \in {"worker", "agent"} \cap h /\ "writing" \notin h
        /\ g = h \ {x[2]}
     \/ x[1] = "rlock" /\ "writing" \notin h /\ g = h \cup {"reading"}
     \/ x[1] = "runlock" /\ "reading" \in h /\ g = h \ {"reading"}
     \/ x[1] = "announce" /\ "writing" \notin h /\ g = h \cup {"writing"}
     \/ x[1] \in {"drain", "publish", "close"} /\ "writing" \in h /\ g = h
     \/ x[1] = "wunlock" /\ "writing" \in h /\ g = h \ {"writing"}
     \/ x[1] = "dial" /\ h \subseteq {"agent"} /\ g = h
     \/ x[1] = "setClosed" /\ h = {"worker"} /\ g = h
     \/ x[1] \in Tests \cup {"closeOld"} /\ "writing" \notin h /\ g = h
     \/ x[1] = "write" /\ "agent" \in h /\ "writing" \notin h /\ g = h

(* a says what is held before each step of s and at its end; a test that   *)
(* skips its body arrives with what it started from.                       *)
Annotates(a, s) ==
  /\ a \in [1..(Len(s) + 1) -> SUBSET Locks]
  /\ \A i \in 1..Len(s) :
       /\ Rule(s[i], a[i], a[i + 1])
       /\ s[i][1] \in Tests =>
            /\ s[i][2] \in Nat /\ i + s[i][2] <= Len(s)
            /\ a[i + s[i][2] + 1] = a[i]

Takes(s, h, g) ==
  /\ s \in Seq(Item)
  /\ \E a : Annotates(a, s) /\ a[1] = h /\ a[Len(s) + 1] = g

-----------------------------------------------------------------------------
LEMMA TakesNothing ==
  ASSUME NEW h \in SUBSET Locks
  PROVE  Takes(<< >>, h, h)
<1> DEFINE a == [i \in 1..1 |-> h]
<1>1. Len(<< >>) = 0 /\ << >> \in Seq(Item)
  OBVIOUS
<1>2. a \in [1..(0 + 1) -> SUBSET Locks] /\ a[1] = h
  OBVIOUS
<1>3. Annotates(a, << >>)
  BY <1>1, <1>2 DEF Annotates
<1> QED
  BY <1>1, <1>2, <1>3 DEF Takes

LEMMA TakesStep ==
  ASSUME NEW x \in Item, NEW h \in SUBSET Locks, NEW g \in SUBSET Locks, Rule(x, h, g),
         x[1] \notin Tests
  PROVE  Takes(<<x>>, h, g)
<1> DEFINE a == [i \in 1..2 |-> IF i = 1 THEN h ELSE g]
           s == <<x>>
<1>1. Len(s) = 1 /\ s \in Seq(Item) /\ s[1] = x
  OBVIOUS
<1>2. a \in [1..(1 + 1) -> SUBSET Locks] /\ a[1] = h /\ a[2] = g
  OBVIOUS
<1> HIDE DEF a, s
<1>3. \A i \in 1..Len(s) : i = 1 /\ i + 1 = 2
  BY <1>1
<1>4. Annotates(a, s)
  BY Zenon, <1>1, <1>2, <1>3 DEF Annotates
<1>5. Takes(s, h, g)
  BY <1>1, <1>2, <1>4 DEF Takes
<1> QED
  BY Zenon, <1>5 DEF s

LEMMA TakesThen ==
  ASSUME NEW s, NEW t, NEW h, NEW g, NEW k, Takes(s, h, g), Takes(t, g, k)
  PROVE  Takes(s \o t, h, k)
<1>1. PICK a : Annotates(a, s) /\ a[1] = h /\ a[Len(s) + 1] = g
  BY Zenon DEF Takes
<1>2. PICK b : Annotates(b, t) /\ b[1] = g /\ b[Len(t) + 1] = k
  BY Zenon DEF Takes
<1> DEFINE m == Len(s)
           n == Len(t)
           u == s \o t
           c == [i \in 1..(m + n + 1) |-> IF i <= m + 1 THEN a[i] ELSE b[i - m]]
<1>3. /\ m \in Nat /\ n \in Nat /\ u \in Seq(Item) /\ Len(u) = m + n
      /\ \A i \in 1..(m + n) : u[i] = IF i <= m THEN s[i] ELSE t[i - m]
  BY Zenon, ConcatProperties, LenProperties DEF Takes
<1>4. /\ a \in [1..(m + 1) -> SUBSET Locks] /\ b \in [1..(n + 1) -> SUBSET Locks]
      /\ a[1] = h /\ a[m + 1] = g /\ b[1] = g /\ b[n + 1] = k
  BY Zenon, <1>1, <1>2 DEF Annotates
<1> HIDE DEF m, n, u
<1>5. /\ \A i \in 1..(m + 1) : c[i] = a[i]
      /\ \A i \in 1..(n + 1) : c[m + i] = b[i]
  <2>1. \A i \in 1..(m + 1) : c[i] = a[i]
    BY <1>3
  <2>2. ASSUME NEW i \in 1..(n + 1)
        PROVE  c[m + i] = b[i]
    <3>1. CASE i = 1
      <4>1. m + 1 \in 1..(m + 1)
        BY <1>3
      <4>2. c[m + 1] = a[m + 1]
        BY Zenon, <2>1, <4>1
      <4> QED
        BY Zenon, <1>4, <3>1, <4>2
    <3>2. CASE i # 1
      <4>1. PICK x \in 1..(m + n + 1) : x = m + i /\ ~ (x <= m + 1) /\ x - m = i
        BY <1>3, <3>2
      <4>2. c[x] = b[x - m]
        BY Zenon, <4>1
      <4> HIDE DEF c
      <4> QED
        BY Zenon, <4>1, <4>2
    <3> QED
      BY Zenon, <3>1, <3>2
  <2> QED
    BY Zenon, <2>1, <2>2
<1>6. c \in [1..(m + n + 1) -> SUBSET Locks]
  <2> SUFFICES ASSUME NEW i \in 1..(m + n + 1)
               PROVE  (IF i <= m + 1 THEN a[i] ELSE b[i - m]) \in SUBSET Locks
    OBVIOUS
  <2>1. CASE i <= m + 1
    BY <1>3, <1>4, <2>1
  <2>2. CASE ~ (i <= m + 1)
    <3>1. i - m \in 1..(n + 1)
      BY <1>3, <2>2
    <3> QED
      BY Zenon, <1>4, <2>2, <3>1
  <2> QED
    BY Zenon, <2>1, <2>2
<1> HIDE DEF c
<1>7. c[1] = h /\ c[m + n + 1] = k
  <2>1. 1 \in 1..(m + 1) /\ n + 1 \in 1..(n + 1) /\ m + (n + 1) = m + n + 1
    BY <1>3
  <2>2. c[1] = a[1] /\ c[m + (n + 1)] = b[n + 1]
    BY Zenon, <1>5, <2>1
  <2> QED
    BY Zenon, <1>4, <2>1, <2>2
<1>8. ASSUME NEW i \in 1..(m + n)
      PROVE  /\ Rule(u[i], c[i], c[i + 1])
             /\ u[i][1] \in Tests =>
                  u[i][2] \in Nat /\ i + u[i][2] <= m + n /\ c[i + u[i][2] + 1] = c[i]
  <2>1. CASE i <= m
    <3>1. i \in 1..m /\ i \in 1..(m + 1) /\ i + 1 \in 1..(m + 1) /\ u[i] = s[i]
      BY <1>3, <2>1
    <3>2. /\ Rule(s[i], a[i], a[i + 1])
          /\ s[i][1] \in Tests => s[i][2] \in Nat /\ i + s[i][2] <= m /\ a[i + s[i][2] + 1] = a[i]
      BY Zenon, <1>1, <3>1 DEF Annotates, m
    <3>3. c[i] = a[i] /\ c[i + 1] = a[i + 1]
      BY Zenon, <1>5, <3>1
    <3>4. ASSUME NEW j \in Nat, i + j <= m
          PROVE  i + j <= m + n /\ c[i + j + 1] = a[i + j + 1]
      <4>1. i + j + 1 \in 1..(m + 1) /\ i + j <= m + n
        BY <1>3, <3>4
      <4> QED
        BY Zenon, <1>5, <4>1
    <3> QED
      BY Zenon, <3>1, <3>2, <3>3, <3>4
  <2>2. CASE ~ (i <= m)
    <3> DEFINE j == i - m
    <3>1. /\ j \in 1..n /\ j \in 1..(n + 1) /\ j + 1 \in 1..(n + 1)
          /\ i = m + j /\ i + 1 = m + (j + 1)
      BY <1>3, <2>2
    <3>2. u[i] = t[j]
      BY Zenon, <1>3, <2>2
    <3> HIDE DEF j
    <3>3. /\ Rule(t[j], b[j], b[j + 1])
          /\ t[j][1] \in Tests => t[j][2] \in Nat /\ j + t[j][2] <= n /\ b[j + t[j][2] + 1] = b[j]
      BY Zenon, <1>2, <3>1 DEF Annotates, n
    <3>4. c[i] = b[j] /\ c[i + 1] = b[j + 1]
      BY Zenon, <1>5, <3>1
    <3>5. ASSUME NEW l \in Nat, j + l <= n
          PROVE  i + l <= m + n /\ c[i + l + 1] = b[j + l + 1]
      <4>1. j + l + 1 \in 1..(n + 1) /\ i + l <= m + n /\ i + l + 1 = m + (j + l + 1)
        BY <1>3, <3>1, <3>5
      <4> QED
        BY <1>5, <4>1
    <3> QED
      BY Zenon, <3>2, <3>3, <3>4, <3>5
  <2> QED
    BY Zenon, <2>1, <2>2
<1>9. Annotates(c, u)
  BY Zenon, <1>3, <1>6, <1>8 DEF Annotates
<1>10. Takes(u, h, k)
  BY Zenon, <1>3, <1>7, <1>9 DEF Takes
<1> QED
  BY Zenon, <1>10 DEF u

(* A test may go either way.                                               *)
LEMMA TakesIf ==
  ASSUME NEW test \in Tests, NEW s, NEW h \in SUBSET Locks, Takes(s, h, h),
         h \cap {"reading", "writing"} = {}
  PROVE  Takes(If(test, s), h, h)
<1>1. PICK b : Annotates(b, s) /\ b[1] = h /\ b[Len(s) + 1] = h
  BY Zenon DEF Takes
<1> DEFINE n == Len(s)
           x == <<test, n>>
           u == <<x>> \o s
           c == [i \in 1..(n + 2) |-> IF i = 1 THEN h ELSE b[i - 1]]
<1>2. n \in Nat /\ x \in Item /\ x[1] = test /\ x[2] = n
  BY Zenon, LenProperties DEF Takes, Item, Tests, Kinds
<1>3. /\ u \in Seq(Item) /\ Len(u) = n + 1 /\ u[1] = x /\ \A i \in 1..n : u[i + 1] = s[i]
  <2> HIDE DEF x
  <2>1. <<x>> \in Seq(Item) /\ Len(<<x>>) = 1 /\ <<x>>[1] = x
    BY <1>2
  <2>2. u \in Seq(Item) /\ Len(u) = 1 + n
        /\ \A i \in 1..(1 + n) : u[i] = IF i <= 1 THEN <<x>>[i] ELSE s[i - 1]
    BY <2>1, ConcatProperties DEF Takes
  <2> HIDE DEF u, n
  <2>3. \A i \in 1..n : i + 1 \in 1..(1 + n) /\ ~ (i + 1 <= 1) /\ i + 1 - 1 = i
    BY <1>2
  <2>4. 1 \in 1..(1 + n)
    BY <1>2
  <2> QED
    BY <1>2, <2>1, <2>2, <2>3, <2>4
<1>4. b \in [1..(n + 1) -> SUBSET Locks] /\ b[1] = h /\ b[n + 1] = h
  BY Zenon, <1>1 DEF Annotates
<1> HIDE DEF n, x, u
<1>5. c[1] = h /\ \A i \in 1..(n + 1) : c[i + 1] = b[i]
  <2>1. 1 \in 1..(n + 2)
    BY <1>2
  <2>2. \A i \in 1..(n + 1) : i + 1 \in 1..(n + 2) /\ i + 1 # 1 /\ i + 1 - 1 = i
    BY <1>2
  <2> QED
    BY <2>1, <2>2
<1>6. c \in [1..(n + 1 + 1) -> SUBSET Locks]
  <2>1. \A i \in 1..(n + 2) : i # 1 => i - 1 \in 1..(n + 1)
    BY <1>2
  <2>2. n + 1 + 1 = n + 2
    BY <1>2
  <2> QED
    BY Zenon, <1>4, <2>1, <2>2
<1> HIDE DEF c
<1>7. c[1 + 1] = h /\ c[n + 1 + 1] = h
  <2>1. 1 \in 1..(n + 1) /\ n + 1 \in 1..(n + 1)
    BY <1>2
  <2> QED
    BY Zenon, <1>4, <1>5, <2>1
<1>8. ASSUME NEW i \in 1..(n + 1)
      PROVE  /\ Rule(u[i], c[i], c[i + 1])
             /\ u[i][1] \in Tests =>
                  u[i][2] \in Nat /\ i + u[i][2] <= n + 1 /\ c[i + u[i][2] + 1] = c[i]
  <2>1. CASE i = 1
    <3>1. Rule(x, h, h)
      BY Zenon, <1>2 DEF Rule
    <3>2. 1 + n <= n + 1 /\ 1 + n + 1 = n + 1 + 1
      BY <1>2
    <3> QED
      BY Zenon, <1>2, <1>3, <1>5, <1>7, <2>1, <3>1, <3>2
  <2>2. CASE i # 1
    <3>1. PICK j \in 1..n : i = j + 1
      <4>1. i - 1 \in 1..n /\ i = i - 1 + 1
        BY <1>2, <2>2
      <4> QED
        BY Zenon, <4>1
    <3>2. u[i] = s[j] /\ j \in 1..(n + 1) /\ j + 1 \in 1..(n + 1)
      BY <1>2, <1>3, <3>1
    <3>3. /\ Rule(s[j], b[j], b[j + 1])
          /\ s[j][1] \in Tests => s[j][2] \in Nat /\ j + s[j][2] <= n /\ b[j + s[j][2] + 1] = b[j]
      BY Zenon, <1>1 DEF Annotates, n
    <3>4. c[i] = b[j] /\ c[i + 1] = b[j + 1]
      BY Zenon, <1>5, <3>1, <3>2
    <3>5. ASSUME NEW l \in Nat, j + l <= n
          PROVE  i + l <= n + 1 /\ c[i + l + 1] = b[j + l + 1]
      <4>1. j + l + 1 \in 1..(n + 1) /\ i + l <= n + 1 /\ i + l + 1 = j + l + 1 + 1
        BY <1>2, <3>1, <3>5
      <4> QED
        BY <1>5, <4>1
    <3> QED
      BY Zenon, <3>2, <3>3, <3>4, <3>5
  <2> QED
    BY Zenon, <2>1, <2>2
<1>9. Annotates(c, u)
  BY Zenon, <1>3, <1>6, <1>8 DEF Annotates
<1>10. Takes(u, h, h)
  BY Zenon, <1>3, <1>5, <1>7, <1>9 DEF Takes
<1> QED
  BY Zenon, <1>10 DEF If, u, x, n

(* What is left after a step, and after a test that skips its body.        *)
LEMMA TakesRest ==
  ASSUME NEW s, NEW h, NEW g, Takes(s, h, g), s # << >>
  PROVE  /\ Head(s) \in Item /\ Head(s) = s[1] /\ h \in SUBSET Locks
         /\ \E k \in SUBSET Locks : Rule(Head(s), h, k) /\ Takes(Tail(s), k, g)
         /\ Head(s)[1] \in Tests =>
              /\ Head(s)[2] \in Nat
              /\ Takes(SubSeq(s, 2, Len(s)), h, g)
              /\ Takes(SubSeq(s, Head(s)[2] + 2, Len(s)), h, g)
<1>1. PICK a : Annotates(a, s) /\ a[1] = h /\ a[Len(s) + 1] = g
  BY Zenon DEF Takes
<1> DEFINE m == Len(s)
<1>2. s \in Seq(Item) /\ m \in Nat \ {0} /\ Head(s) = s[1] /\ Head(s) \in Item
  BY EmptySeq, HeadTailProperties, LenProperties DEF Takes
<1>3. /\ a \in [1..(m + 1) -> SUBSET Locks] /\ a[1] = h /\ a[m + 1] = g
      /\ \A i \in 1..m : /\ Rule(s[i], a[i], a[i + 1])
                         /\ s[i][1] \in Tests => /\ s[i][2] \in Nat /\ i + s[i][2] <= m
                                                 /\ a[i + s[i][2] + 1] = a[i]
  BY Zenon, <1>1 DEF Annotates
<1> HIDE DEF m
<1>4. 1 \in 1..m /\ 1 \in 1..(m + 1) /\ 2 \in 1..(m + 1) /\ 1 + 1 = 2
  BY <1>2
<1>5. ASSUME NEW k \in 0..m, NEW t, t \in Seq(Item), Len(t) = m - k,
             \A i \in 1..(m - k) : t[i] = s[k + i]
      PROVE  Takes(t, a[k + 1], g)
  <2> DEFINE n == m - k
             c == [i \in 1..(n + 1) |-> a[k + i]]
  <2>1. n \in Nat /\ m = k + n /\ k \in Nat
    BY <1>2, <1>5
  <2>2. \A i \in 1..(n + 1) : k + i \in 1..(m + 1)
    BY <2>1
  <2>3. c \in [1..(n + 1) -> SUBSET Locks] /\ \A i \in 1..(n + 1) : c[i] = a[k + i]
    BY Zenon, <1>3, <2>2
  <2>4. Len(t) = n /\ \A i \in 1..n : t[i] = s[k + i]
    BY Zenon, <1>5
  <2> HIDE DEF c, n
  <2>5. c[1] = a[k + 1] /\ c[n + 1] = g
    <3>1. 1 \in 1..(n + 1) /\ n + 1 \in 1..(n + 1) /\ k + (n + 1) = m + 1
      BY <2>1
    <3>2. c[1] = a[k + 1] /\ c[n + 1] = a[k + (n + 1)]
      BY Zenon, <2>3, <3>1
    <3> QED
      BY Zenon, <1>3, <3>1, <3>2
  <2>6. ASSUME NEW i \in 1..n
        PROVE  /\ Rule(t[i], c[i], c[i + 1])
               /\ t[i][1] \in Tests =>
                    t[i][2] \in Nat /\ i + t[i][2] <= n /\ c[i + t[i][2] + 1] = c[i]
    <3> DEFINE j == k + i
    <3>1. j \in 1..m /\ i \in 1..(n + 1) /\ i + 1 \in 1..(n + 1) /\ k + (i + 1) = j + 1
      BY <2>1
    <3>2. t[i] = s[j] /\ c[i] = a[j] /\ c[i + 1] = a[j + 1]
      <4>1. c[i + 1] = a[k + (i + 1)]
        BY Zenon, <2>3, <3>1
      <4> QED
        BY Zenon, <2>3, <2>4, <3>1, <4>1
    <3>3. /\ Rule(s[j], a[j], a[j + 1])
          /\ s[j][1] \in Tests => s[j][2] \in Nat /\ j + s[j][2] <= m /\ a[j + s[j][2] + 1] = a[j]
      BY Zenon, <1>3, <3>1
    <3>4. ASSUME NEW l \in Nat, j + l <= m
          PROVE  i + l <= n /\ c[i + l + 1] = a[j + l + 1]
      <4>1. i + l <= n /\ i + l + 1 \in 1..(n + 1) /\ k + (i + l + 1) = j + l + 1
        BY <2>1, <3>4
      <4>2. c[i + l + 1] = a[k + (i + l + 1)]
        BY Zenon, <2>3, <4>1
      <4> QED
        BY Zenon, <4>1, <4>2
    <3> HIDE DEF j
    <3> QED
      BY Zenon, <3>2, <3>3, <3>4
  <2>7. Annotates(c, t)
    BY Zenon, <2>3, <2>4, <2>6 DEF Annotates
  <2> QED
    BY Zenon, <1>5, <2>4, <2>5, <2>7 DEF Takes
<1>6. ASSUME NEW k \in 0..m
      PROVE  Takes(SubSeq(s, k + 1, m), a[k + 1], g)
  <2> DEFINE t == SubSeq(s, k + 1, m)
  <2>1. /\ t \in Seq(Item) /\ Len(t) = m - k
        /\ \A i \in 1..(m - k) : t[i] = s[k + i]
    <3>1. /\ k + 1 \in Int /\ m \in Int /\ m - (k + 1) + 1 = m - k
          /\ ~ (k + 1 <= m) => m - k = 0
          /\ \A i \in (k + 1)..m : i \in 1..m
      BY <1>2, <1>6
    <3>2. \A i \in (k + 1)..m : s[i] \in Item
      <4>1. \A i \in 1..m : s[i] \in Item
        BY Zenon, <1>2, ElementOfSeq DEF m
      <4> QED
        BY Zenon, <3>1, <4>1
    <3>4. /\ t \in Seq(Item) /\ Len(t) = IF k + 1 <= m THEN m - (k + 1) + 1 ELSE 0
          /\ \A i \in 1..(m - (k + 1) + 1) : t[i] = s[k + 1 + i - 1]
      BY <3>1, <3>2, SubSeqProperties
    <3> HIDE DEF t
    <3>3. \A i \in 1..(m - k) : k + 1 + i - 1 = k + i
      BY <1>2, <1>6
    <3> QED
      BY Zenon, <3>1, <3>3, <3>4
  <2> QED
    BY Zenon, <1>5, <2>1
<1>7. Takes(Tail(s), a[2], g)
  <2>1. Tail(s) \in Seq(Item) /\ Len(Tail(s)) = m - 1 /\ \A i \in 1..(m - 1) : Tail(s)[i] = s[i + 1]
    BY Zenon, <1>2, HeadTailProperties DEF m
  <2>2. 1 \in 0..m /\ \A i \in 1..(m - 1) : i + 1 = 1 + i
    BY <1>2
  <2> QED
    BY Zenon, <1>4, <1>5, <2>1, <2>2
<1>8. Rule(Head(s), h, a[2]) /\ a[2] \in SUBSET Locks /\ h \in SUBSET Locks
  BY Zenon, <1>2, <1>3, <1>4
<1>9. ASSUME Head(s)[1] \in Tests
      PROVE  /\ Head(s)[2] \in Nat
             /\ Takes(SubSeq(s, 2, m), h, g)
             /\ Takes(SubSeq(s, Head(s)[2] + 2, m), h, g)
  <2> DEFINE l == Head(s)[2]
  <2>1. l \in Nat /\ 1 + l <= m /\ a[1 + l + 1] = h
    BY Zenon, <1>2, <1>3, <1>4, <1>9
  <2>2. a[2] = h
    BY <1>8, <1>9 DEF Rule, Tests
  <2> HIDE DEF l
  <2>3. /\ 1 \in 0..m /\ 1 + l \in 0..m /\ 1 + l + 1 = l + 2
    BY <1>2, <2>1
  <2>4. Takes(SubSeq(s, 1 + 1, m), a[1 + 1], g) /\ Takes(SubSeq(s, 1 + l + 1, m), a[1 + l + 1], g)
    BY Zenon, <1>6, <2>3
  <2> QED
    BY Zenon, <1>4, <2>1, <2>2, <2>3, <2>4 DEF l
<1> QED
  BY Zenon, <1>2, <1>7, <1>8, <1>9 DEF m

-----------------------------------------------------------------------------
(* The operations: each starts and ends with nothing held.                 *)

LEMMA TakesSteps ==
  /\ \A h \in SUBSET {"worker", "agent"} : Takes(Step("closeOld"), h, h)
  /\ \A h \in SUBSET {"worker"} : Takes(Step("write"), h \cup {"agent"}, h \cup {"agent"})
  /\ \A h \in SUBSET {"agent"} : Takes(Step("dial"), h, h)
  /\ Takes(Step("setClosed"), {"worker"}, {"worker"})
  /\ \A k \in {"publish", "close"}, h \in SUBSET {"worker", "agent"} :
       Takes(Step(k), h \cup {"writing"}, h \cup {"writing"})
<1>1. \A k \in Kinds : <<k, 0>> \in Item
  BY Zenon DEF Item
<1>2. ASSUME NEW k \in {"write", "closeOld"}, NEW h \in SUBSET {"worker", "agent"},
             k = "write" => "agent" \in h
      PROVE  Takes(Step(k), h, h)
  <2>1. Rule(<<k, 0>>, h, h) /\ k \notin Tests /\ h \in SUBSET Locks /\ k \in Kinds
    BY Zenon, <1>2 DEF Rule, Tests, Locks, Kinds
  <2> QED
    BY Zenon, <1>1, <2>1, TakesStep DEF Step
<1>3. ASSUME NEW h \in SUBSET {"agent"}
      PROVE  Takes(Step("dial"), h, h)
  <2>1. Rule(<<"dial", 0>>, h, h) /\ "dial" \notin Tests /\ h \in SUBSET Locks /\ "dial" \in Kinds
    BY Zenon, <1>3 DEF Rule, Tests, Locks, Kinds
  <2> QED
    BY Zenon, <1>1, <2>1, TakesStep DEF Step
<1>4. Takes(Step("setClosed"), {"worker"}, {"worker"})
  <2>1. /\ Rule(<<"setClosed", 0>>, {"worker"}, {"worker"}) /\ "setClosed" \notin Tests
        /\ {"worker"} \in SUBSET Locks /\ "setClosed" \in Kinds
    BY Zenon DEF Rule, Tests, Locks, Kinds
  <2> QED
    BY Zenon, <1>1, <2>1, TakesStep DEF Step
<1>5. ASSUME NEW k \in {"publish", "close"}, NEW h \in SUBSET {"worker", "agent"}
      PROVE  Takes(Step(k), h \cup {"writing"}, h \cup {"writing"})
  <2>1. /\ Rule(<<k, 0>>, h \cup {"writing"}, h \cup {"writing"}) /\ k \notin Tests
        /\ h \cup {"writing"} \in SUBSET Locks /\ k \in Kinds
    BY Zenon, <1>5 DEF Rule, Tests, Locks, Kinds
  <2> QED
    BY Zenon, <1>1, <2>1, TakesStep DEF Step
<1>6. ASSUME NEW h \in SUBSET {"worker"}
      PROVE  Takes(Step("write"), h \cup {"agent"}, h \cup {"agent"})
  <2>1. h \cup {"agent"} \in SUBSET {"worker", "agent"} /\ "agent" \in h \cup {"agent"}
    OBVIOUS
  <2> QED
    BY Zenon, <1>2, <2>1
<1>7. \A h \in SUBSET {"worker", "agent"} : Takes(Step("closeOld"), h, h)
  BY Zenon, <1>2
<1> QED
  BY Zenon, <1>3, <1>4, <1>5, <1>6, <1>7

LEMMA TakesLocked ==
  ASSUME NEW s
  PROVE  /\ Takes(s, {"worker"}, {"worker"}) => Takes(Locked("worker", s), {}, {})
         /\ \A h \in SUBSET {"worker"} :
              Takes(s, h \cup {"agent"}, h \cup {"agent"}) => Takes(Locked("agent", s), h, h)
<1>1. \A k \in {"lock", "unlock"}, m \in {"worker", "agent"} : <<k, m>> \in Item /\ k \notin Tests
  BY Zenon DEF Item, Kinds, Tests
<1>2. ASSUME Takes(s, {"worker"}, {"worker"})
      PROVE  Takes(Locked("worker", s), {}, {})
  <2>1. /\ Rule(<<"lock", "worker">>, {}, {"worker"}) /\ Rule(<<"unlock", "worker">>, {"worker"}, {})
        /\ {} \in SUBSET Locks /\ {"worker"} \in SUBSET Locks
    BY Zenon DEF Rule, Locks
  <2>2. Takes(<<<<"lock", "worker">>>>, {}, {"worker"})
    BY Zenon, <1>1, <2>1, TakesStep
  <2>3. Takes(<<<<"unlock", "worker">>>>, {"worker"}, {})
    BY Zenon, <1>1, <2>1, TakesStep
  <2>4. Takes(<<<<"lock", "worker">>>> \o s, {}, {"worker"})
    BY Zenon, <1>2, <2>2, TakesThen
  <2> QED
    BY Zenon, <2>3, <2>4, TakesThen DEF Locked
<1>3. ASSUME NEW h \in SUBSET {"worker"}, Takes(s, h \cup {"agent"}, h \cup {"agent"})
      PROVE  Takes(Locked("agent", s), h, h)
  <2> DEFINE g == h \cup {"agent"}
  <2>1. /\ Rule(<<"lock", "agent">>, h, g) /\ Rule(<<"unlock", "agent">>, g, h)
        /\ h \in SUBSET Locks /\ g \in SUBSET Locks
    <3>1. g \ {"agent"} = h
      BY Zenon, <1>3
    <3> QED
      BY Zenon, <1>3, <3>1 DEF Rule, Locks
  <2> HIDE DEF g
  <2>2. Takes(<<<<"lock", "agent">>>>, h, g)
    BY Zenon, <1>1, <2>1, TakesStep
  <2>3. Takes(<<<<"unlock", "agent">>>>, g, h)
    BY Zenon, <1>1, <2>1, TakesStep
  <2>4. Takes(s, g, g)
    BY Zenon, <1>3 DEF g
  <2>5. Takes(<<<<"lock", "agent">>>> \o s, h, g)
    BY Zenon, <2>2, <2>4, TakesThen
  <2> QED
    BY Zenon, <2>3, <2>5, TakesThen DEF Locked
<1> QED
  BY Zenon, <1>2, <1>3

LEMMA TwoSteps ==
  ASSUME NEW x, NEW y
  PROVE  <<x>> \o <<y>> = <<x, y>>
<1> DEFINE S == {x, y}
           s == <<x>>
           t == <<y>>
           u == <<x, y>>
<1>1. s \in Seq(S) /\ t \in Seq(S) /\ Len(s) = 1 /\ Len(t) = 1 /\ s[1] = x /\ t[1] = y
  OBVIOUS
<1>2. u \in Seq(S) /\ Len(u) = 2 /\ u[1] = x /\ u[2] = y
  OBVIOUS
<1> HIDE DEF s, t, u, S
<1>3. /\ s \o t \in Seq(S) /\ Len(s \o t) = 1 + 1
      /\ \A i \in 1..(1 + 1) : (s \o t)[i] = IF i <= 1 THEN s[i] ELSE t[i - 1]
  BY <1>1, ConcatProperties
<1>4. Len(s \o t) = 2 /\ (s \o t)[1] = x /\ (s \o t)[2] = y
  BY <1>1, <1>3
<1>5. \A i \in 1..Len(u) : i = 1 \/ i = 2
  BY <1>2
<1>6. s \o t = u
  BY Zenon, <1>2, <1>3, <1>4, <1>5, SeqEqual
<1> QED
  BY Zenon, <1>6 DEF s, t, u

LEMMA TakesConnMu ==
  ASSUME NEW h \in SUBSET {"worker", "agent"}
  PROVE  /\ Takes(RLocked, h, h)
         /\ \A k \in {"publish", "close"} : Takes(WLocked(Step(k)), h, h)
<1>1. \A k \in {"rlock", "runlock", "announce", "drain", "wunlock"} :
        <<k, "connMu">> \in Item /\ k \notin Tests
  BY Zenon DEF Item, Kinds, Tests
<1> DEFINE r == h \cup {"reading"}
           w == h \cup {"writing"}
<1>2. /\ h \in SUBSET Locks /\ r \in SUBSET Locks /\ w \in SUBSET Locks
      /\ r \ {"reading"} = h /\ w \ {"writing"} = h
  BY Zenon DEF Locks
<1>3. Rule(<<"rlock", "connMu">>, h, r) /\ Rule(<<"runlock", "connMu">>, r, h)
  BY Zenon, <1>2 DEF Rule
<1>4. /\ Rule(<<"announce", "connMu">>, h, w) /\ Rule(<<"drain", "connMu">>, w, w)
      /\ Rule(<<"wunlock", "connMu">>, w, h)
  BY Zenon, <1>2 DEF Rule
<1>5. \A k \in {"publish", "close"} : Takes(Step(k), w, w)
  BY Zenon, TakesSteps
<1> HIDE DEF r, w
<1>6. Takes(RLocked, h, h)
  <2>1. Takes(<<<<"rlock", "connMu">>>>, h, r) /\ Takes(<<<<"runlock", "connMu">>>>, r, h)
    BY Zenon, <1>1, <1>2, <1>3, TakesStep
  <2>2. Takes(<<<<"rlock", "connMu">>>> \o <<<<"runlock", "connMu">>>>, h, h)
    BY Zenon, <2>1, TakesThen
  <2>3. <<<<"rlock", "connMu">>>> \o <<<<"runlock", "connMu">>>> = RLocked
    BY Zenon, TwoSteps DEF RLocked
  <2> QED
    BY Zenon, <2>2, <2>3
<1>7. ASSUME NEW k \in {"publish", "close"}
      PROVE  Takes(WLocked(Step(k)), h, h)
  <2>1. /\ Takes(<<<<"announce", "connMu">>>>, h, w) /\ Takes(<<<<"drain", "connMu">>>>, w, w)
        /\ Takes(<<<<"wunlock", "connMu">>>>, w, h)
    BY Zenon, <1>1, <1>2, <1>4, TakesStep
  <2>2. Takes(<<<<"announce", "connMu">>>> \o <<<<"drain", "connMu">>>>, h, w)
    BY Zenon, <2>1, TakesThen
  <2>3. <<<<"announce", "connMu">>>> \o <<<<"drain", "connMu">>>>
          = <<<<"announce", "connMu">>, <<"drain", "connMu">>>>
    BY Zenon, TwoSteps
  <2>4. Takes(<<<<"announce", "connMu">>, <<"drain", "connMu">>>> \o Step(k), h, w)
    BY Zenon, <1>5, <2>2, <2>3, TakesThen
  <2> QED
    BY Zenon, <2>1, <2>4, TakesThen DEF WLocked
<1> QED
  BY Zenon, <1>6, <1>7

LEMMA TakesWrite ==
  ASSUME NEW h \in SUBSET {"worker"}
  PROVE  Takes(Write, h, h)
<1> DEFINE g == h \cup {"agent"}
<1>1. g \in SUBSET {"worker", "agent"}
  OBVIOUS
<1>2. Takes(getRW, g, g) /\ Takes(Step("write"), g, g)
  BY Zenon, <1>1, TakesConnMu, TakesSteps DEF getRW
<1>3. Takes(write, g, g)
  BY Zenon, <1>2, TakesThen DEF write
<1> QED
  BY Zenon, <1>3, TakesLocked DEF Write

LEMMA TakesOperations ==
  ASSUME NEW p, NEW o \in Operations(p)
  PROVE  /\ Takes(o[2], {}, {})
         /\ o[1] \in {"disconnect", "redial", "Write", "AddFunc", "Reset", "exec", "Close", "Ready"}
         /\ o[1] = "redial" => o[2] = redial
<1>1. {} \in SUBSET {"worker"} /\ {} \in SUBSET {"agent"} /\ {} \in SUBSET {"worker", "agent"}
      /\ {} \in SUBSET Locks /\ {"worker"} \in SUBSET Locks /\ {"worker"} \in SUBSET {"worker"}
  BY Zenon DEF Locks
<1>2. Takes(Write, {}, {}) /\ Takes(Write, {"worker"}, {"worker"})
  BY Zenon, <1>1, TakesWrite
<1>3. Takes(Locked("worker", << >>), {}, {})
  BY Zenon, <1>1, TakesNothing, TakesLocked
<1>4. Takes(AddFunc, {}, {})
  <2>1. Takes(If("ifRunning", Write), {"worker"}, {"worker"})
    <3>1. "ifRunning" \in Tests /\ {"worker"} \cap {"reading", "writing"} = {}
      BY Zenon DEF Tests
    <3> QED
      BY Zenon, <1>1, <1>2, <3>1, TakesIf
  <2> QED
    BY Zenon, <2>1, TakesLocked DEF AddFunc
<1>5. Takes(setConn, {}, {}) /\ Takes(setConn, {"agent"}, {"agent"})
      /\ Takes(getConn, {}, {}) /\ Takes(getConn, {"agent"}, {"agent"})
  BY Zenon, TakesConnMu DEF setConn, getConn
<1>6. Takes(Step("dial"), {}, {}) /\ Takes(Step("dial"), {"agent"}, {"agent"})
  BY Zenon, TakesSteps
<1>7. Takes(Connect, {}, {})
  <2>1. Takes(Step("dial") \o setConn, {"agent"}, {"agent"})
    BY Zenon, <1>5, <1>6, TakesThen
  <2>2. Takes(If("ifNil", Step("dial") \o setConn), {"agent"}, {"agent"})
    <3>1. "ifNil" \in Tests /\ {"agent"} \cap {"reading", "writing"} = {} /\ {"agent"} \in SUBSET Locks
      BY Zenon DEF Tests, Locks
    <3> QED
      BY Zenon, <2>1, <3>1, TakesIf
  <2>3. Takes(getConn \o If("ifNil", Step("dial") \o setConn), {"agent"}, {"agent"})
    BY Zenon, <1>5, <2>2, TakesThen
  <2>4. {} \cup {"agent"} = {"agent"}
    OBVIOUS
  <2> QED
    BY Zenon, <1>1, <2>3, <2>4, TakesLocked DEF Connect
<1>8. Takes(Ready, {}, {})
  <2>1. Takes(Locked("worker", << >>) \o Connect, {}, {})
    BY Zenon, <1>3, <1>7, TakesThen
  <2>2. Takes(Locked("worker", << >>) \o Connect \o Write, {}, {})
    BY Zenon, <1>2, <2>1, TakesThen
  <2> QED
    BY Zenon, <1>3, <2>2, TakesThen DEF Ready
<1>9. Takes(Close, {}, {})
  <2>1. Takes(Locked("worker", Step("setClosed")), {}, {})
    BY Zenon, TakesSteps, TakesLocked
  <2>2. Takes(agentClose, {}, {})
    BY Zenon, <1>1, TakesConnMu DEF agentClose
  <2> QED
    BY Zenon, <2>1, <2>2, TakesThen DEF Close
<1>10. Takes(Reset, {}, {})
  BY Zenon, <1>2, <1>3, TakesThen DEF Reset
<1>11. Takes(exec, {}, {})
  <2>1. Takes(Locked("worker", << >>) \o Locked("worker", << >>), {}, {})
    BY Zenon, <1>3, TakesThen
  <2>2. Takes(If("either", Write), {}, {})
    <3>1. "either" \in Tests /\ {} \cap {"reading", "writing"} = {}
      BY Zenon DEF Tests
    <3> QED
      BY Zenon, <1>1, <1>2, <3>1, TakesIf
  <2> QED
    BY Zenon, <2>1, <2>2, TakesThen DEF exec
<1>12. Takes(reconnect, {}, {})
  <2>1. Takes(Step("dial") \o setConn, {}, {})
    BY Zenon, <1>5, <1>6, TakesThen
  <2>2. Takes(Step("dial") \o setConn \o funcOutpacks, {}, {})
    BY Zenon, <1>3, <2>1, TakesThen DEF funcOutpacks
  <2>3. Takes(Step("dial") \o setConn \o funcOutpacks \o Write, {}, {})
    BY Zenon, <1>2, <2>2, TakesThen
  <2> QED
    BY Zenon, <1>2, <2>3, TakesThen DEF reconnect, Grab
<1>13. ASSUME NEW h \in {<< >>, reconnect, Close}
       PROVE  Takes(disconnect_error(h), {}, {})
  <2>1. Takes(h, {}, {})
    BY Zenon, <1>1, <1>9, <1>12, <1>13, TakesNothing
  <2>2. Takes(If("ifConn", h), {}, {})
    <3>1. "ifConn" \in Tests /\ {} \cap {"reading", "writing"} = {}
      BY Zenon DEF Tests
    <3> QED
      BY Zenon, <1>1, <2>1, <3>1, TakesIf
  <2> QED
    BY Zenon, <1>5, <2>2, TakesThen DEF disconnect_error
<1>14. Takes(redial, {}, {})
  <2>1. Takes(getConn \o Step("dial"), {}, {})
    BY Zenon, <1>5, <1>6, TakesThen
  <2>2. Takes(getConn \o Step("dial") \o setConn, {}, {})
    BY Zenon, <1>5, <2>1, TakesThen
  <2>3. Takes(Step("closeOld"), {}, {})
    BY Zenon, <1>1, TakesSteps
  <2> QED
    BY Zenon, <2>2, <2>3, TakesThen DEF redial
<1>15. CASE p = "loop"
  <2>1. \/ \E h \in {<< >>, reconnect, Close} : o = <<"disconnect", disconnect_error(h)>>
        \/ o = <<"redial", redial>>
    BY Zenon, <1>15 DEF Operations
  <2> QED
    BY <1>13, <1>14, <2>1
<1>16. CASE p # "loop"
  <2>1. o \in {<<"Write", Write>>, <<"AddFunc", AddFunc>>, <<"Reset", Reset>>, <<"exec", exec>>,
               <<"Close", Close>>, <<"Ready", Ready>>}
    BY Zenon, <1>16 DEF Operations
  <2> QED
    BY <1>2, <1>4, <1>8, <1>9, <1>10, <1>11, <2>1
<1> QED
  BY Zenon, <1>15, <1>16

-----------------------------------------------------------------------------
(* What a goroutine holds is what the rest of its operation starts from.   *)

Held(p) ==
  {m \in {"worker", "agent"} : holder[m] = p}
    \cup {m \in {"reading"} : p \in readers} \cup {m \in {"writing"} : writer = p}

OpNames == {"none", "returned", "disconnect", "redial", "Write", "AddFunc", "Reset", "exec",
            "Close", "Ready"}

(* A redial takes no Mutex, so that it has none to unlock when it fails.   *)
NoMutex(s) == \A i \in 1..Len(s) : s[i][1] \notin Tests \cup {"lock"}

LockTypes ==
  /\ holder \in [{"worker", "agent"} -> Procs \cup {Nobody}]
  /\ readers \subseteq Procs /\ writer \in Procs \cup {Nobody}

LockInv ==
  /\ LockTypes
  /\ todo \in [Procs -> Seq(Item)] /\ op \in [Procs -> OpNames]
  /\ \A p \in Procs :
       /\ Takes(todo[p], Held(p), {})
       /\ op[p] = "none" => todo[p] = << >>
       /\ op[p] = "redial" => NoMutex(todo[p]) /\ Held(p) \cap {"worker", "agent"} = {}

LEMMA NobodyIsNone == Nobody \notin Procs
BY Zenon, WorkerLocksAssumption DEF Procs, Nobody

LEMMA TakesEnd ==
  ASSUME NEW h, NEW g, Takes(<< >>, h, g)
  PROVE  h = g
<1>1. Len(<< >>) + 1 = 1
  OBVIOUS
<1> QED
  BY Zenon, <1>1 DEF Takes

LEMMA NoMutexRest ==
  ASSUME NEW s \in Seq(Item), NoMutex(s), s # << >>
  PROVE  NoMutex(Tail(s)) /\ Head(s)[1] \notin Tests \cup {"lock"}
<1> DEFINE m == Len(s)
           t == Tail(s)
<1>1. m \in Nat \ {0} /\ Head(s) = s[1]
  BY EmptySeq, HeadTailProperties
<1>2. Len(t) = m - 1 /\ \A i \in 1..(m - 1) : t[i] = s[i + 1]
  BY Zenon, HeadTailProperties
<1>3. \A i \in 1..m : s[i][1] \notin Tests \cup {"lock"}
  BY Zenon DEF NoMutex
<1> HIDE DEF m, t
<1>4. 1 \in 1..m /\ \A i \in 1..(m - 1) : i + 1 \in 1..m
  BY <1>1
<1>5. NoMutex(t)
  BY Zenon, <1>2, <1>3, <1>4 DEF NoMutex
<1> QED
  BY Zenon, <1>1, <1>3, <1>4, <1>5 DEF t

LEMMA NoMutexConcat ==
  ASSUME NEW s \in Seq(Item), NEW t \in Seq(Item), NoMutex(s), NoMutex(t)
  PROVE  s \o t \in Seq(Item) /\ NoMutex(s \o t)
<1> DEFINE m == Len(s)
           n == Len(t)
           u == s \o t
<1>1. /\ m \in Nat /\ n \in Nat /\ u \in Seq(Item) /\ Len(u) = m + n
      /\ \A i \in 1..(m + n) : u[i] = IF i <= m THEN s[i] ELSE t[i - m]
  BY Zenon, ConcatProperties, LenProperties
<1>2. /\ \A i \in 1..m : s[i][1] \notin Tests \cup {"lock"}
      /\ \A i \in 1..n : t[i][1] \notin Tests \cup {"lock"}
  BY Zenon DEF NoMutex
<1> HIDE DEF m, n, u
<1>3. \A i \in 1..(m + n) : (i <= m => i \in 1..m) /\ (~ (i <= m) => i - m \in 1..n)
  BY <1>1
<1>4. NoMutex(u)
  BY Zenon, <1>1, <1>2, <1>3 DEF NoMutex
<1> QED
  BY Zenon, <1>1, <1>4 DEF u

LEMMA NoMutexStep ==
  ASSUME NEW x \in Item, x[1] \notin Tests \cup {"lock"}
  PROVE  <<x>> \in Seq(Item) /\ NoMutex(<<x>>)
<1> DEFINE s == <<x>>
<1>1. s \in Seq(Item) /\ Len(s) = 1 /\ s[1] = x
  OBVIOUS
<1> HIDE DEF s
<1>2. \A i \in 1..Len(s) : i = 1
  BY <1>1
<1>3. NoMutex(s)
  BY Zenon, <1>1, <1>2 DEF NoMutex
<1> QED
  BY Zenon, <1>1, <1>3 DEF s

LEMMA RedialNoMutex == NoMutex(redial)
<1>1. /\ \A k \in {"dial", "publish", "closeOld"} :
           <<k, 0>> \in Item /\ k \notin Tests \cup {"lock"}
      /\ \A k \in {"rlock", "runlock", "announce", "drain", "wunlock"} :
           <<k, "connMu">> \in Item /\ k \notin Tests \cup {"lock"}
  BY DEF Item, Kinds, Tests
<1>2. \A k \in {"dial", "publish", "closeOld"} : Step(k) \in Seq(Item) /\ NoMutex(Step(k))
  <2> SUFFICES ASSUME NEW k \in {"dial", "publish", "closeOld"}
               PROVE  Step(k) \in Seq(Item) /\ NoMutex(Step(k))
    OBVIOUS
  <2>1. <<k, 0>> \in Item /\ <<k, 0>>[1] \notin Tests \cup {"lock"}
    BY Zenon, <1>1
  <2> QED
    BY Zenon, <2>1, NoMutexStep DEF Step
<1>3. ASSUME NEW k \in {"rlock", "runlock", "announce", "drain", "wunlock"}
      PROVE  <<<<k, "connMu">>>> \in Seq(Item) /\ NoMutex(<<<<k, "connMu">>>>)
  <2>1. <<k, "connMu">> \in Item /\ <<k, "connMu">>[1] \notin Tests \cup {"lock"}
    BY Zenon, <1>1, <1>3
  <2> QED
    BY Zenon, <2>1, NoMutexStep
<1>4. RLocked \in Seq(Item) /\ NoMutex(RLocked)
  <2>1. RLocked = <<<<"rlock", "connMu">>>> \o <<<<"runlock", "connMu">>>>
    BY Zenon, TwoSteps DEF RLocked
  <2> QED
    BY Zenon, <1>3, <2>1, NoMutexConcat
<1>5. setConn \in Seq(Item) /\ NoMutex(setConn)
  <2> DEFINE a == <<<<"announce", "connMu">>>> \o <<<<"drain", "connMu">>>>
  <2>1. a = <<<<"announce", "connMu">>, <<"drain", "connMu">>>>
    BY Zenon, TwoSteps
  <2>2. a \in Seq(Item) /\ NoMutex(a)
    BY Zenon, <1>3, NoMutexConcat
  <2> HIDE DEF a
  <2>3. a \o Step("publish") \in Seq(Item) /\ NoMutex(a \o Step("publish"))
    BY Zenon, <1>2, <2>2, NoMutexConcat
  <2>4. /\ a \o Step("publish") \o <<<<"wunlock", "connMu">>>> \in Seq(Item)
        /\ NoMutex(a \o Step("publish") \o <<<<"wunlock", "connMu">>>>)
    BY Zenon, <1>3, <2>3, NoMutexConcat
  <2> QED
    BY Zenon, <2>1, <2>4 DEF setConn, WLocked
<1>6. getConn \o Step("dial") \in Seq(Item) /\ NoMutex(getConn \o Step("dial"))
  BY Zenon, <1>2, <1>4, NoMutexConcat DEF getConn
<1>7. /\ getConn \o Step("dial") \o setConn \in Seq(Item)
      /\ NoMutex(getConn \o Step("dial") \o setConn)
  BY Zenon, <1>5, <1>6, NoMutexConcat
<1> QED
  BY Zenon, <1>2, <1>7, NoMutexConcat DEF redial

LEMMA HeldIs ==
  ASSUME NEW p, NEW x
  PROVE  x \in Held(p) <=> \/ x \in {"worker", "agent"} /\ holder[x] = p
                           \/ x = "reading" /\ p \in readers
                           \/ x = "writing" /\ writer = p
BY Zenon DEF Held

(* A step of p that goes on with rest and changes only what p holds.       *)
LEMMA LockKept ==
  ASSUME LockInv, LockTypes', NEW p \in Procs, NEW rest, Continue(p, rest),
         Takes(rest, Held(p)', {}),
         op[p] = "redial" => NoMutex(rest) /\ Held(p)' \cap {"worker", "agent"} = {},
         op[p] # "none", \A d \in Procs : d # p => Held(d)' = Held(d)
  PROVE  LockInv'
<1>1. /\ rest \in Seq(Item) /\ todo' = [todo EXCEPT ![p] = rest]
      /\ op' = [op EXCEPT ![p] = IF rest = << >> THEN "returned" ELSE @]
  BY Zenon DEF Continue, Takes
<1>2. /\ todo \in [Procs -> Seq(Item)] /\ op \in [Procs -> OpNames]
  BY Zenon DEF LockInv
<1>3. todo' \in [Procs -> Seq(Item)] /\ op' \in [Procs -> OpNames]
  BY Zenon, <1>1, <1>2 DEF OpNames
<1>4. /\ todo'[p] = rest /\ (op'[p] = op[p] \/ op'[p] = "returned")
      /\ \A d \in Procs : d # p => todo'[d] = todo[d] /\ op'[d] = op[d]
  BY Zenon, <1>1, <1>2
<1>5. ASSUME NEW d \in Procs
      PROVE  /\ Takes(todo[d]', Held(d)', {})
             /\ op'[d] = "none" => todo'[d] = << >>
             /\ op'[d] = "redial" => NoMutex(todo[d]') /\ Held(d)' \cap {"worker", "agent"} = {}
  <2>1. CASE d = p
    BY Zenon, <1>4, <2>1
  <2>2. CASE d # p
    BY Zenon, <1>4, <2>2 DEF LockInv
  <2> QED
    BY Zenon, <2>1, <2>2
<1> QED
  BY Zenon, <1>3, <1>5 DEF LockInv

(* What LockInv says of the next step of p.                                *)
LEMMA NextStep ==
  ASSUME LockInv, NEW p \in Procs, NEW kind, At(p, kind)
  PROVE  /\ Head(todo[p])[1] = kind /\ op[p] # "none"
         /\ op[p] = "redial" => /\ kind \notin Tests \cup {"lock"} /\ NoMutex(Tail(todo[p]))
                                /\ Held(p) \cap {"worker", "agent"} = {}
         /\ \E k \in SUBSET Locks : Rule(Head(todo[p]), Held(p), k) /\ Takes(Tail(todo[p]), k, {})
         /\ kind \in Tests => /\ Head(todo[p])[2] \in Nat
                              /\ Takes(SubSeq(todo[p], 2, Len(todo[p])), Held(p), {})
                              /\ Takes(SubSeq(todo[p], Head(todo[p])[2] + 2, Len(todo[p])), Held(p), {})
<1>1. todo[p] # << >> /\ Head(todo[p])[1] = kind /\ todo[p] \in Seq(Item)
  BY Zenon DEF At, LockInv
<1>2. Takes(todo[p], Held(p), {})
  BY Zenon DEF LockInv
<1>3. op[p] # "none" /\ (op[p] = "redial" => NoMutex(todo[p]) /\ Held(p) \cap {"worker", "agent"} = {})
  BY Zenon, <1>1 DEF LockInv
<1>4. op[p] = "redial" => kind \notin Tests \cup {"lock"} /\ NoMutex(Tail(todo[p]))
  BY Zenon, <1>1, <1>3, NoMutexRest
<1> QED
  BY Zenon, <1>1, <1>2, <1>3, <1>4, TakesRest

LEMMA MutexKeeps ==
  ASSUME LockInv, NEW p \in Procs, Lock(p) \/ Unlock(p)
  PROVE  LockInv'
<1> DEFINE m == Head(todo[p])[2]
<1>1. UNCHANGED <<readers, writer>> /\ Continue(p, Tail(todo[p]))
  BY Zenon DEF Lock, Unlock, Proceed
<1>2. LockTypes
  BY Zenon DEF LockInv
<1>3. CASE Lock(p)
  <2>1. At(p, "lock") /\ holder[m] = Nobody /\ holder' = [holder EXCEPT ![m] = p]
    BY Zenon, <1>3 DEF Lock
  <2>2. PICK k \in SUBSET Locks : Rule(Head(todo[p]), Held(p), k) /\ Takes(Tail(todo[p]), k, {})
    BY Zenon, <2>1, NextStep
  <2>3. op[p] # "redial" /\ op[p] # "none" /\ Head(todo[p])[1] = "lock"
    BY Zenon, <2>1, NextStep
  <2>4. m \in {"worker", "agent"} /\ k = Held(p) \cup {m}
    BY <2>2, <2>3 DEF Rule, Tests
  <2> HIDE DEF m
  <2>5. \A x \in {"worker", "agent"} : holder'[x] = IF x = m THEN p ELSE holder[x]
    BY Zenon, <1>2, <2>1, <2>4 DEF LockTypes
  <2>6. LockTypes'
    BY Zenon, <1>1, <1>2, <2>1, <2>4 DEF LockTypes
  <2>7. Held(p)' = k
    BY Zenon, <1>1, <2>4, <2>5 DEF Held
  <2>8. ASSUME NEW d \in Procs, d # p
        PROVE  Held(d)' = Held(d)
    BY <1>1, <2>1, <2>4, <2>5, <2>8, NobodyIsNone DEF Held
  <2> QED
    BY Zenon, <1>1, <2>2, <2>3, <2>6, <2>7, <2>8, LockKept
<1>4. CASE Unlock(p)
  <2>1. At(p, "unlock") /\ holder' = [holder EXCEPT ![m] = Nobody]
    BY Zenon, <1>4 DEF Unlock
  <2>2. PICK k \in SUBSET Locks : Rule(Head(todo[p]), Held(p), k) /\ Takes(Tail(todo[p]), k, {})
    BY Zenon, <2>1, NextStep
  <2>3. /\ op[p] # "none" /\ Head(todo[p])[1] = "unlock"
        /\ op[p] = "redial" => /\ NoMutex(Tail(todo[p]))
                               /\ Held(p) \cap {"worker", "agent"} = {}
    BY Zenon, <2>1, NextStep
  <2>4. m \in {"worker", "agent"} /\ m \in Held(p) /\ k = Held(p) \ {m}
    BY <2>2, <2>3 DEF Rule, Tests
  <2> HIDE DEF m
  <2>5. /\ holder[m] = p /\ op[p] # "redial"
        /\ \A x \in {"worker", "agent"} : holder'[x] = IF x = m THEN Nobody ELSE holder[x]
    BY Zenon, <1>2, <2>1, <2>3, <2>4, HeldIs DEF LockTypes
  <2>6. LockTypes'
    BY Zenon, <1>1, <1>2, <2>1, <2>4 DEF LockTypes
  <2>7. Held(p)' = k
    BY Zenon, <1>1, <2>4, <2>5, NobodyIsNone DEF Held
  <2>8. ASSUME NEW d \in Procs, d # p
        PROVE  Held(d)' = Held(d)
    BY Zenon, <1>1, <2>4, <2>5, <2>8, NobodyIsNone DEF Held
  <2> QED
    BY Zenon, <1>1, <2>2, <2>3, <2>5, <2>6, <2>7, <2>8, LockKept
<1> QED
  BY Zenon, <1>3, <1>4

LEMMA ConnMuKeeps ==
  ASSUME LockInv, NEW p \in Procs,
         RLock(p) \/ RUnlock(p) \/ Announce(p) \/ Drain(p) \/ WUnlock(p)
  PROVE  LockInv'
<1>1. holder' = holder /\ Continue(p, Tail(todo[p]))
  BY Zenon DEF RLock, RUnlock, Announce, Drain, WUnlock, Proceed, lockVars
<1>2. LockTypes
  BY Zenon DEF LockInv
<1>3. PICK kind \in {"rlock", "runlock", "announce", "drain", "wunlock"} :
        /\ At(p, kind)
        /\ \/ kind = "rlock" /\ readers' = readers \cup {p} /\ writer' = writer
           \/ kind = "runlock" /\ readers' = readers \ {p} /\ writer' = writer
           \/ kind = "announce" /\ writer = Nobody /\ writer' = p /\ readers' = readers
           \/ kind = "drain" /\ writer' = writer /\ readers' = readers
           \/ kind = "wunlock" /\ writer' = Nobody /\ readers' = readers
  BY Zenon DEF RLock, RUnlock, Announce, Drain, WUnlock, lockVars
<1>4. PICK k \in SUBSET Locks : Rule(Head(todo[p]), Held(p), k) /\ Takes(Tail(todo[p]), k, {})
  BY Zenon, <1>3, NextStep
<1>5. /\ op[p] # "none" /\ Head(todo[p])[1] = kind
      /\ op[p] = "redial" => NoMutex(Tail(todo[p])) /\ Held(p) \cap {"worker", "agent"} = {}
  BY Zenon, <1>3, NextStep
<1>6. /\ kind = "rlock" => k = Held(p) \cup {"reading"}
      /\ kind = "runlock" => k = Held(p) \ {"reading"}
      /\ kind = "announce" => k = Held(p) \cup {"writing"}
      /\ kind = "drain" => k = Held(p)
      /\ kind = "wunlock" => k = Held(p) \ {"writing"} /\ "writing" \in Held(p)
  BY <1>3, <1>4, <1>5 DEF Rule, Tests
<1>7. LockTypes'
  BY Zenon, <1>1, <1>2, <1>3 DEF LockTypes
<1>8. kind = "wunlock" => writer = p
  BY Zenon, <1>6, HeldIs
<1>9. Held(p)' = k
  <2>1. \A x : x \in Held(p)' <=> \/ x \in {"worker", "agent"} /\ holder[x] = p
                                  \/ x = "reading" /\ p \in readers'
                                  \/ x = "writing" /\ writer' = p
    BY Zenon, <1>1 DEF Held
  <2>2. \A x : x \in Held(p)' <=> x \in k
    BY <1>3, <1>6, <2>1, HeldIs, NobodyIsNone
  <2> QED
    BY Zenon, <2>2
<1>10. ASSUME NEW d \in Procs, d # p
       PROVE  Held(d)' = Held(d)
  BY <1>1, <1>3, <1>8, <1>10, NobodyIsNone DEF Held
<1>11. k \cap {"worker", "agent"} = Held(p) \cap {"worker", "agent"}
  BY Zenon, <1>3, <1>6
<1> QED
  BY Zenon, <1>1, <1>4, <1>5, <1>7, <1>9, <1>10, <1>11, LockKept

(* Steps that change no lock.                                              *)
LEMMA OtherKeeps ==
  ASSUME LockInv, NEW p \in Procs,
         \/ Branch(p) \/ SetClosed(p) \/ DialSucceeds(p) \/ DialFails(p) \/ Publish(p)
         \/ WriteReturns(p) \/ CloseSocket(p)
  PROVE  LockInv'
<1>1. UNCHANGED lockVars
  BY Zenon DEF Branch, SetClosed, DialSucceeds, DialFails, Publish, WriteReturns, CloseSocket
<1>2. LockTypes'
  BY Zenon, <1>1 DEF LockInv, LockTypes, lockVars
<1>3. \A d : Held(d)' = Held(d)
  BY Zenon, <1>1 DEF Held, lockVars
<1>4. ASSUME NEW kind, At(p, kind), NEW rest, Continue(p, rest), Takes(rest, Held(p), {}),
             op[p] = "redial" => NoMutex(rest)
      PROVE  LockInv'
  <2>1. op[p] # "none" /\ (op[p] = "redial" => Held(p) \cap {"worker", "agent"} = {})
    BY Zenon, <1>4, NextStep
  <2> QED
    BY Zenon, <1>2, <1>3, <1>4, <2>1, LockKept
<1>5. ASSUME NEW kind \in {"setClosed", "dial", "publish", "write", "close", "closeOld"},
             At(p, kind), Proceed(p)
      PROVE  LockInv'
  <2>1. PICK k \in SUBSET Locks : Rule(Head(todo[p]), Held(p), k) /\ Takes(Tail(todo[p]), k, {})
    BY Zenon, <1>5, NextStep
  <2>2. Head(todo[p])[1] = kind /\ (op[p] = "redial" => NoMutex(Tail(todo[p])))
    BY Zenon, <1>5, NextStep
  <2>3. k = Held(p)
    BY <1>5, <2>1, <2>2 DEF Rule, Tests
  <2> QED
    BY Zenon, <1>4, <1>5, <2>1, <2>2, <2>3 DEF Proceed
<1>6. CASE Branch(p)
  <2>1. PICK test \in Tests, taken \in BOOLEAN :
          /\ At(p, test)
          /\ Continue(p, SubSeq(todo[p], IF taken THEN 2 ELSE Head(todo[p])[2] + 2, Len(todo[p])))
    BY Zenon, <1>6 DEF Branch, Tests
  <2>2. /\ op[p] # "redial"
        /\ Takes(SubSeq(todo[p], 2, Len(todo[p])), Held(p), {})
        /\ Takes(SubSeq(todo[p], Head(todo[p])[2] + 2, Len(todo[p])), Held(p), {})
    BY Zenon, <2>1, NextStep
  <2>3. CASE taken
    <3>1. Continue(p, SubSeq(todo[p], 2, Len(todo[p])))
      BY Zenon, <2>1, <2>3
    <3> QED
      BY Zenon, <1>4, <2>1, <2>2, <3>1
  <2>4. CASE ~taken
    <3>1. Continue(p, SubSeq(todo[p], Head(todo[p])[2] + 2, Len(todo[p])))
      BY Zenon, <2>1, <2>4
    <3> QED
      BY Zenon, <1>4, <2>1, <2>2, <3>1
  <2> QED
    BY Zenon, <2>3, <2>4
<1>7. CASE SetClosed(p)
  <2>1. CASE ~closed
    BY Zenon, <1>5, <1>7, <2>1 DEF SetClosed, Proceed
  <2>2. CASE closed
    <3> DEFINE rest == <<<<"unlock", "worker">>>>
    <3>1. At(p, "setClosed") /\ Continue(p, rest)
      BY Zenon, <1>7, <2>2 DEF SetClosed
    <3>2. PICK k \in SUBSET Locks : Rule(Head(todo[p]), Held(p), k)
      BY Zenon, <3>1, NextStep
    <3>3. Head(todo[p])[1] = "setClosed"
      BY Zenon, <3>1, NextStep
    <3>4. Held(p) = {"worker"}
      BY <3>2, <3>3 DEF Rule, Tests
    <3>5. op[p] # "redial"
      BY Zenon, <3>1, <3>4, NextStep
    <3>6. Takes(rest, {"worker"}, {})
      <4>1. /\ <<"unlock", "worker">> \in Item /\ "unlock" \notin Tests
            /\ Rule(<<"unlock", "worker">>, {"worker"}, {})
            /\ {"worker"} \in SUBSET Locks /\ {} \in SUBSET Locks
        BY Zenon DEF Item, Kinds, Tests, Rule, Locks
      <4> QED
        BY Zenon, <4>1, TakesStep
    <3> HIDE DEF rest
    <3> QED
      BY Zenon, <1>4, <3>1, <3>4, <3>5, <3>6
  <2> QED
    BY Zenon, <2>1, <2>2
<1>8. CASE DialFails(p)
  <2>1. At(p, "dial")
    BY Zenon, <1>8 DEF DialFails
  <2>2. PICK k \in SUBSET Locks : Rule(Head(todo[p]), Held(p), k)
    BY Zenon, <2>1, NextStep
  <2>3. Head(todo[p])[1] = "dial"
    BY Zenon, <2>1, NextStep
  <2>4. Held(p) \subseteq {"agent"}
    BY <2>2, <2>3 DEF Rule, Tests
  <2>5. CASE op[p] = "redial"
    <3>1. Continue(p, Step("closeOld"))
      BY Zenon, <1>8, <2>5 DEF DialFails
    <3>2. Held(p) = {}
      <4>1. Held(p) \cap {"worker", "agent"} = {}
        BY Zenon, <2>1, <2>5, NextStep
      <4> QED
        BY Zenon, <2>4, <4>1
    <3>3. Takes(Step("closeOld"), {}, {})
      BY Zenon, TakesSteps
    <3>4. NoMutex(Step("closeOld"))
      <4>1. <<"closeOld", 0>> \in Item /\ <<"closeOld", 0>>[1] \notin Tests \cup {"lock"}
        BY Zenon DEF Item, Kinds, Tests
      <4> QED
        BY Zenon, <4>1, NoMutexStep DEF Step
    <3> QED
      BY Zenon, <1>4, <2>1, <3>1, <3>2, <3>3, <3>4
  <2>6. CASE op[p] # "redial" /\ holder["agent"] = p
    <3> DEFINE rest == <<<<"unlock", "agent">>>>
    <3>1. Continue(p, rest)
      BY Zenon, <1>8, <2>6 DEF DialFails
    <3>2. Held(p) = {"agent"}
      <4>1. "agent" \in Held(p)
        BY Zenon, <2>6, HeldIs
      <4> QED
        BY Zenon, <2>4, <4>1
    <3>3. Takes(rest, {"agent"}, {})
      <4>1. /\ <<"unlock", "agent">> \in Item /\ "unlock" \notin Tests
            /\ Rule(<<"unlock", "agent">>, {"agent"}, {})
            /\ {"agent"} \in SUBSET Locks /\ {} \in SUBSET Locks
        BY Zenon DEF Item, Kinds, Tests, Rule, Locks
      <4> QED
        BY Zenon, <4>1, TakesStep
    <3> HIDE DEF rest
    <3> QED
      BY Zenon, <1>4, <2>1, <2>6, <3>1, <3>2, <3>3
  <2>7. CASE op[p] # "redial" /\ holder["agent"] # p
    <3>1. Continue(p, << >>)
      BY Zenon, <1>8, <2>7 DEF DialFails
    <3>2. Held(p) = {}
      <4>1. "agent" \notin Held(p)
        BY <2>7, HeldIs
      <4> QED
        BY Zenon, <2>4, <4>1
    <3>3. Takes(<< >>, {}, {})
      BY Zenon, TakesNothing
    <3> QED
      BY Zenon, <1>4, <2>1, <2>7, <3>1, <3>2, <3>3
  <2> QED
    BY Zenon, <2>5, <2>6, <2>7
<1> QED
  BY Zenon, <1>5, <1>6, <1>7, <1>8 DEF DialSucceeds, Publish, WriteReturns, CloseSocket

LEMMA BeginKeeps ==
  ASSUME LockInv, NEW p \in Procs, Begin(p)
  PROVE  LockInv'
<1>1. PICK o \in Operations(p) :
        op' = [op EXCEPT ![p] = o[1]] /\ todo' = [todo EXCEPT ![p] = o[2]]
  BY Zenon DEF Begin
<1>2. op[p] = "none" /\ UNCHANGED lockVars
  BY Zenon DEF Begin
<1>3. LockTypes'
  BY Zenon, <1>2 DEF LockInv, LockTypes, lockVars
<1>4. \A d : Held(d)' = Held(d)
  BY Zenon, <1>2 DEF Held, lockVars
<1>5. Held(p) = {}
  <2>1. Takes(<< >>, Held(p), {})
    BY Zenon, <1>2 DEF LockInv
  <2> QED
    BY Zenon, <2>1, TakesEnd
<1>6. /\ Takes(o[2], {}, {}) /\ o[1] \in OpNames \ {"none"} /\ o[2] \in Seq(Item)
      /\ o[1] = "redial" => NoMutex(o[2])
  <2>1. /\ Takes(o[2], {}, {})
        /\ o[1] \in {"disconnect", "redial", "Write", "AddFunc", "Reset", "exec", "Close", "Ready"}
        /\ o[1] = "redial" => o[2] = redial
    BY Zenon, TakesOperations
  <2> QED
    BY Zenon, <2>1, RedialNoMutex DEF OpNames, Takes
<1>7. /\ todo \in [Procs -> Seq(Item)] /\ op \in [Procs -> OpNames]
  BY Zenon DEF LockInv
<1>8. /\ todo' \in [Procs -> Seq(Item)] /\ op' \in [Procs -> OpNames]
      /\ todo'[p] = o[2] /\ op'[p] = o[1]
      /\ \A d \in Procs : d # p => todo'[d] = todo[d] /\ op'[d] = op[d]
  BY Zenon, <1>1, <1>6, <1>7
<1>9. ASSUME NEW d \in Procs
      PROVE  /\ Takes(todo[d]', Held(d)', {})
             /\ op'[d] = "none" => todo'[d] = << >>
             /\ op'[d] = "redial" => NoMutex(todo[d]') /\ Held(d)' \cap {"worker", "agent"} = {}
  <2>1. CASE d = p
    BY Zenon, <1>4, <1>5, <1>6, <1>8, <2>1
  <2>2. CASE d # p
    BY Zenon, <1>4, <1>8, <2>2 DEF LockInv
  <2> QED
    BY Zenon, <2>1, <2>2
<1> QED
  BY Zenon, <1>3, <1>8, <1>9 DEF LockInv

(* Every goroutine has left to do what unlocks all that it holds, in the   *)
(* order of the rules.                                                     *)
LEMMA LocksOrdered == Spec => []LockInv
<1>1. Init => LockInv
  <2> SUFFICES ASSUME Init PROVE LockInv
    OBVIOUS
  <2>1. LockTypes /\ op \in [Procs -> OpNames] /\ \A p \in Procs : op[p] = "none"
    BY Zenon DEF Init, LockTypes, OpNames
  <2>2. todo \in [Procs -> Seq(Item)] /\ \A p \in Procs : todo[p] = << >>
    BY DEF Init
  <2>3. \A p \in Procs : Held(p) = {}
    BY Zenon, NobodyIsNone DEF Init, Held
  <2>4. Takes(<< >>, {}, {})
    BY Zenon, TakesNothing
  <2> QED
    BY Zenon, <2>1, <2>2, <2>3, <2>4 DEF LockInv
<1>2. LockInv /\ [Next]_vars => LockInv'
  <2> SUFFICES ASSUME LockInv, [Next]_vars PROVE LockInv'
    OBVIOUS
  <2>1. CASE UNCHANGED <<lockVars, todo, op>>
    <3>1. LockTypes' /\ \A d : Held(d)' = Held(d)
      BY Zenon, <2>1 DEF LockInv, LockTypes, Held, lockVars
    <3> QED
      BY Zenon, <2>1, <3>1 DEF LockInv
  <2>2. ASSUME NEW n \in Conns, Stall(n) \/ Die(n)
        PROVE  LockInv'
    BY Zenon, <2>1, <2>2 DEF Stall, Die
  <2>3. UNCHANGED vars => LockInv'
    BY Zenon, <2>1 DEF vars
  <2> QED
    BY Zenon, <2>2, <2>3, BeginKeeps, MutexKeeps, ConnMuKeeps, OtherKeeps DEF Next, Run
<1> QED
  BY <1>1, <1>2, PTL DEF Spec

-----------------------------------------------------------------------------
ConnTypes ==
  /\ conn \in 0..MaxConn /\ nconn \in Conns
  /\ socket \in [Conns -> {"open", "stalled", "dead"}]
  /\ closed \in BOOLEAN
  /\ snap \in [Procs -> 0..MaxConn] /\ new \in [Procs -> 0..MaxConn]

LEMMA ConnTypesKept ==
  ASSUME ConnTypes, [Next]_vars
  PROVE  ConnTypes'
<1>1. MaxConn \in Nat
  BY Zenon, WorkerLocksAssumption
<1>2. ASSUME UNCHANGED connVars, new' = new,
             \/ UNCHANGED snap
             \/ \E p \in Procs : \/ snap' = [snap EXCEPT ![p] = conn]
                                 \/ snap' = [snap EXCEPT ![p] = 0]
      PROVE  ConnTypes'
  BY <1>1, <1>2 DEF ConnTypes, connVars
<1>3. ASSUME NEW p \in Procs, Begin(p) PROVE ConnTypes'
  BY Zenon, <1>2, <1>3 DEF Begin
<1>4. ASSUME NEW p \in Procs, Lock(p) \/ Unlock(p) \/ RLock(p) \/ RUnlock(p) \/ Announce(p)
                              \/ Drain(p) \/ WUnlock(p)
      PROVE  ConnTypes'
  BY Zenon, <1>2, <1>4 DEF Lock, Unlock, RLock, RUnlock, Announce, Drain, WUnlock
<1>5. ASSUME NEW p \in Procs, Branch(p) \/ DialFails(p) \/ WriteReturns(p)
      PROVE  ConnTypes'
  BY Zenon, <1>2, <1>5 DEF Branch, DialFails, WriteReturns
<1>6. ASSUME NEW p \in Procs, SetClosed(p) PROVE ConnTypes'
  BY Zenon, <1>6 DEF SetClosed, ConnTypes
<1>7. ASSUME NEW p \in Procs, DialSucceeds(p) PROVE ConnTypes'
  <2>1. nconn + 1 \in Conns /\ nconn + 1 \in 0..MaxConn
    BY <1>1, <1>7 DEF DialSucceeds, ConnTypes, Conns
  <2> QED
    BY Zenon, <1>7, <2>1 DEF DialSucceeds, ConnTypes
<1>8. ASSUME NEW p \in Procs, Publish(p) PROVE ConnTypes'
  BY <1>1, <1>8 DEF Publish, ConnTypes
<1>9. ASSUME NEW p \in Procs, CloseSocket(p) PROVE ConnTypes'
  <2>1. conn' \in 0..MaxConn /\ snap' \in [Procs -> 0..MaxConn]
    BY <1>1, <1>9 DEF CloseSocket, ConnTypes
  <2>2. socket' \in [Conns -> {"open", "stalled", "dead"}]
    BY Zenon, <1>9 DEF CloseSocket, ConnTypes
  <2> QED
    BY Zenon, <1>9, <2>1, <2>2 DEF CloseSocket, ConnTypes
<1>10. ASSUME NEW n \in Conns, Stall(n) \/ Die(n) PROVE ConnTypes'
  BY Zenon, <1>10 DEF Stall, Die, ConnTypes
<1>11. UNCHANGED vars => ConnTypes'
  BY Zenon, <1>2 DEF vars
<1>12. ASSUME NEW p \in Procs, Run(p) PROVE ConnTypes'
  BY <1>4, <1>5, <1>6, <1>7, <1>8, <1>9, <1>12, Zenon DEF Run
<1> QED
  BY <1>3, <1>10, <1>11, <1>12, Zenon DEF Next

(* The state has its types, and what a goroutine has left to do is made of *)
(* the steps that the methods of agent and Worker are made of.             *)
THEOREM LockTypesHold == Spec => []TypeOK
<1>1. Init => ConnTypes
  <2>1. 1 \in Conns /\ 1 \in 0..MaxConn /\ 0 \in 0..MaxConn
    BY WorkerLocksAssumption DEF Conns
  <2> QED
    BY ZenonT(30), <2>1 DEF Init, ConnTypes
<1>2. ConnTypes /\ [Next]_vars => ConnTypes'
  BY Zenon, ConnTypesKept
<1>3. LockInv /\ ConnTypes => TypeOK
  <2> SUFFICES ASSUME LockInv, ConnTypes PROVE TypeOK
    OBVIOUS
  <2>1. \A p \in Procs : \A i \in 1..Len(todo[p]) : todo[p][i][1] \in Kinds
    <3> SUFFICES ASSUME NEW p \in Procs, NEW i \in 1..Len(todo[p])
                 PROVE  todo[p][i][1] \in Kinds
      OBVIOUS
    <3>1. todo[p] \in Seq(Item)
      BY Zenon DEF LockInv
    <3>2. todo[p][i] \in Item
      BY Zenon, <3>1, ElementOfSeq
    <3> QED
      BY Zenon, <3>2 DEF Item
  <2> QED
    BY Zenon, <2>1 DEF LockInv, LockTypes, ConnTypes, TypeOK
<1> QED
  BY <1>1, <1>2, <1>3, LocksOrdered, PTL DEF Spec

(* What a goroutine that waits can hold, by what it waits at.              *)
LEMMA Waiting ==
  ASSUME LockInv, NEW p \in Procs
  PROVE  /\ At(p, "lock") => /\ Head(todo[p])[2] \in {"worker", "agent"}
                             /\ p \notin readers /\ writer # p /\ holder["agent"] # p
                             /\ Head(todo[p])[2] = "worker" => holder["worker"] # p
         /\ At(p, "rlock") \/ At(p, "announce") => p \notin readers /\ writer # p
         /\ At(p, "drain") => p \notin readers
<1>1. ASSUME NEW kind, At(p, kind)
      PROVE  Head(todo[p])[1] = kind /\ \E k : Rule(Head(todo[p]), Held(p), k)
  BY Zenon, <1>1, NextStep
<1>2. /\ "reading" \in Held(p) <=> p \in readers
      /\ "writing" \in Held(p) <=> writer = p
      /\ "agent" \in Held(p) <=> holder["agent"] = p
      /\ "worker" \in Held(p) <=> holder["worker"] = p
  BY HeldIs
<1>3. ASSUME At(p, "lock")
      PROVE  /\ Head(todo[p])[2] \in {"worker", "agent"}
             /\ p \notin readers /\ writer # p /\ holder["agent"] # p
             /\ Head(todo[p])[2] = "worker" => holder["worker"] # p
  <2>1. PICK k : Rule(Head(todo[p]), Held(p), k)
    BY Zenon, <1>1, <1>3
  <2>2. Head(todo[p])[1] = "lock"
    BY Zenon, <1>1, <1>3
  <2>3. \/ Head(todo[p]) = <<"lock", "worker">> /\ Held(p) = {}
        \/ Head(todo[p]) = <<"lock", "agent">> /\ Held(p) \subseteq {"worker"}
    BY Zenon, <2>1, <2>2 DEF Rule, Tests
  <2> QED
    BY <1>2, <2>3
<1>4. ASSUME NEW kind \in {"rlock", "announce", "drain"}, At(p, kind)
      PROVE  p \notin readers /\ (kind # "drain" => writer # p)
  <2>1. PICK k : Rule(Head(todo[p]), Held(p), k)
    BY Zenon, <1>1, <1>4
  <2>2. Head(todo[p])[1] = kind
    BY Zenon, <1>1, <1>4
  <2>3. "reading" \notin Held(p) /\ (kind # "drain" => "writing" \notin Held(p))
    BY Zenon, <1>4, <2>1, <2>2 DEF Rule, Tests
  <2> QED
    BY Zenon, <1>2, <2>3
<1> QED
  BY Zenon, <1>3, <1>4

(* At most one goroutine writes to the agent's bufio.Writer: whatever      *)
(* reaches write holds the agent's Mutex, reconnect and Ready included.    *)
THEOREM OneWriterAtATime == Spec => []WritesSerialized
<1>1. LockInv => WritesSerialized
  <2> SUFFICES ASSUME LockInv, NEW p \in Procs, At(p, "write")
               PROVE  holder["agent"] = p
    BY Zenon DEF WritesSerialized
  <2>1. PICK k : Rule(Head(todo[p]), Held(p), k) /\ Head(todo[p])[1] = "write"
    BY Zenon, NextStep
  <2>2. "agent" \in Held(p)
    BY <2>1 DEF Rule, Tests
  <2> QED
    BY <2>2, HeldIs
<1> QED
  BY <1>1, LocksOrdered, PTL

(* No goroutines wait for each other in a circle, however many there are   *)
(* and whatever they call: a reader of connMu waits for nobody, its writer *)
(* only for readers, who holds the agent's Mutex only for connMu, and who  *)
(* holds worker.Mutex for the agent's Mutex or connMu (the lock order that *)
(* agent.go states in its comments).                                       *)
THEOREM LocksNeverCircular == Spec => []NoCircularWait
<1>1. LockInv => NoCircularWait
  <2> SUFFICES ASSUME LockInv, NEW S \in (SUBSET Procs) \ {{}},
                      \A p \in S : WaitsFor(p) \cap S # {}
               PROVE  FALSE
    BY Zenon DEF NoCircularWait
  <2>1. \A p \in S : p \in Procs
    OBVIOUS
  <2>2. \A p \in S : p \notin readers
    <3> SUFFICES ASSUME NEW p \in S, p \in readers PROVE FALSE
      OBVIOUS
    <3>1. ~At(p, "lock") /\ ~At(p, "rlock") /\ ~At(p, "announce") /\ ~At(p, "drain")
      BY Zenon, <2>1, Waiting
    <3> QED
      BY Zenon, <3>1 DEF WaitsFor
  <2>3. \A p \in S : writer # p
    <3> SUFFICES ASSUME NEW p \in S, writer = p PROVE FALSE
      OBVIOUS
    <3>1. ~At(p, "lock") /\ ~At(p, "rlock") /\ ~At(p, "announce")
      BY Zenon, <2>1, Waiting
    <3> QED
      BY Zenon, <2>2, <3>1 DEF WaitsFor
  <2>4. \A p \in S : holder["agent"] # p
    <3> SUFFICES ASSUME NEW p \in S, holder["agent"] = p PROVE FALSE
      OBVIOUS
    <3>1. ~At(p, "lock")
      BY Zenon, <2>1, Waiting
    <3> QED
      BY Zenon, <2>2, <2>3, <3>1 DEF WaitsFor
  <2>5. \A p \in S : At(p, "lock") /\ Head(todo[p])[2] = "worker"
    <3> SUFFICES ASSUME NEW p \in S PROVE At(p, "lock") /\ Head(todo[p])[2] = "worker"
      OBVIOUS
    <3>1. At(p, "lock")
      BY Zenon, <2>2, <2>3 DEF WaitsFor
    <3>2. Head(todo[p])[2] \in {"worker", "agent"}
      BY Zenon, <2>1, <3>1, Waiting
    <3> QED
      BY Zenon, <2>4, <3>1, <3>2 DEF WaitsFor
  <2>6. PICK p : p \in S
    OBVIOUS
  <2>7. PICK q \in S : holder["worker"] = q
    <3>1. WaitsFor(p) = {holder["worker"]}
      BY Zenon, <2>5, <2>6 DEF WaitsFor
    <3> QED
      BY Zenon, <2>6, <3>1
  <2> QED
    BY Zenon, <2>1, <2>5, <2>7, Waiting
<1> QED
  BY <1>1, LocksOrdered, PTL
=============================================================================
