--------------------------- MODULE VmLayoutProofs ---------------------------
(***************************************************************************)
(* Theorems about VmLayout for every host, every number of CPUs and every  *)
(* size.                                                                   *)
(***************************************************************************)
EXTENDS VmLayout, FiniteSetTheorems, SequenceTheorems,
        WellFoundedInduction, TLAPS

(***************************************************************************)
(* Induction and recursion over the natural numbers, with the property as a *)
(* set and the step as a function.                                         *)
(***************************************************************************)
LEMMA SetInduction ==
    ASSUME NEW S, 0 \in S, \A n \in Nat : n \in S => n + 1 \in S
    PROVE  Nat \subseteq S
  <1> DEFINE T == Nat \ S
  <1>1. SUFFICES ASSUME T # {} PROVE FALSE
    OBVIOUS
  <1>2. PICK x \in T : \A y \in T : ~ (<<y, x>> \in OpToRel(<, Nat))
    BY <1>1, NatLessThanWellFounded, WFMin
  <1>3. \A y \in T : ~(y < x)
    BY <1>2 DEF OpToRel
  <1>4. x # 0 /\ x - 1 \in Nat /\ x - 1 < x
    OBVIOUS
  <1>5. x - 1 \in S
    BY <1>3, <1>4
  <1> QED  BY <1>4, <1>5

LEMMA IntervalInduction ==
    ASSUME NEW S, NEW a \in Int, NEW b \in Int, a \in S,
           \A n \in a..b : n \in S /\ n < b => n + 1 \in S
    PROVE  a..b \subseteq S
  <1> DEFINE T == {k \in Nat : a + k <= b => a + k \in S}
  <1>1. 0 \in T
    OBVIOUS
  <1>2. \A k \in Nat : k \in T => k + 1 \in T
    OBVIOUS
  <1>3. Nat \subseteq T
    <2> HIDE DEF T
    <2> QED  BY <1>1, <1>2, SetInduction
  <1>4. \A n \in a..b : n - a \in Nat /\ a + (n - a) = n
    OBVIOUS
  <1> QED  BY <1>3, <1>4

\* f is the recursive function over a..b with this start and these steps.
Unfolds(f, D, a, b, start, step) ==
    /\ f \in [a..b -> D]
    /\ \A n \in a..b : f[n] = IF n = a THEN start ELSE step[n][f[n - 1]]

\* A recursive function exists.
LEMMA Recursion ==
    ASSUME NEW D, NEW a \in Int, NEW b \in Int, NEW start \in D,
           NEW step \in [(a + 1)..b -> [D -> D]]
    PROVE  \E f : Unfolds(f, D, a, b, start, step)
  <1> DEFINE Upto(f, k) ==
                 /\ f \in [a..(a + k) -> D]
                 /\ \A n \in a..(a + k) : f[n] = IF n = a THEN start ELSE step[n][f[n - 1]]
             S == {k \in Nat : a + k <= b => \E f : Upto(f, k)}
  <1>1. 0 \in S
    <2> DEFINE f == [n \in a..(a + 0) |-> start]
    <2>1. \A n \in a..(a + 0) : n = a
      OBVIOUS
    <2>2. f \in [a..(a + 0) -> D]
      OBVIOUS
    <2>3. \A n \in a..(a + 0) : f[n] = IF n = a THEN start ELSE step[n][f[n - 1]]
      BY <2>1
    <2>4. Upto(f, 0)
      BY <2>2, <2>3
    <2> QED  BY <2>4
  <1>2. ASSUME NEW k \in Nat, k \in S, a + (k + 1) <= b PROVE \E f : Upto(f, k + 1)
    <2>1. PICK f : Upto(f, k)
      BY <1>2
    <2> DEFINE last == a + (k + 1)
               g == [n \in a..last |-> IF n = last THEN step[last][f[last - 1]] ELSE f[n]]
    <2>2. last \in (a + 1)..b /\ last - 1 \in a..(a + k) /\ last # a
      BY <1>2
    <2>3. f[last - 1] \in D
      BY <2>1, <2>2
    <2>4. step[last][f[last - 1]] \in D
      BY <2>2, <2>3
    <2>5. \A n \in a..last : n # last => n \in a..(a + k) /\ f[n] \in D
      BY <2>1
    <2>6. g \in [a..last -> D]
      BY <2>4, <2>5
    <2>7. ASSUME NEW n \in a..last
          PROVE  g[n] = IF n = a THEN start ELSE step[n][g[n - 1]]
      <3>1. CASE n = last
        <4>1. g[n - 1] = f[last - 1]
          BY <2>2, <3>1
        <4> QED  BY <2>2, <3>1, <4>1
      <3>2. CASE n # last
        <4>1. n \in a..(a + k) /\ g[n] = f[n]
          BY <3>2
        <4>2. n # a => g[n - 1] = f[n - 1]
          BY <4>1
        <4> QED  BY <2>1, <4>1, <4>2
      <3> QED  BY <3>1, <3>2
    <2>8. Upto(g, k + 1)
      BY <2>6, <2>7
    <2> QED  BY <2>8
  <1>3. Nat \subseteq S
    <2>1. \A k \in Nat : k \in S => k + 1 \in S
      <3> HIDE DEF Upto
      <3> QED  BY <1>2
    <2> HIDE DEF S
    <2> QED  BY <1>1, <2>1, SetInduction
  <1>4. CASE a <= b
    <2>1. b - a \in Nat /\ a + (b - a) = b
      BY <1>4
    <2>2. b - a \in S
      BY <1>3, <2>1
    <2>3. PICK f : Upto(f, b - a)
      BY <2>1, <2>2
    <2>4. f \in [a..b -> D]
      BY <2>1, <2>3
    <2>5. \A n \in a..b : f[n] = IF n = a THEN start ELSE step[n][f[n - 1]]
      BY <2>1, <2>3
    <2> QED  BY <2>4, <2>5 DEF Unfolds
  <1>5. CASE ~(a <= b)
    <2>1. a..b = {}
      BY <1>5
    <2> DEFINE f == [n \in a..b |-> start]
    <2>2. f \in [a..b -> D]
      OBVIOUS
    <2> QED  BY <2>1, <2>2 DEF Unfolds
  <1> QED  BY <1>4, <1>5

(***************************************************************************)
(* The NUMA nodes of a list of GPUs.                                       *)
(***************************************************************************)
LEMMA KeysStepByStep ==
    ASSUME NEW gpus \in Seq(Int)
    PROVE  \E keys \in [0..Len(gpus) -> Seq(Int)] :
               /\ keys[0] = <<>>
               /\ \A n \in 1..Len(gpus) :
                      keys[n] = IF Contains(keys[n - 1], gpus[n]) THEN keys[n - 1]
                                ELSE Append(keys[n - 1], gpus[n])
               /\ Nodes(gpus) = IF gpus = <<>> THEN <<0>> ELSE keys[Len(gpus)]
  <1> DEFINE More(s, n) == IF Contains(s, gpus[n]) THEN s ELSE Append(s, gpus[n])
             step == [n \in (0 + 1)..Len(gpus) |-> [s \in Seq(Int) |-> More(s, n)]]
             IsKeys(f) == f = [n \in 0..Len(gpus) |->
                                  IF n = 0 THEN <<>>
                                  ELSE IF Contains(f[n - 1], gpus[n]) THEN f[n - 1]
                                  ELSE Append(f[n - 1], gpus[n])]
             keys == CHOOSE f : IsKeys(f)
  <1>1. Len(gpus) \in Nat /\ \A n \in 1..Len(gpus) : gpus[n] \in Int
    OBVIOUS
  <1>2. \A s \in Seq(Int), n \in 1..Len(gpus) : More(s, n) \in Seq(Int)
    BY <1>1
  <1>3. PICK f \in [0..Len(gpus) -> Seq(Int)] :
            \A n \in 0..Len(gpus) : f[n] = IF n = 0 THEN <<>> ELSE step[n][f[n - 1]]
    <2>1. step \in [(0 + 1)..Len(gpus) -> [Seq(Int) -> Seq(Int)]]
      BY <1>2
    <2>2. <<>> \in Seq(Int) /\ 0 \in Int /\ Len(gpus) \in Int
      BY <1>1
    <2> HIDE DEF step
    <2>3. \E f : Unfolds(f, Seq(Int), 0, Len(gpus), <<>>, step)
      BY <2>1, <2>2, Recursion
    <2> QED  BY <2>3 DEF Unfolds
  <1>4. IsKeys(f)
    <2>1. \A n \in 0..Len(gpus) : n # 0 => n - 1 \in 0..Len(gpus) /\ n \in (0 + 1)..Len(gpus)
      BY <1>1
    <2>2. \A n \in 0..Len(gpus) : n # 0 => f[n - 1] \in Seq(Int)
      BY <1>3, <2>1
    <2>3. \A n \in 0..Len(gpus) : n # 0 => step[n][f[n - 1]] = More(f[n - 1], n)
      BY <2>1, <2>2
    <2> QED  BY <1>3, <2>3
  <1>5. IsKeys(keys)
    BY <1>4
  <1>6. /\ keys[0] = <<>>
        /\ \A n \in 1..Len(gpus) : keys[n] = More(keys[n - 1], n)
    <2> HIDE DEF keys
    <2>1. \A n \in 1..Len(gpus) : n \in 0..Len(gpus) /\ n # 0
      BY <1>1
    <2>2. 0 \in 0..Len(gpus)
      BY <1>1
    <2> QED  BY <1>5, <2>1, <2>2
  <1>7. Nodes(gpus) = IF gpus = <<>> THEN <<0>> ELSE keys[Len(gpus)]
    BY DEF Nodes
  <1>8. \A n \in 0..Len(gpus) : keys[n] \in Seq(Int)
    <2> HIDE DEF keys
    <2> DEFINE S == {n \in 0..Len(gpus) : keys[n] \in Seq(Int)}
    <2>1. 0 \in S
      <3>1. 0 \in 0..Len(gpus) /\ <<>> \in Seq(Int)
        BY <1>1
      <3> QED  BY <1>6, <3>1
    <2>2. \A n \in 0..Len(gpus) : n \in S /\ n < Len(gpus) => n + 1 \in S
      <3> SUFFICES ASSUME NEW n \in 0..Len(gpus), n \in S, n < Len(gpus)
                   PROVE  n + 1 \in S
        OBVIOUS
      <3> HIDE DEF More
      <3>1. n + 1 \in 1..Len(gpus) /\ (n + 1) - 1 = n
        BY <1>1
      <3>2. keys[n + 1] = More(keys[n], n + 1)
        BY <1>6, <3>1
      <3>3. keys[n + 1] \in Seq(Int)
        BY <1>2, <3>1, <3>2
      <3> QED  BY <3>1, <3>3
    <2>3. 0..Len(gpus) \subseteq S
      <3> DEFINE b == Len(gpus)
      <3>1. 0 \in Int /\ b \in Int
        BY <1>1
      <3>2. \A n \in 0..b : n \in S /\ n < b => n + 1 \in S
        BY <2>2
      <3> HIDE DEF S, b
      <3>3. 0..b \subseteq S
        BY <2>1, <3>1, <3>2, IntervalInduction
      <3> QED  BY <3>3 DEF b
    <2> QED  BY <2>3
  <1>9. keys \in [0..Len(gpus) -> Seq(Int)]
    BY <1>5, <1>8
  <1> HIDE DEF keys
  <1> QED  BY <1>6, <1>7, <1>9

Distinct(s) == \A i, j \in 1..Len(s) : s[i] = s[j] => i = j

LEMMA OneMoreGpu ==
    ASSUME NEW s \in Seq(Int), NEW g \in Int, NEW t,
           t = IF Contains(s, g) THEN s ELSE Append(s, g), Distinct(s)
    PROVE  Distinct(t) /\ Contains(t, g) /\ \A x : Contains(s, x) => Contains(t, x)
  <1>1. CASE Contains(s, g)
    BY <1>1
  <1>2. CASE ~Contains(s, g)
    <2>1. /\ Len(s) \in Nat /\ Len(t) = Len(s) + 1 /\ t[Len(s) + 1] = g
          /\ \A i \in 1..Len(s) : t[i] = s[i] /\ s[i] # g
      BY <1>2 DEF Contains
    <2>2. Distinct(t)
      BY <2>1 DEF Distinct
    <2>3. Contains(t, g)
      BY <2>1 DEF Contains
    <2>4. \A x : Contains(s, x) => Contains(t, x)
      BY <2>1 DEF Contains
    <2> QED  BY <2>2, <2>3, <2>4
  <1> QED  BY <1>1, <1>2

\* There is a node, each is there once, and every GPU has one.
LEMMA NodesOnce ==
    ASSUME NEW gpus \in Seq(Int)
    PROVE  /\ Nodes(gpus) \in Seq(Int)
           /\ Len(Nodes(gpus)) \in Nat \ {0}
           /\ Distinct(Nodes(gpus))
           /\ \A p \in 1..Len(gpus) : Contains(Nodes(gpus), gpus[p])
  <1>1. PICK keys \in [0..Len(gpus) -> Seq(Int)] :
            /\ keys[0] = <<>>
            /\ \A n \in 1..Len(gpus) :
                   keys[n] = IF Contains(keys[n - 1], gpus[n]) THEN keys[n - 1]
                             ELSE Append(keys[n - 1], gpus[n])
            /\ Nodes(gpus) = IF gpus = <<>> THEN <<0>> ELSE keys[Len(gpus)]
    BY KeysStepByStep
  <1> DEFINE Right(n) == Distinct(keys[n]) /\ \A p \in 1..n : Contains(keys[n], gpus[p])
             S == {n \in 0..Len(gpus) : Right(n)}
  <1>2. Len(gpus) \in Nat
    OBVIOUS
  <1>3. 0 \in S
    <2>1. Distinct(<<>>)
      BY DEF Distinct
    <2> QED  BY <1>1, <1>2, <2>1
  <1>4. ASSUME NEW n \in 0..Len(gpus), n \in S, n < Len(gpus) PROVE n + 1 \in S
    <2>1. n + 1 \in 1..Len(gpus) /\ (n + 1) - 1 = n /\ gpus[n + 1] \in Int
      BY <1>2, <1>4
    <2>2. keys[n] \in Seq(Int)
      BY <1>1
    <2>3. keys[n + 1] = IF Contains(keys[n], gpus[n + 1]) THEN keys[n]
                        ELSE Append(keys[n], gpus[n + 1])
      BY <1>1, <2>1
    <2>4. Right(n)
      BY <1>4
    <2>5. /\ Distinct(keys[n + 1]) /\ Contains(keys[n + 1], gpus[n + 1])
          /\ \A x : Contains(keys[n], x) => Contains(keys[n + 1], x)
      <3> DEFINE s == keys[n]
                 t == keys[n + 1]
                 g == gpus[n + 1]
      <3>1. s \in Seq(Int) /\ g \in Int /\ Distinct(s)
            /\ t = IF Contains(s, g) THEN s ELSE Append(s, g)
        BY <2>1, <2>2, <2>3, <2>4
      <3> HIDE DEF s, t, g
      <3>2. Distinct(t) /\ Contains(t, g) /\ \A x : Contains(s, x) => Contains(t, x)
        BY <3>1, OneMoreGpu
      <3> QED  BY <3>2 DEF s, t, g
    <2>6. \A p \in 1..(n + 1) : p \in 1..n \/ p = n + 1
      OBVIOUS
    <2> QED  BY <2>1, <2>4, <2>5, <2>6
  <1>5. Right(Len(gpus))
    <2> HIDE DEF Right
    <2>1. 0..Len(gpus) \subseteq S
      <3>1. \A n \in 0..Len(gpus) : n \in S /\ n < Len(gpus) => n + 1 \in S
        BY <1>4
      <3>2. 0 \in Int /\ Len(gpus) \in Int
        BY <1>2
      <3> HIDE DEF S
      <3> QED  BY <1>3, <3>1, <3>2, IntervalInduction
    <2> QED  BY <1>2, <2>1
  <1>6. CASE gpus = <<>>
    <2>1. Nodes(gpus) = <<0>> /\ Len(gpus) = 0
      BY <1>1, <1>6
    <2> QED  BY <2>1 DEF Distinct
  <1>7. CASE gpus # <<>>
    <2>1. Nodes(gpus) = keys[Len(gpus)] /\ Len(gpus) \in 0..Len(gpus) /\ 1 \in 1..Len(gpus)
      BY <1>1, <1>2, <1>7
    <2>2. Nodes(gpus) \in Seq(Int) /\ Contains(Nodes(gpus), gpus[1])
      BY <1>1, <1>5, <2>1
    <2>3. Len(Nodes(gpus)) \in Nat \ {0}
      BY <2>2 DEF Contains
    <2> QED  BY <1>5, <2>1, <2>2, <2>3
  <1> QED  BY <1>6, <1>7

(***************************************************************************)
(* Arithmetic.                                                             *)
(***************************************************************************)
LEMMA Division ==
    ASSUME NEW a \in Nat, NEW b \in Nat \ {0}
    PROVE  a = b * (a \div b) + (a % b) /\ a % b \in 0..(b - 1) /\ a \div b \in Nat
  OBVIOUS

LEMMA WholeQuotient ==
    ASSUME NEW q \in Nat, NEW b \in Nat \ {0}
    PROVE  (b * q) \div b = q /\ (b * q) % b = 0
  OBVIOUS

\* round_up returns a multiple, the least one that is not less.
LEMMA Rounding ==
    ASSUME NEW value \in Nat, NEW multiple \in Nat \ {0}
    PROVE  /\ RoundUp(value, multiple) \in Nat
           /\ RoundUp(value, multiple) = multiple * (RoundUp(value, multiple) \div multiple)
           /\ RoundUp(value, multiple) \div multiple \in Nat
           /\ RoundUp(value, multiple) >= value
           /\ RoundUp(value, multiple) - value < multiple
           /\ value % multiple = 0 => RoundUp(value, multiple) = value
  <1> DEFINE q == value \div multiple
             r == value % multiple
  <1>1. value = multiple * q + r /\ r \in 0..(multiple - 1) /\ q \in Nat
    BY Division
  <1>2. CASE multiple <= 1 \/ r = 0
    <2>1. RoundUp(value, multiple) = value
      BY <1>2 DEF RoundUp
    <2>2. r = 0
      BY <1>1, <1>2
    <2> QED  BY <1>1, <2>1, <2>2
  <1>3. CASE ~(multiple <= 1 \/ r = 0)
    <2>1. RoundUp(value, multiple) = value + (multiple - r)
      BY <1>3 DEF RoundUp
    <2> HIDE DEF q, r
    <2>2. RoundUp(value, multiple) = multiple * (q + 1) /\ q + 1 \in Nat
      BY <1>1, <2>1
    <2>3. RoundUp(value, multiple) \div multiple = q + 1
      BY <2>2, WholeQuotient
    <2>4. value % multiple # 0
      BY <1>3 DEF r
    <2> QED  BY <1>1, <1>3, <2>1, <2>2, <2>3, <2>4
  <1> QED  BY <1>2, <1>3

(***************************************************************************)
(* Buses.                                                                  *)
(***************************************************************************)
LEMMA GpusAreCounted ==
    ASSUME NEW gpus \in Seq(Int), NEW n PROVE GpusOn(gpus, n) \in Nat
  <1>1. DOMAIN gpus = 1..Len(gpus) /\ Len(gpus) \in Nat
    OBVIOUS
  <1>2. IsFiniteSet(1..Len(gpus))
    BY <1>1, FS_Interval
  <1>3. {i \in DOMAIN gpus : gpus[i] = n} \subseteq 1..Len(gpus)
    BY <1>1
  <1> QED  BY <1>2, <1>3, FS_Subset, FS_CardinalityType DEF GpusOn

LEMMA BusesStepByStep ==
    ASSUME NEW gpus \in Seq(Int)
    PROVE  /\ BusNumbers(gpus)[1] = FirstBus
           /\ \A i \in 2..Len(Nodes(gpus)) :
                  BusNumbers(gpus)[i] =
                      BusNumbers(gpus)[i - 1] + GpusOn(gpus, Nodes(gpus)[i - 1]) + 1
  <1> DEFINE k == Len(Nodes(gpus))
             Next1(b, i) == b + GpusOn(gpus, Nodes(gpus)[i - 1]) + 1
             step == [i \in (1 + 1)..k |-> [b \in Nat |-> Next1(b, i)]]
             IsBus(f) == f = [i \in 1..k |-> IF i = 1 THEN FirstBus ELSE Next1(f[i - 1], i)]
             bus == CHOOSE f : IsBus(f)
  <1>1. k \in Nat \ {0}
    BY NodesOnce
  <1>2. \A b \in Nat, i \in (1 + 1)..k : Next1(b, i) \in Nat
    BY GpusAreCounted
  <1>3. PICK f : Unfolds(f, Nat, 1, k, FirstBus, step)
    <2>1. step \in [(1 + 1)..k -> [Nat -> Nat]]
      BY <1>2
    <2>2. FirstBus \in Nat /\ 1 \in Int /\ k \in Int
      BY <1>1 DEF FirstBus
    <2> HIDE DEF step, k
    <2> QED  BY <2>1, <2>2, Recursion
  <1>4. IsBus(f)
    <2> HIDE DEF k
    <2>1. \A i \in 1..k : i # 1 => i - 1 \in 1..k /\ i \in (1 + 1)..k
      BY <1>1
    <2>2. \A i \in 1..k : i # 1 => f[i - 1] \in Nat
      BY <1>3, <2>1 DEF Unfolds
    <2>3. \A i \in 1..k : i # 1 => step[i][f[i - 1]] = Next1(f[i - 1], i)
      BY <2>1, <2>2
    <2> HIDE DEF Next1, step
    <2> QED  BY <1>3, <2>3 DEF Unfolds
  <1>5. IsBus(bus)
    BY <1>4
  <1>6. BusNumbers(gpus) = bus
    BY DEF BusNumbers
  <1> HIDE DEF bus, k
  <1>7. bus[1] = FirstBus /\ \A i \in 2..k : bus[i] = Next1(bus[i - 1], i)
    BY <1>1, <1>5
  <1> QED  BY <1>6, <1>7 DEF k

\* The numbers start at FirstBus, and each bridge's leaves room for the root
\* ports behind those before it.
LEMMA BusesGrow ==
    ASSUME NEW gpus \in Seq(Int)
    PROVE  /\ BusNumbers(gpus)[1] = FirstBus
           /\ \A i \in 1..Len(Nodes(gpus)) :
                  BusNumbers(gpus)[i] \in Nat /\ BusNumbers(gpus)[i] >= FirstBus
           /\ \A j \in 1..Len(Nodes(gpus)) : \A i \in 1..(j - 1) :
                  BusNumbers(gpus)[i] + GpusOn(gpus, Nodes(gpus)[i]) < BusNumbers(gpus)[j]
  <1> DEFINE k == Len(Nodes(gpus))
             bus == BusNumbers(gpus)
             count(i) == GpusOn(gpus, Nodes(gpus)[i])
             Right(j) == /\ \A i \in 1..j : bus[i] \in Nat /\ bus[i] >= FirstBus
                         /\ \A i \in 1..(j - 1) : bus[i] + count(i) < bus[j]
             S == {j \in 1..k : \A h \in 1..j : Right(h)}
  <1>1. k \in Nat \ {0}
    BY NodesOnce
  <1>2. \A i : count(i) \in Nat
    BY GpusAreCounted
  <1>3. bus[1] = FirstBus /\ \A i \in 2..k : bus[i] = bus[i - 1] + count(i - 1) + 1
    BY BusesStepByStep
  <1> HIDE DEF k, bus, count
  <1>4. 1 \in S
    BY <1>1, <1>3 DEF FirstBus
  <1>5. ASSUME NEW j \in 1..k, j \in S, j < k PROVE j + 1 \in S
    <2>1. Right(j)
      BY <1>5
    <2>2. j + 1 \in 2..k /\ (j + 1) - 1 = j
      BY <1>1, <1>5
    <2>3. bus[j + 1] = bus[j] + count(j) + 1
      BY <1>3, <2>2
    <2>4. bus[j] \in Nat /\ bus[j] >= FirstBus
      BY <2>1
    <2>5. bus[j + 1] \in Nat /\ bus[j + 1] >= FirstBus /\ bus[j] + count(j) < bus[j + 1]
          /\ bus[j] < bus[j + 1]
      BY <1>2, <2>3, <2>4 DEF FirstBus
    <2>6. ASSUME NEW i \in 1..j PROVE bus[i] + count(i) < bus[j + 1]
      <3>1. CASE i = j
        BY <2>5, <3>1
      <3>2. CASE i # j
        <4>1. bus[i] + count(i) < bus[j] /\ bus[i] \in Nat /\ count(i) \in Nat
          BY <1>2, <2>1, <3>2
        <4> QED  BY <2>4, <2>5, <4>1
      <3> QED  BY <3>1, <3>2
    <2>7. ASSUME NEW i \in 1..(j + 1) PROVE bus[i] \in Nat /\ bus[i] >= FirstBus
      <3>1. i \in 1..j \/ i = j + 1
        OBVIOUS
      <3> QED  BY <2>1, <2>5, <3>1
    <2>8. Right(j + 1)
      BY <2>6, <2>7
    <2>9. \A h \in 1..(j + 1) : h \in 1..j \/ h = j + 1
      OBVIOUS
    <2> HIDE DEF Right
    <2> QED  BY <1>5, <2>2, <2>8, <2>9
  <1>6. \A h \in 1..k : Right(h)
    <2> HIDE DEF Right
    <2>1. 1..k \subseteq S
      <3>1. \A n \in 1..k : n \in S /\ n < k => n + 1 \in S
        BY <1>5
      <3>2. 1 \in Int /\ k \in Int
        BY <1>1
      <3> HIDE DEF S
      <3> QED  BY <1>4, <3>1, <3>2, IntervalInduction
    <2> QED  BY <1>1, <2>1
  <1>7. \A h \in 1..k : bus[h] \in Nat /\ bus[h] >= FirstBus
    BY <1>6
  <1>8. \A j \in 1..k : \A i \in 1..(j - 1) : bus[i] + count(i) < bus[j]
    BY <1>6
  <1> QED  BY <1>3, <1>7, <1>8 DEF k, bus, count

(***************************************************************************)
(* Root ports.                                                             *)
(***************************************************************************)
Behind(m) == IF m.attached.gpus = <<>> THEN 0 ELSE m.attached.bridges

\* The GPUs' ports come first, each on its node's bridge or on pcie.0; the
\* switches' follow on pcie.0.
LEMMA PortsInOrder ==
    ASSUME NEW m, m.attached.gpus \in Seq(Int), m.attached.bridges \in Nat,
           m.hugepages \in BOOLEAN
    PROVE  /\ DOMAIN RootPorts(m) = 1..(Len(m.attached.gpus) + Behind(m))
           /\ \A p \in 1..Len(m.attached.gpus) :
                  RootPorts(m)[p] = IF m.hugepages THEN PcieNode(m.attached.gpus[p])
                                    ELSE PcieRoot
           /\ \A p \in (Len(m.attached.gpus) + 1)..(Len(m.attached.gpus) + Behind(m)) :
                  RootPorts(m)[p] = PcieRoot
  <1> DEFINE gpus == m.attached.gpus
             Bus == {PcieRoot} \cup {PcieNode(n) : n \in Int}
             first == [i \in DOMAIN gpus |-> IF m.hugepages THEN PcieNode(gpus[i]) ELSE PcieRoot]
             then == IF gpus = <<>> THEN <<>> ELSE [i \in 1..m.attached.bridges |-> PcieRoot]
  <1>1. DOMAIN gpus = 1..Len(gpus) /\ Len(gpus) \in Nat /\ \A i \in 1..Len(gpus) : gpus[i] \in Int
    OBVIOUS
  <1>2. PcieRoot \in Bus /\ \A n \in Int : PcieNode(n) \in Bus
    OBVIOUS
  <1>3. first \in Seq(Bus) /\ Len(first) = Len(gpus)
    <2> HIDE DEF Bus
    <2>1. first = [i \in 1..Len(gpus) |-> IF m.hugepages THEN PcieNode(gpus[i]) ELSE PcieRoot]
      BY <1>1
    <2>2. \A i \in 1..Len(gpus) : first[i] \in Bus
      BY <1>1, <1>2, <2>1
    <2> DEFINE n == Len(gpus)
    <2>3. n \in Nat /\ first \in [1..n -> Bus]
      BY <1>1, <2>1, <2>2
    <2> HIDE DEF first, n
    <2>4. first \in Seq(Bus) /\ Len(first) = n
      BY <2>3
    <2> QED  BY <2>4 DEF n
  <1>4. /\ then \in Seq(Bus) /\ Len(then) = Behind(m)
        /\ \A i \in 1..Len(then) : then[i] = PcieRoot
    <2>1. CASE gpus = <<>>
      BY <2>1 DEF Behind
    <2>2. CASE gpus # <<>>
      <3> HIDE DEF Bus
      <3>1. Behind(m) = m.attached.bridges
        BY <2>2 DEF Behind
      <3>2. then = [i \in 1..Behind(m) |-> PcieRoot] /\ Behind(m) \in Nat
        BY <2>2, <3>1
      <3> QED  BY <1>2, <3>2
    <2> QED  BY <2>1, <2>2
  <1>5. RootPorts(m) = first \o then
    BY DEF RootPorts
  <1>6. \A p \in 1..Len(gpus) :
            first[p] = IF m.hugepages THEN PcieNode(gpus[p]) ELSE PcieRoot
    BY <1>1
  <1> HIDE DEF first, then, Bus
  <1>7. /\ DOMAIN (first \o then) = 1..(Len(first) + Len(then))
        /\ \A p \in 1..Len(first) : (first \o then)[p] = first[p]
        /\ \A p \in (Len(first) + 1)..(Len(first) + Len(then)) :
               (first \o then)[p] = then[p - Len(first)]
    <2>1. /\ first \o then \in Seq(Bus)
          /\ Len(first \o then) = Len(first) + Len(then)
          /\ \A i \in 1..(Len(first) + Len(then)) :
                 (first \o then)[i] = IF i <= Len(first) THEN first[i]
                                     ELSE then[i - Len(first)]
      BY <1>3, <1>4, ConcatProperties
    <2>2. Len(first) \in Nat /\ Len(then) \in Nat
      BY <1>3, <1>4
    <2>3. DOMAIN (first \o then) = 1..Len(first \o then)
      BY <2>1
    <2> QED  BY <2>1, <2>2, <2>3
  <1>8. \A p \in (Len(gpus) + 1)..(Len(gpus) + Behind(m)) :
            p - Len(first) \in 1..Len(then) /\ p \in (Len(first) + 1)..(Len(first) + Len(then))
    BY <1>1, <1>3, <1>4
  <1> QED  BY <1>3, <1>4, <1>5, <1>6, <1>7, <1>8

(***************************************************************************)
(* The inductive invariant: the host and the manifest are well formed, and *)
(* the machine is what run_instance makes of the manifest.                 *)
(***************************************************************************)
Manifest == [made : {TRUE}, vcpu : Nat \ {0}, memory : Nat, diskSize : Nat,
             attached : [gpus : Seq(Int), bridges : 0..MaxSwitches],
             hugepages : BOOLEAN]

LInv ==
    /\ args \in [vcpus : VcpuCount, memory : MemorySize, disk : DiskSize,
                 gpu : {"none", "first", "all"}, hugepages : BOOLEAN]
    /\ host \in [gpus : Seq(Int), bridges : 0..MaxSwitches]
    /\ args.gpu = "first" => host.gpus # <<>>
    /\ manifest \in Manifest \cup {Nothing}
    /\ Started => manifest # Nothing /\ machine = Qemu(manifest)

LEMMA InitLInv == Init => LInv
  BY HostAssumption DEF Init, LInv, Started

LEMMA SizesAreNumbers ==
    ASSUME NEW size \in MemorySize \cup DiskSize PROVE Megabytes(size) \in Nat
  <1>1. size[1] \in Nat
    BY SizeAssumption
  <1> QED  BY <1>1 DEF Megabytes

LEMMA NewLInv == LInv /\ New => LInv'
  <1> SUFFICES ASSUME LInv, New PROVE LInv'
    OBVIOUS
  <1>1. /\ args.vcpus \in Nat \ {0} /\ args.memory \in MemorySize /\ args.disk \in DiskSize
        /\ args.gpu \in {"none", "first", "all"} /\ args.hugepages \in BOOLEAN
    BY VcpuAssumption DEF LInv
  <1>2. Megabytes(args.memory) \in Nat /\ Megabytes(args.disk) \div 1024 \in Nat
    <2>1. Megabytes(args.memory) \in Nat /\ Megabytes(args.disk) \in Nat
      BY <1>1, SizesAreNumbers
    <2> QED  BY <2>1, Division
  <1>3. Attached(args.gpu) \in [gpus : Seq(Int), bridges : 0..MaxSwitches]
    <2>1. CASE args.gpu = "none"
      <3>1. <<>> \in Seq(Int) /\ 0 \in 0..MaxSwitches
        BY HostAssumption
      <3> QED  BY <2>1, <3>1 DEF Attached
    <2>2. CASE args.gpu = "first"
      <3>1. host.gpus \in Seq(Int) /\ host.gpus # <<>>
        BY <2>2 DEF LInv
      <3>2. SubSeq(host.gpus, 1, 1) \in Seq(Int) /\ 0 \in 0..MaxSwitches
        BY <3>1, HostAssumption
      <3> QED  BY <2>2, <3>2 DEF Attached
    <2>3. CASE args.gpu = "all"
      BY <2>3 DEF Attached, LInv
    <2> QED  BY <1>1, <2>1, <2>2, <2>3
  <1>4. manifest' \in Manifest
    BY <1>1, <1>2, <1>3 DEF New, Manifest
  <1>5. ~Started
    BY DEF New, LInv
  <1> QED  BY <1>4, <1>5 DEF New, LInv, Started

LEMMA RunLInv == LInv /\ Run => LInv'
  BY DEF Run, LInv, Started

LEMMA StepLInv == LInv /\ [Next]_vars => LInv'
  <1> SUFFICES ASSUME LInv, [Next]_vars PROVE LInv'
    OBVIOUS
  <1>1. CASE UNCHANGED vars
    BY <1>1 DEF vars, LInv, Started
  <1> QED  BY <1>1, NewLInv, RunLInv DEF Next

\* The manifest and the machine are as LInv says.
THEOREM LayoutInvariance == Spec => []LInv
  BY InitLInv, StepLInv, PTL DEF Spec

(***************************************************************************)
(* What has been started, in terms of the manifest.                        *)
(***************************************************************************)
Gpus == manifest.attached.gpus

Shares == IF manifest.hugepages THEN Len(Nodes(Gpus)) ELSE 1

LEMMA StartedFromManifest ==
    ASSUME LInv, Started
    PROVE  /\ manifest \in Manifest /\ Gpus \in Seq(Int) /\ Shares \in Nat \ {0}
           /\ machine.toldVcpus = manifest.vcpu /\ machine.toldMemory = manifest.memory
           /\ machine.vcpus = RoundUp(manifest.vcpu, Shares)
           /\ machine.memory = RoundUp(manifest.memory \div 1024, Shares)
           /\ machine.ports = RootPorts(manifest)
           /\ ~manifest.hugepages => machine.numa = <<>>
           /\ manifest.hugepages =>
                  machine.numa = NumaNodes(Gpus, machine.vcpus, machine.memory)
  <1>1. manifest \in Manifest /\ machine = Qemu(manifest)
    BY DEF LInv
  <1>2. Gpus \in Seq(Int)
    BY <1>1 DEF Manifest, Gpus
  <1>3. Shares \in Nat \ {0}
    BY <1>2, NodesOnce DEF Shares
  <1> QED  BY <1>1, <1>2, <1>3 DEF Qemu, Shares, Gpus

LEMMA NodesOfMachine ==
    ASSUME LInv, Started, manifest.hugepages
    PROVE  /\ DOMAIN machine.numa = 1..Shares /\ Len(machine.numa) = Shares
           /\ \A i \in 1..Shares :
                  /\ machine.numa[i].hostNode = Nodes(Gpus)[i]
                  /\ machine.numa[i].cpus = ((i - 1) * (machine.vcpus \div Shares))
                                              ..(i * (machine.vcpus \div Shares) - 1)
                  /\ machine.numa[i].memory = machine.memory \div Shares
                  /\ machine.numa[i].bus = BusNumbers(Gpus)[i]
  <1>1. /\ machine.numa = NumaNodes(Gpus, machine.vcpus, machine.memory)
        /\ Shares = Len(Nodes(Gpus)) /\ Shares \in Nat
    BY StartedFromManifest DEF Shares
  <1> DEFINE node(i) == [hostNode |-> Nodes(Gpus)[i],
                         cpus |-> ((i - 1) * (machine.vcpus \div Shares))
                                      ..(i * (machine.vcpus \div Shares) - 1),
                         memory |-> machine.memory \div Shares,
                         bus |-> BusNumbers(Gpus)[i]]
  <1>2. machine.numa = [i \in 1..Shares |-> node(i)]
    BY <1>1 DEF NumaNodes
  <1>3. DOMAIN machine.numa = 1..Shares /\ Len(machine.numa) = Shares
    BY <1>1, <1>2
  <1>4. \A i \in 1..Shares : machine.numa[i] = node(i)
    BY <1>2
  <1>5. \A i : /\ node(i).hostNode = Nodes(Gpus)[i]
               /\ node(i).cpus = ((i - 1) * (machine.vcpus \div Shares))
                                     ..(i * (machine.vcpus \div Shares) - 1)
               /\ node(i).memory = machine.memory \div Shares
               /\ node(i).bus = BusNumbers(Gpus)[i]
    OBVIOUS
  <1> HIDE DEF node
  <1> QED  BY <1>3, <1>4, <1>5

(***************************************************************************)
(* CPUs and memory.                                                        *)
(***************************************************************************)
\* k ranges of q numbers each, one after the other.
LEMMA EqualRanges ==
    ASSUME NEW k \in Nat \ {0}, NEW q \in Nat \ {0}
    PROVE  /\ UNION {((i - 1) * q)..(i * q - 1) : i \in 1..k} = 0..(k * q - 1)
           /\ \A i, j \in 1..k : i # j =>
                  (((i - 1) * q)..(i * q - 1)) \cap (((j - 1) * q)..(j * q - 1)) = {}
  <1>1. \A i, j \in Nat : i <= j => i * q <= j * q
    OBVIOUS
  <1>2. \A i \in Nat : i * q \in Nat
    OBVIOUS
  <1>3. ASSUME NEW i \in 1..k, NEW x \in ((i - 1) * q)..(i * q - 1) PROVE x \in 0..(k * q - 1)
    <2>1. (i - 1) * q >= 0 /\ i * q <= k * q /\ i * q \in Nat /\ k * q \in Nat
          /\ (i - 1) * q \in Nat
      BY <1>1, <1>2
    <2> QED  BY <2>1
  <1>4. ASSUME NEW x \in 0..(k * q - 1)
        PROVE  \E i \in 1..k : x \in ((i - 1) * q)..(i * q - 1)
    <2>1. x \in Nat /\ x < k * q
      BY <1>2
    <2>2. x = q * (x \div q) + (x % q) /\ x % q \in 0..(q - 1) /\ x \div q \in Nat
      BY <2>1, Division
    <2> DEFINE d == x \div q
               r == x % q
    <2> HIDE DEF d, r
    <2>3. x = q * d + r /\ r \in 0..(q - 1) /\ d \in Nat
      BY <2>2 DEF d, r
    <2>4. ((d + 1) - 1) * q = q * d /\ (d + 1) * q = q * d + q /\ q * d \in Nat
      BY <2>3
    <2>5. x \in (((d + 1) - 1) * q)..((d + 1) * q - 1)
      BY <2>1, <2>3, <2>4
    <2>6. d < k
      <3>1. k <= d => k * q <= d * q
        BY <1>1, <2>3
      <3>2. d * q = q * d
        BY <2>3
      <3> QED  BY <1>2, <2>1, <2>3, <2>4, <3>1, <3>2
    <2>7. d + 1 \in 1..k
      BY <2>3, <2>6
    <2> WITNESS d + 1 \in 1..k
    <2> QED  BY <2>5
  <1>5. ASSUME NEW i \in 1..k, NEW j \in 1..k, i < j,
               NEW x \in ((i - 1) * q)..(i * q - 1), x \in ((j - 1) * q)..(j * q - 1)
        PROVE  FALSE
    <2>1. i * q <= (j - 1) * q /\ i * q \in Nat /\ (j - 1) * q \in Nat
      BY <1>1, <1>2, <1>5
    <2> QED  BY <1>5, <2>1
  <1>6. \A i, j \in 1..k : i # j => i < j \/ j < i
    OBVIOUS
  <1> DEFINE range(i) == ((i - 1) * q)..(i * q - 1)
             whole == 0..(k * q - 1)
  <1>7. /\ \A i \in 1..k : \A x \in range(i) : x \in whole
        /\ \A x \in whole : \E i \in 1..k : x \in range(i)
        /\ \A i, j \in 1..k : i # j => \A x \in range(i) : x \notin range(j)
    BY <1>3, <1>4, <1>5, <1>6
  <1> HIDE DEF range, whole
  <1>8. UNION {range(i) : i \in 1..k} = whole
    BY <1>7
  <1>9. \A i, j \in 1..k : i # j => range(i) \cap range(j) = {}
    BY <1>7
  <1> QED  BY <1>8, <1>9 DEF range, whole

\* With hugepages every virtual CPU that run_instance asks QEMU for belongs to
\* exactly one guest NUMA node, for any number of CPUs, GPUs and nodes.
THEOREM CpuSplit == Spec => []CpusAreSplit
  <1>1. LInv => CpusAreSplit
    <2> SUFFICES ASSUME LInv, Started, manifest.hugepages
                 PROVE  /\ UNION {machine.numa[i].cpus : i \in DOMAIN machine.numa}
                               = 0..(machine.vcpus - 1)
                        /\ \A i, j \in DOMAIN machine.numa :
                               i # j => machine.numa[i].cpus \cap machine.numa[j].cpus = {}
      BY DEF CpusAreSplit
    <2> DEFINE k == Shares
               q == machine.vcpus \div Shares
               cpus(i) == ((i - 1) * q)..(i * q - 1)
    <2>1. k \in Nat \ {0} /\ manifest.vcpu \in Nat \ {0}
      BY StartedFromManifest DEF Manifest
    <2>2. machine.vcpus = k * q /\ q \in Nat /\ machine.vcpus >= manifest.vcpu
      <3>1. machine.vcpus = RoundUp(manifest.vcpu, k)
        BY StartedFromManifest
      <3> QED  BY <2>1, <3>1, Rounding
    <2>3. DOMAIN machine.numa = 1..k /\ \A i \in 1..k : machine.numa[i].cpus = cpus(i)
      BY NodesOfMachine
    <2> HIDE DEF k, q
    <2>4. q # 0
      BY <2>1, <2>2
    <2>5. /\ UNION {cpus(i) : i \in 1..k} = 0..(k * q - 1)
          /\ \A i, j \in 1..k : i # j => cpus(i) \cap cpus(j) = {}
      BY <2>1, <2>2, <2>4, EqualRanges
    <2> HIDE DEF cpus
    <2>6. {machine.numa[i].cpus : i \in DOMAIN machine.numa} = {cpus(i) : i \in 1..k}
      BY <2>3
    <2> QED  BY <2>2, <2>3, <2>5, <2>6
  <1> QED  BY <1>1, LayoutInvariance, PTL

\* A sum of equal shares.
LEMMA SumOfShares ==
    ASSUME NEW numa, Len(numa) \in Nat, NEW share \in Nat,
           \A n \in 1..Len(numa) : numa[n].memory = share,
           NEW total,
           total = CHOOSE f : f = [n \in 0..Len(numa) |->
                                      IF n = 0 THEN 0 ELSE f[n - 1] + numa[n].memory]
    PROVE  total[Len(numa)] = Len(numa) * share
  <1> DEFINE k == Len(numa)
             IsTotal(f) == f = [n \in 0..k |-> IF n = 0 THEN 0 ELSE f[n - 1] + numa[n].memory]
             g == [n \in 0..k |-> n * share]
             S == {n \in 0..k : total[n] = n * share}
  <1>1. k \in Nat /\ \A n \in 1..k : numa[n].memory = share
    OBVIOUS
  <1>2. total = CHOOSE f : IsTotal(f)
    OBVIOUS
  <1> HIDE DEF k
  <1>3. IsTotal(g)
    <2>1. \A n \in 0..k : n # 0 => n \in 1..k /\ n - 1 \in 0..k
      BY <1>1
    <2>2. \A n \in Nat \ {0} : (n - 1) * share + share = n * share
      OBVIOUS
    <2>3. \A n \in 0..k : g[n] = IF n = 0 THEN 0 ELSE g[n - 1] + numa[n].memory
      BY <1>1, <2>1, <2>2
    <2> QED  BY <2>3
  <1>4. IsTotal(total)
    <2> HIDE DEF IsTotal, g
    <2> QED  BY <1>2, <1>3
  <1>5. total[0] = 0 /\ \A n \in 1..k : total[n] = total[n - 1] + share
    <2>1. 0 \in 0..k /\ \A n \in 1..k : n \in 0..k /\ n # 0
      BY <1>1
    <2> QED  BY <1>1, <1>4, <2>1
  <1>6. 0 \in S
    BY <1>1, <1>5
  <1>7. \A n \in 0..k : n \in S /\ n < k => n + 1 \in S
    <2> SUFFICES ASSUME NEW n \in 0..k, n \in S, n < k PROVE n + 1 \in S
      OBVIOUS
    <2>1. n + 1 \in 1..k /\ (n + 1) - 1 = n /\ n \in Nat
      BY <1>1
    <2>2. total[n + 1] = n * share + share
      BY <1>5, <2>1
    <2>3. n * share + share = (n + 1) * share
      BY <2>1
    <2> QED  BY <2>1, <2>2, <2>3
  <1>8. 0..k \subseteq S
    <2>1. 0 \in Int /\ k \in Int
      BY <1>1
    <2> HIDE DEF S
    <2> QED  BY <2>1, <1>6, <1>7, IntervalInduction
  <1>9. k \in 0..k
    BY <1>1
  <1> QED  BY <1>8, <1>9 DEF k

\* With hugepages the memory backends of the nodes add up to QEMU's -m.
THEOREM MemorySum == Spec => []MemoryAddsUp
  <1>1. LInv => MemoryAddsUp
    <2> SUFFICES ASSUME LInv PROVE MemoryAddsUp
      OBVIOUS
    <2> DEFINE IsTotal(f) == f = [n \in 0..Len(machine.numa) |->
                                     IF n = 0 THEN 0 ELSE f[n - 1] + machine.numa[n].memory]
               total == CHOOSE f : IsTotal(f)
               share == machine.memory \div Shares
    <2>1. ASSUME Started, manifest.hugepages
          PROVE  total[Len(machine.numa)] = machine.memory
      <3>1. /\ Shares \in Nat \ {0} /\ manifest.memory \in Nat
            /\ machine.memory = RoundUp(manifest.memory \div 1024, Shares)
        BY <2>1, StartedFromManifest DEF Manifest
      <3>2. machine.memory = Shares * share /\ share \in Nat
        <4>1. manifest.memory \div 1024 \in Nat
          BY <3>1
        <4> QED  BY <3>1, <4>1, Rounding
      <3>3. Len(machine.numa) = Shares /\ \A n \in 1..Shares : machine.numa[n].memory = share
        BY <2>1, NodesOfMachine
      <3> HIDE DEF share
      <3>4. total[Len(machine.numa)] = Len(machine.numa) * share
        <4> DEFINE numa == machine.numa
        <4>1. /\ Len(numa) \in Nat /\ \A n \in 1..Len(numa) : numa[n].memory = share
              /\ total = CHOOSE f : f = [n \in 0..Len(numa) |->
                                            IF n = 0 THEN 0 ELSE f[n - 1] + numa[n].memory]
          BY <3>1, <3>3
        <4> HIDE DEF total, numa
        <4>2. total[Len(numa)] = Len(numa) * share
          BY <3>2, <4>1, SumOfShares
        <4> QED  BY <4>2 DEF numa
      <3> QED  BY <3>2, <3>3, <3>4
    <2> HIDE DEF IsTotal
    <2> QED  BY <2>1 DEF MemoryAddsUp, IsTotal
  <1> QED  BY <1>1, LayoutInvariance, PTL

\* The nodes are as many as the shares that the machine is divided into.
LEMMA NodesAreShares ==
    ASSUME LInv, Started
    PROVE  NodeCount = Shares /\ Shares \in Nat \ {0}
  <1>1. Shares \in Nat \ {0} /\ manifest.hugepages \in BOOLEAN
    BY StartedFromManifest DEF Manifest
  <1>2. CASE manifest.hugepages
    <2>1. Len(machine.numa) = Shares
      BY <1>2, NodesOfMachine
    <2>2. Len(<<>>) = 0
      OBVIOUS
    <2> QED  BY <1>1, <2>1, <2>2 DEF NodeCount
  <1>3. CASE ~manifest.hugepages
    BY <1>1, <1>3, StartedFromManifest DEF Shares, NodeCount
  <1> QED  BY <1>1, <1>2, <1>3

\* The machine has the least numbers of CPUs and of gigabytes that are not
\* below what the guest is told and can be divided among the nodes.
THEOREM LeastRounding == Spec => []RoundingIsLeast
  <1>1. LInv => RoundingIsLeast
    <2> SUFFICES ASSUME LInv, Started
                 PROVE  /\ machine.vcpus % NodeCount = 0 /\ machine.memory % NodeCount = 0
                        /\ machine.vcpus - machine.toldVcpus \in 0..(NodeCount - 1)
                        /\ machine.memory - machine.toldMemory \div 1024
                               \in 0..(NodeCount - 1)
      BY DEF RoundingIsLeast
    <2>1. /\ manifest.vcpu \in Nat /\ manifest.memory \in Nat
          /\ machine.toldVcpus = manifest.vcpu /\ machine.toldMemory = manifest.memory
          /\ machine.vcpus = RoundUp(manifest.vcpu, Shares)
          /\ machine.memory = RoundUp(manifest.memory \div 1024, Shares)
      BY StartedFromManifest DEF Manifest
    <2>2. NodeCount = Shares /\ Shares \in Nat \ {0}
      BY NodesAreShares
    <2>3. \A value \in Nat : /\ RoundUp(value, Shares) % Shares = 0
                             /\ RoundUp(value, Shares) - value \in 0..(Shares - 1)
      <3> SUFFICES ASSUME NEW value \in Nat
                   PROVE  /\ RoundUp(value, Shares) % Shares = 0
                          /\ RoundUp(value, Shares) - value \in 0..(Shares - 1)
        OBVIOUS
      <3> DEFINE q == RoundUp(value, Shares) \div Shares
      <3>1. /\ RoundUp(value, Shares) \in Nat /\ RoundUp(value, Shares) >= value
            /\ RoundUp(value, Shares) - value < Shares
            /\ RoundUp(value, Shares) = Shares * q /\ q \in Nat
        BY <2>2, Rounding
      <3> HIDE DEF q
      <3>2. (Shares * q) % Shares = 0
        BY <2>2, <3>1, WholeQuotient
      <3> QED  BY <2>2, <3>1, <3>2
    <2>4. manifest.memory \div 1024 \in Nat
      BY <2>1
    <2> QED  BY <2>1, <2>2, <2>3, <2>4
  <1> QED  BY <1>1, LayoutInvariance, PTL

(***************************************************************************)
(* Buses and root ports of the machine.                                    *)
(***************************************************************************)
LEMMA BusNames ==
    ASSUME NEW n, NEW k
    PROVE  (PcieNode(n) = PcieNode(k) <=> n = k) /\ PcieNode(n) # PcieRoot
  BY DEF PcieNode, PcieRoot

\* Behind a node's bridge are the ports of its GPUs, on pcie.0 those of the
\* switches.
LEMMA PortsCounted ==
    ASSUME LInv, Started, manifest.hugepages
    PROVE  /\ \A n : PortsOn(PcieNode(n)) = GpusOn(Gpus, n)
           /\ PortsOn(PcieRoot) = Behind(manifest)
           /\ Behind(manifest) \in 0..MaxSwitches
  <1> DEFINE ports == RootPorts(manifest)
             g == Len(Gpus)
             b == Behind(manifest)
  <1>1. Gpus \in Seq(Int) /\ manifest.attached.bridges \in 0..MaxSwitches
        /\ manifest.hugepages \in BOOLEAN /\ machine.ports = ports
    BY StartedFromManifest DEF Manifest
  <1>2. g \in Nat /\ b \in 0..MaxSwitches /\ b \in Nat /\ DOMAIN Gpus = 1..g
    <2>1. 0 \in 0..MaxSwitches
      BY HostAssumption
    <2> QED  BY <1>1, <2>1, HostAssumption DEF Behind
  <1>3. /\ DOMAIN ports = 1..(g + b)
        /\ \A p \in 1..g : ports[p] = PcieNode(Gpus[p])
        /\ \A p \in (g + 1)..(g + b) : ports[p] = PcieRoot
    <2>1. manifest.attached.bridges \in Nat
      BY <1>1, HostAssumption
    <2> QED  BY <1>1, <2>1, PortsInOrder DEF Gpus
  <1> HIDE DEF ports, g, b
  <1>4. \A p \in 1..(g + b) : p \in 1..g \/ p \in (g + 1)..(g + b)
    BY <1>2
  <1>5. \A p \in 1..g : p \in 1..(g + b)
    BY <1>2
  <1>6. \A p \in (g + 1)..(g + b) : p \in 1..(g + b) /\ p \notin 1..g
    BY <1>2
  <1>7. ASSUME NEW n PROVE PortsOn(PcieNode(n)) = GpusOn(Gpus, n)
    <2>1. {p \in DOMAIN ports : ports[p] = PcieNode(n)} = {i \in DOMAIN Gpus : Gpus[i] = n}
      <3>1. \A p \in DOMAIN ports : ports[p] = PcieNode(n) <=> p \in 1..g /\ Gpus[p] = n
        BY <1>3, <1>4, <1>6, BusNames
      <3> QED  BY <1>2, <1>3, <1>5, <3>1
    <2> QED  BY <1>1, <2>1 DEF PortsOn, GpusOn
  <1>8. PortsOn(PcieRoot) = b
    <2>1. {p \in DOMAIN ports : ports[p] = PcieRoot} = (g + 1)..(g + b)
      BY <1>3, <1>4, <1>6, BusNames
    <2>2. Cardinality((g + 1)..(g + b)) = b
      <3>1. g + 1 \in Int /\ g + b \in Int
        BY <1>2
      <3>2. Cardinality((g + 1)..(g + b)) =
                IF g + 1 > g + b THEN 0 ELSE (g + b) - (g + 1) + 1
        BY <3>1, FS_Interval
      <3> QED  BY <1>2, <3>2
    <2> QED  BY <1>1, <2>1, <2>2 DEF PortsOn
  <1> QED  BY <1>2, <1>7, <1>8 DEF b

\* The bus numbers that run_instance gives to the expander bridges leave each
\* of them enough for its root ports on every host, and pcie.0 enough exactly
\* if it has fewer than FirstBus.
THEOREM BusSplit == Spec => []BusesAreApart
  <1>1. LInv => BusesAreApart
    <2> SUFFICES ASSUME LInv, Started, manifest.hugepages
                 PROVE  /\ \A i, j \in DOMAIN machine.numa :
                               i # j => BusesBehind(i) \cap BusesBehind(j) = {}
                        /\ PortsOn(PcieRoot) < FirstBus
                           <=> \A i \in DOMAIN machine.numa :
                                   1..PortsOn(PcieRoot) \cap BusesBehind(i) = {}
      BY DEF BusesAreApart
    <2> DEFINE k == Len(Nodes(Gpus))
               bus(i) == BusNumbers(Gpus)[i]
               count(i) == GpusOn(Gpus, Nodes(Gpus)[i])
    <2>1. Gpus \in Seq(Int) /\ Shares = k
      BY StartedFromManifest DEF Shares
    <2>2. k \in Nat \ {0}
      BY <2>1, NodesOnce
    <2>3. \A i : count(i) \in Nat
      BY <2>1, GpusAreCounted
    <2>4. /\ bus(1) = FirstBus
          /\ \A i \in 1..k : bus(i) \in Nat /\ bus(i) >= FirstBus
          /\ \A j \in 1..k : \A i \in 1..(j - 1) : bus(i) + count(i) < bus(j)
      BY <2>1, BusesGrow
    <2>5. DOMAIN machine.numa = 1..k /\ \A i \in 1..k : machine.numa[i].bus = bus(i)
      BY <2>1, NodesOfMachine
    <2>6. \A i \in 1..k : BusesBehind(i) = bus(i)..(bus(i) + count(i))
      <3>1. \A i \in 1..k : machine.numa[i].hostNode = Nodes(Gpus)[i]
        BY <2>1, NodesOfMachine
      <3>2. \A i \in 1..k : PortsOn(PcieNode(machine.numa[i].hostNode)) = count(i)
        BY <3>1, PortsCounted
      <3> QED  BY <2>5, <3>2 DEF BusesBehind
    <2> HIDE DEF k, bus, count
    <2>7. ASSUME NEW i \in 1..k, NEW j \in 1..k, i < j, NEW x \in BusesBehind(i)
          PROVE  x \notin BusesBehind(j)
      <3>1. i \in 1..(j - 1)
        BY <2>2, <2>7
      <3>2. bus(i) + count(i) < bus(j) /\ bus(i) \in Nat /\ bus(j) \in Nat
            /\ count(i) \in Nat /\ count(j) \in Nat
        BY <2>3, <2>4, <3>1
      <3>3. x \in bus(i)..(bus(i) + count(i)) /\ BusesBehind(j) = bus(j)..(bus(j) + count(j))
        BY <2>6, <2>7
      <3> QED  BY <3>2, <3>3
    <2>8. \A i, j \in 1..k : i # j => BusesBehind(i) \cap BusesBehind(j) = {}
      <3>1. \A i, j \in 1..k : i # j => i < j \/ j < i
        BY <2>2
      <3> QED  BY <2>7, <3>1
    <2>9. PortsOn(PcieRoot) \in Nat
      <3>1. PortsOn(PcieRoot) \in 0..MaxSwitches
        BY PortsCounted
      <3> QED  BY <3>1, HostAssumption
    <2>10. ASSUME PortsOn(PcieRoot) < FirstBus, NEW i \in 1..k
           PROVE  1..PortsOn(PcieRoot) \cap BusesBehind(i) = {}
      <3>1. bus(i) > PortsOn(PcieRoot) /\ bus(i) \in Nat /\ count(i) \in Nat
        BY <2>3, <2>4, <2>9, <2>10 DEF FirstBus
      <3>2. BusesBehind(i) = bus(i)..(bus(i) + count(i))
        BY <2>6
      <3> QED  BY <2>9, <3>1, <3>2
    <2>11. ASSUME ~(PortsOn(PcieRoot) < FirstBus)
           PROVE  1 \in 1..k /\ FirstBus \in 1..PortsOn(PcieRoot) \cap BusesBehind(1)
      <3>1. 1 \in 1..k /\ count(1) \in Nat /\ FirstBus \in 1..PortsOn(PcieRoot)
        BY <2>2, <2>3, <2>9, <2>11 DEF FirstBus
      <3>2. BusesBehind(1) = FirstBus..(FirstBus + count(1))
        BY <2>4, <2>6, <3>1
      <3> QED  BY <3>1, <3>2 DEF FirstBus
    <2> QED  BY <2>5, <2>8, <2>10, <2>11
  <1> QED  BY <1>1, LayoutInvariance, PTL

\* Every port that run_instance places on a node's bridge finds that bridge,
\* and only one of its name.
THEOREM PortPlaces == Spec => []PortsHaveOneBus
  <1>1. LInv => PortsHaveOneBus
    <2> SUFFICES ASSUME LInv, Started, NEW p \in DOMAIN machine.ports,
                        machine.ports[p] # PcieRoot
                 PROVE  \E i \in DOMAIN machine.numa : \A j \in DOMAIN machine.numa :
                            machine.ports[p] = PcieNode(machine.numa[j].hostNode) <=> j = i
      BY DEF PortsHaveOneBus
    <2>1. Gpus \in Seq(Int) /\ manifest.attached.bridges \in Nat
          /\ manifest.hugepages \in BOOLEAN /\ machine.ports = RootPorts(manifest)
      BY StartedFromManifest, HostAssumption DEF Manifest
    <2>2. manifest.hugepages /\ p \in 1..Len(Gpus) /\ machine.ports[p] = PcieNode(Gpus[p])
      <3>1. /\ DOMAIN RootPorts(manifest) = 1..(Len(Gpus) + Behind(manifest))
            /\ \A q \in 1..Len(Gpus) :
                   RootPorts(manifest)[q] = IF manifest.hugepages THEN PcieNode(Gpus[q])
                                            ELSE PcieRoot
            /\ \A q \in (Len(Gpus) + 1)..(Len(Gpus) + Behind(manifest)) :
                   RootPorts(manifest)[q] = PcieRoot
        BY <2>1, PortsInOrder DEF Gpus
      <3>2. Len(Gpus) \in Nat /\ Behind(manifest) \in Nat
        BY <2>1 DEF Behind
      <3>3. p \in 1..Len(Gpus) \/ p \in (Len(Gpus) + 1)..(Len(Gpus) + Behind(manifest))
        BY <2>1, <3>1, <3>2
      <3> QED  BY <2>1, <3>1, <3>3
    <2>3. DOMAIN machine.numa = 1..Len(Nodes(Gpus))
          /\ \A i \in 1..Len(Nodes(Gpus)) : machine.numa[i].hostNode = Nodes(Gpus)[i]
      BY <2>2, NodesOfMachine DEF Shares
    <2>4. Distinct(Nodes(Gpus)) /\ Contains(Nodes(Gpus), Gpus[p])
      BY <2>1, <2>2, NodesOnce
    <2>5. PICK i \in 1..Len(Nodes(Gpus)) : Nodes(Gpus)[i] = Gpus[p]
      BY <2>4 DEF Contains
    <2>6. \A j \in 1..Len(Nodes(Gpus)) :
              machine.ports[p] = PcieNode(machine.numa[j].hostNode) <=> j = i
      BY <2>2, <2>3, <2>4, <2>5, BusNames DEF Distinct
    <2> QED  BY <2>3, <2>6
  <1> QED  BY <1>1, LayoutInvariance, PTL

\* QEMU gets any memory at all exactly when the manifest has a gigabyte or
\* more: what "mem_gb = manifest['memory'] // 1024" makes of smaller sizes,
\* rounding included, is -m 0G.
THEOREM MemoryFromOneGigabyte ==
    Spec => [](Started => (machine.memory > 0 <=> manifest.memory >= 1024))
  <1>1. LInv => (Started => (machine.memory > 0 <=> manifest.memory >= 1024))
    <2> SUFFICES ASSUME LInv, Started
                 PROVE  machine.memory > 0 <=> manifest.memory >= 1024
      OBVIOUS
    <2> DEFINE gigabytes == manifest.memory \div 1024
    <2>1. /\ Shares \in Nat \ {0} /\ manifest.memory \in Nat
          /\ machine.memory = RoundUp(gigabytes, Shares)
      BY StartedFromManifest DEF Manifest
    <2>2. gigabytes \in Nat /\ (gigabytes > 0 <=> manifest.memory >= 1024)
      BY <2>1
    <2> HIDE DEF gigabytes
    <2>3. /\ machine.memory \in Nat /\ machine.memory >= gigabytes
          /\ gigabytes % Shares = 0 => machine.memory = gigabytes
      BY <2>1, <2>2, Rounding
    <2>4. gigabytes = 0 => gigabytes % Shares = 0
      BY <2>1
    <2> QED  BY <2>2, <2>3, <2>4
  <1> QED  BY <1>1, LayoutInvariance, PTL
============================================================================
