-------------------------- MODULE LockFreeStackProofs --------------------------
(***************************************************************************)
(* Proofs about ObjectPool and LockFreeStack for any number of threads,    *)
(* objects and items and for any size of the count: no object of the pool  *)
(* is given out twice or lost, the stack never needs a node that its pool  *)
(* does not have, and it is the stack that StackContract describes.        *)
(***************************************************************************)
EXTENDS LockFreeStack, FiniteSetTheorems, SequenceTheorems, TLAPS

--------------------------------------------------------------------------------
(* Linked lists.                                                           *)

\* s is the list of different objects from o on, which ends
Listed(s, o, succ) ==
    /\ s \in Seq(Objects)
    /\ \A i, j \in 1 .. Len(s) : s[i] = s[j] => i = j
    /\ o = IF s = <<>> THEN Null ELSE s[1]
    /\ \A i \in 1 .. Len(s) : succ[s[i]] = IF i = Len(s) THEN Null ELSE s[i + 1]

LEMMA Least ==
  ASSUME NEW n \in Nat, NEW K \in SUBSET (1 .. n), K # {}
  PROVE  \E k \in K : \A j \in K : k <= j
<1> DEFINE T == {1 .. k : k \in K}
<1>1. T \subseteq FiniteSubsetsOf(1 .. n)
  <2> SUFFICES ASSUME NEW k \in K PROVE 1 .. k \in FiniteSubsetsOf(1 .. n)
    OBVIOUS
  <2>1. k \in Int /\ 1 .. k \subseteq 1 .. n
    OBVIOUS
  <2> QED BY <2>1, FS_Interval DEF FiniteSubsetsOf
<1>2. T # {}
  OBVIOUS
<1>3. IsWellFoundedOn(StrictSubsetOrdering(1 .. n), FiniteSubsetsOf(1 .. n))
  BY FS_StrictSubsetOrderingWellFounded
<1> HIDE DEF T
<1>4. \E x \in T : \A y \in T : ~ (<<y, x>> \in StrictSubsetOrdering(1 .. n))
  BY <1>1, <1>2, <1>3, WFMin
<1>5. PICK k \in K : \A j \in K : ~ (<<1 .. j, 1 .. k>> \in StrictSubsetOrdering(1 .. n))
  BY <1>4 DEF T
<1>6. ASSUME NEW j \in K, j < k PROVE FALSE
  <2>1. j \in Int /\ k \in Int /\ 1 <= k /\ 1 .. j \subseteq 1 .. n /\ 1 .. k \subseteq 1 .. n
    OBVIOUS
  <2>2. 1 .. j \subseteq 1 .. k /\ k \in 1 .. k /\ k \notin 1 .. j
    BY <1>6, <2>1
  <2>3. <<1 .. j, 1 .. k>> \in StrictSubsetOrdering(1 .. n)
    BY <2>1, <2>2 DEF StrictSubsetOrdering
  <2> QED BY <1>5, <2>3
<1>7. \A j \in K : k <= j
  BY <1>6
<1> QED BY <1>7

LEMMA ListFacts ==
  ASSUME NEW s, NEW o, NEW succ, Listed(s, o, succ)
  PROVE  /\ s \in Seq(Objects) /\ Len(s) \in Nat /\ DOMAIN s = 1 .. Len(s)
         /\ s = <<>> <=> Len(s) = 0
         /\ \A i \in 1 .. Len(s) : s[i] \in Objects /\ s[i] \in ToSet(s)
         /\ \A i, j \in 1 .. Len(s) : s[i] = s[j] => i = j
         /\ \A i \in 1 .. Len(s) : succ[s[i]] = IF i = Len(s) THEN Null ELSE s[i + 1]
         /\ ToSet(s) \subseteq Objects
<1>1. s \in Seq(Objects)
  BY DEF Listed
<1>2. Len(s) \in Nat /\ DOMAIN s = 1 .. Len(s) /\ (s = <<>> <=> Len(s) = 0)
  BY <1>1, LenProperties, EmptySeq
<1>3. \A i \in 1 .. Len(s) : s[i] \in Objects
  BY <1>1, ElementOfSeq
<1>4. ToSet(s) = {s[i] : i \in 1 .. Len(s)}
  BY <1>2 DEF ToSet
<1>5. ToSet(s) \subseteq Objects /\ \A i \in 1 .. Len(s) : s[i] \in ToSet(s)
  BY <1>3, <1>4
<1> QED BY <1>1, <1>2, <1>3, <1>5 DEF Listed

LEMMA ListFits ==
  ASSUME NEW s, NEW o, NEW succ, Listed(s, o, succ)
  PROVE  Len(s) \in 0 .. Cardinality(Objects)
<1>1. Len(s) \in Nat /\ s \in [1 .. Len(s) -> Objects]
  BY LenProperties DEF Listed
<1>2. s \in Injection(1 .. Len(s), Objects)
  BY <1>1 DEF Listed, Injection, IsInjective
<1>3. Cardinality(1 .. Len(s)) <= Cardinality(Objects) /\ Cardinality(Objects) \in Nat
  BY <1>2, FS_Injection, FS_CardinalityType, PoolAssumption
<1>4. Cardinality(1 .. Len(s)) = Len(s)
  BY <1>1, FS_Interval
<1> QED BY <1>1, <1>3, <1>4

\* There is no other chain than a list that ends.
LEMMA SameChain ==
  ASSUME NEW s, NEW o, NEW succ, Listed(s, o, succ),
         NEW c \in Seq(Objects), Len(c) <= Cardinality(Objects) + 1, IsChain(c, o, succ)
  PROVE  c = s
<1>0. /\ Len(s) \in Nat /\ Len(c) \in Nat /\ s \in Seq(Objects) /\ Null \notin Objects
      /\ Cardinality(Objects) \in Nat /\ Len(s) <= Cardinality(Objects)
      /\ \A i \in 1 .. Len(s) : s[i] \in Objects
      /\ \A i \in 1 .. Len(c) : c[i] \in Objects
  <2>1. Len(s) \in 0 .. Cardinality(Objects)
    BY ListFits
  <2>2. /\ Len(s) \in Nat /\ s \in Seq(Objects) /\ \A i \in 1 .. Len(s) : s[i] \in Objects
    BY ListFacts
  <2>3. Len(c) \in Nat /\ \A i \in 1 .. Len(c) : c[i] \in Objects
    BY LenProperties, ElementOfSeq
  <2>4. Cardinality(Objects) \in Nat /\ Null \notin Objects
    BY FS_CardinalityType, PoolAssumption
  <2> QED BY <2>1, <2>2, <2>3, <2>4
<1>1. CASE s = <<>>
  BY <1>1 DEF Listed, IsChain
<1>2. CASE s # <<>>
  <2>1. Len(s) >= 1 /\ o = s[1] /\ o \in Objects
    BY <1>0, <1>2, EmptySeq DEF Listed
  <2>2. c # <<>> /\ c[1] = s[1] /\ Len(c) >= 1
    BY <1>0, <2>1, EmptySeq DEF IsChain
  <2>3. ASSUME NEW i \in 1 .. Len(c), i \in 1 .. Len(s) PROVE c[i] = s[i]
    <3> DEFINE D == {j \in 1 .. Len(c) : j \in 1 .. Len(s) /\ c[j] # s[j]}
    <3>1. D = {}
      <4> SUFFICES ASSUME D # {} PROVE FALSE
        OBVIOUS
      <4>1. D \in SUBSET (1 .. Len(c))
        OBVIOUS
      <4>2. PICK k \in D : \A j \in D : k <= j
        <5> HIDE DEF D
        <5> QED BY <1>0, <4>1, Least
      <4>3. k \in 1 .. Len(c) /\ k \in 1 .. Len(s) /\ c[k] # s[k]
        OBVIOUS
      <4>4. k # 1
        BY <2>2, <4>3
      <4>5. /\ k - 1 \in 1 .. Len(c) /\ k - 1 \in 1 .. Len(s) /\ k - 1 \in 1 .. Len(c) - 1
            /\ k - 1 # Len(s) /\ (k - 1) + 1 = k /\ ~ (k <= k - 1)
        BY <1>0, <4>3, <4>4
      <4>6. c[k - 1] = s[k - 1]
        BY <4>2, <4>5
      <4>7. c[(k - 1) + 1] = succ[c[k - 1]]
        BY <4>5 DEF IsChain
      <4>8. succ[s[k - 1]] = s[(k - 1) + 1]
        BY <4>5 DEF Listed
      <4> QED BY <4>3, <4>5, <4>6, <4>7, <4>8
    <3> QED BY <2>3, <3>1
  <2>4. ~ (Len(c) < Len(s))
    <3> SUFFICES ASSUME Len(c) < Len(s) PROVE FALSE
      OBVIOUS
    <3>1. /\ Len(c) \in 1 .. Len(c) /\ Len(c) \in 1 .. Len(s) /\ Len(c) # Len(s)
          /\ Len(c) + 1 \in 1 .. Len(s) /\ Len(c) \in 1 .. Cardinality(Objects)
      BY <1>0, <2>2
    <3>2. c[Len(c)] = s[Len(c)] /\ succ[c[Len(c)]] = Null
      BY <2>3, <3>1 DEF IsChain
    <3>3. succ[s[Len(c)]] = s[Len(c) + 1]
      BY <3>1 DEF Listed
    <3> QED BY <1>0, <3>1, <3>2, <3>3
  <2>5. ~ (Len(s) < Len(c))
    <3> SUFFICES ASSUME Len(s) < Len(c) PROVE FALSE
      OBVIOUS
    <3>1. /\ Len(s) \in 1 .. Len(c) /\ Len(s) \in 1 .. Len(s) /\ Len(s) \in 1 .. Len(c) - 1
          /\ Len(s) + 1 \in 1 .. Len(c)
      BY <1>0, <2>1
    <3>2. c[Len(s)] = s[Len(s)] /\ c[Len(s) + 1] = succ[c[Len(s)]]
      BY <2>3, <3>1 DEF IsChain
    <3>3. succ[s[Len(s)]] = Null
      BY <3>1 DEF Listed
    <3> QED BY <1>0, <3>1, <3>2, <3>3
  <2>6. Len(c) = Len(s)
    BY <1>0, <2>4, <2>5
  <2> QED BY <1>0, <2>3, <2>6, SeqEqual
<1> QED BY <1>1, <1>2

LEMMA ChainOf ==
  ASSUME NEW s, NEW o, NEW succ, Listed(s, o, succ)
  PROVE  Chain(o, succ) = s
<1> DEFINE Chains == UNION {[1 .. k -> Objects] : k \in 0 .. Cardinality(Objects) + 1}
<1>0. /\ Len(s) \in 0 .. Cardinality(Objects) /\ Cardinality(Objects) \in Nat
      /\ s \in Seq(Objects) /\ s \in [1 .. Len(s) -> Objects] /\ Null \notin Objects
      /\ \A i \in 1 .. Len(s) : s[i] \in Objects
  <2>1. Len(s) \in 0 .. Cardinality(Objects)
    BY ListFits
  <2>2. s \in Seq(Objects) /\ \A i \in 1 .. Len(s) : s[i] \in Objects
    BY ListFacts
  <2>3. s \in [1 .. Len(s) -> Objects]
    BY <2>2, LenProperties
  <2>4. Cardinality(Objects) \in Nat /\ Null \notin Objects
    BY FS_CardinalityType, PoolAssumption
  <2> QED BY <2>1, <2>2, <2>3, <2>4
<1>1. s \in Chains
  BY <1>0
<1>2. IsChain(s, o, succ)
  <2>1. s = <<>> <=> o = Null
    <3>1. s # <<>> => 1 \in 1 .. Len(s)
      BY <1>0, ListFacts
    <3> QED BY <1>0, <3>1 DEF Listed
  <2>2. s # <<>> => s[1] = o
    BY DEF Listed
  <2>3. \A i \in 1 .. Len(s) - 1 : s[i + 1] = succ[s[i]]
    <3> TAKE i \in 1 .. Len(s) - 1
    <3>1. i \in 1 .. Len(s) /\ i # Len(s)
      BY <1>0
    <3> QED BY <3>1 DEF Listed
  <2>4. Len(s) \in 1 .. Cardinality(Objects) => succ[s[Len(s)]] = Null
    <3> HAVE Len(s) \in 1 .. Cardinality(Objects)
    <3>1. Len(s) \in 1 .. Len(s)
      BY <1>0
    <3> QED BY <3>1 DEF Listed
  <2> QED BY <2>1, <2>2, <2>3, <2>4 DEF IsChain
<1>3. ASSUME NEW c \in Chains, IsChain(c, o, succ) PROVE c = s
  <2>1. PICK k \in 0 .. Cardinality(Objects) + 1 : c \in [1 .. k -> Objects]
    OBVIOUS
  <2>2. c \in Seq(Objects) /\ Len(c) = k
    BY <1>0, <2>1
  <2>3. Len(c) <= Cardinality(Objects) + 1
    BY <1>0, <2>1, <2>2
  <2> QED BY <1>3, <2>2, <2>3, SameChain
<1> HIDE DEF Chains
<1>4. Chain(o, succ) = CHOOSE c \in Chains : IsChain(c, o, succ)
  BY DEF Chain, Chains
<1> QED BY <1>1, <1>2, <1>3, <1>4

LEMMA ListTail ==
  ASSUME NEW s, NEW o, NEW succ, Listed(s, o, succ), o # Null
  PROVE  /\ s # <<>> /\ o = Head(s) /\ o \in Objects /\ o \in ToSet(s)
         /\ Listed(Tail(s), succ[o], succ)
         /\ ToSet(Tail(s)) = ToSet(s) \ {o}
<1>0. s \in Seq(Objects) /\ s # <<>> /\ o = s[1] /\ Len(s) \in Nat \ {0}
  BY EmptySeq DEF Listed
<1>1. /\ Tail(s) \in Seq(Objects) /\ Len(Tail(s)) = Len(s) - 1
      /\ \A i \in 1 .. Len(Tail(s)) : Tail(s)[i] = s[i + 1]
  BY <1>0, HeadTailProperties
<1>2. Head(s) = s[1] /\ s[1] \in Objects
  <2>1. Head(SubSeq(s, 1, Len(s))) = s[1]
    BY <1>0, HeadTailOfSubSeq
  <2>2. 1 \in 1 .. Len(s)
    BY <1>0
  <2> QED BY <1>0, <2>1, <2>2, SubSeqFull, ElementOfSeq
<1>3. /\ DOMAIN s = 1 .. Len(s) /\ DOMAIN Tail(s) = 1 .. Len(Tail(s))
      /\ Tail(s) = <<>> <=> Len(Tail(s)) = 0
  BY <1>0, <1>1, LenProperties, EmptySeq
<1>4. \A i \in 1 .. Len(Tail(s)) : i + 1 \in 1 .. Len(s) /\ i + 1 # 1
  BY <1>0, <1>1
<1>5. succ[o] = IF Tail(s) = <<>> THEN Null ELSE Tail(s)[1]
  <2>1. 1 \in 1 .. Len(s)
    BY <1>0
  <2>2. succ[s[1]] = IF 1 = Len(s) THEN Null ELSE s[1 + 1]
    BY <2>1 DEF Listed
  <2>3. CASE Len(s) = 1
    BY <1>0, <1>1, <1>3, <2>2, <2>3
  <2>4. CASE Len(s) # 1
    <3>1. Len(Tail(s)) # 0 /\ 1 \in 1 .. Len(Tail(s))
      BY <1>0, <1>1, <2>4
    <3> QED BY <1>0, <1>1, <1>3, <2>2, <2>4, <3>1
  <2> QED BY <2>3, <2>4
<1>6. \A i, j \in 1 .. Len(Tail(s)) : Tail(s)[i] = Tail(s)[j] => i = j
  <2> SUFFICES ASSUME NEW i \in 1 .. Len(Tail(s)), NEW j \in 1 .. Len(Tail(s)),
                      Tail(s)[i] = Tail(s)[j]
               PROVE  i = j
    OBVIOUS
  <2>1. s[i + 1] = s[j + 1] /\ i + 1 \in 1 .. Len(s) /\ j + 1 \in 1 .. Len(s)
    BY <1>1, <1>4
  <2>2. i + 1 = j + 1
    BY <2>1 DEF Listed
  <2> QED BY <2>2
<1>7. ASSUME NEW i \in 1 .. Len(Tail(s))
      PROVE  succ[Tail(s)[i]] = IF i = Len(Tail(s)) THEN Null ELSE Tail(s)[i + 1]
  <2>1. succ[s[i + 1]] = IF i + 1 = Len(s) THEN Null ELSE s[(i + 1) + 1]
    BY <1>4 DEF Listed
  <2>2. i + 1 = Len(s) <=> i = Len(Tail(s))
    BY <1>0, <1>1
  <2>3. i # Len(Tail(s)) => i + 1 \in 1 .. Len(Tail(s))
    <3>1. Len(Tail(s)) \in Int
      BY <1>0, <1>1
    <3> QED BY <3>1
  <2> QED BY <1>1, <2>1, <2>2, <2>3
<1>8. Listed(Tail(s), succ[o], succ)
  BY <1>1, <1>5, <1>6, <1>7 DEF Listed
<1>9. ToSet(Tail(s)) \subseteq ToSet(s) \ {o}
  <2> SUFFICES ASSUME NEW i \in 1 .. Len(Tail(s)) PROVE Tail(s)[i] \in ToSet(s) \ {o}
    BY <1>3 DEF ToSet
  <2>1. s[i + 1] \in ToSet(s)
    BY <1>3, <1>4 DEF ToSet
  <2>2. s[i + 1] # s[1]
    <3>1. 1 \in 1 .. Len(s)
      BY <1>0
    <3> QED BY <1>4, <3>1 DEF Listed
  <2> QED BY <1>0, <1>1, <2>1, <2>2
<1>10. ToSet(s) \ {o} \subseteq ToSet(Tail(s))
  <2> SUFFICES ASSUME NEW i \in 1 .. Len(s), s[i] # o PROVE s[i] \in ToSet(Tail(s))
    BY <1>3 DEF ToSet
  <2>1. i - 1 \in 1 .. Len(Tail(s)) /\ (i - 1) + 1 = i
    <3>1. i # 1
      BY <1>0
    <3> QED BY <1>0, <1>1, <3>1
  <2>2. Tail(s)[i - 1] = s[i]
    BY <1>1, <2>1
  <2> QED BY <1>3, <2>1, <2>2 DEF ToSet
<1>11. o \in ToSet(s)
  BY <1>0, <1>3 DEF ToSet
<1> QED BY <1>0, <1>2, <1>8, <1>9, <1>10, <1>11

LEMMA ListCons ==
  ASSUME NEW s, NEW o, NEW succ, Listed(s, o, succ), NEW x \in Objects \ ToSet(s), succ[x] = o
  PROVE  Listed(<<x>> \o s, x, succ) /\ ToSet(<<x>> \o s) = ToSet(s) \cup {x}
<1> DEFINE c == <<x>> \o s
<1>0. /\ s \in Seq(Objects) /\ Len(s) \in Nat /\ DOMAIN s = 1 .. Len(s)
      /\ s = <<>> <=> Len(s) = 0
  BY EmptySeq, LenProperties DEF Listed
<1>1. <<x>> \in Seq(Objects) /\ Len(<<x>>) = 1 /\ <<x>>[1] = x
  OBVIOUS
<1>2. /\ c \in Seq(Objects) /\ Len(c) = 1 + Len(s)
      /\ \A i \in 1 .. 1 + Len(s) : c[i] = IF i <= 1 THEN <<x>>[i] ELSE s[i - 1]
  <2>1. /\ c \in Seq(Objects) /\ Len(c) = Len(<<x>>) + Len(s)
        /\ \A i \in 1 .. Len(<<x>>) + Len(s) :
              c[i] = IF i <= Len(<<x>>) THEN <<x>>[i] ELSE s[i - Len(<<x>>)]
    <3> HIDE DEF c
    <3>1. c = <<x>> \o s
      BY DEF c
    <3> QED BY <1>0, <1>1, <3>1, ConcatProperties
  <2> HIDE DEF c
  <2> QED BY <1>1, <2>1
<1> HIDE DEF c
<1>3. c[1] = x
  <2>1. 1 \in 1 .. 1 + Len(s)
    BY <1>0
  <2> QED BY <1>1, <1>2, <2>1
<1>4. \A i \in 1 .. Len(s) : i + 1 \in 1 .. Len(c) /\ c[i + 1] = s[i]
  <2> TAKE i \in 1 .. Len(s)
  <2>1. i + 1 \in 1 .. 1 + Len(s) /\ ~ (i + 1 <= 1) /\ (i + 1) - 1 = i
    BY <1>0
  <2> QED BY <1>2, <2>1
<1>5. \A i \in 1 .. Len(c) : i # 1 => i - 1 \in 1 .. Len(s) /\ c[i] = s[i - 1]
  <2> SUFFICES ASSUME NEW i \in 1 .. Len(c), i # 1
               PROVE  i - 1 \in 1 .. Len(s) /\ c[i] = s[i - 1]
    OBVIOUS
  <2>1. i \in 1 .. 1 + Len(s) /\ ~ (i <= 1) /\ i - 1 \in 1 .. Len(s)
    BY <1>0, <1>2
  <2> QED BY <1>2, <2>1
<1>6. \A i \in 1 .. Len(s) : s[i] # x
  BY <1>0 DEF ToSet
<1>7. DOMAIN c = 1 .. Len(c) /\ 1 \in 1 .. Len(c) /\ c # <<>>
  <2>1. Len(c) # 0 /\ Len(c) \in Nat /\ 1 \in 1 .. Len(c)
    BY <1>0, <1>2
  <2> QED BY <1>2, <2>1, LenProperties, EmptySeq
<1>8. \A i, j \in 1 .. Len(c) : c[i] = c[j] => i = j
  <2> SUFFICES ASSUME NEW i \in 1 .. Len(c), NEW j \in 1 .. Len(c), c[i] = c[j] PROVE i = j
    OBVIOUS
  <2>1. CASE i = 1
    BY <1>3, <1>5, <1>6, <2>1
  <2>2. CASE j = 1
    BY <1>3, <1>5, <1>6, <2>2
  <2>3. CASE i # 1 /\ j # 1
    <3>1. i - 1 = j - 1
      BY <1>5, <2>3 DEF Listed
    <3> QED BY <3>1
  <2> QED BY <2>1, <2>2, <2>3
<1>9. ASSUME NEW i \in 1 .. Len(c) PROVE succ[c[i]] = IF i = Len(c) THEN Null ELSE c[i + 1]
  <2>1. CASE i = 1
    <3>1. CASE s = <<>>
      <4>1. i = Len(c) /\ o = Null
        BY <1>0, <1>2, <2>1, <3>1 DEF Listed
      <4> QED BY <1>3, <2>1, <4>1
    <3>2. CASE s # <<>>
      <4>a. Len(s) >= 1
        BY <1>0, <3>2
      <4>b. o = s[1]
        BY <3>2 DEF Listed
      <4>1. i # Len(c) /\ o = s[1] /\ 1 \in 1 .. Len(s)
        BY <1>0, <1>2, <2>1, <4>a, <4>b
      <4>2. c[1 + 1] = s[1]
        BY <1>4, <4>1
      <4> QED BY <1>3, <2>1, <4>1, <4>2
    <3> QED BY <3>1, <3>2
  <2>2. CASE i # 1
    <3>1. i - 1 \in 1 .. Len(s) /\ c[i] = s[i - 1]
      BY <1>5, <2>2
    <3>2. succ[s[i - 1]] = IF i - 1 = Len(s) THEN Null ELSE s[(i - 1) + 1]
      BY <3>1 DEF Listed
    <3>3. i - 1 = Len(s) <=> i = Len(c)
      BY <1>0, <1>2
    <3>4. i # Len(c) => i \in 1 .. Len(s) /\ (i - 1) + 1 = i
      BY <1>0, <1>2
    <3> QED BY <1>4, <3>1, <3>2, <3>3, <3>4
  <2> QED BY <2>1, <2>2
<1>10. Listed(c, x, succ)
  BY <1>2, <1>3, <1>7, <1>8, <1>9 DEF Listed
<1>11. ToSet(c) = ToSet(s) \cup {x}
  <2>1. ToSet(c) \subseteq ToSet(s) \cup {x}
    <3> SUFFICES ASSUME NEW i \in 1 .. Len(c) PROVE c[i] \in ToSet(s) \cup {x}
      BY <1>7 DEF ToSet
    <3>1. CASE i = 1
      BY <1>3, <3>1
    <3>2. CASE i # 1
      BY <1>0, <1>5, <3>2 DEF ToSet
    <3> QED BY <3>1, <3>2
  <2>2. ToSet(s) \cup {x} \subseteq ToSet(c)
    BY <1>0, <1>3, <1>4, <1>7 DEF ToSet
  <2> QED BY <2>1, <2>2
<1> QED BY <1>10, <1>11 DEF c

\* to write the Next of something else changes nothing
LEMMA ListKept ==
  ASSUME NEW s, NEW o, NEW succ, Listed(s, o, succ), NEW x, x \notin ToSet(s), NEW y,
         succ \in [Objects -> Objects \cup {Null}]
  PROVE  Listed(s, o, [succ EXCEPT ![x] = y])
<1>1. /\ s \in Seq(Objects) /\ DOMAIN s = 1 .. Len(s)
      /\ \A i \in 1 .. Len(s) : s[i] \in Objects /\ s[i] \in ToSet(s)
  <2>1. s \in Seq(Objects)
    BY DEF Listed
  <2>2. DOMAIN s = 1 .. Len(s)
    BY <2>1, LenProperties
  <2> QED BY <2>1, <2>2, ElementOfSeq DEF ToSet
<1>2. \A i \in 1 .. Len(s) : [succ EXCEPT ![x] = y][s[i]] = succ[s[i]]
  BY <1>1
<1> QED BY <1>2 DEF Listed

--------------------------------------------------------------------------------
(* Counts of exchanges, which wrap.                                        *)

Counts == 0 .. CountSize - 1
Links == Objects \cup {Null}
Tops == [node : Links, count : Counts]

\* the count after a exchanges
Turn(c, a) == IF c + a < CountSize THEN c + a ELSE c + a - CountSize

LEMMA Turns ==
  /\ CountSize \in Nat /\ 0 \in Counts
  /\ \A c, a \in Counts :
        /\ Turn(c, a) \in Counts /\ (Turn(c, a) = c => a = 0)
        /\ a < CountSize - 1 =>
              a + 1 \in Counts /\ a + 1 # 0 /\ Turn(Turn(c, a), 1) = Turn(c, a + 1)
  /\ \A c \in Counts : Turn(c, 0) = c
BY PoolAssumption DEF Counts, Turn

LEMMA Advanced ==
  ASSUME NEW p \in Tops, NEW n \in Links
  PROVE  Advance(p, n) \in Tops /\ Advance(p, n).node = n /\ Advance(p, n).count = Turn(p.count, 1)
<1>0. p.count \in Nat /\ p.count < CountSize /\ CountSize \in Nat /\ CountSize > 1
  BY PoolAssumption DEF Tops, Counts
<1>1. (p.count + 1) % CountSize = Turn(p.count, 1)
  <2>1. CASE p.count + 1 < CountSize
    BY <1>0, <2>1 DEF Turn
  <2>2. CASE p.count + 1 = CountSize
    BY <1>0, <2>2 DEF Turn
  <2> QED BY <1>0, <2>1, <2>2
<1>2. Turn(p.count, 1) \in Counts
  BY <1>0 DEF Turn, Counts
<1> QED BY <1>1, <1>2 DEF Advance, Pointer, Tops

\* Who is in these places has read the top as it was a exchanges ago.
RecentIn(T, places, p, m, a) ==
    \A t \in Threads : p[t] \in places =>
        /\ T.count = Turn(m[t].top.count, a[t])
        /\ a[t] = 0 => m[t].top = T

Locals == [top : Tops, succ : Links, obj : Links]

LEMMA RecentFirst ==
  ASSUME NEW T, NEW places, NEW p, NEW m, NEW a, NEW t \in Threads,
         m \in [Threads -> Locals], a \in [Threads -> Counts],
         RecentIn(T, places, p, m, a), p[t] \in places, T = m[t].top
  PROVE  a[t] = 0
<1>1. T.count \in Counts /\ a[t] \in Counts /\ T.count = Turn(T.count, a[t])
  BY DEF RecentIn, Locals, Tops
<1> QED BY <1>1, Turns

--------------------------------------------------------------------------------
(* The pool: an invariant of ObjectPool, alone or under LockFreeStack.     *)

Labels ==
    {"Idle", "GetRead", "GrowAll", "GrowActive", "GetNext", "GetSwap", "GetCount", "Keep",
     "PutRead", "PutNext", "PutSwap", "PutCount",
     "PushData", "PushRead", "PushLink", "PushSwap",
     "PopRead", "PopLink", "PopSwap", "PopData", "ReturnPop"}

\* where a thread has an object in its hands
CarrierLabels ==
    {"GetCount", "Keep", "PushData", "PushRead", "PushLink", "PushSwap", "PopData",
     "PutRead", "PutNext", "PutSwap"}

PoolTypes ==
    /\ mTop \in Tops /\ next \in [Objects -> Links]
    /\ unborn \subseteq Objects /\ held \subseteq Objects
    /\ pc \in [Threads -> Labels] /\ my \in [Threads -> Locals] /\ age \in [Threads -> Counts]

Carries == \A t \in Threads : my[t].obj # Null <=> pc[t] \in CarrierLabels

\* What a thread has read is still so, unless the top was exchanged since; and
\* nobody else writes the Next of an object in its hands.
Reading ==
    \A t \in Threads :
        /\ pc[t] \in {"GetNext", "GetSwap"} => my[t].top.node # Null
        /\ pc[t] = "GetSwap" /\ age[t] = 0 => my[t].succ = next[mTop.node]
        /\ pc[t] = "PutSwap" => next[my[t].obj] = my[t].top.node

Free == Chain(mTop.node, next)

\* Every object is in one place.
OnePlaceIn(un, pool, hd, m) ==
    /\ un \cap pool = {} /\ un \cap hd = {} /\ pool \cap hd = {}
    /\ \A t \in Threads : m[t].obj \notin un \cup pool \cup hd
    /\ \A t, u \in Threads : m[t].obj # Null /\ m[t].obj = m[u].obj => t = u
    /\ \A o \in Objects : o \in un \cup pool \cup hd \/ \E t \in Threads : m[t].obj = o

PoolInv ==
    /\ PoolTypes /\ Carries /\ Reading
    /\ RecentIn(mTop, Between, pc, my, age)
    /\ Listed(Free, mTop.node, next)
    /\ OnePlaceIn(unborn, Pool, held, my)

OthersStay(t) == \A u \in Threads \ {t} : pc'[u] = pc[u] /\ my'[u] = my[u]

\* how an object can go from hand to hand without the pool
Hands(t) ==
    \/ UNCHANGED <<unborn, held>> /\ my'[t].obj = my[t].obj
    \/ /\ UNCHANGED unborn
       /\ my[t].obj # Null /\ my'[t].obj = Null /\ held' = held \cup {my[t].obj}
    \/ /\ UNCHANGED unborn
       /\ my[t].obj = Null /\ my'[t].obj \in held /\ held' = held \ {my'[t].obj}
    \/ /\ UNCHANGED held
       /\ my[t].obj = Null /\ my'[t].obj \in unborn /\ unborn' = unborn \ {my'[t].obj}

LEMMA HandsKeepPlaces ==
  ASSUME PoolTypes, PoolTypes', NEW t \in Threads, NEW P, P \subseteq Objects,
         OnePlaceIn(unborn, P, held, my), OthersStay(t), Hands(t)
  PROVE  OnePlaceIn(unborn', P, held', my')
<1>0. /\ \A u \in Threads \ {t} : my'[u].obj = my[u].obj
      /\ \A u \in Threads : my[u].obj \in Links /\ my'[u].obj \in Links
      /\ unborn \subseteq Objects /\ held \subseteq Objects /\ Null \notin Objects
  BY PoolAssumption DEF OthersStay, PoolTypes, Locals
<1>1. CASE UNCHANGED <<unborn, held>> /\ my'[t].obj = my[t].obj
  <2>1. \A u \in Threads : my'[u].obj = my[u].obj
    BY <1>0, <1>1
  <2> QED BY <1>1, <2>1 DEF OnePlaceIn
<1>2. CASE /\ UNCHANGED unborn
           /\ my[t].obj # Null /\ my'[t].obj = Null /\ held' = held \cup {my[t].obj}
  BY <1>0, <1>2 DEF OnePlaceIn, Links
<1>3. CASE /\ UNCHANGED unborn
           /\ my[t].obj = Null /\ my'[t].obj \in held /\ held' = held \ {my'[t].obj}
  BY <1>0, <1>3 DEF OnePlaceIn, Links
<1>4. CASE /\ UNCHANGED held
           /\ my[t].obj = Null /\ my'[t].obj \in unborn /\ unborn' = unborn \ {my'[t].obj}
  BY <1>0, <1>4 DEF OnePlaceIn, Links
<1> QED BY <1>1, <1>2, <1>3, <1>4 DEF Hands

\* how a thread can come between a read of mTop and the exchange on it
Enters(t) ==
    \/ pc'[t] \notin Between
    \/ /\ pc'[t] \in {"GetNext", "PutNext"} /\ my'[t].top = mTop /\ age'[t] = 0
       /\ pc'[t] = "GetNext" => mTop.node # Null
    \/ /\ pc[t] = "GetNext" /\ pc'[t] = "GetSwap"
       /\ my'[t].top = my[t].top /\ age'[t] = age[t] /\ my'[t].succ = next[my[t].top.node]

\* A step that leaves the list of free objects alone.
LEMMA QuietStep ==
  ASSUME PoolInv, NEW t \in Threads, PoolTypes', Carries', OthersStay(t),
         UNCHANGED <<mTop, next>>,
         \A u \in Threads \ {t} : pc[u] \in Between => age'[u] = age[u],
         Hands(t), Enters(t)
  PROVE  PoolInv'
<1>1. RecentIn(mTop', Between, pc', my', age')
  <2>1. pc'[t] \in Between =>
            \/ pc[t] \in Between /\ my'[t].top = my[t].top /\ age'[t] = age[t]
            \/ my'[t].top = mTop /\ age'[t] = 0
    BY DEF Enters, Between
  <2>2. mTop' = mTop /\ mTop \in Tops /\ RecentIn(mTop, Between, pc, my, age)
    BY DEF PoolInv, PoolTypes
  <2>3. \A u \in Threads \ {t} :
            pc'[u] = pc[u] /\ my'[u] = my[u] /\ (pc[u] \in Between => age'[u] = age[u])
    BY DEF OthersStay
  <2>4. RecentIn(mTop, Between, pc', my', age')
    <3>1. mTop.count = Turn(mTop.count, 0)
      BY <2>2, Turns DEF Tops
    <3> QED BY <2>1, <2>2, <2>3, <3>1 DEF RecentIn
  <2> QED BY <2>2, <2>4
<1>2. Reading'
  <2> SUFFICES ASSUME NEW u \in Threads
               PROVE  /\ pc'[u] \in {"GetNext", "GetSwap"} => my'[u].top.node # Null
                      /\ pc'[u] = "GetSwap" /\ age'[u] = 0 => my'[u].succ = next'[mTop'.node]
                      /\ pc'[u] = "PutSwap" => next'[my'[u].obj] = my'[u].top.node
    BY DEF Reading
  <2>0. mTop' = mTop /\ next' = next /\ Reading
    BY DEF PoolInv
  <2>1. CASE u # t
    <3>1. pc'[u] = pc[u] /\ my'[u] = my[u] /\ (pc[u] \in Between => age'[u] = age[u])
      BY <2>1 DEF OthersStay
    <3> QED BY <2>0, <3>1 DEF Reading, Between
  <2>2. CASE u = t
    <3>1. CASE pc[t] = "GetNext" /\ pc'[t] = "GetSwap"
               /\ my'[t].top = my[t].top /\ age'[t] = age[t] /\ my'[t].succ = next[my[t].top.node]
      <4>1. age[t] = 0 => my[t].top = mTop
        BY <3>1 DEF PoolInv, RecentIn, Between
      <4> QED BY <2>0, <2>2, <3>1, <4>1 DEF Reading
    <3>2. CASE pc'[t] \notin Between
      BY <2>2, <3>2 DEF Between
    <3>3. CASE /\ pc'[t] \in {"GetNext", "PutNext"} /\ my'[t].top = mTop
               /\ pc'[t] = "GetNext" => mTop.node # Null
      BY <2>2, <3>3
    <3> QED BY <3>1, <3>2, <3>3 DEF Enters
  <2> QED BY <2>1, <2>2
<1>3. Free' = Free /\ Pool' = Pool
  BY DEF Free, Pool
<1>4. Listed(Free, mTop.node, next)'
  BY <1>3 DEF PoolInv
<1>5. Pool \subseteq Objects
  BY ListFacts DEF PoolInv, Pool, Free
<1>6. OnePlaceIn(unborn', Pool', held', my')
  BY <1>3, <1>5, HandsKeepPlaces DEF PoolInv
<1> QED BY <1>1, <1>2, <1>4, <1>6 DEF PoolInv

\* An exchange on a top makes what others have read of it one exchange older.
LEMMA SwapAges ==
  ASSUME PoolTypes, NEW T, NEW U, NEW places, RecentIn(T, places, pc, my, age),
         NEW t \in Threads, OthersStay(t), U.count = Turn(T.count, 1),
         NoneOvertaken(t, places), Overtake(t, places), pc'[t] \notin places
  PROVE  RecentIn(U, places, pc', my', age') /\ age' \in [Threads -> Counts]
         /\ \A u \in Threads \ {t} : pc[u] \in places => age'[u] # 0
<1>1. ASSUME NEW u \in Threads, u # t, pc[u] \in places
      PROVE  age'[u] = age[u] + 1 /\ age[u] < CountSize - 1 /\ age[u] \in Counts
  BY <1>1 DEF NoneOvertaken, Overtake, PoolTypes
<1>2. ASSUME NEW u \in Threads, pc'[u] \in places
      PROVE  U.count = Turn(my'[u].top.count, age'[u]) /\ age'[u] # 0
  <2>1. u # t /\ pc[u] = pc'[u] /\ my'[u] = my[u]
    BY <1>2 DEF OthersStay
  <2>2. T.count = Turn(my[u].top.count, age[u]) /\ my[u].top.count \in Counts
    BY <1>2, <2>1 DEF RecentIn, PoolTypes, Locals, Tops
  <2>3. age'[u] = age[u] + 1 /\ age[u] < CountSize - 1 /\ age[u] \in Counts
    BY <1>1, <1>2, <2>1
  <2> QED BY <2>1, <2>2, <2>3, Turns
<1>3. RecentIn(U, places, pc', my', age')
  BY <1>2 DEF RecentIn
<1>4. \A u \in Threads : age'[u] \in Counts
  <2> SUFFICES ASSUME NEW u \in Threads PROVE age'[u] \in Counts
    OBVIOUS
  <2>1. CASE u # t /\ pc[u] \in places
    BY <1>1, <2>1, Turns
  <2>2. CASE ~ (u # t /\ pc[u] \in places)
    BY <2>2, Turns DEF Overtake, PoolTypes
  <2> QED BY <2>1, <2>2
<1>5. age' \in [Threads -> Counts]
  BY <1>4 DEF Overtake
<1>6. \A u \in Threads \ {t} : pc[u] \in places => age'[u] # 0
  <2> SUFFICES ASSUME NEW u \in Threads \ {t}, pc[u] \in places PROVE age'[u] # 0
    OBVIOUS
  <2> QED BY <1>1, Turns
<1> QED BY <1>3, <1>5, <1>6

\* After an exchange on mTop nobody has read the top as it is.
LEMMA SwapReading ==
  ASSUME PoolInv, NEW t \in Threads, OthersStay(t), UNCHANGED next, pc'[t] \notin Between,
         \A u \in Threads \ {t} : pc[u] \in Between => age'[u] # 0
  PROVE  Reading'
<1> SUFFICES ASSUME NEW u \in Threads
             PROVE  /\ pc'[u] \in {"GetNext", "GetSwap"} => my'[u].top.node # Null
                    /\ pc'[u] = "GetSwap" /\ age'[u] = 0 => my'[u].succ = next'[mTop'.node]
                    /\ pc'[u] = "PutSwap" => next'[my'[u].obj] = my'[u].top.node
  BY DEF Reading
<1>1. CASE u = t
  BY <1>1 DEF Between
<1>2. CASE u # t
  <2>1. pc'[u] = pc[u] /\ my'[u] = my[u] /\ (pc[u] \in Between => age'[u] # 0)
    BY <1>2 DEF OthersStay
  <2> QED BY <2>1 DEF PoolInv, Reading, Between
<1> QED BY <1>1, <1>2

LEMMA GetSwapStep ==
  ASSUME PoolInv, NEW t \in Threads, GetSwap(t)
  PROVE  PoolInv'
<1>0. /\ pc[t] = "GetSwap" /\ my[t] \in Locals /\ my[t].top \in Tops /\ my[t].succ \in Links
      /\ my[t].obj = Null /\ Null \notin Objects /\ PoolTypes
  BY PoolAssumption DEF GetSwap, PoolInv, PoolTypes, Locals, Carries, CarrierLabels
<1>1. CASE mTop = my[t].top
  <2>1. /\ NoneOvertaken(t, Between) /\ Overtake(t, Between)
        /\ mTop' = Advance(mTop, my[t].succ)
        /\ my' = [my EXCEPT ![t] = [Blank EXCEPT !.obj = my[t].top.node]]
        /\ pc' = [pc EXCEPT ![t] = "GetCount"]
        /\ UNCHANGED <<next, unborn, held>>
    BY <1>1 DEF GetSwap, Goto
  <2>2. OthersStay(t) /\ pc'[t] = "GetCount" /\ my'[t].obj = mTop.node /\ pc'[t] \notin Between
    BY <1>0, <1>1, <2>1 DEF OthersStay, Blank, PoolTypes, Between
  <2>3. age[t] = 0 /\ mTop.node # Null /\ my[t].succ = next[mTop.node]
    <3>1. age[t] = 0
      BY <1>0, <1>1, RecentFirst DEF PoolInv, PoolTypes, Between
    <3> QED BY <1>0, <1>1, <3>1 DEF PoolInv, Reading
  <2>4. /\ mTop' \in Tops /\ mTop'.node = next[mTop.node]
        /\ mTop'.count = Turn(mTop.count, 1)
    BY <1>0, <1>1, <2>1, <2>3, Advanced
  <2>5. /\ RecentIn(mTop', Between, pc', my', age') /\ age' \in [Threads -> Counts]
        /\ \A u \in Threads \ {t} : pc[u] \in Between => age'[u] # 0
    <3>1. RecentIn(mTop, Between, pc, my, age) /\ PoolTypes
      BY DEF PoolInv
    <3>2. /\ OthersStay(t) /\ pc'[t] \notin Between /\ mTop'.count = Turn(mTop.count, 1)
          /\ NoneOvertaken(t, Between) /\ Overtake(t, Between)
      BY <2>1, <2>2, <2>4
    <3> QED BY <3>1, <3>2, SwapAges
  <2>6. mTop.node \in Objects /\ Blank \in Locals
    <3>1. mTop.node \in Objects
      BY <1>0, <2>3 DEF PoolTypes, Tops, Links
    <3> QED BY <3>1, Turns DEF Blank, Locals, Tops, Links, Pointer
  <2>7. PoolTypes'
    <3>1. my' \in [Threads -> Locals]
      <4>1. [Blank EXCEPT !.obj = my[t].top.node] \in Locals
        BY <1>1, <2>6 DEF Locals, Links
      <4> QED BY <1>0, <2>1, <4>1 DEF PoolTypes
    <3>2. pc' \in [Threads -> Labels]
      BY <1>0, <2>1 DEF PoolTypes, Labels
    <3> QED BY <1>0, <2>1, <2>4, <2>5, <3>1, <3>2 DEF PoolTypes
  <2>8. Carries'
    BY <1>0, <2>2, <2>6 DEF PoolInv, Carries, CarrierLabels, OthersStay
  <2>9. Reading'
    BY <2>1, <2>2, <2>5, SwapReading
  <2>10. Listed(Tail(Free), next[mTop.node], next) /\ ToSet(Tail(Free)) = Pool \ {mTop.node}
         /\ mTop.node \in Pool
    BY <2>3, ListTail DEF PoolInv, Pool, Free
  <2>11. Free' = Tail(Free)
    <3>1. Chain(next[mTop.node], next) = Tail(Free)
      BY <2>10, ChainOf
    <3> QED BY <2>1, <2>4, <3>1 DEF Free
  <2>12. Listed(Free, mTop.node, next)'
    BY <2>1, <2>4, <2>10, <2>11
  <2>13. Pool' = Pool \ {mTop.node}
    BY <2>10, <2>11 DEF Pool, Free
  <2>14. OnePlaceIn(unborn', Pool', held', my')
    <3>1. \A u \in Threads : my'[u].obj = IF u = t THEN mTop.node ELSE my[u].obj
      BY <2>2 DEF OthersStay
    <3>2. OnePlaceIn(unborn, Pool, held, my)
      BY DEF PoolInv
    <3> QED BY <1>0, <2>1, <2>6, <2>10, <2>13, <3>1, <3>2 DEF OnePlaceIn
  <2> QED BY <2>5, <2>7, <2>8, <2>9, <2>12, <2>14 DEF PoolInv
<1>2. CASE mTop # my[t].top
  <2>1. /\ my' = [my EXCEPT ![t] = [Blank EXCEPT !.obj = my[t].obj]]
        /\ age' = [age EXCEPT ![t] = 0] /\ pc' = [pc EXCEPT ![t] = "GetRead"]
        /\ UNCHANGED <<mTop, next, unborn, held>>
    BY <1>2 DEF GetSwap, Again, Goto
  <2>2. /\ OthersStay(t) /\ pc'[t] = "GetRead" /\ my'[t].obj = my[t].obj
        /\ \A u \in Threads \ {t} : age'[u] = age[u]
    BY <1>0, <2>1 DEF OthersStay, Blank, PoolTypes
  <2>3. PoolTypes'
    <3>1. [Blank EXCEPT !.obj = my[t].obj] \in Locals
      BY <1>0, Turns DEF Blank, Locals, Tops, Links, Pointer
    <3> QED BY <1>0, <2>1, <3>1, Turns DEF PoolTypes, Labels
  <2>4. Carries'
    BY <1>0, <2>2 DEF PoolInv, Carries, CarrierLabels, OthersStay
  <2> QED BY <2>1, <2>2, <2>3, <2>4, QuietStep DEF Hands, Enters, Between
<1> QED BY <1>1, <1>2

LEMMA PutSwapStep ==
  ASSUME PoolInv, NEW t \in Threads, PutSwap(t)
  PROVE  PoolInv'
<1>0. /\ pc[t] = "PutSwap" /\ my[t] \in Locals /\ my[t].top \in Tops
      /\ my[t].obj # Null /\ my[t].obj \in Objects /\ Null \notin Objects /\ PoolTypes
  BY PoolAssumption DEF PutSwap, PoolInv, PoolTypes, Locals, Links, Carries, CarrierLabels
<1>a. Blank \in Locals
  BY Turns DEF Blank, Locals, Tops, Links, Pointer
<1>1. CASE mTop = my[t].top
  <2>1. /\ NoneOvertaken(t, Between) /\ Overtake(t, Between)
        /\ mTop' = Advance(mTop, my[t].obj) /\ my' = [my EXCEPT ![t] = Blank]
        /\ pc' = [pc EXCEPT ![t] = "PutCount"]
        /\ UNCHANGED <<next, unborn, held>>
    BY <1>1 DEF PutSwap, Goto
  <2>2. OthersStay(t) /\ pc'[t] = "PutCount" /\ my'[t].obj = Null /\ pc'[t] \notin Between
    BY <1>0, <2>1 DEF OthersStay, Blank, PoolTypes, Between
  <2>3. next[my[t].obj] = mTop.node
    BY <1>0, <1>1 DEF PoolInv, Reading
  <2>4. /\ mTop' \in Tops /\ mTop'.node = my[t].obj /\ mTop'.count = Turn(mTop.count, 1)
    BY <1>0, <1>1, <2>1, Advanced DEF Links
  <2>5. /\ RecentIn(mTop', Between, pc', my', age') /\ age' \in [Threads -> Counts]
        /\ \A u \in Threads \ {t} : pc[u] \in Between => age'[u] # 0
    <3>1. RecentIn(mTop, Between, pc, my, age) /\ PoolTypes
      BY DEF PoolInv
    <3>2. /\ OthersStay(t) /\ pc'[t] \notin Between /\ mTop'.count = Turn(mTop.count, 1)
          /\ NoneOvertaken(t, Between) /\ Overtake(t, Between)
      BY <2>1, <2>2, <2>4
    <3> QED BY <3>1, <3>2, SwapAges
  <2>7. PoolTypes'
    <3>1. my' \in [Threads -> Locals]
      BY <1>0, <1>a, <2>1 DEF PoolTypes
    <3>2. pc' \in [Threads -> Labels]
      BY <1>0, <2>1 DEF PoolTypes, Labels
    <3> QED BY <1>0, <2>1, <2>4, <2>5, <3>1, <3>2 DEF PoolTypes
  <2>8. Carries'
    BY <1>0, <2>2 DEF PoolInv, Carries, CarrierLabels, OthersStay
  <2>9. Reading'
    BY <2>1, <2>2, <2>5, SwapReading
  <2>10. my[t].obj \notin Pool /\ OnePlaceIn(unborn, Pool, held, my)
    BY DEF PoolInv, OnePlaceIn
  <2>11. /\ Listed(<<my[t].obj>> \o Free, my[t].obj, next)
         /\ ToSet(<<my[t].obj>> \o Free) = Pool \cup {my[t].obj}
    <3>1. my[t].obj \in Objects \ ToSet(Free)
      BY <1>0, <2>10 DEF Pool, Free
    <3>2. Listed(Free, mTop.node, next)
      BY DEF PoolInv
    <3>3. ToSet(Free) = Pool
      BY DEF Pool, Free
    <3> QED BY <2>3, <3>1, <3>2, <3>3, ListCons
  <2>12. Free' = <<my[t].obj>> \o Free
    <3>1. Chain(my[t].obj, next) = <<my[t].obj>> \o Free
      BY <2>11, ChainOf
    <3> QED BY <2>1, <2>4, <3>1 DEF Free
  <2>13. Listed(Free, mTop.node, next)'
    BY <2>1, <2>4, <2>11, <2>12
  <2>14. Pool' = Pool \cup {my[t].obj}
    BY <2>11, <2>12 DEF Pool, Free
  <2>15. OnePlaceIn(unborn', Pool', held', my')
    <3>1. \A u \in Threads : my'[u].obj = IF u = t THEN Null ELSE my[u].obj
      BY <2>2 DEF OthersStay
    <3>2. Pool \subseteq Objects
      BY ListFacts DEF PoolInv, Pool, Free
    <3> QED BY <1>0, <2>1, <2>10, <2>14, <3>1, <3>2 DEF OnePlaceIn, PoolTypes
  <2> QED BY <2>5, <2>7, <2>8, <2>9, <2>13, <2>15 DEF PoolInv
<1>2. CASE mTop # my[t].top
  <2>1. /\ my' = [my EXCEPT ![t] = [Blank EXCEPT !.obj = my[t].obj]]
        /\ age' = [age EXCEPT ![t] = 0] /\ pc' = [pc EXCEPT ![t] = "PutRead"]
        /\ UNCHANGED <<mTop, next, unborn, held>>
    BY <1>2 DEF PutSwap, Again, Goto
  <2>2. /\ OthersStay(t) /\ pc'[t] = "PutRead" /\ my'[t].obj = my[t].obj
        /\ \A u \in Threads \ {t} : age'[u] = age[u]
    BY <1>0, <2>1 DEF OthersStay, Blank, PoolTypes
  <2>3. PoolTypes'
    <3>1. [Blank EXCEPT !.obj = my[t].obj] \in Locals
      BY <1>0, Turns DEF Blank, Locals, Tops, Links, Pointer
    <3> QED BY <1>0, <2>1, <3>1, Turns DEF PoolTypes, Labels
  <2>4. Carries'
    BY <1>0, <2>2 DEF PoolInv, Carries, CarrierLabels, OthersStay
  <2> QED BY <2>1, <2>2, <2>3, <2>4, QuietStep DEF Hands, Enters, Between
<1> QED BY <1>1, <1>2

LEMMA PutNextStep ==
  ASSUME PoolInv, NEW t \in Threads, PutNext(t)
  PROVE  PoolInv'
<1>0. /\ pc[t] = "PutNext" /\ my[t] \in Locals /\ my[t].top \in Tops
      /\ my[t].obj # Null /\ my[t].obj \in Objects /\ Null \notin Objects /\ PoolTypes
  BY PoolAssumption DEF PutNext, PoolInv, PoolTypes, Locals, Links, Carries, CarrierLabels
<1>1. /\ next' = [next EXCEPT ![my[t].obj] = my[t].top.node]
      /\ pc' = [pc EXCEPT ![t] = "PutSwap"] /\ UNCHANGED <<mTop, unborn, held, my, age>>
  BY DEF PutNext, Goto
<1>2. /\ \A u \in Threads \ {t} : pc'[u] = pc[u]
      /\ pc'[t] = "PutSwap" /\ next'[my[t].obj] = my[t].top.node
      /\ \A o \in Objects \ {my[t].obj} : next'[o] = next[o]
  BY <1>0, <1>1 DEF PoolTypes
<1>3. my[t].obj \notin Pool /\ OnePlaceIn(unborn, Pool, held, my) /\ Listed(Free, mTop.node, next)
  BY DEF PoolInv, OnePlaceIn
<1>4. PoolTypes'
  BY <1>0, <1>1 DEF PoolTypes, Labels, Tops
<1>5. Carries'
  BY <1>0, <1>1, <1>2 DEF PoolInv, Carries, CarrierLabels
<1>6. RecentIn(mTop', Between, pc', my', age')
  <2>1. \A u \in Threads : pc'[u] \in Between => pc[u] \in Between
    BY <1>0, <1>2 DEF Between
  <2> QED BY <1>1, <2>1 DEF PoolInv, RecentIn
<1>7. Reading'
  <2> SUFFICES ASSUME NEW u \in Threads
               PROVE  /\ pc'[u] \in {"GetNext", "GetSwap"} => my'[u].top.node # Null
                      /\ pc'[u] = "GetSwap" /\ age'[u] = 0 => my'[u].succ = next'[mTop'.node]
                      /\ pc'[u] = "PutSwap" => next'[my'[u].obj] = my'[u].top.node
    BY DEF Reading
  <2>1. CASE u = t
    BY <1>1, <1>2, <2>1
  <2>2. CASE u # t
    <3>1. pc'[u] = pc[u] /\ my'[u] = my[u] /\ age'[u] = age[u] /\ mTop' = mTop
      BY <1>1, <1>2, <2>2
    <3>2. CASE pc[u] = "GetSwap" /\ age[u] = 0
      <4>1. my[u].top = mTop /\ mTop.node # Null /\ my[u].succ = next[mTop.node]
        BY <3>2 DEF PoolInv, RecentIn, Reading, Between
      <4>2. mTop.node \in Pool
        BY <1>3, <4>1, ListTail DEF Pool, Free
      <4>3. mTop.node \in Objects \ {my[t].obj}
        BY <1>3, <4>1, <4>2, ListTail
      <4> QED BY <1>2, <3>1, <3>2, <4>1, <4>3
    <3>3. CASE pc[u] = "PutSwap"
      <4>1. my[u].obj # Null /\ my[u].obj \in Objects
        BY <1>0, <3>3 DEF PoolInv, Carries, CarrierLabels, PoolTypes, Locals, Links
      <4>2. my[u].obj # my[t].obj
        BY <1>3, <2>2, <4>1 DEF OnePlaceIn
      <4>3. next'[my[u].obj] = next[my[u].obj]
        BY <1>2, <4>1, <4>2
      <4> QED BY <3>1, <3>3, <4>3 DEF PoolInv, Reading
    <3>4. pc[u] \in {"GetNext", "GetSwap"} => my[u].top.node # Null
      BY DEF PoolInv, Reading
    <3> QED BY <3>1, <3>2, <3>3, <3>4
  <2> QED BY <2>1, <2>2
<1>8. Listed(Free, mTop.node, next')
  <2>1. my[t].obj \notin ToSet(Free)
    BY <1>3 DEF Pool, Free
  <2> QED BY <1>0, <1>1, <1>3, <2>1, ListKept DEF PoolTypes, Links
<1>9. Free' = Free
  <2>1. Chain(mTop.node, next') = Free
    BY <1>8, ChainOf
  <2> QED BY <1>1, <2>1 DEF Free
<1>10. Listed(Free, mTop.node, next)'
  BY <1>1, <1>8, <1>9
<1>11. Pool' = Pool
  BY <1>9 DEF Pool, Free
<1>12. OnePlaceIn(unborn', Pool', held', my')
  BY <1>1, <1>3, <1>11
<1> QED BY <1>4, <1>5, <1>6, <1>7, <1>10, <1>12 DEF PoolInv

\* what most steps are: t goes on, and takes nothing from or to the list
LEMMA GoStep ==
  ASSUME PoolInv, NEW t \in Threads, NEW l \in Labels,
         pc' = [pc EXCEPT ![t] = l], UNCHANGED <<mTop, next, unborn, held, my, age>>,
         l \in CarrierLabels <=> pc[t] \in CarrierLabels, l \notin Between
  PROVE  PoolInv'
<1>1. PoolTypes
  BY DEF PoolInv
<1>2. OthersStay(t) /\ pc'[t] = l /\ my'[t] = my[t]
  BY <1>1 DEF OthersStay, PoolTypes
<1>3. PoolTypes'
  BY <1>1 DEF PoolTypes
<1>4. Carries'
  BY <1>1, <1>2 DEF PoolInv, Carries, OthersStay
<1> QED BY <1>2, <1>3, <1>4, QuietStep DEF Hands, Enters

LEMMA GetObjectStep ==
  ASSUME PoolInv, NEW t \in Threads, NEW l \in {"Keep", "PushData"}, GetObject(t, l)
  PROVE  PoolInv'
<1>0. /\ PoolTypes /\ Null \notin Objects /\ my[t] \in Locals /\ l \in Labels
      /\ my[t].top \in Tops /\ my[t].obj \in Links /\ Carries
  BY PoolAssumption DEF PoolInv, PoolTypes, Locals, Labels
<1>1. CASE GetRead(t)
  <2>1. /\ pc[t] = "GetRead" /\ my' = [my EXCEPT ![t].top = mTop]
        /\ age' = [age EXCEPT ![t] = 0]
        /\ pc' = [pc EXCEPT ![t] = IF mTop.node = Null THEN "GrowAll" ELSE "GetNext"]
        /\ UNCHANGED <<mTop, next, unborn, held>>
    BY <1>1 DEF GetRead, Goto, poolVars
  <2>2. /\ OthersStay(t) /\ my'[t].obj = my[t].obj /\ my'[t].top = mTop /\ age'[t] = 0
        /\ \A u \in Threads \ {t} : age'[u] = age[u]
        /\ pc'[t] = IF mTop.node = Null THEN "GrowAll" ELSE "GetNext"
    BY <1>0, <2>1 DEF OthersStay, PoolTypes, Locals
  <2>3. PoolTypes'
    BY <1>0, <2>1, Turns DEF PoolTypes, Labels, Locals
  <2>4. Carries'
    BY <1>0, <2>1, <2>2 DEF Carries, CarrierLabels, OthersStay
  <2> QED BY <2>1, <2>2, <2>3, <2>4, QuietStep DEF Hands, Enters, Between
<1>2. CASE GrowAll(t)
  <2>1. /\ pc[t] = "GrowAll" /\ pc' = [pc EXCEPT ![t] = "GrowActive"]
        /\ UNCHANGED <<mTop, next, unborn, held, my, age>>
    BY <1>2 DEF GrowAll, Goto
  <2> QED BY <2>1, GoStep DEF Labels, CarrierLabels, Between
<1>3. CASE GrowActive(t, l)
  <2>1. PICK o \in unborn : /\ pc[t] = "GrowActive" /\ pc' = [pc EXCEPT ![t] = l]
                            /\ unborn' = unborn \ {o}
                            /\ my' = [my EXCEPT ![t] = [Blank EXCEPT !.obj = o]]
                            /\ UNCHANGED <<mTop, next, held, age>>
    BY <1>3 DEF GrowActive, Goto
  <2>2. /\ OthersStay(t) /\ my'[t].obj = o /\ pc'[t] = l /\ o \in Objects
        /\ my[t].obj = Null
    BY <1>0, <2>1 DEF OthersStay, PoolTypes, Blank, Carries, CarrierLabels
  <2>3. PoolTypes'
    <3>1. [Blank EXCEPT !.obj = o] \in Locals
      BY <2>2, Turns DEF Blank, Locals, Tops, Links, Pointer
    <3> QED BY <1>0, <2>1, <3>1 DEF PoolTypes
  <2>4. Carries'
    BY <1>0, <2>1, <2>2 DEF Carries, CarrierLabels, OthersStay
  <2>5. Hands(t)
    BY <2>1, <2>2 DEF Hands
  <2> QED BY <2>1, <2>2, <2>3, <2>4, <2>5, QuietStep DEF Enters, Between
<1>4. CASE GetNext(t)
  <2>1. /\ pc[t] = "GetNext" /\ my' = [my EXCEPT ![t].succ = next[my[t].top.node]]
        /\ pc' = [pc EXCEPT ![t] = "GetSwap"]
        /\ UNCHANGED <<mTop, next, unborn, held, age>>
    BY <1>4 DEF GetNext, Goto, poolVars
  <2>2. /\ OthersStay(t) /\ my'[t].obj = my[t].obj /\ my'[t].top = my[t].top
        /\ my'[t].succ = next[my[t].top.node] /\ pc'[t] = "GetSwap"
    BY <1>0, <2>1 DEF OthersStay, PoolTypes, Locals
  <2>3. PoolTypes'
    <3>1. my[t].top.node \in Objects
      BY <1>0, <2>1 DEF PoolInv, Reading, Tops, Links
    <3> QED BY <1>0, <2>1, <3>1 DEF PoolTypes, Labels, Locals
  <2>4. Carries'
    BY <1>0, <2>1, <2>2 DEF Carries, CarrierLabels, OthersStay
  <2> QED BY <2>1, <2>2, <2>3, <2>4, QuietStep DEF Hands, Enters
<1>5. CASE GetCount(t, l)
  <2>1. /\ pc[t] = "GetCount" /\ pc' = [pc EXCEPT ![t] = l]
        /\ UNCHANGED <<mTop, next, unborn, held, my, age>>
    BY <1>5 DEF GetCount, Goto
  <2> QED BY <1>0, <2>1, GoStep DEF CarrierLabels, Between
<1> QED BY <1>1, <1>2, <1>3, <1>4, <1>5, GetSwapStep DEF GetObject

LEMMA ReleaseObjectStep ==
  ASSUME PoolInv, NEW t \in Threads, NEW l \in {"Idle", "ReturnPop"}, ReleaseObject(t, l)
  PROVE  PoolInv'
<1>0. /\ PoolTypes /\ Null \notin Objects /\ my[t] \in Locals /\ l \in Labels
      /\ my[t].top \in Tops /\ my[t].obj \in Links /\ Carries
  BY PoolAssumption DEF PoolInv, PoolTypes, Locals, Labels
<1>1. CASE PutRead(t)
  <2>1. /\ pc[t] = "PutRead" /\ my' = [my EXCEPT ![t].top = mTop]
        /\ age' = [age EXCEPT ![t] = 0] /\ pc' = [pc EXCEPT ![t] = "PutNext"]
        /\ UNCHANGED <<mTop, next, unborn, held>>
    BY <1>1 DEF PutRead, Goto, poolVars
  <2>2. /\ OthersStay(t) /\ my'[t].obj = my[t].obj /\ my'[t].top = mTop /\ age'[t] = 0
        /\ \A u \in Threads \ {t} : age'[u] = age[u]
        /\ pc'[t] = "PutNext"
    BY <1>0, <2>1 DEF OthersStay, PoolTypes, Locals
  <2>3. PoolTypes'
    BY <1>0, <2>1, Turns DEF PoolTypes, Labels, Locals
  <2>4. Carries'
    BY <1>0, <2>1, <2>2 DEF Carries, CarrierLabels, OthersStay
  <2> QED BY <2>1, <2>2, <2>3, <2>4, QuietStep DEF Hands, Enters
<1>2. CASE PutCount(t, l)
  <2>1. /\ pc[t] = "PutCount" /\ pc' = [pc EXCEPT ![t] = l]
        /\ UNCHANGED <<mTop, next, unborn, held, my, age>>
    BY <1>2 DEF PutCount, Goto
  <2> QED BY <1>0, <2>1, GoStep DEF CarrierLabels, Between
<1> QED BY <1>1, <1>2, PutNextStep, PutSwapStep DEF ReleaseObject

\* t puts what it has with what is held
LEMMA HoldStep ==
  ASSUME PoolInv, NEW t \in Threads, PoolTypes', my[t].obj # Null,
         UNCHANGED <<mTop, next, unborn>>, held' = held \cup {my[t].obj},
         my' = [my EXCEPT ![t] = Blank], pc' = [pc EXCEPT ![t] = "Idle"],
         \A u \in Threads \ {t} : pc[u] \in Between => age'[u] = age[u]
  PROVE  PoolInv'
<1>1. PoolTypes /\ Carries
  BY DEF PoolInv
<1>2. OthersStay(t) /\ my'[t].obj = Null /\ pc'[t] = "Idle"
  BY <1>1 DEF OthersStay, PoolTypes, Blank
<1>3. Carries'
  BY <1>1, <1>2 DEF Carries, CarrierLabels, OthersStay
<1> QED BY <1>2, <1>3, QuietStep DEF Hands, Enters, Between

\* t takes o from what is held
LEMMA TakeStep ==
  ASSUME PoolInv, NEW t \in Threads, PoolTypes', NEW o \in held, my[t].obj = Null,
         UNCHANGED <<mTop, next, unborn>>, held' = held \ {o}, OthersStay(t),
         my'[t].obj = o, pc'[t] \in {"PutRead", "PopData"},
         \A u \in Threads \ {t} : pc[u] \in Between => age'[u] = age[u]
  PROVE  PoolInv'
<1>1. PoolTypes /\ Carries /\ o # Null
  BY PoolAssumption DEF PoolInv, PoolTypes
<1>2. Carries'
  BY <1>1 DEF Carries, CarrierLabels, OthersStay
<1>3. Hands(t)
  BY DEF Hands
<1> QED BY <1>2, <1>3, QuietStep DEF Enters, Between

LEMMA UserStep ==
  ASSUME PoolInv, NEW t \in Threads, Get(t) \/ Keep(t) \/ Release(t)
  PROVE  PoolInv'
<1>0. PoolTypes /\ Carries /\ my[t] \in Locals /\ Null \notin Objects
  BY PoolAssumption DEF PoolInv, PoolTypes
<1>1. CASE Get(t)
  <2>1. /\ pc[t] = "Idle" /\ pc' = [pc EXCEPT ![t] = "GetRead"]
        /\ UNCHANGED <<mTop, next, unborn, held, my, age>>
    BY <1>1 DEF Get, Goto, poolVars
  <2> QED BY <2>1, GoStep DEF Labels, CarrierLabels, Between
<1>2. CASE Keep(t)
  <2>1. /\ pc[t] = "Keep" /\ pc' = [pc EXCEPT ![t] = "Idle"] /\ held' = held \cup {my[t].obj}
        /\ my' = [my EXCEPT ![t] = Blank] /\ UNCHANGED <<mTop, next, unborn, age>>
    BY <1>2 DEF Keep, Goto
  <2>2. my[t].obj # Null /\ my[t].obj \in Objects
    BY <1>0, <2>1 DEF Carries, CarrierLabels, Locals, Links
  <2>3. PoolTypes'
    <3>1. Blank \in Locals
      BY Turns DEF Blank, Locals, Tops, Links, Pointer
    <3> QED BY <1>0, <2>1, <2>2, <3>1 DEF PoolTypes, Labels
  <2> QED BY <2>1, <2>2, <2>3, HoldStep
<1>3. CASE Release(t)
  <2>1. PICK o \in held : /\ pc[t] = "Idle" /\ pc' = [pc EXCEPT ![t] = "PutRead"]
                          /\ held' = held \ {o} /\ my' = [my EXCEPT ![t].obj = o]
                          /\ UNCHANGED <<mTop, next, unborn, age>>
    BY <1>3 DEF Release, Goto
  <2>2. /\ my[t].obj = Null /\ o \in Objects /\ OthersStay(t) /\ my'[t].obj = o
        /\ pc'[t] = "PutRead"
    BY <1>0, <2>1 DEF Carries, CarrierLabels, PoolTypes, OthersStay, Locals
  <2>3. PoolTypes'
    BY <1>0, <2>1, <2>2 DEF PoolTypes, Labels, Locals, Links
  <2> QED BY <2>1, <2>2, <2>3, TakeStep
<1> QED BY <1>1, <1>2, <1>3

LEMMA PoolBegins == Init => PoolInv
<1> SUFFICES ASSUME Init PROVE PoolInv
  OBVIOUS
<1>1. PICK s \in kSubset(Size, Objects) : \E m \in SetToSeqs(s) :
        /\ mTop = Pointer(IF Size = 0 THEN Null ELSE m[1], 0)
        /\ next = [o \in Objects |->
                     LET later == {i \in 2 .. Size : m[i - 1] = o}
                     IN IF later = {} THEN Null ELSE m[Min(later)]]
        /\ unborn = Objects \ s /\ held = {}
        /\ pc = [t \in Threads |-> "Idle"] /\ my = [t \in Threads |-> Blank]
        /\ age = [t \in Threads |-> 0]
  BY DEF Init
<1>2. PICK made \in SetToSeqs(s) :
        /\ mTop = Pointer(IF Size = 0 THEN Null ELSE made[1], 0)
        /\ next = [o \in Objects |->
                     LET later == {i \in 2 .. Size : made[i - 1] = o}
                     IN IF later = {} THEN Null ELSE made[Min(later)]]
        /\ unborn = Objects \ s /\ held = {}
        /\ pc = [t \in Threads |-> "Idle"] /\ my = [t \in Threads |-> Blank]
        /\ age = [t \in Threads |-> 0]
  BY <1>1
<1>3. s \subseteq Objects /\ Cardinality(s) = Size /\ IsFiniteSet(s) /\ Size \in Nat
      /\ Null \notin Objects
  <2>1. s \in SUBSET Objects /\ Cardinality(s) = Size
    BY <1>1 DEF kSubset
  <2>2. Cardinality(Objects) \in Nat /\ IsFiniteSet(s)
    BY <2>1, FS_CardinalityType, FS_Subset, PoolAssumption
  <2> QED BY <2>1, <2>2, PoolAssumption
<1>4. /\ made \in [1 .. Size -> s]
      /\ \A i, j \in 1 .. Size : made[i] = made[j] => i = j
  BY <1>3 DEF SetToSeqs
<1>5. made \in Seq(Objects) /\ Len(made) = Size /\ DOMAIN made = 1 .. Size
  BY <1>3, <1>4
<1>6. ToSet(made) = s
  <2>1. made \in Injection(1 .. Size, s)
    BY <1>4 DEF Injection, IsInjective
  <2>2. Cardinality(1 .. Size) = Cardinality(s)
    BY <1>3, FS_Interval
  <2>3. made \in Surjection(1 .. Size, s)
    BY <1>3, <2>1, <2>2, FS_Injection
  <2> QED BY <1>4, <1>5, <2>3 DEF Surjection, ToSet
<1>7. ASSUME NEW j \in 1 .. Size
      PROVE  next[made[j]] = IF j = Size THEN Null ELSE made[j + 1]
  <2> DEFINE later == {i \in 2 .. Size : made[i - 1] = made[j]}
  <2>1. made[j] \in Objects /\ next[made[j]] = IF later = {} THEN Null ELSE made[Min(later)]
    BY <1>2, <1>3, <1>4
  <2>2. \A i \in 2 .. Size : i - 1 \in 1 .. Size
    BY <1>3
  <2>3. \A i \in later : i = j + 1 /\ i \in 2 .. Size
    <3> TAKE i \in later
    <3>1. i - 1 = j
      BY <1>4, <2>2
    <3> QED BY <3>1
  <2>4. CASE j = Size
    <3>1. j + 1 \notin 2 .. Size
      BY <1>3, <2>4
    <3>2. later = {}
      BY <2>3, <3>1
    <3> QED BY <2>1, <2>4, <3>2
  <2>5. CASE j # Size
    <3>1. j + 1 \in 2 .. Size /\ (j + 1) - 1 = j
      BY <1>3, <2>5
    <3>2. j + 1 \in later
      BY <3>1
    <3>3. later = {j + 1}
      BY <2>3, <3>2
    <3>4. Min({j + 1}) = j + 1
      BY <3>1 DEF Min
    <3> QED BY <2>1, <2>5, <3>2, <3>3, <3>4
  <2> QED BY <2>4, <2>5
<1>8. Listed(made, mTop.node, next)
  <2>1. mTop.node = IF made = <<>> THEN Null ELSE made[1]
    <3>1. made = <<>> <=> Size = 0
      BY <1>5, EmptySeq
    <3> QED BY <1>2, <3>1 DEF Pointer
  <2> QED BY <1>4, <1>5, <1>7, <2>1 DEF Listed
<1>9. Free = made
  BY <1>8, ChainOf DEF Free
<1>10. PoolTypes
  <2>1. mTop.node \in Links
    <3>1. Size # 0 => 1 \in 1 .. Size
      BY <1>3
    <3> QED BY <1>2, <1>3, <1>4, <3>1 DEF Pointer, Links
  <2>2. mTop \in Tops
    BY <1>2, <2>1, Turns DEF Pointer, Tops
  <2>3. \A o \in Objects : next[o] \in Links
    <3> SUFFICES ASSUME NEW o \in Objects PROVE next[o] \in Links
      OBVIOUS
    <3>1. CASE \E j \in 1 .. Size : made[j] = o
      <4>1. PICK j \in 1 .. Size : made[j] = o
        BY <3>1
      <4>2. j # Size => j + 1 \in 1 .. Size
        BY <1>3
      <4> QED BY <1>3, <1>4, <1>7, <4>1, <4>2 DEF Links
    <3>2. CASE ~ \E j \in 1 .. Size : made[j] = o
      <4>1. \A i \in 2 .. Size : i - 1 \in 1 .. Size
        BY <1>3
      <4>2. {i \in 2 .. Size : made[i - 1] = o} = {}
        BY <3>2, <4>1
      <4> QED BY <1>2, <4>2 DEF Links
    <3> QED BY <3>1, <3>2
  <2>4. next \in [Objects -> Links]
    BY <1>2, <2>3
  <2>5. Blank \in Locals
    BY Turns DEF Blank, Locals, Tops, Links, Pointer
  <2> QED BY <1>2, <1>3, <2>2, <2>4, <2>5, Turns DEF PoolTypes, Labels
<1>11. Carries /\ Reading
  BY <1>2 DEF Carries, Reading, CarrierLabels, Blank
<1>12. RecentIn(mTop, Between, pc, my, age)
  BY <1>2 DEF RecentIn, Between
<1>13. OnePlaceIn(unborn, Pool, held, my)
  <2>1. Pool = s
    BY <1>6, <1>9 DEF Pool, Free
  <2>2. \A t \in Threads : my[t].obj = Null
    BY <1>2 DEF Blank
  <2> QED BY <1>2, <1>3, <2>1, <2>2 DEF OnePlaceIn
<1> QED BY <1>8, <1>9, <1>10, <1>11, <1>12, <1>13 DEF PoolInv

LEMMA PoolNext == PoolInv /\ [Next]_vars => PoolInv'
<1> SUFFICES ASSUME PoolInv, [Next]_vars PROVE PoolInv'
  OBVIOUS
<1>1. CASE UNCHANGED vars
  BY <1>1 DEF vars, poolVars, PoolInv, PoolTypes, Carries, Reading, RecentIn, Free, Pool,
              OnePlaceIn
<1>2. ASSUME NEW t \in Threads,
             Get(t) \/ GetObject(t, "Keep") \/ Keep(t) \/ Release(t) \/ ReleaseObject(t, "Idle")
      PROVE  PoolInv'
  BY <1>2, UserStep, GetObjectStep, ReleaseObjectStep
<1> QED BY <1>1, <1>2 DEF Next

LEMMA PoolAccounts == PoolInv => ObjectsAccounted
<1> SUFFICES ASSUME PoolInv PROVE ObjectsAccounted
  OBVIOUS
<1> DEFINE carried == {my[t].obj : t \in Carriers}
<1>0. /\ PoolTypes /\ OnePlaceIn(unborn, Pool, held, my) /\ Null \notin Objects
      /\ Listed(Free, mTop.node, next)
  BY PoolAssumption DEF PoolInv
<1>1. IsInjective(Chain(mTop.node, next))
  <2>1. \A i, j \in DOMAIN Free : Free[i] = Free[j] => i = j
    BY <1>0, ListFacts
  <2> QED BY <2>1 DEF IsInjective, Free
<1>2. \A t, u \in Carriers : t # u => my[t].obj # my[u].obj
  BY <1>0 DEF OnePlaceIn, Carriers
<1>3. /\ Pool \subseteq Objects /\ unborn \subseteq Objects /\ held \subseteq Objects
      /\ carried \subseteq Objects
  <2>1. Pool \subseteq Objects
    BY <1>0, ListFacts DEF Pool, Free
  <2> QED BY <1>0, <2>1 DEF PoolTypes, Locals, Links, Carriers
<1>4. /\ unborn \cap Pool = {} /\ (unborn \cup Pool) \cap carried = {}
      /\ ((unborn \cup Pool) \cup carried) \cap held = {}
  BY <1>0 DEF OnePlaceIn, Carriers
<1>5. ((unborn \cup Pool) \cup carried) \cup held = Objects
  <2>1. ASSUME NEW o \in Objects PROVE o \in unborn \cup Pool \cup held \/ o \in carried
    <3>1. CASE \E t \in Threads : my[t].obj = o
      BY <1>0, <3>1 DEF Carriers
    <3>2. CASE o \in unborn \cup Pool \cup held
      BY <3>2
    <3> QED BY <1>0, <3>1, <3>2 DEF OnePlaceIn
  <2> QED BY <1>3, <2>1
<1> HIDE DEF carried
<1>6. IsFiniteSet(unborn) /\ IsFiniteSet(Pool) /\ IsFiniteSet(held) /\ IsFiniteSet(carried)
  BY <1>3, FS_Subset, PoolAssumption
<1>7. Cardinality(Objects) =
        Cardinality(unborn) + Cardinality(Pool) + Cardinality(carried) + Cardinality(held)
  <2> DEFINE S2 == unborn \cup Pool
             S3 == S2 \cup carried
  <2>1. IsFiniteSet(S2) /\ Cardinality(S2) =
            Cardinality(unborn) + Cardinality(Pool) - Cardinality({})
    BY <1>4, <1>6, FS_Union
  <2>2. IsFiniteSet(S3) /\ Cardinality(S3) =
            Cardinality(S2) + Cardinality(carried) - Cardinality({})
    <3>1. S2 \cap carried = {}
      BY <1>4
    <3> HIDE DEF S2
    <3> QED BY <1>6, <2>1, <3>1, FS_Union
  <2>3. Cardinality(Objects) = Cardinality(S3) + Cardinality(held) - Cardinality({})
    <3>1. S3 \cap held = {} /\ S3 \cup held = Objects
      BY <1>4, <1>5
    <3> HIDE DEF S2, S3
    <3> QED BY <1>6, <2>2, <3>1, FS_Union
  <2>4. /\ Cardinality(unborn) \in Nat /\ Cardinality(Pool) \in Nat
        /\ Cardinality(carried) \in Nat /\ Cardinality(held) \in Nat /\ Cardinality({}) = 0
    BY <1>6, FS_CardinalityType, FS_EmptySet
  <2> HIDE DEF S2, S3
  <2> QED BY <2>1, <2>2, <2>3, <2>4
<1> QED BY <1>1, <1>2, <1>5, <1>7 DEF ObjectsAccounted, carried

\* GetObject and ReleaseObject neither give an object out twice nor lose one,
\* whatever threads do between their reads and their exchanges: an exchange on
\* a top that looks the same finds the list the same, because of the count.
THEOREM NoObjectTwice == Spec => []ObjectsAccounted
<1> QED BY PoolBegins, PoolNext, PoolAccounts, PTL DEF Spec

--------------------------------------------------------------------------------
(* The stack.                                                              *)

\* where a thread has an item of its own
ItemLabels ==
    {"GetRead", "GrowAll", "GrowActive", "GetNext", "GetSwap", "GetCount",
     "PushData", "PushRead", "PushLink", "PushSwap",
     "PutRead", "PutNext", "PutSwap", "PutCount", "ReturnPop"}
PopLabels == {"PopRead", "PopLink", "PopSwap"}

StackTypes ==
    /\ top \in Tops /\ link \in [Objects -> Links] /\ data \in [Objects -> Items \cup {NoItem}]
    /\ out \subseteq Items /\ item \in [Threads -> Items \cup {NoItem}]

\* Reading, for the top of the stack
TopReading ==
    \A t \in Threads :
        /\ pc[t] \in {"PopLink", "PopSwap"} => my[t].top.node # Null
        /\ pc[t] = "PopSwap" /\ age[t] = 0 => my[t].succ = link[top.node]
        /\ pc[t] = "PushSwap" => link[my[t].obj] = my[t].top.node

\* There is a node for everybody who is to pop one, and none was ever allocated
\* but by the constructor.
Popping == Cardinality(At(PopLabels)) <= Len(Nodes)
NoGrowth ==
    /\ \A t \in Threads : pc[t] \notin {"GrowAll", "GrowActive", "Keep"}
    /\ Cardinality(Objects \ unborn) = Size

\* The nodes of the stack, and the node of a thread that is about to push it or
\* has just popped it, have their item.
HasItem(t) ==
    /\ item[t] \in Items <=> pc[t] \in ItemLabels
    /\ pc[t] \in {"PushRead", "PushLink", "PushSwap"} => data[my[t].obj] = item[t]
    /\ pc[t] = "PopData" => data[my[t].obj] \in Items
ItemsHeld == (\A t \in Threads : HasItem(t)) /\ \A n \in held : data[n] \in Items

\* No item is in two places.
Has(t) == IF pc[t] = "PopData" THEN data[my[t].obj] ELSE item[t]
UniqueItems ==
    /\ \A n, m \in held : data[n] = data[m] => n = m
    /\ \A t, u \in Threads : Has(t) \in Items /\ Has(t) = Has(u) => t = u
    /\ \A t \in Threads, n \in held : Has(t) # data[n]
    /\ \A t \in Threads : Has(t) \notin out
    /\ \A n \in held : data[n] \notin out

TopInv ==
    /\ TopReading
    /\ RecentIn(top, BetweenTops, pc, my, age)
    /\ Listed(Nodes, top.node, link) /\ ToSet(Nodes) = held

StackInv == PoolInv /\ StackTypes /\ TopInv /\ Popping /\ NoGrowth /\ ItemsHeld /\ UniqueItems

LEMMA ThreadFacts ==
  ASSUME StackInv, NEW t \in Threads
  PROVE  /\ PoolInv /\ PoolTypes /\ StackTypes /\ my[t] \in Locals /\ my[t].top \in Tops
         /\ my[t].obj \in Links /\ my[t].succ \in Links /\ Null \notin Objects
         /\ NoItem \notin Items /\ Blank \in Locals /\ 0 \in Counts
         /\ (pc[t] \in CarrierLabels => my[t].obj \in Objects)
         /\ (my[t].obj \in Objects => pc[t] \in CarrierLabels)
         /\ (my[t].obj = Null <=> pc[t] \notin CarrierLabels)
         /\ my[t].obj \notin held
         /\ \A u \in Threads : my[t].obj = my[u].obj /\ t # u => my[t].obj = Null
<1>1. Blank \in Locals /\ 0 \in Counts
  BY Turns DEF Blank, Locals, Tops, Links, Pointer
<1>2. /\ PoolInv /\ PoolTypes /\ StackTypes /\ Null \notin Objects /\ NoItem \notin Items /\ Carries
  BY PoolAssumption, StackAssumption DEF StackInv, PoolInv
<1>3. /\ my[t] \in Locals /\ my[t].top \in Tops /\ my[t].obj \in Links /\ my[t].succ \in Links
  BY <1>2 DEF PoolTypes, Locals
<1>4. my[t].obj # Null <=> pc[t] \in CarrierLabels
  BY <1>2 DEF Carries
<1>5. /\ my[t].obj \notin held
      /\ \A u \in Threads : my[t].obj = my[u].obj /\ t # u => my[t].obj = Null
  BY <1>2 DEF PoolInv, OnePlaceIn
<1> QED BY <1>1, <1>2, <1>3, <1>4, <1>5 DEF Links

\* Pigeons: were the pool empty while a thread has an item and no node yet, there
\* would be more nodes than items to go with them.
LEMMA NodeForPush ==
  ASSUME StackInv, NEW t \in Threads, pc[t] = "GetRead"
  PROVE  mTop.node # Null
<1> SUFFICES ASSUME mTop.node = Null PROVE FALSE
  OBVIOUS
<1> DEFINE S == Objects \ unborn
           T == Items \ {item[t]}
           By(o) == CHOOSE u \in Threads : my[u].obj = o
           f == [o \in S |-> IF o \in held THEN data[o] ELSE Has(By(o))]
<1>0. /\ PoolTypes /\ Null \notin Objects /\ OnePlaceIn(unborn, Pool, held, my)
      /\ Listed(Free, mTop.node, next)
  BY PoolAssumption DEF StackInv, PoolInv
<1>1. Pool = {}
  <2>1. Free = <<>>
    <3>1. Free # <<>> => 1 \in 1 .. Len(Free)
      BY <1>0, ListFacts
    <3>2. Free # <<>> => mTop.node = Free[1] /\ Free[1] \in Objects
      BY <1>0, <3>1, ListFacts DEF Listed
    <3> QED BY <1>0, <3>2
  <2> QED BY <2>1 DEF Pool, Free, ToSet
<1>2. item[t] \in Items /\ Has(t) = item[t]
  BY DEF StackInv, ItemsHeld, HasItem, ItemLabels, Has
<1>3. ASSUME NEW o \in S, o \notin held
      PROVE  By(o) \in Threads /\ my[By(o)].obj = o /\ Has(By(o)) \in T
  <2>1. \E u \in Threads : my[u].obj = o
    BY <1>0, <1>1, <1>3 DEF OnePlaceIn
  <2>2. By(o) \in Threads /\ my[By(o)].obj = o
    BY <2>1
  <2>3. pc[By(o)] \in CarrierLabels \ {"Keep"}
    BY <1>0, <2>2 DEF StackInv, PoolInv, Carries, NoGrowth
  <2> HIDE DEF By
  <2>4. Has(By(o)) \in Items
    BY <2>2, <2>3 DEF StackInv, ItemsHeld, HasItem, CarrierLabels, ItemLabels, Has
  <2>5. By(o) # t
    BY <2>3 DEF CarrierLabels
  <2>6. Has(By(o)) # Has(t)
    BY <2>2, <2>4, <2>5 DEF StackInv, UniqueItems
  <2> QED BY <1>2, <2>2, <2>4, <2>6
<1>4. ASSUME NEW o \in held PROVE data[o] \in T
  BY <1>2 DEF StackInv, ItemsHeld, UniqueItems
<1> HIDE DEF By
<1>5. f \in [S -> T]
  BY <1>3, <1>4
<1>6. ASSUME NEW x \in S, NEW y \in S, f[x] = f[y] PROVE x = y
  <2>1. CASE x \in held /\ y \in held
    BY <1>6, <2>1 DEF StackInv, UniqueItems
  <2>2. CASE x \notin held /\ y \notin held
    <3>1. Has(By(x)) = Has(By(y)) /\ Has(By(x)) \in Items
      BY <1>3, <1>6, <2>2
    <3>2. By(x) = By(y)
      BY <1>3, <2>2, <3>1 DEF StackInv, UniqueItems
    <3> QED BY <1>3, <2>2, <3>2
  <2>3. CASE x \in held /\ y \notin held
    <3>1. data[x] = Has(By(y))
      BY <1>6, <2>3
    <3> QED BY <1>3, <2>3, <3>1 DEF StackInv, UniqueItems
  <2>4. CASE x \notin held /\ y \in held
    <3>1. Has(By(x)) = data[y]
      BY <1>6, <2>4
    <3> QED BY <1>3, <2>4, <3>1 DEF StackInv, UniqueItems
  <2> QED BY <2>1, <2>2, <2>3, <2>4
<1>7. IsFiniteSet(S) /\ IsFiniteSet(T) /\ Cardinality(T) < Cardinality(S)
  <2>1. IsFiniteSet(S) /\ Cardinality(S) = Cardinality(Items)
    BY FS_Difference, PoolAssumption, StackAssumption DEF StackInv, NoGrowth
  <2>2. IsFiniteSet(T) /\ Cardinality(T) = Cardinality(Items) - 1
    BY <1>2, FS_RemoveElement, StackAssumption
  <2>3. Cardinality(Items) \in Nat
    BY FS_CardinalityType, StackAssumption
  <2> HIDE DEF S, T
  <2> QED BY <2>1, <2>2, <2>3
<1> HIDE DEF S, T, f
<1>8. \E x, y \in S : x # y /\ f[x] = f[y]
  BY <1>5, <1>7, FS_PigeonHole
<1> QED BY <1>6, <1>8

\* how a thread can come between a read of top and the exchange on it
EntersTop(t) ==
    \/ pc'[t] \notin BetweenTops
    \/ /\ pc'[t] \in {"PushLink", "PopLink"} /\ my'[t].top = top /\ age'[t] = 0
       /\ pc'[t] = "PopLink" => top.node # Null
    \/ /\ pc[t] = "PopLink" /\ pc'[t] = "PopSwap"
       /\ my'[t].top = my[t].top /\ age'[t] = age[t] /\ my'[t].succ = link[my[t].top.node]

\* A step that leaves the list of nodes alone.
LEMMA TopStays ==
  ASSUME StackInv, NEW t \in Threads, OthersStay(t), UNCHANGED <<top, link, held>>,
         \A u \in Threads \ {t} : pc[u] \in BetweenTops => age'[u] = age[u], EntersTop(t)
  PROVE  TopInv' /\ Nodes' = Nodes
<1>0. /\ top' = top /\ top \in Tops /\ link' = link /\ RecentIn(top, BetweenTops, pc, my, age)
      /\ TopReading /\ Listed(Nodes, top.node, link) /\ ToSet(Nodes) = held
  BY DEF StackInv, StackTypes, TopInv
<1>1. \A u \in Threads \ {t} :
          pc'[u] = pc[u] /\ my'[u] = my[u] /\ (pc[u] \in BetweenTops => age'[u] = age[u])
  BY DEF OthersStay
<1>2. RecentIn(top', BetweenTops, pc', my', age')
  <2>1. pc'[t] \in BetweenTops =>
            \/ pc[t] \in BetweenTops /\ my'[t].top = my[t].top /\ age'[t] = age[t]
            \/ my'[t].top = top /\ age'[t] = 0
    BY DEF EntersTop, BetweenTops
  <2>2. top.count = Turn(top.count, 0)
    BY <1>0, Turns DEF Tops
  <2>3. RecentIn(top, BetweenTops, pc', my', age')
    BY <1>0, <1>1, <2>1, <2>2 DEF RecentIn
  <2> QED BY <1>0, <2>3
<1>3. TopReading'
  <2> SUFFICES ASSUME NEW u \in Threads
               PROVE  /\ pc'[u] \in {"PopLink", "PopSwap"} => my'[u].top.node # Null
                      /\ pc'[u] = "PopSwap" /\ age'[u] = 0 => my'[u].succ = link'[top'.node]
                      /\ pc'[u] = "PushSwap" => link'[my'[u].obj] = my'[u].top.node
    BY DEF TopReading
  <2>1. CASE u # t
    BY <1>0, <1>1, <2>1 DEF TopReading, BetweenTops
  <2>2. CASE u = t
    <3>1. CASE pc[t] = "PopLink" /\ pc'[t] = "PopSwap"
               /\ my'[t].top = my[t].top /\ age'[t] = age[t] /\ my'[t].succ = link[my[t].top.node]
      <4>1. age[t] = 0 => my[t].top = top
        BY <1>0, <3>1 DEF RecentIn, BetweenTops
      <4> QED BY <1>0, <2>2, <3>1, <4>1 DEF TopReading
    <3>2. CASE pc'[t] \notin BetweenTops
      BY <2>2, <3>2 DEF BetweenTops
    <3>3. CASE /\ pc'[t] \in {"PushLink", "PopLink"} /\ my'[t].top = top
               /\ pc'[t] = "PopLink" => top.node # Null
      BY <2>2, <3>3
    <3> QED BY <3>1, <3>2, <3>3 DEF EntersTop
  <2> QED BY <2>1, <2>2
<1>4. Nodes' = Nodes
  BY DEF Nodes
<1>5. Listed(Nodes, top.node, link)' /\ (ToSet(Nodes) = held)'
  BY <1>0, <1>4
<1> QED BY <1>2, <1>3, <1>4, <1>5 DEF TopInv

\* After an exchange on top nobody has read it as it is.
LEMMA TopSwapReading ==
  ASSUME StackInv, NEW t \in Threads, OthersStay(t), UNCHANGED link, pc'[t] \notin BetweenTops,
         \A u \in Threads \ {t} : pc[u] \in BetweenTops => age'[u] # 0
  PROVE  TopReading'
<1> SUFFICES ASSUME NEW u \in Threads
             PROVE  /\ pc'[u] \in {"PopLink", "PopSwap"} => my'[u].top.node # Null
                    /\ pc'[u] = "PopSwap" /\ age'[u] = 0 => my'[u].succ = link'[top'.node]
                    /\ pc'[u] = "PushSwap" => link'[my'[u].obj] = my'[u].top.node
  BY DEF TopReading
<1>1. CASE u = t
  BY <1>1 DEF BetweenTops
<1>2. CASE u # t
  <2>1. pc'[u] = pc[u] /\ my'[u] = my[u] /\ (pc[u] \in BetweenTops => age'[u] # 0)
    BY <1>2 DEF OthersStay
  <2> QED BY <2>1 DEF StackInv, TopInv, TopReading, BetweenTops
<1> QED BY <1>1, <1>2

\* how an item can go from where it is to where it is next
ItemGoes(t) ==
    \/ UNCHANGED <<out, held>> /\ Has(t)' = Has(t)
    \/ UNCHANGED held /\ \E i \in out : out' = out \ {i} /\ Has(t)' = i
    \/ UNCHANGED held /\ out' = out \cup {Has(t)} /\ Has(t) \in Items /\ Has(t)' = NoItem
    \/ /\ UNCHANGED out /\ Has(t)' = NoItem
       /\ \E n \in Objects \ held : held' = held \cup {n} /\ data'[n] = Has(t) /\ Has(t) \in Items
    \/ UNCHANGED out /\ \E n \in held : held' = held \ {n} /\ Has(t)' = data[n]

\* What t writes is the Data of the node in its hands.
LEMMA DataElsewhere ==
  ASSUME StackInv, NEW t \in Threads,
         \/ UNCHANGED data
         \/ pc[t] \in CarrierLabels /\ \E x : data' = [data EXCEPT ![my[t].obj] = x]
  PROVE  /\ \A n \in held : data'[n] = data[n]
         /\ \A u \in Threads \ {t} : pc[u] \in CarrierLabels => data'[my[u].obj] = data[my[u].obj]
<1>0. StackTypes /\ held \subseteq Objects
  BY ThreadFacts DEF StackTypes, PoolTypes
<1>1. \A n \in held : data'[n] = data[n]
  <2>1. my[t].obj \notin held
    BY ThreadFacts
  <2> QED BY <1>0, <2>1 DEF StackTypes
<1>2. ASSUME NEW u \in Threads \ {t}, pc[u] \in CarrierLabels
      PROVE  data'[my[u].obj] = data[my[u].obj]
  <2>1. my[u].obj \in Objects
    BY <1>2, ThreadFacts
  <2>2. my[u].obj # my[t].obj
    BY <2>1, ThreadFacts
  <2> QED BY <1>0, <2>1, <2>2 DEF StackTypes
<1> QED BY <1>1, <1>2

LEMMA ItemsStep ==
  ASSUME StackInv, NEW t \in Threads, OthersStay(t), \A u \in Threads \ {t} : item'[u] = item[u],
         \/ UNCHANGED data
         \/ pc[t] \in CarrierLabels /\ \E x : data' = [data EXCEPT ![my[t].obj] = x],
         HasItem(t)', ItemGoes(t)
  PROVE  ItemsHeld' /\ UniqueItems'
<1>0. /\ PoolTypes /\ StackTypes /\ NoItem \notin Items /\ ItemsHeld /\ UniqueItems
      /\ held \subseteq Objects /\ out \subseteq Items
  BY ThreadFacts DEF StackInv, PoolTypes, StackTypes
<1>1. \A n \in held : data'[n] = data[n]
  BY DataElsewhere
<1>2. \A u \in Threads \ {t} : pc[u] \in CarrierLabels => data'[my[u].obj] = data[my[u].obj]
  BY DataElsewhere
<1>3. \A u \in Threads \ {t} : HasItem(u)' /\ Has(u)' = Has(u)
  <2> SUFFICES ASSUME NEW u \in Threads \ {t} PROVE HasItem(u)' /\ Has(u)' = Has(u)
    OBVIOUS
  <2>1. pc'[u] = pc[u] /\ my'[u] = my[u] /\ item'[u] = item[u]
    BY DEF OthersStay
  <2>2. HasItem(u)
    BY <1>0 DEF ItemsHeld
  <2> QED BY <1>2, <2>1, <2>2 DEF HasItem, Has, CarrierLabels
<1>4. \A n \in held : data[n] \in Items
  BY <1>0 DEF ItemsHeld
<1>5. \A n \in held' : data'[n] \in Items
  <2>1. CASE held' \subseteq held
    BY <1>1, <1>4, <2>1
  <2>2. CASE \E n \in Objects \ held : /\ held' = held \cup {n} /\ data'[n] = Has(t)
                                      /\ Has(t) \in Items
    BY <1>1, <1>4, <2>2
  <2> QED BY <2>1, <2>2 DEF ItemGoes
<1>6. ItemsHeld'
  BY <1>3, <1>5 DEF ItemsHeld
<1>7. UniqueItems'
  <2> DEFINE H(u) == Has(u)
             I(u) == Has(u)'
  <2>0. \A u \in Threads \ {t} : I(u) = H(u)
    BY <1>3
  <2>1. /\ \A n, m \in held : data[n] = data[m] => n = m
        /\ \A u, v \in Threads : H(u) \in Items /\ H(u) = H(v) => u = v
        /\ \A u \in Threads, n \in held : H(u) # data[n]
        /\ \A u \in Threads : H(u) \notin out
        /\ \A n \in held : data[n] \notin out
    BY <1>0 DEF UniqueItems
  <2>2. ItemGoes(t) <=>
            \/ UNCHANGED <<out, held>> /\ I(t) = H(t)
            \/ UNCHANGED held /\ \E i \in out : out' = out \ {i} /\ I(t) = i
            \/ UNCHANGED held /\ out' = out \cup {H(t)} /\ H(t) \in Items /\ I(t) = NoItem
            \/ /\ UNCHANGED out /\ I(t) = NoItem
               /\ \E n \in Objects \ held : /\ held' = held \cup {n} /\ data'[n] = H(t)
                                            /\ H(t) \in Items
            \/ UNCHANGED out /\ \E n \in held : held' = held \ {n} /\ I(t) = data[n]
    BY DEF ItemGoes
  <2>3. UniqueItems' <=>
            /\ \A n, m \in held' : data'[n] = data'[m] => n = m
            /\ \A u, v \in Threads : I(u) \in Items /\ I(u) = I(v) => u = v
            /\ \A u \in Threads, n \in held' : I(u) # data'[n]
            /\ \A u \in Threads : I(u) \notin out'
            /\ \A n \in held' : data'[n] \notin out'
    BY DEF UniqueItems
  <2> HIDE DEF H, I
  <2>4. CASE UNCHANGED <<out, held>> /\ I(t) = H(t)
    BY <1>1, <2>0, <2>1, <2>3, <2>4
  <2>5. CASE UNCHANGED held /\ \E i \in out : out' = out \ {i} /\ I(t) = i
    BY <1>0, <1>1, <2>0, <2>1, <2>3, <2>5
  <2>6. CASE UNCHANGED held /\ out' = out \cup {H(t)} /\ H(t) \in Items /\ I(t) = NoItem
    BY <1>0, <1>1, <1>4, <2>0, <2>1, <2>3, <2>6
  <2>7. CASE /\ UNCHANGED out /\ I(t) = NoItem
             /\ \E n \in Objects \ held : /\ held' = held \cup {n} /\ data'[n] = H(t)
                                          /\ H(t) \in Items
    BY <1>0, <1>1, <1>4, <2>0, <2>1, <2>3, <2>7
  <2>8. CASE UNCHANGED out /\ \E n \in held : held' = held \ {n} /\ I(t) = data[n]
    BY <1>0, <1>1, <1>4, <2>0, <2>1, <2>3, <2>8
  <2> QED BY <2>2, <2>4, <2>5, <2>6, <2>7, <2>8
<1> QED BY <1>6, <1>7

LEMMA NodeFacts ==
  ASSUME StackInv
  PROVE  /\ Listed(Nodes, top.node, link) /\ ToSet(Nodes) = held /\ Len(Nodes) \in Nat
         /\ top \in Tops /\ (Len(Nodes) # 0 => top.node # Null)
         /\ (top.node # Null => top.node \in held /\ top.node \in Objects /\ Len(Nodes) # 0)
         /\ IsFiniteSet(At(PopLabels)) /\ Cardinality(At(PopLabels)) \in Nat
         /\ Cardinality(At(PopLabels)) <= Len(Nodes)
<1>1. Listed(Nodes, top.node, link) /\ ToSet(Nodes) = held /\ top \in Tops /\ Null \notin Objects
  BY PoolAssumption DEF StackInv, StackTypes, TopInv
<1>2. Len(Nodes) \in Nat /\ (Nodes = <<>> <=> Len(Nodes) = 0)
  BY <1>1, ListFacts
<1>3. Len(Nodes) # 0 => top.node # Null
  <2>1. Len(Nodes) # 0 => 1 \in 1 .. Len(Nodes)
    BY <1>2
  <2>2. Len(Nodes) # 0 => Nodes[1] \in Objects
    BY <1>1, <2>1, ListFacts
  <2> QED BY <1>1, <1>2, <2>2 DEF Listed
<1>4. top.node # Null => top.node \in held /\ top.node \in Objects /\ Len(Nodes) # 0
  BY <1>1, <1>2, ListTail
<1>5. IsFiniteSet(At(PopLabels))
  <2>1. At(PopLabels) \subseteq Threads
    BY DEF At
  <2> QED BY <2>1, FS_Subset, PoolAssumption
<1>6. Cardinality(At(PopLabels)) \in Nat
  BY <1>5, FS_CardinalityType
<1> QED BY <1>1, <1>2, <1>3, <1>4, <1>5, <1>6 DEF StackInv, Popping

LEMMA PoppersStay ==
  ASSUME StackInv, NEW t \in Threads, OthersStay(t), pc'[t] \in PopLabels <=> pc[t] \in PopLabels,
         Len(Nodes') \in Nat, Len(Nodes) <= Len(Nodes')
  PROVE  Popping'
<1>1. At(PopLabels)' = At(PopLabels)
  <2>1. \A u \in Threads : pc'[u] \in PopLabels <=> pc[u] \in PopLabels
    BY DEF OthersStay
  <2> QED BY <2>1 DEF At
<1>2. Cardinality(At(PopLabels)) \in Nat /\ Cardinality(At(PopLabels)) <= Len(Nodes)
      /\ Len(Nodes) \in Nat
  BY NodeFacts
<1>3. Cardinality(At(PopLabels)) <= Len(Nodes')
  BY <1>2
<1> QED BY <1>1, <1>3 DEF Popping

\* what most steps are, for the stack
LEMMA QuietStackStep ==
  ASSUME StackInv, NEW t \in Threads, PoolInv', StackTypes', OthersStay(t),
         UNCHANGED <<top, link, held, unborn>>,
         \A u \in Threads \ {t} : item'[u] = item[u],
         \A u \in Threads \ {t} : pc[u] \in BetweenTops => age'[u] = age[u],
         \/ UNCHANGED data
         \/ pc[t] \in CarrierLabels /\ \E x : data' = [data EXCEPT ![my[t].obj] = x],
         EntersTop(t), HasItem(t)', ItemGoes(t),
         pc'[t] \in PopLabels <=> pc[t] \in PopLabels,
         pc'[t] \notin {"GrowAll", "GrowActive", "Keep"}
  PROVE  StackInv'
<1>1. TopInv' /\ Nodes' = Nodes
  BY TopStays
<1>2. ItemsHeld' /\ UniqueItems'
  BY ItemsStep
<1>3. Popping'
  <2>1. Len(Nodes) \in Nat /\ Len(Nodes) <= Len(Nodes)
    BY NodeFacts
  <2> QED BY <1>1, <2>1, PoppersStay
<1>4. NoGrowth'
  BY DEF StackInv, NoGrowth, OthersStay
<1> QED BY <1>1, <1>2, <1>3, <1>4 DEF StackInv

\* where a thread is in GetObject or ReleaseObject
PoolLabels ==
    {"GetRead", "GetNext", "GetSwap", "GetCount", "PutRead", "PutNext", "PutSwap", "PutCount"}
ReturnLabels == {"PutRead", "PutNext", "PutSwap", "PutCount", "ReturnPop"}

\* what a step of the pool is to the stack
LEMMA PoolEffects ==
  ASSUME StackInv, NEW t \in Threads,
         GetObject(t, "PushData") \/ ReleaseObject(t, "ReturnPop")
  PROVE  /\ OthersStay(t) /\ UNCHANGED <<unborn, held>>
         /\ pc[t] \in PoolLabels /\ pc'[t] \in PoolLabels \cup {"PushData", "ReturnPop"}
         /\ pc'[t] \in ReturnLabels <=> pc[t] \in ReturnLabels
         /\ \A u \in Threads \ {t} : pc[u] \in BetweenTops => age'[u] = age[u]
<1>0. PoolTypes /\ Blank \in Locals /\ pc[t] \notin {"GrowAll", "GrowActive"}
  BY ThreadFacts DEF StackInv, NoGrowth
<1>1. CASE GetRead(t)
  <2>1. mTop.node # Null
    BY <1>1, NodeForPush DEF GetRead
  <2> QED BY <1>0, <1>1, <2>1
          DEF GetRead, Goto, poolVars, PoolTypes, OthersStay, PoolLabels, ReturnLabels
<1>2. CASE \/ GetNext(t) \/ GetCount(t, "PushData") \/ PutRead(t) \/ PutNext(t)
           \/ PutCount(t, "ReturnPop")
  BY <1>0, <1>2 DEF GetNext, GetCount, PutRead, PutNext, PutCount, Goto, poolVars,
                    PoolTypes, OthersStay, PoolLabels, ReturnLabels
<1>3. CASE GetSwap(t)
  BY <1>0, <1>3 DEF GetSwap, Goto, Again, Overtake, PoolTypes, OthersStay, PoolLabels,
                    ReturnLabels, Between, BetweenTops
<1>4. CASE PutSwap(t)
  BY <1>0, <1>4 DEF PutSwap, Goto, Again, Overtake, PoolTypes, OthersStay, PoolLabels,
                    ReturnLabels, Between, BetweenTops
<1>5. ~ GrowAll(t) /\ ~ GrowActive(t, "PushData")
  BY <1>0 DEF GrowAll, GrowActive
<1> QED BY <1>1, <1>2, <1>3, <1>4, <1>5 DEF GetObject, ReleaseObject

LEMMA PoolStackStep ==
  ASSUME StackInv, NEW t \in Threads,
         GetObject(t, "PushData") \/ ReleaseObject(t, "ReturnPop"), UNCHANGED stackVars
  PROVE  StackInv'
<1>1. /\ OthersStay(t) /\ UNCHANGED <<unborn, held>> /\ pc[t] \in PoolLabels
      /\ pc'[t] \in PoolLabels \cup {"PushData", "ReturnPop"}
      /\ \A u \in Threads \ {t} : pc[u] \in BetweenTops => age'[u] = age[u]
  BY PoolEffects
<1>2. UNCHANGED <<top, link, data, out, item>>
  BY DEF stackVars
<1>3. PoolInv'
  BY GetObjectStep, ReleaseObjectStep DEF StackInv
<1>4. StackTypes'
  BY <1>2 DEF StackInv, StackTypes
<1>5. HasItem(t)' /\ Has(t)' = Has(t)
  <2>1. HasItem(t)
    BY DEF StackInv, ItemsHeld
  <2> QED BY <1>1, <1>2, <2>1 DEF HasItem, Has, PoolLabels, ItemLabels
<1>6. EntersTop(t) /\ ItemGoes(t)
  BY <1>1, <1>2, <1>5 DEF EntersTop, BetweenTops, PoolLabels, ItemGoes
<1>7. /\ pc'[t] \in PopLabels <=> pc[t] \in PopLabels
      /\ pc'[t] \notin {"GrowAll", "GrowActive", "Keep"}
  BY <1>1 DEF PopLabels, PoolLabels
<1> QED BY <1>1, <1>2, <1>3, <1>4, <1>5, <1>6, <1>7, QuietStackStep

LEMMA StayStep ==
  ASSUME PoolInv, NEW t \in Threads, PoolTypes', OthersStay(t),
         UNCHANGED <<mTop, next, unborn, held>>, my'[t].obj = my[t].obj,
         \A u \in Threads \ {t} : pc[u] \in Between => age'[u] = age[u],
         pc'[t] \in CarrierLabels <=> pc[t] \in CarrierLabels, pc'[t] \notin Between
  PROVE  PoolInv'
<1>1. Carries'
  BY DEF PoolInv, Carries, OthersStay
<1> QED BY <1>1, QuietStep DEF Hands, Enters

LEMMA CallPushStep ==
  ASSUME StackInv, NEW t \in Threads, CallPush(t)
  PROVE  StackInv'
<1>0. PoolInv /\ PoolTypes /\ StackTypes /\ NoItem \notin Items
  BY ThreadFacts
<1>1. PICK i \in out : out' = out \ {i} /\ item' = [item EXCEPT ![t] = i]
  BY DEF CallPush
<1>2. /\ pc[t] = "Idle" /\ pc' = [pc EXCEPT ![t] = "GetRead"]
      /\ UNCHANGED <<mTop, next, unborn, held, my, age, top, link, data>>
  BY DEF CallPush, Goto, poolVars
<1>3. /\ OthersStay(t) /\ pc'[t] = "GetRead" /\ my'[t] = my[t] /\ item'[t] = i /\ i \in Items
      /\ \A u \in Threads \ {t} : item'[u] = item[u] /\ age'[u] = age[u]
  BY <1>0, <1>1, <1>2 DEF OthersStay, PoolTypes, StackTypes
<1>4. PoolInv'
  BY <1>0, <1>2, GoStep DEF Labels, CarrierLabels, Between
<1>5. StackTypes'
  BY <1>0, <1>1, <1>2, <1>3 DEF StackTypes
<1>6. HasItem(t)'
  BY <1>3 DEF HasItem, ItemLabels
<1>7. ItemGoes(t)
  <2>1. Has(t)' = i
    BY <1>3 DEF Has
  <2> QED BY <1>1, <1>2, <2>1 DEF ItemGoes
<1>8. EntersTop(t)
  BY <1>3 DEF EntersTop, BetweenTops
<1> QED BY <1>2, <1>3, <1>4, <1>5, <1>6, <1>7, <1>8, QuietStackStep DEF PopLabels

LEMMA PushDataStep ==
  ASSUME StackInv, NEW t \in Threads, PushData(t)
  PROVE  StackInv'
<1>1. /\ pc[t] = "PushData" /\ data' = [data EXCEPT ![my[t].obj] = item[t]]
      /\ pc' = [pc EXCEPT ![t] = "PushRead"]
      /\ UNCHANGED <<mTop, next, unborn, held, my, age, top, link, out, item>>
  BY DEF PushData, Goto, poolVars
<1>0. PoolInv /\ PoolTypes /\ StackTypes /\ my[t].obj \in Objects /\ HasItem(t)
  BY <1>1, ThreadFacts DEF StackInv, ItemsHeld, CarrierLabels
<1>2. /\ OthersStay(t) /\ pc'[t] = "PushRead" /\ my'[t] = my[t] /\ item[t] \in Items
      /\ data'[my[t].obj] = item[t]
      /\ \A u \in Threads \ {t} : item'[u] = item[u] /\ age'[u] = age[u]
  BY <1>0, <1>1 DEF OthersStay, PoolTypes, StackTypes, HasItem, ItemLabels
<1>3. PoolInv'
  BY <1>0, <1>1, GoStep DEF Labels, CarrierLabels, Between
<1>4. StackTypes'
  BY <1>0, <1>1, <1>2 DEF StackTypes
<1>5. HasItem(t)'
  BY <1>1, <1>2 DEF HasItem, ItemLabels
<1>6. ItemGoes(t)
  <2>1. Has(t)' = Has(t)
    BY <1>1, <1>2 DEF Has
  <2> QED BY <1>1, <2>1 DEF ItemGoes
<1>7. EntersTop(t)
  BY <1>2 DEF EntersTop, BetweenTops
<1>8. pc[t] \in CarrierLabels /\ \E x : data' = [data EXCEPT ![my[t].obj] = x]
  BY <1>1 DEF CarrierLabels
<1> QED BY <1>1, <1>2, <1>3, <1>4, <1>5, <1>6, <1>7, <1>8, QuietStackStep DEF PopLabels

\* PushRead, PopRead
LEMMA ReadTopStep ==
  ASSUME StackInv, NEW t \in Threads, PushRead(t) \/ PopRead(t)
  PROVE  StackInv'
<1>1. /\ \/ pc[t] = "PushRead" /\ pc' = [pc EXCEPT ![t] = "PushLink"]
         \/ pc[t] = "PopRead" /\ pc' = [pc EXCEPT ![t] = "PopLink"]
      /\ my' = [my EXCEPT ![t].top = top] /\ age' = [age EXCEPT ![t] = 0]
      /\ UNCHANGED <<mTop, next, unborn, held, top, link, data, out, item>>
  BY DEF PushRead, PopRead, Goto, poolVars, stackVars
<1>0. PoolInv /\ PoolTypes /\ StackTypes /\ my[t] \in Locals /\ 0 \in Counts /\ HasItem(t)
      /\ top \in Tops
  BY ThreadFacts, NodeFacts DEF StackInv, ItemsHeld
<1>2. /\ OthersStay(t) /\ my'[t].obj = my[t].obj /\ my'[t].top = top /\ age'[t] = 0
      /\ \/ pc[t] = "PushRead" /\ pc'[t] = "PushLink"
         \/ pc[t] = "PopRead" /\ pc'[t] = "PopLink"
      /\ \A u \in Threads \ {t} : item'[u] = item[u] /\ age'[u] = age[u]
  BY <1>0, <1>1 DEF OthersStay, PoolTypes, Locals
<1>3. PoolTypes'
  <2>1. my' \in [Threads -> Locals]
    BY <1>0, <1>1 DEF PoolTypes, Locals
  <2>2. pc' \in [Threads -> Labels]
    BY <1>0, <1>1 DEF PoolTypes, Labels
  <2>3. age' \in [Threads -> Counts]
    BY <1>0, <1>1 DEF PoolTypes
  <2> QED BY <1>0, <1>1, <2>1, <2>2, <2>3 DEF PoolTypes
<1>4. PoolInv'
  BY <1>0, <1>1, <1>2, <1>3, StayStep DEF CarrierLabels, Between
<1>5. StackTypes'
  BY <1>0, <1>1 DEF StackTypes
<1>6. HasItem(t)'
  BY <1>0, <1>1, <1>2 DEF HasItem, ItemLabels
<1>7. ItemGoes(t)
  <2>1. Has(t)' = Has(t)
    BY <1>1, <1>2 DEF Has
  <2> QED BY <1>1, <2>1 DEF ItemGoes
<1>8. EntersTop(t)
  <2>1. pc[t] = "PopRead" => top.node # Null
    <3> SUFFICES ASSUME pc[t] = "PopRead" PROVE top.node # Null
      OBVIOUS
    <3>1. t \in At(PopLabels)
      BY DEF At, PopLabels
    <3>2. Cardinality(At(PopLabels)) # 0
      BY <3>1, NodeFacts, FS_EmptySet
    <3>3. Len(Nodes) # 0
      BY <3>2, NodeFacts
    <3> QED BY <3>3, NodeFacts
  <2> QED BY <1>2, <2>1 DEF EntersTop
<1> QED BY <1>1, <1>2, <1>4, <1>5, <1>6, <1>7, <1>8, QuietStackStep DEF PopLabels

LEMMA PopLinkStep ==
  ASSUME StackInv, NEW t \in Threads, PopLink(t)
  PROVE  StackInv'
<1>1. /\ pc[t] = "PopLink" /\ my' = [my EXCEPT ![t].succ = link[my[t].top.node]]
      /\ pc' = [pc EXCEPT ![t] = "PopSwap"]
      /\ UNCHANGED <<mTop, next, unborn, held, age, top, link, data, out, item>>
  BY DEF PopLink, Goto, poolVars, stackVars
<1>0. PoolInv /\ PoolTypes /\ StackTypes /\ my[t] \in Locals /\ HasItem(t)
  BY ThreadFacts DEF StackInv, ItemsHeld
<1>2. /\ OthersStay(t) /\ my'[t].obj = my[t].obj /\ my'[t].top = my[t].top
      /\ my'[t].succ = link[my[t].top.node] /\ pc'[t] = "PopSwap" /\ age'[t] = age[t]
      /\ \A u \in Threads \ {t} : item'[u] = item[u] /\ age'[u] = age[u]
  BY <1>0, <1>1 DEF OthersStay, PoolTypes, Locals
<1>3. PoolTypes'
  <2>1. my[t].top.node \in Objects
    BY <1>0, <1>1, ThreadFacts DEF StackInv, TopInv, TopReading, Tops, Links
  <2>2. my' \in [Threads -> Locals]
    BY <1>0, <1>1, <2>1 DEF PoolTypes, StackTypes, Locals
  <2>3. pc' \in [Threads -> Labels]
    BY <1>0, <1>1 DEF PoolTypes, Labels
  <2> QED BY <1>0, <1>1, <2>2, <2>3 DEF PoolTypes
<1>4. PoolInv'
  BY <1>0, <1>1, <1>2, <1>3, StayStep DEF CarrierLabels, Between
<1>5. StackTypes'
  BY <1>0, <1>1 DEF StackTypes
<1>6. HasItem(t)'
  BY <1>0, <1>1, <1>2 DEF HasItem, ItemLabels
<1>7. ItemGoes(t)
  <2>1. Has(t)' = Has(t)
    BY <1>1, <1>2 DEF Has
  <2> QED BY <1>1, <2>1 DEF ItemGoes
<1>8. EntersTop(t)
  BY <1>1, <1>2 DEF EntersTop
<1> QED BY <1>1, <1>2, <1>4, <1>5, <1>6, <1>7, <1>8, QuietStackStep DEF PopLabels

\* PushSwap and PopSwap, when another exchange came first
LEMMA AgainStep ==
  ASSUME StackInv, NEW t \in Threads,
         \/ pc[t] = "PushSwap" /\ Again(t, "PushRead")
         \/ pc[t] = "PopSwap" /\ Again(t, "PopRead"),
         UNCHANGED <<mTop, next, unborn, held, top, link, data, out, item>>
  PROVE  StackInv'
<1>1. /\ \/ pc[t] = "PushSwap" /\ pc' = [pc EXCEPT ![t] = "PushRead"]
         \/ pc[t] = "PopSwap" /\ pc' = [pc EXCEPT ![t] = "PopRead"]
      /\ my' = [my EXCEPT ![t] = [Blank EXCEPT !.obj = my[t].obj]]
      /\ age' = [age EXCEPT ![t] = 0]
  BY DEF Again, Goto
<1>0. PoolInv /\ PoolTypes /\ StackTypes /\ my[t].obj \in Links /\ 0 \in Counts /\ HasItem(t)
      /\ Blank \in Locals
  BY ThreadFacts DEF StackInv, ItemsHeld
<1>2. /\ OthersStay(t) /\ my'[t].obj = my[t].obj
      /\ \/ pc[t] = "PushSwap" /\ pc'[t] = "PushRead"
         \/ pc[t] = "PopSwap" /\ pc'[t] = "PopRead"
      /\ \A u \in Threads \ {t} : item'[u] = item[u] /\ age'[u] = age[u]
  BY <1>0, <1>1 DEF OthersStay, PoolTypes, Blank
<1>3. PoolTypes'
  <2>1. [Blank EXCEPT !.obj = my[t].obj] \in Locals
    BY <1>0 DEF Locals
  <2>2. my' \in [Threads -> Locals]
    BY <1>0, <1>1, <2>1 DEF PoolTypes
  <2>3. pc' \in [Threads -> Labels]
    BY <1>0, <1>1 DEF PoolTypes, Labels
  <2> QED BY <1>0, <1>1, <2>2, <2>3 DEF PoolTypes
<1>4. PoolInv'
  BY <1>0, <1>1, <1>2, <1>3, StayStep DEF CarrierLabels, Between
<1>5. StackTypes'
  BY <1>0 DEF StackTypes
<1>6. HasItem(t)'
  BY <1>0, <1>2 DEF HasItem, ItemLabels
<1>7. ItemGoes(t)
  <2>1. Has(t)' = Has(t)
    BY <1>2 DEF Has
  <2> QED BY <2>1 DEF ItemGoes
<1>8. EntersTop(t)
  BY <1>2 DEF EntersTop, BetweenTops
<1> QED BY <1>2, <1>4, <1>5, <1>6, <1>7, <1>8, QuietStackStep DEF PopLabels

LEMMA PopDataStep ==
  ASSUME StackInv, NEW t \in Threads, PopData(t)
  PROVE  StackInv'
<1>1. /\ pc[t] = "PopData" /\ item' = [item EXCEPT ![t] = data[my[t].obj]]
      /\ pc' = [pc EXCEPT ![t] = "PutRead"]
      /\ UNCHANGED <<mTop, next, unborn, held, my, age, top, link, data, out>>
  BY DEF PopData, Goto, poolVars
<1>0. PoolInv /\ PoolTypes /\ StackTypes /\ HasItem(t)
  BY ThreadFacts DEF StackInv, ItemsHeld
<1>2. /\ OthersStay(t) /\ pc'[t] = "PutRead" /\ my'[t] = my[t]
      /\ data[my[t].obj] \in Items /\ item'[t] = data[my[t].obj]
      /\ \A u \in Threads \ {t} : item'[u] = item[u] /\ age'[u] = age[u]
  BY <1>0, <1>1 DEF OthersStay, PoolTypes, StackTypes, HasItem
<1>3. PoolInv'
  BY <1>0, <1>1, GoStep DEF Labels, CarrierLabels, Between
<1>4. StackTypes'
  BY <1>0, <1>1, <1>2 DEF StackTypes
<1>5. HasItem(t)'
  BY <1>2 DEF HasItem, ItemLabels
<1>6. ItemGoes(t)
  <2>1. Has(t)' = Has(t)
    BY <1>1, <1>2 DEF Has
  <2> QED BY <1>1, <2>1 DEF ItemGoes
<1>7. EntersTop(t)
  BY <1>2 DEF EntersTop, BetweenTops
<1> QED BY <1>1, <1>2, <1>3, <1>4, <1>5, <1>6, <1>7, QuietStackStep DEF PopLabels

LEMMA ReturnPopStep ==
  ASSUME StackInv, NEW t \in Threads, ReturnPop(t)
  PROVE  StackInv'
<1>1. /\ pc[t] = "ReturnPop" /\ out' = out \cup {item[t]} /\ item' = [item EXCEPT ![t] = NoItem]
      /\ pc' = [pc EXCEPT ![t] = "Idle"]
      /\ UNCHANGED <<mTop, next, unborn, held, my, age, top, link, data>>
  BY DEF ReturnPop, Goto, poolVars
<1>0. PoolInv /\ PoolTypes /\ StackTypes /\ HasItem(t) /\ NoItem \notin Items
  BY ThreadFacts DEF StackInv, ItemsHeld
<1>2. /\ OthersStay(t) /\ pc'[t] = "Idle" /\ my'[t] = my[t] /\ item[t] \in Items
      /\ item'[t] = NoItem
      /\ \A u \in Threads \ {t} : item'[u] = item[u] /\ age'[u] = age[u]
  BY <1>0, <1>1 DEF OthersStay, PoolTypes, StackTypes, HasItem, ItemLabels
<1>3. PoolInv'
  BY <1>0, <1>1, GoStep DEF Labels, CarrierLabels, Between
<1>4. StackTypes'
  BY <1>0, <1>1, <1>2 DEF StackTypes
<1>5. HasItem(t)'
  BY <1>0, <1>2 DEF HasItem, ItemLabels
<1>6. ItemGoes(t)
  <2>1. Has(t) = item[t] /\ Has(t)' = NoItem
    BY <1>1, <1>2 DEF Has
  <2> QED BY <1>1, <1>2, <2>1 DEF ItemGoes
<1>7. EntersTop(t)
  BY <1>2 DEF EntersTop, BetweenTops
<1> QED BY <1>1, <1>2, <1>3, <1>4, <1>5, <1>6, <1>7, QuietStackStep DEF PopLabels

LEMMA CallPopStep ==
  ASSUME StackInv, NEW t \in Threads, CallPop(t)
  PROVE  StackInv'
<1>1. /\ pc[t] = "Idle" /\ Cardinality(At(PopLabels)) < Len(Nodes)
      /\ pc' = [pc EXCEPT ![t] = "PopRead"]
      /\ UNCHANGED <<mTop, next, unborn, held, my, age, top, link, data, out, item>>
  BY DEF CallPop, Goto, poolVars, stackVars, PopLabels
<1>0. PoolInv /\ PoolTypes /\ StackTypes /\ HasItem(t)
  BY ThreadFacts DEF StackInv, ItemsHeld
<1>2. OthersStay(t) /\ pc'[t] = "PopRead" /\ my'[t] = my[t]
  BY <1>0, <1>1 DEF OthersStay, PoolTypes
<1>3. PoolInv'
  BY <1>0, <1>1, GoStep DEF Labels, CarrierLabels, Between
<1>4. StackTypes'
  BY <1>0, <1>1 DEF StackTypes
<1>5. HasItem(t)'
  BY <1>0, <1>1, <1>2 DEF HasItem, ItemLabels
<1>6. ItemGoes(t)
  <2>1. Has(t)' = Has(t)
    BY <1>1, <1>2 DEF Has
  <2> QED BY <1>1, <2>1 DEF ItemGoes
<1>7. EntersTop(t)
  BY <1>2 DEF EntersTop, BetweenTops
<1>8. ItemsHeld' /\ UniqueItems'
  BY <1>1, <1>2, <1>5, <1>6, ItemsStep
<1>9. TopInv' /\ Nodes' = Nodes
  BY <1>1, <1>2, <1>7, TopStays
<1>10. NoGrowth'
  BY <1>1, <1>2 DEF StackInv, NoGrowth, OthersStay
<1>11. Popping'
  <2>1. At(PopLabels)' = At(PopLabels) \cup {t} /\ t \notin At(PopLabels)
    <3>1. \A u \in Threads : pc'[u] \in PopLabels <=> u = t \/ pc[u] \in PopLabels
      BY <1>2 DEF OthersStay, PopLabels
    <3> QED BY <1>1, <3>1 DEF At, PopLabels
  <2>2. Cardinality(At(PopLabels) \cup {t}) = Cardinality(At(PopLabels)) + 1
    BY <2>1, NodeFacts, FS_AddElement
  <2>3. Cardinality(At(PopLabels)) + 1 <= Len(Nodes)
    BY <1>1, NodeFacts
  <2> QED BY <1>9, <2>1, <2>2, <2>3 DEF Popping
<1> QED BY <1>3, <1>4, <1>8, <1>9, <1>10, <1>11 DEF StackInv

LEMMA PushLinkStep ==
  ASSUME StackInv, NEW t \in Threads, PushLink(t)
  PROVE  StackInv' /\ Nodes' = Nodes
<1>1. /\ pc[t] = "PushLink" /\ link' = [link EXCEPT ![my[t].obj] = my[t].top.node]
      /\ pc' = [pc EXCEPT ![t] = "PushSwap"]
      /\ UNCHANGED <<mTop, next, unborn, held, my, age, top, data, out, item>>
  BY DEF PushLink, Goto, poolVars
<1>0. /\ PoolInv /\ PoolTypes /\ StackTypes /\ HasItem(t) /\ my[t] \in Locals /\ my[t].top \in Tops
      /\ my[t].obj \in Objects /\ my[t].obj \notin held
      /\ RecentIn(top, BetweenTops, pc, my, age) /\ TopReading
      /\ Listed(Nodes, top.node, link) /\ ToSet(Nodes) = held
  BY <1>1, ThreadFacts DEF StackInv, ItemsHeld, CarrierLabels, TopInv
<1>2. /\ OthersStay(t) /\ pc'[t] = "PushSwap" /\ link'[my[t].obj] = my[t].top.node
      /\ \A o \in Objects \ {my[t].obj} : link'[o] = link[o]
  BY <1>0, <1>1 DEF OthersStay, PoolTypes, StackTypes
<1>3. PoolInv'
  BY <1>0, <1>1, GoStep DEF Labels, CarrierLabels, Between
<1>4. StackTypes'
  BY <1>0, <1>1 DEF StackTypes, Tops
<1>5. HasItem(t)'
  BY <1>0, <1>1, <1>2 DEF HasItem, ItemLabels
<1>6. ItemGoes(t)
  <2>1. Has(t)' = Has(t)
    BY <1>1, <1>2 DEF Has
  <2> QED BY <1>1, <2>1 DEF ItemGoes
<1>7. ItemsHeld' /\ UniqueItems'
  BY <1>1, <1>2, <1>5, <1>6, ItemsStep
<1>8. RecentIn(top', BetweenTops, pc', my', age')
  <2>1. \A u \in Threads : pc'[u] \in BetweenTops => pc[u] \in BetweenTops
    BY <1>1, <1>2 DEF BetweenTops, OthersStay
  <2> QED BY <1>0, <1>1, <2>1 DEF RecentIn
<1>9. TopReading'
  <2> SUFFICES ASSUME NEW u \in Threads
               PROVE  /\ pc'[u] \in {"PopLink", "PopSwap"} => my'[u].top.node # Null
                      /\ pc'[u] = "PopSwap" /\ age'[u] = 0 => my'[u].succ = link'[top'.node]
                      /\ pc'[u] = "PushSwap" => link'[my'[u].obj] = my'[u].top.node
    BY DEF TopReading
  <2>1. CASE u = t
    BY <1>1, <1>2, <2>1
  <2>2. CASE u # t
    <3>1. pc'[u] = pc[u] /\ my'[u] = my[u] /\ age'[u] = age[u] /\ top' = top
      BY <1>1, <1>2, <2>2 DEF OthersStay
    <3>2. CASE pc[u] = "PopSwap" /\ age[u] = 0
      <4>1. my[u].top = top /\ top.node # Null /\ my[u].succ = link[top.node]
        BY <1>0, <3>2 DEF RecentIn, TopReading, BetweenTops
      <4>2. top.node \in held /\ top.node \in Objects
        BY <4>1, NodeFacts
      <4>3. top.node \in Objects \ {my[t].obj}
        BY <1>0, <4>2
      <4> QED BY <1>2, <3>1, <3>2, <4>1, <4>3
    <3>3. CASE pc[u] = "PushSwap"
      <4>1. my[u].obj \in Objects
        BY <3>3, ThreadFacts DEF CarrierLabels
      <4>2. my[u].obj # my[t].obj
        <5>1. my[t].obj # Null
          BY <1>0, ThreadFacts
        <5> QED BY <2>2, <5>1, ThreadFacts
      <4>3. link'[my[u].obj] = link[my[u].obj]
        BY <1>2, <4>1, <4>2
      <4> QED BY <1>0, <3>1, <3>3, <4>3 DEF TopReading
    <3>4. pc[u] \in {"PopLink", "PopSwap"} => my[u].top.node # Null
      BY <1>0 DEF TopReading
    <3> QED BY <3>1, <3>2, <3>3, <3>4
  <2> QED BY <2>1, <2>2
<1>10. Listed(Nodes, top.node, link')
  BY <1>0, <1>1, ListKept DEF StackTypes, Links
<1>11. Nodes' = Nodes
  <2>1. Chain(top.node, link') = Nodes
    BY <1>10, ChainOf
  <2> QED BY <1>1, <2>1 DEF Nodes
<1>12. TopInv'
  <2>1. Listed(Nodes, top.node, link)' /\ (ToSet(Nodes) = held)'
    BY <1>0, <1>1, <1>10, <1>11
  <2> QED BY <1>8, <1>9, <2>1 DEF TopInv
<1>13. NoGrowth'
  BY <1>1, <1>2 DEF StackInv, NoGrowth, OthersStay
<1>14. Popping'
  <2>1. Len(Nodes) \in Nat /\ Len(Nodes) <= Len(Nodes)
    BY NodeFacts
  <2>2. pc'[t] \in PopLabels <=> pc[t] \in PopLabels
    BY <1>1, <1>2 DEF PopLabels
  <2> QED BY <1>2, <1>11, <2>1, <2>2, PoppersStay
<1> QED BY <1>3, <1>4, <1>7, <1>11, <1>12, <1>13, <1>14 DEF StackInv

\* PushSwap, when nobody came first: the node is on top, with its item
LEMMA PushedStep ==
  ASSUME StackInv, NEW t \in Threads, PushSwap(t), top = my[t].top
  PROVE  /\ StackInv'
         /\ Nodes' = <<my[t].obj>> \o Nodes /\ my[t].obj \in Objects /\ item[t] \in Items
         /\ data[my[t].obj] = item[t]
<1>1. /\ pc[t] = "PushSwap" /\ NoneOvertaken(t, BetweenTops) /\ Overtake(t, BetweenTops)
      /\ top' = Advance(top, my[t].obj) /\ held' = held \cup {my[t].obj}
      /\ my' = [my EXCEPT ![t] = Blank] /\ item' = [item EXCEPT ![t] = NoItem]
      /\ pc' = [pc EXCEPT ![t] = "Idle"]
      /\ UNCHANGED <<mTop, next, unborn, link, data, out>>
  BY DEF PushSwap, Goto
<1>0. /\ PoolInv /\ PoolTypes /\ StackTypes /\ HasItem(t) /\ NoItem \notin Items
      /\ my[t].obj \in Objects /\ my[t].obj # Null /\ my[t].obj \notin held /\ Blank \in Locals
      /\ RecentIn(top, BetweenTops, pc, my, age) /\ TopReading
      /\ Listed(Nodes, top.node, link) /\ ToSet(Nodes) = held /\ Len(Nodes) \in Nat
  BY <1>1, ThreadFacts, NodeFacts DEF StackInv, ItemsHeld, CarrierLabels, TopInv
<1>2. /\ OthersStay(t) /\ pc'[t] = "Idle" /\ item'[t] = NoItem /\ item[t] \in Items
      /\ data[my[t].obj] = item[t]
      /\ \A u \in Threads \ {t} : item'[u] = item[u]
      /\ \A u \in Threads \ {t} : pc[u] \in Between => age'[u] = age[u]
  <2>1. \A u \in Threads \ {t} : pc[u] \in Between => age'[u] = age[u]
    BY <1>1 DEF Overtake, Between, BetweenTops
  <2> QED BY <1>0, <1>1, <2>1 DEF OthersStay, PoolTypes, StackTypes, HasItem, ItemLabels
<1>3. /\ top' \in Tops /\ top'.node = my[t].obj /\ top'.count = Turn(top.count, 1)
  BY <1>0, <1>1, Advanced DEF StackTypes, Links
<1>4. /\ RecentIn(top', BetweenTops, pc', my', age') /\ age' \in [Threads -> Counts]
      /\ \A u \in Threads \ {t} : pc[u] \in BetweenTops => age'[u] # 0
  <2>1. pc'[t] \notin BetweenTops
    BY <1>2 DEF BetweenTops
  <2>2. /\ RecentIn(top, BetweenTops, pc, my, age) /\ PoolTypes /\ OthersStay(t)
        /\ top'.count = Turn(top.count, 1)
        /\ NoneOvertaken(t, BetweenTops) /\ Overtake(t, BetweenTops)
    BY <1>0, <1>1, <1>2, <1>3
  <2> QED BY <2>1, <2>2, SwapAges
<1>5. PoolInv'
  <2>1. my' \in [Threads -> Locals] /\ pc' \in [Threads -> Labels] /\ held' \subseteq Objects
    BY <1>0, <1>1 DEF PoolTypes, Labels
  <2>2. PoolTypes'
    BY <1>0, <1>1, <1>4, <2>1 DEF PoolTypes
  <2> QED BY <1>0, <1>1, <1>2, <2>2, HoldStep
<1>6. StackTypes'
  BY <1>0, <1>1, <1>3 DEF StackTypes
<1>7. ItemsHeld' /\ UniqueItems'
  <2>1. HasItem(t)'
    BY <1>0, <1>2 DEF HasItem, ItemLabels
  <2>2. Has(t) = item[t] /\ Has(t)' = NoItem
    BY <1>1, <1>2 DEF Has
  <2>3. ItemGoes(t)
    <3>1. data'[my[t].obj] = Has(t) /\ Has(t) \in Items /\ my[t].obj \in Objects \ held
      BY <1>0, <1>1, <1>2, <2>2
    <3> QED BY <1>1, <2>2, <3>1 DEF ItemGoes
  <2> QED BY <1>1, <1>2, <2>1, <2>3, ItemsStep
<1>8. TopReading'
  <2>1. pc'[t] \notin BetweenTops
    BY <1>2 DEF BetweenTops
  <2> QED BY <1>1, <1>2, <1>4, <2>1, TopSwapReading
<1>9. /\ Listed(<<my[t].obj>> \o Nodes, my[t].obj, link)
      /\ ToSet(<<my[t].obj>> \o Nodes) = held \cup {my[t].obj}
  <2>1. link[my[t].obj] = top.node
    BY <1>0, <1>1 DEF TopReading
  <2>2. my[t].obj \in Objects \ ToSet(Nodes)
    BY <1>0
  <2> QED BY <1>0, <2>1, <2>2, ListCons
<1>10. Nodes' = <<my[t].obj>> \o Nodes
  <2>1. Chain(my[t].obj, link) = <<my[t].obj>> \o Nodes
    BY <1>9, ChainOf
  <2> QED BY <1>1, <1>3, <2>1 DEF Nodes
<1>11. TopInv'
  <2>1. Listed(Nodes, top.node, link)' /\ (ToSet(Nodes) = held)'
    BY <1>1, <1>3, <1>9, <1>10
  <2> QED BY <1>4, <1>8, <2>1 DEF TopInv
<1>12. NoGrowth'
  BY <1>1, <1>2 DEF StackInv, NoGrowth, OthersStay
<1>13. Popping'
  <2>1. Len(Nodes') \in Nat /\ Len(Nodes) <= Len(Nodes')
    <3>1. Nodes \in Seq(Objects) /\ <<my[t].obj>> \in Seq(Objects) /\ Len(<<my[t].obj>>) = 1
      BY <1>0, ListFacts
    <3>2. Len(<<my[t].obj>> \o Nodes) = 1 + Len(Nodes)
      BY <3>1, ConcatProperties
    <3> QED BY <1>0, <1>10, <3>2
  <2>2. pc'[t] \in PopLabels <=> pc[t] \in PopLabels
    BY <1>1, <1>2 DEF PopLabels
  <2> QED BY <1>2, <2>1, <2>2, PoppersStay
<1> QED BY <1>0, <1>2, <1>5, <1>6, <1>7, <1>10, <1>11, <1>12, <1>13 DEF StackInv

\* PopSwap, when nobody came first: the node is off, and its item with it
LEMMA PoppedStep ==
  ASSUME StackInv, NEW t \in Threads, PopSwap(t), top = my[t].top
  PROVE  /\ StackInv'
         /\ Nodes # <<>> /\ top.node = Head(Nodes) /\ top.node \in held /\ my'[t].obj = top.node
         /\ Nodes' = Tail(Nodes)
<1>1. /\ pc[t] = "PopSwap" /\ NoneOvertaken(t, BetweenTops) /\ Overtake(t, BetweenTops)
      /\ top' = Advance(top, my[t].succ) /\ held' = held \ {top.node}
      /\ my' = [my EXCEPT ![t] = [Blank EXCEPT !.obj = top.node]]
      /\ pc' = [pc EXCEPT ![t] = "PopData"]
      /\ UNCHANGED <<mTop, next, unborn, link, data, out, item>>
  BY DEF PopSwap, TakeTop, Goto
<1>0. /\ PoolInv /\ PoolTypes /\ StackTypes /\ HasItem(t) /\ NoItem \notin Items
      /\ my[t].obj = Null /\ my[t].succ \in Links /\ Blank \in Locals
      /\ RecentIn(top, BetweenTops, pc, my, age) /\ TopReading
      /\ Listed(Nodes, top.node, link) /\ ToSet(Nodes) = held /\ Len(Nodes) \in Nat
  BY <1>1, ThreadFacts, NodeFacts DEF StackInv, ItemsHeld, CarrierLabels, TopInv
<1>2. top.node # Null /\ my[t].succ = link[top.node]
  <2>1. pc[t] \in BetweenTops /\ my \in [Threads -> Locals] /\ age \in [Threads -> Counts]
    BY <1>0, <1>1 DEF BetweenTops, PoolTypes
  <2>2. age[t] = 0
    BY <1>0, <2>1, RecentFirst
  <2> QED BY <1>0, <1>1, <2>2 DEF TopReading
<1>3. top.node \in held /\ top.node \in Objects /\ Len(Nodes) # 0
  BY <1>2, NodeFacts
<1>4. /\ OthersStay(t) /\ pc'[t] = "PopData" /\ my'[t].obj = top.node
      /\ \A u \in Threads \ {t} : item'[u] = item[u]
      /\ \A u \in Threads \ {t} : pc[u] \in Between => age'[u] = age[u]
  <2>1. \A u \in Threads \ {t} : pc[u] \in Between => age'[u] = age[u]
    BY <1>1 DEF Overtake, Between, BetweenTops
  <2> QED BY <1>0, <1>1, <2>1 DEF OthersStay, PoolTypes, Blank
<1>5. /\ top' \in Tops /\ top'.node = link[top.node] /\ top'.count = Turn(top.count, 1)
  BY <1>0, <1>1, <1>2, Advanced DEF StackTypes
<1>6. /\ RecentIn(top', BetweenTops, pc', my', age') /\ age' \in [Threads -> Counts]
      /\ \A u \in Threads \ {t} : pc[u] \in BetweenTops => age'[u] # 0
  <2>1. pc'[t] \notin BetweenTops
    BY <1>4 DEF BetweenTops
  <2>2. /\ RecentIn(top, BetweenTops, pc, my, age) /\ PoolTypes /\ OthersStay(t)
        /\ top'.count = Turn(top.count, 1)
        /\ NoneOvertaken(t, BetweenTops) /\ Overtake(t, BetweenTops)
    BY <1>0, <1>1, <1>4, <1>5
  <2> QED BY <2>1, <2>2, SwapAges
<1>7. PoolInv'
  <2>1. [Blank EXCEPT !.obj = top.node] \in Locals
    BY <1>0, <1>3 DEF Locals, Links
  <2>2. my' \in [Threads -> Locals] /\ pc' \in [Threads -> Labels]
    BY <1>0, <1>1, <2>1 DEF PoolTypes, Labels
  <2>3. PoolTypes'
    BY <1>0, <1>1, <1>6, <2>2 DEF PoolTypes
  <2> QED BY <1>0, <1>1, <1>3, <1>4, <2>3, TakeStep
<1>8. StackTypes'
  BY <1>0, <1>1, <1>5 DEF StackTypes
<1>9. ItemsHeld' /\ UniqueItems'
  <2>1. data[top.node] \in Items
    BY <1>3 DEF StackInv, ItemsHeld
  <2>2. HasItem(t)'
    BY <1>0, <1>1, <1>4, <2>1 DEF HasItem, ItemLabels
  <2>3. Has(t)' = data[top.node]
    BY <1>1, <1>4 DEF Has
  <2>4. ItemGoes(t)
    BY <1>1, <1>3, <2>3 DEF ItemGoes
  <2> QED BY <1>1, <1>4, <2>2, <2>4, ItemsStep
<1>10. TopReading'
  <2>1. pc'[t] \notin BetweenTops
    BY <1>4 DEF BetweenTops
  <2> QED BY <1>1, <1>4, <1>6, <2>1, TopSwapReading
<1>11. /\ Nodes # <<>> /\ top.node = Head(Nodes)
       /\ Listed(Tail(Nodes), link[top.node], link) /\ ToSet(Tail(Nodes)) = held \ {top.node}
  BY <1>0, <1>2, ListTail
<1>12. Nodes' = Tail(Nodes)
  <2>1. Chain(link[top.node], link) = Tail(Nodes)
    BY <1>11, ChainOf
  <2> QED BY <1>1, <1>5, <2>1 DEF Nodes
<1>13. TopInv'
  <2>1. Listed(Nodes, top.node, link)' /\ (ToSet(Nodes) = held)'
    BY <1>1, <1>5, <1>11, <1>12
  <2> QED BY <1>6, <1>10, <2>1 DEF TopInv
<1>14. NoGrowth'
  BY <1>1, <1>4 DEF StackInv, NoGrowth, OthersStay
<1>15. Popping'
  <2>1. At(PopLabels)' = At(PopLabels) \ {t} /\ t \in At(PopLabels)
    <3>1. \A u \in Threads : pc'[u] \in PopLabels <=> u # t /\ pc[u] \in PopLabels
      BY <1>4 DEF OthersStay, PopLabels
    <3> QED BY <1>1, <3>1 DEF At, PopLabels
  <2>2. Cardinality(At(PopLabels) \ {t}) = Cardinality(At(PopLabels)) - 1
    BY <2>1, NodeFacts, FS_RemoveElement
  <2>3. Len(Tail(Nodes)) = Len(Nodes) - 1
    <3>1. Nodes \in Seq(Objects)
      BY <1>0, ListFacts
    <3> QED BY <1>11, <3>1, HeadTailProperties
  <2>4. Cardinality(At(PopLabels)) - 1 <= Len(Nodes) - 1
    BY NodeFacts
  <2> QED BY <1>12, <2>1, <2>2, <2>3, <2>4 DEF Popping
<1> QED BY <1>3, <1>4, <1>7, <1>8, <1>9, <1>11, <1>12, <1>13, <1>14, <1>15 DEF StackInv

LEMMA PushStep ==
  ASSUME StackInv, NEW t \in Threads, Push(t)
  PROVE  StackInv'
<1>1. CASE PushSwap(t)
  <2>1. CASE top # my[t].top
    <3>1. /\ pc[t] = "PushSwap" /\ Again(t, "PushRead")
          /\ UNCHANGED <<mTop, next, unborn, held, top, link, data, out, item>>
      BY <1>1, <2>1 DEF PushSwap
    <3> QED BY <3>1, AgainStep
  <2> QED BY <1>1, <2>1, PushedStep
<1>2. CASE GetObject(t, "PushData") /\ UNCHANGED stackVars
  BY <1>2, PoolStackStep
<1> QED BY <1>1, <1>2, CallPushStep, PushDataStep, ReadTopStep, PushLinkStep DEF Push

LEMMA PopStep ==
  ASSUME StackInv, NEW t \in Threads, Pop(t)
  PROVE  StackInv'
<1>1. CASE PopSwap(t)
  <2>1. CASE top # my[t].top
    <3>1. /\ pc[t] = "PopSwap" /\ Again(t, "PopRead")
          /\ UNCHANGED <<mTop, next, unborn, held, top, link, data, out, item>>
      BY <1>1, <2>1 DEF PopSwap
    <3> QED BY <3>1, AgainStep
  <2> QED BY <1>1, <2>1, PoppedStep
<1>2. CASE ReleaseObject(t, "ReturnPop") /\ UNCHANGED stackVars
  BY <1>2, PoolStackStep
<1> QED BY <1>1, <1>2, CallPopStep, ReadTopStep, PopLinkStep, PopDataStep, ReturnPopStep DEF Pop

LEMMA StackBegins == StackInit => StackInv /\ Nodes = <<>> /\ pc = [t \in Threads |-> "Idle"]
<1> SUFFICES ASSUME StackInit PROVE StackInv /\ Nodes = <<>> /\ pc = [t \in Threads |-> "Idle"]
  OBVIOUS
<1>1. /\ PoolInv /\ pc = [t \in Threads |-> "Idle"] /\ my = [t \in Threads |-> Blank]
      /\ held = {} /\ Cardinality(Objects \ unborn) = Size
  <2>1. PoolInv
    BY PoolBegins DEF StackInit
  <2>2. /\ pc = [t \in Threads |-> "Idle"] /\ my = [t \in Threads |-> Blank] /\ held = {}
        /\ \E s \in kSubset(Size, Objects) : unborn = Objects \ s
    BY DEF StackInit, Init
  <2>3. \A s \in kSubset(Size, Objects) : Objects \ (Objects \ s) = s /\ Cardinality(s) = Size
    BY DEF kSubset
  <2> QED BY <2>1, <2>2, <2>3
<1>2. /\ top = Pointer(Null, 0) /\ link = [n \in Objects |-> Null]
      /\ data = [n \in Objects |-> NoItem] /\ out = Items /\ item = [t \in Threads |-> NoItem]
      /\ NoItem \notin Items
  BY StackAssumption DEF StackInit
<1>3. top.node = Null
  BY <1>2 DEF Pointer
<1>4. Listed(<<>>, top.node, link) /\ ToSet(<<>>) = {}
  BY <1>3, EmptySeq DEF Listed, ToSet
<1>5. Nodes = <<>>
  BY <1>4, ChainOf DEF Nodes
<1>6. StackTypes
  BY <1>2, Turns DEF StackTypes, Tops, Links, Pointer
<1>7. TopInv
  BY <1>1, <1>4, <1>5 DEF TopInv, TopReading, RecentIn, BetweenTops
<1>8. Popping
  <2>1. At(PopLabels) = {}
    BY <1>1 DEF At, PopLabels
  <2> QED BY <1>5, <2>1, FS_EmptySet, EmptySeq DEF Popping
<1>9. NoGrowth
  BY <1>1 DEF NoGrowth
<1>10. ItemsHeld /\ UniqueItems
  BY <1>1, <1>2 DEF ItemsHeld, HasItem, ItemLabels, UniqueItems, Has
<1> QED BY <1>1, <1>5, <1>6, <1>7, <1>8, <1>9, <1>10 DEF StackInv

LEMMA StackKept == StackInv /\ [StackNext]_allVars => StackInv'
<1> SUFFICES ASSUME StackInv, [StackNext]_allVars PROVE StackInv'
  OBVIOUS
<1>1. CASE UNCHANGED allVars
  <2>1. UNCHANGED <<mTop, next, unborn, held, pc, my, age, top, link, data, out, item>>
    BY <1>1 DEF allVars, vars, poolVars, stackVars
  <2>2. PoolInv'
    BY <2>1 DEF StackInv, PoolInv, PoolTypes, Carries, Reading, RecentIn, Free, Pool, OnePlaceIn
  <2>3. StackTypes' /\ NoGrowth' /\ ItemsHeld' /\ UniqueItems'
    BY <2>1 DEF StackInv, StackTypes, NoGrowth, ItemsHeld, HasItem, UniqueItems, Has
  <2>4. TopInv' /\ Popping'
    BY <2>1 DEF StackInv, TopInv, TopReading, RecentIn, Nodes, Popping, At
  <2> QED BY <2>2, <2>3, <2>4 DEF StackInv
<1>2. ASSUME NEW t \in Threads, Push(t) \/ Pop(t) PROVE StackInv'
  BY <1>2, PushStep, PopStep
<1> QED BY <1>1, <1>2, StackAssumption DEF StackNext

\* The stack of free slots never asks its pool for a node that the pool does not
\* have: nodes that are not free all carry an index, each another one, and there
\* are no more of these than nodes.
THEOREM NodeAlwaysFree == StackSpec => []NoNewNode
<1>1. StackInv => NoNewNode
  BY DEF StackInv, NoGrowth, NoNewNode, At
<1> QED BY <1>1, StackBegins, StackKept, PTL DEF StackSpec

\* The nodes of the stack are accounted for as the objects of the pool alone are:
\* a node is in the stack, in the pool, or in the hands of one thread.
THEOREM NoNodeTwice == StackSpec => []ObjectsAccounted
<1>1. StackInv => ObjectsAccounted
  BY PoolAccounts DEF StackInv
<1> QED BY <1>1, StackBegins, StackKept, PTL DEF StackSpec

--------------------------------------------------------------------------------
(* The refinement of StackContract.                                        *)

LEMMA PoppedIs ==
  ASSUME NEW t \in Threads
  PROVE  /\ pc[t] = "PopData" => Popped[t] = data[my[t].obj]
         /\ pc[t] \in ReturnLabels => Popped[t] = item[t]
         /\ pc[t] \notin ReturnLabels \cup {"PopData"} => Popped[t] = NoItem
BY DEF Popped, ReturnLabels

\* what t has popped, as the others have
LEMMA PoppedChanges ==
  ASSUME StackInv, NEW t \in Threads, OthersStay(t), \A u \in Threads \ {t} : item'[u] = item[u],
         \/ UNCHANGED data
         \/ pc[t] \in CarrierLabels /\ \E x : data' = [data EXCEPT ![my[t].obj] = x]
  PROVE  Popped' = [Popped EXCEPT ![t] = Popped'[t]]
<1>1. ASSUME NEW u \in Threads, u # t PROVE Popped'[u] = Popped[u]
  <2>1. pc'[u] = pc[u] /\ my'[u] = my[u] /\ item'[u] = item[u]
    BY <1>1 DEF OthersStay
  <2>2. pc[u] = "PopData" => data'[my[u].obj] = data[my[u].obj]
    BY <1>1, DataElsewhere DEF CarrierLabels
  <2>3. Popped[u] = CASE pc[u] = "PopData" -> data[my[u].obj]
                      [] pc[u] \in {"PutRead", "PutNext", "PutSwap", "PutCount", "ReturnPop"}
                           -> item[u]
                      [] OTHER -> NoItem
    BY DEF Popped
  <2>4. Popped'[u] = CASE pc'[u] = "PopData" -> data'[my'[u].obj]
                       [] pc'[u] \in {"PutRead", "PutNext", "PutSwap", "PutCount", "ReturnPop"}
                            -> item'[u]
                       [] OTHER -> NoItem
    BY DEF Popped
  <2> QED BY <2>1, <2>2, <2>3, <2>4
<1>2. DOMAIN Popped = Threads /\ Popped = [u \in Threads |-> Popped[u]]
      /\ Popped' = [u \in Threads |-> Popped'[u]]
  BY DEF Popped
<1> QED BY <1>1, <1>2

LEMMA ContentsFacts ==
  ASSUME StackInv
  PROVE  /\ Contents \in Seq(Items) /\ Len(Contents) = Len(Nodes) /\ Len(Nodes) \in Nat
         /\ Nodes \in Seq(Objects) /\ DOMAIN Nodes = 1 .. Len(Nodes)
         /\ \A i \in 1 .. Len(Nodes) : Contents[i] = data[Nodes[i]] /\ Nodes[i] \in held
<1>1. /\ Listed(Nodes, top.node, link) /\ ToSet(Nodes) = held
      /\ \A n \in held : data[n] \in Items
  BY DEF StackInv, TopInv, ItemsHeld
<1>2. /\ Nodes \in Seq(Objects) /\ Len(Nodes) \in Nat /\ DOMAIN Nodes = 1 .. Len(Nodes)
      /\ \A i \in 1 .. Len(Nodes) : Nodes[i] \in held
  BY <1>1, ListFacts
<1>3. Contents \in [1 .. Len(Nodes) -> Items]
  BY <1>1, <1>2 DEF Contents
<1>4. Contents \in Seq(Items) /\ Len(Contents) = Len(Nodes)
  BY <1>2, <1>3
<1> QED BY <1>2, <1>4 DEF Contents

ContentsListed ==
    /\ Contents \in Seq(Items) /\ Len(Contents) = Len(Nodes)
    /\ \A i \in 1 .. Len(Nodes) : Contents[i] = data[Nodes[i]]

LEMMA ContentsAfter == StackInv' => ContentsListed'
<1>1. StackInv => ContentsListed
  BY ContentsFacts DEF ContentsListed
<1> QED BY <1>1, PTL

LEMMA Stutters ==
  ASSUME StackInv, NEW t \in Threads, OthersStay(t), \A u \in Threads \ {t} : item'[u] = item[u],
         \/ UNCHANGED data
         \/ pc[t] \in CarrierLabels /\ \E x : data' = [data EXCEPT ![my[t].obj] = x],
         Nodes' = Nodes, Popped'[t] = Popped[t]
  PROVE  UNCHANGED <<Contents, Popped>>
<1>1. Contents' = Contents
  <2>1. \A i \in DOMAIN Nodes : data'[Nodes[i]] = data[Nodes[i]]
    BY ContentsFacts, DataElsewhere
  <2> QED BY <2>1 DEF Contents
<1>2. Popped' = Popped
  <2>1. Popped' = [Popped EXCEPT ![t] = Popped'[t]]
    BY PoppedChanges
  <2> QED BY <2>1 DEF Popped
<1> QED BY <1>1, <1>2

\* steps that neither push nor pop: those of the pool
LEMMA PoolStutters ==
  ASSUME StackInv, NEW t \in Threads,
         GetObject(t, "PushData") \/ ReleaseObject(t, "ReturnPop"), UNCHANGED stackVars
  PROVE  UNCHANGED <<Contents, Popped>>
<1>1. /\ OthersStay(t) /\ pc[t] \in PoolLabels
      /\ pc'[t] \in PoolLabels \cup {"PushData", "ReturnPop"}
      /\ pc'[t] \in ReturnLabels <=> pc[t] \in ReturnLabels
  BY PoolEffects
<1>2. UNCHANGED <<top, link, data, out, item>>
  BY DEF stackVars
<1>3. Nodes' = Nodes
  BY <1>2 DEF Nodes
<1>4. Popped'[t] = Popped[t]
  <2>1. CASE pc[t] \in ReturnLabels
    BY <1>1, <1>2, <2>1 DEF Popped, ReturnLabels
  <2>2. CASE pc[t] \notin ReturnLabels
    <3>1. pc[t] \notin ReturnLabels \cup {"PopData"} /\ pc'[t] \notin ReturnLabels \cup {"PopData"}
      BY <1>1, <2>2 DEF PoolLabels
    <3> QED BY <3>1 DEF Popped, ReturnLabels
  <2> QED BY <2>1, <2>2
<1> QED BY <1>1, <1>2, <1>3, <1>4, Stutters

\* and those of the stack, before and after the exchange
LEMMA OtherStutters ==
  ASSUME StackInv, NEW t \in Threads,
         \/ CallPush(t) \/ PushData(t) \/ PushRead(t) \/ PushLink(t)
         \/ PushSwap(t) /\ top # my[t].top
         \/ CallPop(t) \/ PopRead(t) \/ PopLink(t) \/ PopData(t)
         \/ PopSwap(t) /\ top # my[t].top
  PROVE  UNCHANGED <<Contents, Popped>>
<1>0. PoolTypes /\ StackTypes
  BY ThreadFacts
<1>1. OthersStay(t) /\ \A u \in Threads \ {t} : item'[u] = item[u]
  BY <1>0 DEF OthersStay, PoolTypes, StackTypes, CallPush, PushData, PushRead, PushLink, PushSwap,
              CallPop, PopRead, PopLink, PopData, PopSwap, Again, Goto, stackVars
<1>2. \/ UNCHANGED data
      \/ pc[t] \in CarrierLabels /\ \E x : data' = [data EXCEPT ![my[t].obj] = x]
  <2>1. CASE PushData(t)
    BY <2>1 DEF PushData, CarrierLabels
  <2> QED BY <2>1 DEF CallPush, PushRead, PushLink, PushSwap, CallPop, PopRead, PopLink, PopData,
                      PopSwap, stackVars
<1>3. Nodes' = Nodes
  <2>1. CASE PushLink(t)
    BY <2>1, PushLinkStep
  <2>2. CASE UNCHANGED <<top, link>>
    BY <2>2 DEF Nodes
  <2>3. PushLink(t) \/ UNCHANGED <<top, link>>
    BY DEF CallPush, PushData, PushRead, PushSwap, CallPop, PopRead, PopLink, PopData, PopSwap,
           stackVars
  <2> QED BY <2>1, <2>2, <2>3
<1>4. Popped'[t] = Popped[t]
  <2>1. CASE PopData(t)
    <3>1. pc[t] = "PopData" /\ pc'[t] = "PutRead" /\ item'[t] = data[my[t].obj]
      BY <1>0, <2>1 DEF PopData, Goto, PoolTypes, StackTypes
    <3> QED BY <3>1 DEF Popped
  <2>2. CASE ~ PopData(t)
    <3>1. /\ pc[t] \notin ReturnLabels \cup {"PopData"}
          /\ pc'[t] \notin ReturnLabels \cup {"PopData"}
      BY <1>0, <2>2 DEF CallPush, PushData, PushRead, PushLink, PushSwap, CallPop, PopRead, PopLink,
                        PopSwap, Again, Goto, PoolTypes, ReturnLabels
    <3> QED BY <3>1 DEF Popped, ReturnLabels
  <2> QED BY <2>1, <2>2
<1> QED BY <1>1, <1>2, <1>3, <1>4, Stutters

LEMMA PushedContents ==
  ASSUME StackInv, NEW t \in Threads, PushSwap(t), top = my[t].top
  PROVE  Contract!Next
<1>1. /\ StackInv' /\ Nodes' = <<my[t].obj>> \o Nodes /\ my[t].obj \in Objects
      /\ item[t] \in Items /\ data[my[t].obj] = item[t]
  BY PushedStep
<1>2. /\ pc[t] = "PushSwap" /\ pc' = [pc EXCEPT ![t] = "Idle"] /\ my' = [my EXCEPT ![t] = Blank]
      /\ item' = [item EXCEPT ![t] = NoItem] /\ UNCHANGED data
  BY DEF PushSwap, Goto
<1>3. Contents' = <<item[t]>> \o Contents
  <2>1. /\ Nodes \in Seq(Objects) /\ Len(Nodes) \in Nat /\ Contents \in Seq(Items)
        /\ Len(Contents) = Len(Nodes)
        /\ \A i \in 1 .. Len(Nodes) : Contents[i] = data[Nodes[i]]
    BY ContentsFacts
  <2>2. /\ Contents' \in Seq(Items) /\ Len(Contents') = Len(Nodes')
        /\ \A i \in 1 .. Len(Nodes') : Contents'[i] = data[Nodes'[i]]
    BY <1>1, <1>2, ContentsAfter DEF ContentsListed
  <2>3. /\ <<my[t].obj>> \in Seq(Objects) /\ Len(<<my[t].obj>>) = 1
        /\ <<my[t].obj>>[1] = my[t].obj
        /\ <<item[t]>> \in Seq(Items) /\ Len(<<item[t]>>) = 1 /\ <<item[t]>>[1] = item[t]
    BY <1>1
  <2>4. /\ Len(Nodes') = 1 + Len(Nodes)
        /\ \A i \in 1 .. 1 + Len(Nodes) :
              Nodes'[i] = IF i <= 1 THEN <<my[t].obj>>[i] ELSE Nodes[i - 1]
    <3> DEFINE x == <<my[t].obj>>
    <3>1. x \in Seq(Objects) /\ Len(x) = 1 /\ Nodes' = x \o Nodes
      BY <1>1, <2>3
    <3> HIDE DEF x
    <3>2. /\ Len(x \o Nodes) = Len(x) + Len(Nodes)
          /\ \A i \in 1 .. Len(x) + Len(Nodes) :
                (x \o Nodes)[i] = IF i <= Len(x) THEN x[i] ELSE Nodes[i - Len(x)]
      BY <2>1, <3>1, ConcatProperties
    <3>3. /\ Len(Nodes') = 1 + Len(Nodes)
          /\ \A i \in 1 .. 1 + Len(Nodes) : Nodes'[i] = IF i <= 1 THEN x[i] ELSE Nodes[i - 1]
      BY <3>1, <3>2
    <3> QED BY <3>3 DEF x
  <2> DEFINE c == <<item[t]>> \o Contents
  <2>5. /\ c \in Seq(Items) /\ Len(c) = 1 + Len(Nodes)
        /\ \A i \in 1 .. 1 + Len(Nodes) :
              c[i] = IF i <= 1 THEN <<item[t]>>[i] ELSE Contents[i - 1]
    <3> DEFINE x == <<item[t]>>
    <3>1. x \in Seq(Items) /\ Len(x) = 1 /\ c = x \o Contents
      BY <2>3
    <3> HIDE DEF x, c
    <3>2. /\ x \o Contents \in Seq(Items) /\ Len(x \o Contents) = Len(x) + Len(Contents)
          /\ \A i \in 1 .. Len(x) + Len(Contents) :
                (x \o Contents)[i] = IF i <= Len(x) THEN x[i] ELSE Contents[i - Len(x)]
      <4>1. x \in Seq(Items) /\ Contents \in Seq(Items)
        BY <2>1, <3>1
      <4> QED BY <4>1, ConcatProperties
    <3>3. /\ c \in Seq(Items) /\ Len(c) = 1 + Len(Nodes)
          /\ \A i \in 1 .. 1 + Len(Nodes) : c[i] = IF i <= 1 THEN x[i] ELSE Contents[i - 1]
      BY <2>1, <3>1, <3>2
    <3> QED BY <3>3 DEF x
  <2> HIDE DEF c
  <2>6. ASSUME NEW i \in 1 .. Len(c) PROVE Contents'[i] = c[i]
    <3>0. i \in 1 .. 1 + Len(Nodes) /\ Contents'[i] = data[Nodes'[i]]
      BY <2>2, <2>4, <2>5
    <3>1. CASE i = 1
      BY <1>1, <2>3, <2>4, <2>5, <3>0, <3>1
    <3>2. CASE i # 1
      <4>1. i - 1 \in 1 .. Len(Nodes) /\ ~ (i <= 1)
        BY <2>1, <3>0, <3>2
      <4> QED BY <2>1, <2>4, <2>5, <3>0, <4>1
    <3> QED BY <3>1, <3>2
  <2>7. Contents' = c
    BY <2>2, <2>4, <2>5, <2>6, SeqEqual
  <2> QED BY <2>7 DEF c
<1>4. Popped' = Popped
  <2>1. PoolTypes /\ StackTypes
    BY ThreadFacts
  <2>2. OthersStay(t) /\ pc'[t] = "Idle" /\ \A u \in Threads \ {t} : item'[u] = item[u]
    BY <1>2, <2>1 DEF OthersStay, PoolTypes, StackTypes
  <2>3. Popped'[t] = Popped[t]
    BY <1>2, <2>2 DEF Popped
  <2>4. Popped' = [Popped EXCEPT ![t] = Popped'[t]]
    BY <1>2, <2>2, PoppedChanges
  <2> QED BY <2>3, <2>4 DEF Popped
<1>5. Contract!Push(item[t])
  BY <1>3, <1>4 DEF Contract!Push
<1> QED BY <1>1, <1>5 DEF Contract!Next

LEMMA PoppedContents ==
  ASSUME StackInv, NEW t \in Threads, PopSwap(t), top = my[t].top
  PROVE  Contract!Next
<1>1. /\ StackInv' /\ Nodes # <<>> /\ top.node = Head(Nodes) /\ top.node \in held
      /\ my'[t].obj = top.node /\ Nodes' = Tail(Nodes)
  BY PoppedStep
<1>2. /\ pc[t] = "PopSwap" /\ pc' = [pc EXCEPT ![t] = "PopData"]
      /\ my' = [my EXCEPT ![t] = [Blank EXCEPT !.obj = my[t].top.node]]
      /\ UNCHANGED <<data, item>>
  BY DEF PopSwap, TakeTop, Goto
<1>3. /\ Nodes \in Seq(Objects) /\ Len(Nodes) \in Nat /\ Contents \in Seq(Items)
      /\ Len(Contents) = Len(Nodes)
      /\ \A i \in 1 .. Len(Nodes) : Contents[i] = data[Nodes[i]]
  BY ContentsFacts
<1>4. Len(Nodes) \in Nat \ {0} /\ Contents # <<>> /\ 1 \in 1 .. Len(Nodes)
  BY <1>1, <1>3, EmptySeq
<1>5. Head(Contents) = data[top.node]
  <2>1. top.node = Nodes[1]
    BY <1>4, NodeFacts DEF Listed
  <2>2. Head(Contents) = Contents[1]
    BY <1>3, <1>4
  <2> QED BY <1>3, <1>4, <2>1, <2>2
<1>6. Contents' = Tail(Contents)
  <2>1. /\ Contents' \in Seq(Items) /\ Len(Contents') = Len(Nodes')
        /\ \A i \in 1 .. Len(Nodes') : Contents'[i] = data[Nodes'[i]]
    BY <1>1, <1>2, ContentsAfter DEF ContentsListed
  <2>2. /\ Len(Nodes') = Len(Nodes) - 1
        /\ \A i \in 1 .. Len(Nodes') : Nodes'[i] = Nodes[i + 1]
    <3>1. /\ Len(Tail(Nodes)) = Len(Nodes) - 1
          /\ \A i \in 1 .. Len(Tail(Nodes)) : Tail(Nodes)[i] = Nodes[i + 1]
      BY <1>1, <1>3, HeadTailProperties
    <3> QED BY <1>1, <3>1
  <2>3. /\ Tail(Contents) \in Seq(Items) /\ Len(Tail(Contents)) = Len(Nodes) - 1
        /\ \A i \in 1 .. Len(Tail(Contents)) : Tail(Contents)[i] = Contents[i + 1]
    BY <1>3, <1>4, HeadTailProperties
  <2>4. ASSUME NEW i \in 1 .. Len(Contents') PROVE Contents'[i] = Tail(Contents)[i]
    <3>1. i \in 1 .. Len(Nodes') /\ i \in 1 .. Len(Tail(Contents)) /\ i + 1 \in 1 .. Len(Nodes)
      BY <1>3, <2>1, <2>2, <2>3
    <3> QED BY <1>3, <2>1, <2>2, <2>3, <3>1
  <2> QED BY <2>1, <2>2, <2>3, <2>4, SeqEqual
<1>7. Popped[t] = NoItem /\ Popped' = [Popped EXCEPT ![t] = Head(Contents)]
  <2>1. PoolTypes /\ StackTypes
    BY ThreadFacts
  <2>2. OthersStay(t) /\ pc'[t] = "PopData" /\ \A u \in Threads \ {t} : item'[u] = item[u]
    BY <1>2, <2>1 DEF OthersStay, PoolTypes, StackTypes
  <2>3. Popped'[t] = data[top.node]
    BY <1>1, <1>2, <2>2 DEF Popped
  <2>4. Popped' = [Popped EXCEPT ![t] = Popped'[t]]
    BY <1>2, <2>2, PoppedChanges
  <2>5. Popped[t] = NoItem
    BY <1>2 DEF Popped
  <2> QED BY <1>5, <2>3, <2>4, <2>5
<1>8. Contract!Pop(t)
  BY <1>4, <1>6, <1>7 DEF Contract!Pop
<1> QED BY <1>8 DEF Contract!Next

LEMMA ReturnedContents ==
  ASSUME StackInv, NEW t \in Threads, ReturnPop(t)
  PROVE  Contract!Next
<1>0. PoolTypes /\ StackTypes
  BY ThreadFacts
<1>1. /\ pc[t] = "ReturnPop" /\ pc' = [pc EXCEPT ![t] = "Idle"]
      /\ item' = [item EXCEPT ![t] = NoItem] /\ UNCHANGED <<my, top, link, data>>
  BY DEF ReturnPop, Goto
<1>2. OthersStay(t) /\ pc'[t] = "Idle" /\ \A u \in Threads \ {t} : item'[u] = item[u]
  BY <1>0, <1>1 DEF OthersStay, PoolTypes, StackTypes
<1>3. Contents' = Contents
  BY <1>1 DEF Contents, Nodes
<1>4. Popped' = [Popped EXCEPT ![t] = NoItem]
  <2>1. Popped'[t] = NoItem
    BY <1>2 DEF Popped
  <2>2. Popped' = [Popped EXCEPT ![t] = Popped'[t]]
    BY <1>1, <1>2, PoppedChanges
  <2> QED BY <2>1, <2>2
<1>5. Contract!Return(t)
  BY <1>3, <1>4 DEF Contract!Return
<1> QED BY <1>5 DEF Contract!Next

\* Push and Pop are each one step of a stack, at their exchange on top, for any
\* number of threads and whatever they do between the reads and the exchange.
THEOREM LastInFirstOut == StackSpec => RefinesStack
<1>1. StackInit => Contract!Init
  <2> SUFFICES ASSUME StackInit PROVE Contract!Init
    OBVIOUS
  <2>1. Nodes = <<>> /\ pc = [t \in Threads |-> "Idle"]
    BY StackBegins
  <2>2. Contents = <<>>
    BY <2>1, EmptySeq DEF Contents
  <2>3. Popped = [t \in Threads |-> NoItem]
    BY <2>1 DEF Popped
  <2> QED BY <2>2, <2>3 DEF Contract!Init
<1>2. StackInv /\ [StackNext]_allVars => [Contract!Next]_<<Contents, Popped>>
  <2> SUFFICES ASSUME StackInv, [StackNext]_allVars
               PROVE  Contract!Next \/ UNCHANGED <<Contents, Popped>>
    OBVIOUS
  <2>1. CASE UNCHANGED allVars
    BY <2>1 DEF allVars, vars, stackVars, Contents, Nodes, Popped
  <2>2. ASSUME NEW t \in Threads, Push(t)
        PROVE  Contract!Next \/ UNCHANGED <<Contents, Popped>>
    BY <2>2, PoolStutters, OtherStutters, PushedContents DEF Push
  <2>3. ASSUME NEW t \in Threads, Pop(t)
        PROVE  Contract!Next \/ UNCHANGED <<Contents, Popped>>
    BY <2>3, PoolStutters, OtherStutters, PoppedContents, ReturnedContents DEF Pop
  <2> QED BY <2>1, <2>2, <2>3, StackAssumption DEF StackNext
<1> QED BY <1>1, <1>2, StackBegins, StackKept, PTL DEF StackSpec, RefinesStack, Contract!Spec

================================================================================
