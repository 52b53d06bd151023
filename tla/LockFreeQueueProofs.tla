------------------------- MODULE LockFreeQueueProofs -------------------------
(***************************************************************************)
(* Proofs about LockFreeQueue for any number of nodes, threads and items:  *)
(* no node and no item is lost or found twice, with any number of          *)
(* producers and consumers, and with one producer it is the queue that     *)
(* QueueContract describes.                                                *)
(***************************************************************************)
EXTENDS LockFreeQueue, FiniteSetTheorems, SequenceTheorems, TLAPS

\* s is the list of different nodes from n on, which ends
Listed(s, n, succ) ==
    /\ s \in Seq(Nodes) /\ s # <<>> /\ s[1] = n
    /\ \A i, j \in 1 .. Len(s) : s[i] = s[j] => i = j
    /\ \A i \in 1 .. Len(s) : succ[s[i]] = IF i = Len(s) THEN Null ELSE s[i + 1]

Pointers == [node : Nodes, count : Nat]
Enqueuing == {"Idle", "ReadTail", "ReadTailNext", "Link", "Help", "Swing", "Count"}
Dequeuing == {"Idle", "Restore", "ReadHead", "ReadTailToo", "ReadHeadNext", "HelpTail",
              "ReadData", "Unlink", "Release"}

Locals == [node : Nodes \cup {Null}, head : Pointers \cup {NoPointer},
           tail : Pointers \cup {NoPointer}, succ : Nodes \cup {Null},
           out : Items \cup {NoItem}]

Types ==
    /\ mHead \in Pointers /\ mTail \in Pointers
    /\ next \in [Nodes -> Nodes \cup {Null}]
    /\ data \in [Nodes -> Items \cup {NoItem}]
    /\ free \in SUBSET Nodes /\ mSize \in Int
    /\ pc \in [Threads -> Enqueuing \cup Dequeuing]
    /\ \A p \in Producers : pc[p] \in Enqueuing
    /\ \A c \in Consumers : pc[c] \in Dequeuing
    /\ my \in [Threads -> Locals]
    /\ count \in [Producers -> Nat]
    /\ linked \in Seq(Items \cup {NoItem}) /\ taken \in Seq(Items \cup {NoItem})

\* what the locals of a thread are that it is going to use
Ready(t) ==
    /\ t \in Producers /\ pc[t] # "Idle" => my[t].node \in Nodes
    /\ pc[t] \in {"Help", "HelpTail", "ReadData", "Unlink"} => my[t].succ \in Nodes
    /\ pc[t] = "Release" => my[t].head.node \in Nodes /\ next[my[t].head.node] # Null

\* the lists: q from the head, and d[p] from the node that p has not linked
Lists(q, d) ==
    /\ Listed(q, mHead.node, next) /\ mTail.node \in ToSet(q)
    /\ d \in [Producers -> Seq(Nodes)]
    /\ \A p \in Producers :
          IF pc[p] \in Unlinked THEN Listed(d[p], my[p].node, next) ELSE d[p] = <<>>

Held(d, t) ==
    IF t \in Producers THEN ToSet(d[t])
    ELSE IF pc[t] = "Release" THEN {my[t].head.node} ELSE {}

\* every node is in one place
Apart(q, d) ==
    /\ \A n \in Nodes : n \in free \/ n \in ToSet(q) \/ \E t \in Threads : n \in Held(d, t)
    /\ \A n \in free : n \notin ToSet(q) /\ \A t \in Threads : n \notin Held(d, t)
    /\ \A n \in ToSet(q) : \A t \in Threads : n \notin Held(d, t)
    /\ \A t, u \in Threads : \A n \in Held(d, t) : n \in Held(d, u) => t = u

\* A producer may have read, as the tail, a node that by now hangs off the node
\* of another one.  That one took its node later: so there is no circle.
Later(d, order) ==
    /\ order \in SUBSET (Producers \X Producers)
    /\ \A p \in Producers : <<p, p>> \notin order
    /\ \A p, r, s \in Producers : <<p, r>> \in order /\ <<r, s>> \in order => <<p, s>> \in order
    /\ \A p, r \in Producers :
          pc[p] \in {"ReadTailNext", "Link"} /\ my[p].tail.node \in ToSet(d[r]) => <<p, r>> \in order

\* a tail that was read: as old as it is, or the tail; and it was in the queue once,
\* so that if its node is free, its Next is not Null
WithTail == {"ReadTailNext", "Link", "Help", "Swing", "ReadHeadNext", "HelpTail"}
TailRead(t) ==
    pc[t] \in WithTail =>
        /\ my[t].tail \in Pointers /\ my[t].tail.count <= mTail.count
        /\ my[t].tail.count = mTail.count => my[t].tail = mTail
        /\ my[t].tail.node \in free => next[my[t].tail.node] # Null

\* what would become the tail is behind it
SwingRead(t) ==
    my[t].tail = mTail =>
        /\ pc[t] \in {"Help", "HelpTail"} => next[mTail.node] = my[t].succ
        /\ pc[t] = "Swing" => next[mTail.node] = my[t].node

\* a head that was read: as old as it is, or the head; if it is, so is what was
\* read behind it, and the tail is not left behind
WithHead == {"ReadTailToo", "ReadHeadNext", "HelpTail", "ReadData", "Unlink"}
HeadRead(t) ==
    pc[t] \in WithHead =>
        /\ my[t].head \in Pointers /\ my[t].head.count <= mHead.count
        /\ my[t].head.count = mHead.count => my[t].head = mHead
        /\ my[t].head = mHead =>
              /\ pc[t] \in {"ReadHeadNext", "HelpTail"} =>
                    my[t].tail = mTail \/ mTail.node # mHead.node
              /\ pc[t] \in {"ReadData", "Unlink"} => mTail.node # mHead.node
              /\ pc[t] \in {"HelpTail", "ReadData", "Unlink"} => my[t].succ = next[mHead.node]
              /\ pc[t] = "Unlink" => my[t].out = data[my[t].succ]

Reads(t) == Ready(t) /\ TailRead(t) /\ SwingRead(t) /\ HeadRead(t)

Structure ==
    \E q \in Seq(Nodes), d \in [Producers -> Seq(Nodes)], order \in SUBSET (Producers \X Producers) :
        Lists(q, d) /\ Apart(q, d) /\ Later(d, order)

\* all nodes but those that are free, the dummies, and those not linked yet
Full ==
    Nodes \ (free \cup {mHead.node}
             \cup {my[p].node : p \in {p \in Producers : pc[p] \in Unlinked}}
             \cup {my[c].head.node : c \in {c \in Consumers : pc[c] = "Release"}})

\* the items of these are those that were linked and not taken
ItemsKept ==
    /\ \A m, n \in Full : data[m] = data[n] => m = n
    /\ \A n \in Full : data[n] \notin ToSet(taken)
    /\ IsInjective(taken)
    /\ {data[n] : n \in Full} \cup ToSet(taken) = ToSet(linked)
    /\ \A p \in Producers : pc[p] \in Unlinked => data[my[p].node] = <<p, count[p]>>
    /\ \A p \in Producers, k \in Nat : <<p, k>> \in ToSet(linked) =>
          k <= count[p] /\ (pc[p] \in Unlinked => k < count[p])

Counting == {p \in Producers : pc[p] \in {"Swing", "Count"}}
Lowered == {c \in Consumers : pc[c] \notin {"Idle", "Release"}}
Sized == mSize = Cardinality(Full) - Cardinality(Counting) - Cardinality(Lowered)

IInv == Types /\ (\A t \in Threads : Reads(t)) /\ Structure

--------------------------------------------------------------------------------
(* Linked lists.                                                           *)

\* a set of positions that is not empty has a least one
LEMMA Least ==
  ASSUME NEW n \in Nat, NEW K \in SUBSET (1 .. n), K # {}
  PROVE  \E k \in K : \A j \in K : k <= j
<1> DEFINE T == {1 .. k : k \in K}
<1>1. T \subseteq FiniteSubsetsOf(1 .. n)
  <2> SUFFICES ASSUME NEW k \in K PROVE 1 .. k \in FiniteSubsetsOf(1 .. n)
    OBVIOUS
  <2>1. k \in Int /\ 1 .. k \subseteq 1 .. n
    OBVIOUS
  <2> QED BY <2>1, FS_Interval DEF FiniteSubsetsOf
<1>2. T # {}
  OBVIOUS
<1>3. IsWellFoundedOn(StrictSubsetOrdering(1 .. n), FiniteSubsetsOf(1 .. n))
  BY FS_StrictSubsetOrderingWellFounded
<1> HIDE DEF T
<1>4. \E x \in T : \A y \in T : ~ (<<y, x>> \in StrictSubsetOrdering(1 .. n))
  BY <1>1, <1>2, <1>3, WFMin
<1>5. PICK k \in K : \A j \in K : ~ (<<1 .. j, 1 .. k>> \in StrictSubsetOrdering(1 .. n))
  BY <1>4 DEF T
<1>6. ASSUME NEW j \in K, j < k PROVE FALSE
  <2>1. j \in Int /\ k \in Int /\ 1 <= k /\ 1 .. j \subseteq 1 .. n /\ 1 .. k \subseteq 1 .. n
    OBVIOUS
  <2>2. 1 .. j \subseteq 1 .. k /\ k \in 1 .. k /\ k \notin 1 .. j
    BY <1>6, <2>1
  <2>3. <<1 .. j, 1 .. k>> \in StrictSubsetOrdering(1 .. n)
    BY <2>1, <2>2 DEF StrictSubsetOrdering
  <2> QED BY <1>5, <2>3
<1>7. \A j \in K : k <= j
  BY <1>6
<1> QED BY <1>7

\* what Listed says, in the form the proofs use
LEMMA ListFacts ==
  ASSUME NEW s, NEW n, NEW succ, Listed(s, n, succ)
  PROVE  /\ s \in Seq(Nodes) /\ Len(s) \in Nat /\ Len(s) >= 1 /\ DOMAIN s = 1 .. Len(s)
         /\ s # <<>> /\ s[1] = n
         /\ \A i \in 1 .. Len(s) : s[i] \in Nodes /\ s[i] \in ToSet(s)
         /\ \A i, j \in 1 .. Len(s) : s[i] = s[j] => i = j
         /\ \A i \in 1 .. Len(s) : succ[s[i]] = IF i = Len(s) THEN Null ELSE s[i + 1]
         /\ ToSet(s) = {s[i] : i \in 1 .. Len(s)} /\ ToSet(s) \subseteq Nodes /\ n \in ToSet(s)
<1>1. s \in Seq(Nodes) /\ s # <<>>
  BY DEF Listed
<1>2. Len(s) \in Nat /\ DOMAIN s = 1 .. Len(s) /\ Len(s) # 0
  BY <1>1, LenProperties, EmptySeq
<1>3. \A i \in 1 .. Len(s) : s[i] \in Nodes
  BY <1>1, ElementOfSeq
<1>4. ToSet(s) = {s[i] : i \in 1 .. Len(s)}
  BY <1>2 DEF ToSet
<1>5. Len(s) >= 1 /\ 1 \in 1 .. Len(s)
  BY <1>2
<1>6. ToSet(s) \subseteq Nodes /\ (\A i \in 1 .. Len(s) : s[i] \in ToSet(s)) /\ s[1] \in ToSet(s)
  BY <1>3, <1>4, <1>5
<1> QED BY <1>1, <1>2, <1>3, <1>4, <1>5, <1>6 DEF Listed

\* Next leads from node to node of the list, to none of them twice and never to the
\* first; one has none.
LEMMA ListNext ==
  ASSUME NEW s, NEW n, NEW succ, Listed(s, n, succ), NEW m \in ToSet(s)
  PROVE  /\ succ[m] # Null => succ[m] \in ToSet(s) /\ succ[m] \in Nodes /\ succ[m] # n /\ succ[m] # m
         /\ \A k \in ToSet(s) : succ[m] = Null /\ succ[k] = Null => k = m
<1>0. /\ Len(s) \in Nat /\ s[1] = n /\ ToSet(s) = {s[i] : i \in 1 .. Len(s)}
      /\ \A i \in 1 .. Len(s) : s[i] \in Nodes /\ s[i] \in ToSet(s)
      /\ \A i, j \in 1 .. Len(s) : s[i] = s[j] => i = j
      /\ \A i \in 1 .. Len(s) : succ[s[i]] = IF i = Len(s) THEN Null ELSE s[i + 1]
  BY ListFacts
<1>1. PICK i \in 1 .. Len(s) : m = s[i]
  BY <1>0
<1>2. ASSUME NEW k \in 1 .. Len(s), k # Len(s)
      PROVE  succ[s[k]] = s[k + 1] /\ k + 1 \in 1 .. Len(s) /\ s[k + 1] # s[1] /\ s[k + 1] # s[k]
             /\ succ[s[k]] # Null
  <2>1. k + 1 \in 1 .. Len(s) /\ k + 1 # 1 /\ k + 1 # k /\ 1 \in 1 .. Len(s)
    BY <1>0, <1>2
  <2>2. s[k + 1] # Null
    BY <1>0, <2>1, QueueAssumption
  <2> QED BY <1>0, <1>2, <2>1, <2>2
<1>3. succ[m] # Null => succ[m] \in ToSet(s) /\ succ[m] \in Nodes /\ succ[m] # n /\ succ[m] # m
  <2>1. CASE i = Len(s)
    BY <1>0, <1>1, <2>1
  <2>2. CASE i # Len(s)
    BY <1>0, <1>1, <1>2, <2>2
  <2> QED BY <2>1, <2>2
<1>4. ASSUME NEW k \in ToSet(s), succ[m] = Null, succ[k] = Null PROVE k = m
  <2>1. PICK j \in 1 .. Len(s) : k = s[j]
    BY <1>0
  <2>2. i = Len(s) /\ j = Len(s)
    BY <1>1, <1>2, <1>4, <2>1
  <2> QED BY <1>1, <2>1, <2>2
<1> QED BY <1>3, <1>4

\* a list stays one as long as its own links do
LEMMA ListKept ==
  ASSUME NEW s, NEW n, NEW succ, NEW new, Listed(s, n, succ),
         \A m \in ToSet(s) : new[m] = succ[m]
  PROVE  Listed(s, n, new)
<1>1. \A i \in 1 .. Len(s) : s[i] \in ToSet(s)
  BY ListFacts
<1> QED BY <1>1 DEF Listed

\* one node that links nowhere is a list
LEMMA ListOne ==
  ASSUME NEW n \in Nodes, NEW succ, succ[n] = Null
  PROVE  Listed(<<n>>, n, succ) /\ ToSet(<<n>>) = {n}
<1>1. <<n>> \in Seq(Nodes) /\ Len(<<n>>) = 1 /\ <<n>>[1] = n /\ <<n>> # <<>> /\ DOMAIN <<n>> = {1}
  OBVIOUS
<1>2. ToSet(<<n>>) = {n}
  BY <1>1 DEF ToSet
<1>3. \A i \in 1 .. Len(<<n>>) : i = 1
  BY <1>1
<1>4. Listed(<<n>>, n, succ)
  BY <1>1, <1>3 DEF Listed
<1> QED BY <1>2, <1>4

\* a list without its first node is a list
LEMMA ListTail ==
  ASSUME NEW s, NEW n, NEW succ, Listed(s, n, succ), succ[n] # Null
  PROVE  Listed(Tail(s), succ[n], succ) /\ ToSet(Tail(s)) = ToSet(s) \ {n}
<1>0. /\ s \in Seq(Nodes) /\ s # <<>> /\ s[1] = n /\ Len(s) \in Nat /\ Len(s) >= 1
      /\ \A i \in 1 .. Len(s) : s[i] \in Nodes
      /\ \A i, j \in 1 .. Len(s) : s[i] = s[j] => i = j
      /\ \A i \in 1 .. Len(s) : succ[s[i]] = IF i = Len(s) THEN Null ELSE s[i + 1]
      /\ ToSet(s) = {s[i] : i \in 1 .. Len(s)}
  BY ListFacts
<1> DEFINE t == Tail(s)
<1>1. /\ t \in Seq(Nodes) /\ Len(t) = Len(s) - 1 /\ Len(t) \in Nat
      /\ \A i \in 1 .. Len(t) : t[i] = s[i + 1]
  BY <1>0, HeadTailProperties, LenProperties
<1> HIDE DEF t
<1>2. 1 \in 1 .. Len(s) /\ Len(s) # 1
  BY <1>0
<1>3. \A i \in 1 .. Len(t) : i + 1 \in 1 .. Len(s) /\ i + 1 # 1
  BY <1>0, <1>1
<1>4. t # <<>> /\ t[1] = succ[n]
  <2>1. succ[s[1]] = s[1 + 1] /\ 1 \in 1 .. Len(t)
    BY <1>0, <1>1, <1>2
  <2>2. t # <<>>
    BY <1>0, <1>1, <1>2, EmptySeq
  <2> QED BY <1>0, <1>1, <2>1, <2>2
<1>5. \A i, j \in 1 .. Len(t) : t[i] = t[j] => i = j
  <2> SUFFICES ASSUME NEW i \in 1 .. Len(t), NEW j \in 1 .. Len(t),
                      t[i] = t[j]
               PROVE  i = j
    OBVIOUS
  <2>1. i + 1 = j + 1
    BY <1>0, <1>1, <1>3
  <2> QED BY <2>1
<1>6. ASSUME NEW i \in 1 .. Len(t)
      PROVE  succ[t[i]] = IF i = Len(t) THEN Null ELSE t[i + 1]
  <2>1. succ[s[i + 1]] = IF i + 1 = Len(s) THEN Null ELSE s[(i + 1) + 1]
    BY <1>0, <1>3
  <2>2. i + 1 = Len(s) <=> i = Len(t)
    BY <1>0, <1>1
  <2>3. i # Len(t) => i + 1 \in 1 .. Len(t)
    <3>1. Len(t) \in Int
      BY <1>0, <1>1
    <3> QED BY <3>1
  <2> QED BY <1>1, <2>1, <2>2, <2>3
<1>7. Listed(t, succ[n], succ)
  BY <1>1, <1>4, <1>5, <1>6 DEF Listed
<1>8. ToSet(t) = {t[i] : i \in 1 .. Len(t)}
  BY <1>7, ListFacts
<1>9. ToSet(t) \subseteq ToSet(s) \ {n}
  <2> SUFFICES ASSUME NEW i \in 1 .. Len(t) PROVE t[i] \in ToSet(s) \ {n}
    BY <1>8
  <2>1. s[i + 1] \in ToSet(s) /\ s[i + 1] # s[1]
    BY <1>0, <1>2, <1>3
  <2> QED BY <1>0, <1>1, <2>1
<1>10. ToSet(s) \ {n} \subseteq ToSet(t)
  <2> SUFFICES ASSUME NEW i \in 1 .. Len(s), s[i] # n PROVE s[i] \in ToSet(t)
    BY <1>0
  <2>1. i - 1 \in 1 .. Len(t) /\ (i - 1) + 1 = i
    <3>1. i # 1
      BY <1>0
    <3> QED BY <1>0, <1>1, <3>1
  <2>2. t[i - 1] = s[i]
    BY <1>1, <2>1
  <2> QED BY <1>8, <2>1, <2>2
<1> QED BY <1>7, <1>9, <1>10 DEF t

\* what two sequences have together
LEMMA ConcatSet ==
  ASSUME NEW S, NEW s \in Seq(S), NEW r \in Seq(S)
  PROVE  ToSet(s \o r) = ToSet(s) \cup ToSet(r)
<1> DEFINE t == s \o r
<1>1. /\ Len(s) \in Nat /\ Len(r) \in Nat /\ DOMAIN s = 1 .. Len(s) /\ DOMAIN r = 1 .. Len(r)
      /\ t \in Seq(S) /\ Len(t) = Len(s) + Len(r) /\ DOMAIN t = 1 .. Len(s) + Len(r)
      /\ \A i \in 1 .. Len(s) + Len(r) : t[i] = IF i <= Len(s) THEN s[i] ELSE r[i - Len(s)]
  BY ConcatProperties, LenProperties
<1> HIDE DEF t
<1>2. ASSUME NEW i \in DOMAIN t PROVE t[i] \in ToSet(s) \cup ToSet(r)
  <2>1. CASE i <= Len(s)
    <3>1. i \in DOMAIN s /\ t[i] = s[i]
      BY <1>1, <2>1
    <3> QED BY <3>1 DEF ToSet
  <2>2. CASE ~(i <= Len(s))
    <3>1. i - Len(s) \in DOMAIN r /\ t[i] = r[i - Len(s)]
      BY <1>1, <2>2
    <3> QED BY <3>1 DEF ToSet
  <2> QED BY <2>1, <2>2
<1>3. ASSUME NEW i \in DOMAIN s PROVE s[i] \in ToSet(t)
  <2>1. i \in DOMAIN t /\ t[i] = s[i]
    BY <1>1
  <2> QED BY <2>1 DEF ToSet
<1>4. ASSUME NEW i \in DOMAIN r PROVE r[i] \in ToSet(t)
  <2>1. Len(s) + i \in DOMAIN t /\ ~(Len(s) + i <= Len(s)) /\ (Len(s) + i) - Len(s) = i
    BY <1>1
  <2>2. t[Len(s) + i] = r[i]
    BY <1>1, <2>1
  <2> QED BY <2>1, <2>2 DEF ToSet
<1>5. ToSet(t) \subseteq ToSet(s) \cup ToSet(r)
  BY <1>2 DEF ToSet
<1>6. ToSet(s) \subseteq ToSet(t) /\ ToSet(r) \subseteq ToSet(t)
  BY <1>3, <1>4 DEF ToSet
<1>7. ToSet(t) = ToSet(s) \cup ToSet(r)
  BY <1>5, <1>6
<1> QED BY <1>7 DEF t

\* the node at the end of a list comes to point to another list
LEMMA ListJoin ==
  ASSUME NEW s, NEW n, NEW r, NEW m, NEW succ, NEW new, NEW x \in ToSet(s),
         Listed(s, n, succ), Listed(r, m, succ), \A k \in ToSet(r) : k \notin ToSet(s),
         succ[x] = Null, new[x] = m, \A k \in Nodes \ {x} : new[k] = succ[k]
  PROVE  /\ Listed(s \o r, n, new)
         /\ ToSet(s \o r) = ToSet(s) \cup ToSet(r)
         /\ x = s[Len(s)]
<1> DEFINE t == s \o r
<1>1. /\ s \in Seq(Nodes) /\ s[1] = n /\ Len(s) \in Nat /\ Len(s) >= 1
      /\ \A i \in 1 .. Len(s) : s[i] \in Nodes /\ s[i] \in ToSet(s)
      /\ \A i, j \in 1 .. Len(s) : s[i] = s[j] => i = j
      /\ \A i \in 1 .. Len(s) : succ[s[i]] = IF i = Len(s) THEN Null ELSE s[i + 1]
      /\ ToSet(s) = {s[i] : i \in 1 .. Len(s)} /\ ToSet(s) \subseteq Nodes
  BY ListFacts
<1>2. /\ r \in Seq(Nodes) /\ r[1] = m /\ Len(r) \in Nat /\ Len(r) >= 1
      /\ \A i \in 1 .. Len(r) : r[i] \in Nodes /\ r[i] \in ToSet(r)
      /\ \A i, j \in 1 .. Len(r) : r[i] = r[j] => i = j
      /\ \A i \in 1 .. Len(r) : succ[r[i]] = IF i = Len(r) THEN Null ELSE r[i + 1]
      /\ ToSet(r) = {r[i] : i \in 1 .. Len(r)} /\ ToSet(r) \subseteq Nodes
  BY ListFacts
<1>3. /\ t \in Seq(Nodes) /\ Len(t) = Len(s) + Len(r)
      /\ \A i \in 1 .. Len(s) : t[i] = s[i] /\ i \in 1 .. Len(t)
      /\ \A i \in 1 .. Len(r) : t[Len(s) + i] = r[i] /\ Len(s) + i \in 1 .. Len(t)
      /\ \A i \in 1 .. Len(t) : i \in 1 .. Len(s) \/ (i - Len(s) \in 1 .. Len(r)
                                                       /\ t[i] = r[i - Len(s)])
  <2>1. t \in Seq(Nodes) /\ Len(t) = Len(s) + Len(r)
    BY <1>1, <1>2, ConcatProperties
  <2>2. \A i \in 1 .. Len(s) + Len(r) :
           t[i] = IF i <= Len(s) THEN s[i] ELSE r[i - Len(s)]
    BY <1>1, <1>2, ConcatProperties
  <2> HIDE DEF t
  <2>3. \A i \in 1 .. Len(s) : t[i] = s[i] /\ i \in 1 .. Len(t)
    BY <1>1, <1>2, <2>1, <2>2
  <2>4. ASSUME NEW i \in 1 .. Len(r) PROVE t[Len(s) + i] = r[i] /\ Len(s) + i \in 1 .. Len(t)
    <3>1. Len(s) + i \in 1 .. Len(s) + Len(r) /\ ~ (Len(s) + i <= Len(s)) /\ (Len(s) + i) - Len(s) = i
      BY <1>1, <1>2
    <3> QED BY <2>1, <2>2, <3>1
  <2>5. ASSUME NEW i \in 1 .. Len(t), i \notin 1 .. Len(s)
        PROVE  i - Len(s) \in 1 .. Len(r) /\ t[i] = r[i - Len(s)]
    <3>1. i \in 1 .. Len(s) + Len(r) /\ ~ (i <= Len(s)) /\ i - Len(s) \in 1 .. Len(r)
      BY <1>1, <1>2, <2>1, <2>5
    <3> QED BY <2>2, <3>1
  <2> QED BY <2>1, <2>3, <2>4, <2>5
<1> HIDE DEF t
<1>4. x = s[Len(s)]
  <2>1. PICK i \in 1 .. Len(s) : x = s[i]
    BY <1>1
  <2>2. ASSUME i # Len(s) PROVE FALSE
    <3>1. i + 1 \in 1 .. Len(s) /\ succ[x] = s[i + 1]
      BY <1>1, <2>1, <2>2
    <3> QED BY <1>1, <3>1, QueueAssumption
  <2> QED BY <2>1, <2>2
<1>5. ToSet(t) = ToSet(s) \cup ToSet(r)
  BY <1>1, <1>2, ConcatSet DEF t
<1>6. t # <<>> /\ t[1] = n
  <2>1. 1 \in 1 .. Len(s) /\ Len(t) # 0
    BY <1>1, <1>2, <1>3
  <2> QED BY <1>1, <1>3, <2>1, EmptySeq
<1>7. \A i, j \in 1 .. Len(t) : t[i] = t[j] => i = j
  <2> SUFFICES ASSUME NEW i \in 1 .. Len(t), NEW j \in 1 .. Len(t), t[i] = t[j] PROVE i = j
    OBVIOUS
  <2>1. CASE i \in 1 .. Len(s) /\ j \in 1 .. Len(s)
    BY <1>1, <1>3, <2>1
  <2>2. CASE i \notin 1 .. Len(s) /\ j \notin 1 .. Len(s)
    <3>1. /\ i - Len(s) \in 1 .. Len(r) /\ j - Len(s) \in 1 .. Len(r)
          /\ r[i - Len(s)] = r[j - Len(s)]
      BY <1>3, <2>2
    <3>2. i - Len(s) = j - Len(s)
      BY <1>2, <3>1
    <3> QED BY <1>1, <3>2
  <2>5. ASSUME NEW k \in 1 .. Len(t)
        PROVE  /\ k \in 1 .. Len(s) => t[k] \in ToSet(s)
               /\ k \notin 1 .. Len(s) => t[k] \in ToSet(r)
    <3>1. k \in 1 .. Len(s) => t[k] \in ToSet(s)
      BY <1>1, <1>3
    <3>2. k \notin 1 .. Len(s) => t[k] \in ToSet(r)
      BY <1>2, <1>3
    <3> QED BY <3>1, <3>2
  <2>3. CASE i \in 1 .. Len(s) /\ j \notin 1 .. Len(s)
    BY <2>5, <2>3
  <2>4. CASE i \notin 1 .. Len(s) /\ j \in 1 .. Len(s)
    BY <2>5, <2>4
  <2> QED BY <2>1, <2>2, <2>3, <2>4
<1>8. ASSUME NEW i \in 1 .. Len(t) PROVE new[t[i]] = IF i = Len(t) THEN Null ELSE t[i + 1]
  <2>1. CASE i \in 1 .. Len(s) /\ i # Len(s)
    <3>1. i + 1 \in 1 .. Len(s) /\ i # Len(t) /\ t[i] = s[i] /\ t[i + 1] = s[i + 1]
      BY <1>1, <1>2, <1>3, <2>1
    <3>2. s[i] # s[Len(s)]
      BY <1>1, <2>1
    <3> QED BY <1>1, <1>4, <2>1, <3>1, <3>2
  <2>2. CASE i = Len(s)
    <3>1. i # Len(t) /\ t[i] = x /\ 1 \in 1 .. Len(r)
      BY <1>1, <1>2, <1>3, <1>4, <2>2
    <3>2. t[i + 1] = m
      BY <1>2, <1>3, <2>2, <3>1
    <3>3. x \in Nodes
      BY <1>1
    <3> QED BY <3>1, <3>2, <3>3
  <2>3. CASE i \notin 1 .. Len(s)
    <3> DEFINE j == i - Len(s)
    <3>1. j \in 1 .. Len(r) /\ t[i] = r[j]
      BY <1>3, <2>3
    <3>2. r[j] # x /\ r[j] \in Nodes
      BY <1>2, <3>1
    <3>3. new[t[i]] = IF j = Len(r) THEN Null ELSE r[j + 1]
      BY <1>2, <3>1, <3>2
    <3>4. j = Len(r) <=> i = Len(t)
      BY <1>1, <1>2, <1>3
    <3>5. j # Len(r) => j + 1 \in 1 .. Len(r) /\ Len(s) + (j + 1) = i + 1
      <4>1. i \in Int /\ Len(s) \in Int /\ Len(r) \in Int
        BY <1>1, <1>2, <1>3
      <4>2. i - Len(s) \in 1 .. Len(r)
        BY <3>1
      <4> QED BY <4>1, <4>2
    <3>6. j # Len(r) => t[i + 1] = r[j + 1]
      BY <1>3, <3>5
    <3> QED BY <3>3, <3>4, <3>6
  <2> QED BY <1>1, <2>1, <2>2, <2>3
<1>9. Listed(t, n, new)
  BY <1>3, <1>6, <1>7, <1>8 DEF Listed
<1> QED BY <1>4, <1>5, <1>9 DEF t

--------------------------------------------------------------------------------
(* Chain is the list.                                                      *)

\* a list is no longer than there are nodes
LEMMA ListFits ==
  ASSUME NEW s, NEW n, NEW succ, Listed(s, n, succ)
  PROVE  Len(s) \in 1 .. Cardinality(Nodes) /\ Cardinality(Nodes) \in Nat
<1>1. /\ s \in Seq(Nodes) /\ Len(s) \in Nat /\ Len(s) >= 1
      /\ \A i, j \in 1 .. Len(s) : s[i] = s[j] => i = j
  BY ListFacts
<1>2. s \in [1 .. Len(s) -> Nodes]
  BY <1>1, LenProperties
<1>3. s \in Injection(1 .. Len(s), Nodes)
  BY <1>1, <1>2 DEF Injection, IsInjective
<1>4. Cardinality(1 .. Len(s)) <= Cardinality(Nodes) /\ Cardinality(Nodes) \in Nat
  BY <1>3, FS_Injection, FS_CardinalityType, QueueAssumption
<1>5. Cardinality(1 .. Len(s)) = Len(s)
  BY <1>1, FS_Interval
<1> QED BY <1>1, <1>4, <1>5

\* the sequences Chain goes through, from g[0] on
Further(g, n, succ) ==
    [k \in 0 .. Cardinality(Nodes) |->
        IF k = 0 THEN <<n>>
        ELSE IF succ[Last(g[k - 1])] = Null THEN g[k - 1]
        ELSE Append(g[k - 1], succ[Last(g[k - 1])])]

\* the chain is what a walk along the links has after as many steps as there are nodes
LEMMA ChainWalks ==
  ASSUME NEW n, NEW succ
  PROVE  Chain(n, succ) = (CHOOSE g : g = Further(g, n, succ))[Cardinality(Nodes)]
BY DEF Chain, Further

\* along a list they are its beginnings
LEMMA ListWalks ==
  ASSUME NEW s, NEW n, NEW succ, Listed(s, n, succ), NEW w,
         w = [k \in 0 .. Cardinality(Nodes) |->
                 SubSeq(s, 1, IF k < Len(s) THEN k + 1 ELSE Len(s))]
  PROVE  w = Further(w, n, succ)
<1>0. /\ s \in Seq(Nodes) /\ s[1] = n /\ Len(s) \in Nat /\ Len(s) >= 1
      /\ \A i \in 1 .. Len(s) : s[i] \in Nodes
      /\ \A i \in 1 .. Len(s) : succ[s[i]] = IF i = Len(s) THEN Null ELSE s[i + 1]
  BY ListFacts
<1>1. Cardinality(Nodes) \in Nat
  BY ListFits
<1>2. ASSUME NEW l \in 1 .. Len(s)
      PROVE  /\ SubSeq(s, 1, l) \in Seq(Nodes) /\ Len(SubSeq(s, 1, l)) = l
             /\ \A i \in 1 .. l : SubSeq(s, 1, l)[i] = s[i]
             /\ Last(SubSeq(s, 1, l)) = s[l]
  <2>1. 1 \in 1 .. Len(s) + 1 /\ l \in 0 .. Len(s) /\ l \in Nat
    BY <1>0
  <2>2. /\ SubSeq(s, 1, l) \in Seq(Nodes) /\ Len(SubSeq(s, 1, l)) = l
        /\ \A i \in 1 .. l : SubSeq(s, 1, l)[i] = s[i]
    BY <1>0, <2>1, SubSeqProperties
  <2>3. l \in 1 .. l
    OBVIOUS
  <2> QED BY <2>2, <2>3 DEF Last
<1>3. ASSUME NEW k \in 0 .. Cardinality(Nodes)
      PROVE  w[k] = IF k = 0 THEN <<n>>
                    ELSE IF succ[Last(w[k - 1])] = Null THEN w[k - 1]
                    ELSE Append(w[k - 1], succ[Last(w[k - 1])])
  <2>1. CASE k = 0
    <3>1. w[0] = SubSeq(s, 1, 1) /\ 1 \in 1 .. Len(s)
      BY <1>0, <1>1
    <3>2. SubSeq(s, 1, 1) \in Seq(Nodes) /\ Len(SubSeq(s, 1, 1)) = 1 /\ SubSeq(s, 1, 1)[1] = n
      BY <1>0, <1>2, <3>1
    <3>3. SubSeq(s, 1, 1) = <<n>>
      <4>1. <<n>> \in Seq({n}) /\ Len(<<n>>) = 1 /\ <<n>>[1] = n
        OBVIOUS
      <4>2. \A i \in 1 .. 1 : i = 1
        OBVIOUS
      <4> DEFINE a == SubSeq(s, 1, 1)
                 b == <<n>>
      <4>3. a \in Seq(Nodes) /\ b \in Seq({n}) /\ Len(a) = 1 /\ Len(b) = 1 /\ a[1] = b[1]
        BY <3>2, <4>1
      <4> HIDE DEF a, b
      <4>4. \A i \in 1 .. Len(a) : a[i] = b[i]
        BY <4>2, <4>3
      <4>5. a = b
        BY <4>3, <4>4, SeqEqual
      <4> QED BY <4>5 DEF a, b
    <3> QED BY <2>1, <3>1, <3>3
  <2>2. CASE k # 0 /\ k < Len(s)
    <3>1. /\ k \in 1 .. Len(s) /\ k + 1 \in 1 .. Len(s) /\ k - 1 \in 0 .. Cardinality(Nodes)
          /\ w[k - 1] = SubSeq(s, 1, k) /\ w[k] = SubSeq(s, 1, k + 1)
      <4>1. k \in 1 .. Len(s) /\ k + 1 \in 1 .. Len(s) /\ k - 1 \in 0 .. Cardinality(Nodes)
        BY <1>0, <1>1, <2>2
      <4>2. (IF k - 1 < Len(s) THEN (k - 1) + 1 ELSE Len(s)) = k
        BY <1>0, <1>1, <2>2
      <4>3. (IF k < Len(s) THEN k + 1 ELSE Len(s)) = k + 1
        BY <2>2
      <4> QED BY <4>1, <4>2, <4>3
    <3>2. Last(w[k - 1]) = s[k] /\ succ[s[k]] = s[k + 1] /\ s[k + 1] # Null
      <4>1. s[k + 1] \in Nodes /\ k # Len(s)
        BY <1>0, <2>2, <3>1
      <4> QED BY <1>0, <1>2, <3>1, <4>1, QueueAssumption
    <3>3. Append(SubSeq(s, 1, k), s[k + 1]) = SubSeq(s, 1, k + 1)
      <4> DEFINE a == SubSeq(s, 1, k)
                 b == SubSeq(s, 1, k + 1)
      <4>1. /\ a \in Seq(Nodes) /\ Len(a) = k /\ \A i \in 1 .. k : a[i] = s[i]
            /\ b \in Seq(Nodes) /\ Len(b) = k + 1 /\ \A i \in 1 .. k + 1 : b[i] = s[i]
            /\ s[k + 1] \in Nodes
        BY <1>0, <1>2, <3>1
      <4> HIDE DEF a, b
      <4>2. /\ Append(a, s[k + 1]) \in Seq(Nodes) /\ Len(Append(a, s[k + 1])) = k + 1
            /\ \A i \in 1 .. k : Append(a, s[k + 1])[i] = a[i]
            /\ Append(a, s[k + 1])[k + 1] = s[k + 1]
        BY <4>1, AppendProperties
      <4>3. \A i \in 1 .. k + 1 : i \in 1 .. k \/ i = k + 1
        BY <3>1
      <4>4. \A i \in 1 .. Len(b) : Append(a, s[k + 1])[i] = b[i]
        BY <3>1, <4>1, <4>2, <4>3
      <4>5. Append(a, s[k + 1]) = b
        BY <4>1, <4>2, <4>4, SeqEqual
      <4> QED BY <4>5 DEF a, b
    <3> QED BY <2>2, <3>1, <3>2, <3>3
  <2>3. CASE k # 0 /\ ~ (k < Len(s))
    <3>1. /\ Len(s) \in 1 .. Len(s) /\ k - 1 \in 0 .. Cardinality(Nodes)
          /\ w[k] = SubSeq(s, 1, Len(s))
          /\ w[k - 1] = SubSeq(s, 1, Len(s))
      <4>1. Len(s) \in 1 .. Len(s) /\ k - 1 \in 0 .. Cardinality(Nodes)
        BY <1>0, <1>1, <2>3
      <4>2. (IF k - 1 < Len(s) THEN (k - 1) + 1 ELSE Len(s)) = Len(s)
        BY <1>0, <1>1, <2>3
      <4> QED BY <2>3, <4>1, <4>2
    <3>2. Last(w[k - 1]) = s[Len(s)] /\ succ[s[Len(s)]] = Null
      BY <1>0, <1>2, <3>1
    <3> QED BY <2>3, <3>1, <3>2
  <2> QED BY <2>1, <2>2, <2>3
<1>4. DOMAIN w = 0 .. Cardinality(Nodes)
  OBVIOUS
<1> QED BY <1>3, <1>4 DEF Further

\* so the chain of the first node of a list is the list
LEMMA ChainOf ==
  ASSUME NEW s, NEW n, NEW succ, Listed(s, n, succ)
  PROVE  Chain(n, succ) = s
<1> DEFINE N == Cardinality(Nodes)
           w == [k \in 0 .. N |-> SubSeq(s, 1, IF k < Len(s) THEN k + 1 ELSE Len(s))]
           P(g) == g = Further(g, n, succ)
           f == CHOOSE g : P(g)
<1>0. s \in Seq(Nodes) /\ Len(s) \in 1 .. N /\ N \in Nat
  BY ListFacts, ListFits
<1>1. w[N] = s
  BY <1>0, SubSeqFull
<1>2. P(w)
  BY ListWalks
<1> HIDE DEF w, P, f
<1>3. P(f)
  BY <1>2 DEF f
<1>4. ASSUME NEW g, P(g), NEW h, P(h) PROVE \A k \in 0 .. N : g[k] = h[k]
  <2> DEFINE D == {k \in 1 .. N : g[k] # h[k]}
  <2>1. /\ g[0] = <<n>> /\ h[0] = <<n>>
        /\ \A k \in 1 .. N : k - 1 \in 0 .. N /\ (g[k - 1] = h[k - 1] => g[k] = h[k])
    <3>1. ASSUME NEW u, P(u)
          PROVE  /\ u[0] = <<n>>
                 /\ \A k \in 1 .. N : u[k] = IF succ[Last(u[k - 1])] = Null THEN u[k - 1]
                                             ELSE Append(u[k - 1], succ[Last(u[k - 1])])
      <4>1. \A k \in 0 .. N : u[k] = Further(u, n, succ)[k]
        BY <3>1 DEF P
      <4>2. 0 \in 0 .. N /\ \A k \in 1 .. N : k \in 0 .. N /\ k # 0
        BY <1>0
      <4>3. \A k \in 0 .. N : Further(u, n, succ)[k] =
                IF k = 0 THEN <<n>>
                ELSE IF succ[Last(u[k - 1])] = Null THEN u[k - 1]
                ELSE Append(u[k - 1], succ[Last(u[k - 1])])
        BY DEF Further
      <4> HIDE DEF N
      <4> QED BY <4>1, <4>2, <4>3
    <3>2. \A k \in 1 .. N : k - 1 \in 0 .. N
      BY <1>0
    <3>3. /\ \A k \in 1 .. N : g[k] = IF succ[Last(g[k - 1])] = Null THEN g[k - 1]
                                      ELSE Append(g[k - 1], succ[Last(g[k - 1])])
          /\ \A k \in 1 .. N : h[k] = IF succ[Last(h[k - 1])] = Null THEN h[k - 1]
                                      ELSE Append(h[k - 1], succ[Last(h[k - 1])])
          /\ g[0] = <<n>> /\ h[0] = <<n>>
      BY <1>4, <3>1
    <3> QED BY <3>2, <3>3
  <2>2. D = {}
    <3> SUFFICES ASSUME D # {} PROVE FALSE
      OBVIOUS
    <3>1. PICK k \in D : \A j \in D : k <= j
      <4>1. D \in SUBSET (1 .. N)
        OBVIOUS
      <4> HIDE DEF D
      <4> QED BY <1>0, <4>1, Least
    <3>2. k \in 1 .. N /\ g[k] # h[k]
      OBVIOUS
    <3>3. g[k - 1] # h[k - 1] /\ k - 1 \in 0 .. N
      BY <2>1, <3>2
    <3>4. k - 1 \in D
      <4>1. k - 1 # 0
        BY <2>1, <3>3
      <4>2. k - 1 \in 1 .. N
        BY <1>0, <3>2, <4>1
      <4> QED BY <3>3, <4>2
    <3> QED BY <3>1, <3>2, <3>4
  <2>3. \A k \in 0 .. N : k = 0 \/ k \in 1 .. N
    BY <1>0
  <2>4. \A k \in 1 .. N : g[k] = h[k]
    BY <2>2
  <2> HIDE DEF D, N
  <2> QED BY <2>1, <2>3, <2>4
<1>5. f[N] = w[N]
  BY <1>0, <1>2, <1>3, <1>4
<1>6. Chain(n, succ) = f[N]
  BY ChainWalks DEF f, P
<1> QED BY <1>1, <1>5, <1>6

--------------------------------------------------------------------------------
(* Steps of one thread that leave the lists as they are.                   *)

\* the other threads stay where they are
Others(t) == \A u \in Threads \ {t} : pc'[u] = pc[u] /\ my'[u] = my[u]

\* the tail stays, or goes to the next node
TailSteps ==
    \/ mTail' = mTail
    \/ next[mTail.node] # Null /\ mTail' = Advance(mTail, next[mTail.node])

\* what the assumptions say of threads and labels
LEMMA ThreadFacts ==
  /\ \A p \in Producers : p \in Threads /\ p \notin Consumers
  /\ \A c \in Consumers : c \in Threads /\ c \notin Producers
  /\ \A t \in Threads : t \in Producers \/ t \in Consumers
  /\ Null \notin Nodes /\ "Release" \notin Unlinked /\ "Idle" \notin Unlinked
BY QueueAssumption DEF Threads, Unlinked

\* where the tail goes
LEMMA TailFacts ==
  ASSUME Types, Structure, TailSteps
  PROVE  /\ mTail' \in Pointers /\ mTail'.count >= mTail.count
         /\ mTail' # mTail => mTail'.count > mTail.count /\ mTail'.node # mHead.node
         /\ \A q, d : Lists(q, d) => mTail'.node \in ToSet(q)
         /\ mTail.node \notin free
         /\ next[mTail.node] # Null => next[mTail.node] \in Nodes /\ next[mTail.node] # mHead.node
<1>1. ASSUME NEW q, NEW d, Lists(q, d)
      PROVE  /\ mTail.node \in ToSet(q)
             /\ next[mTail.node] # Null =>
                   /\ next[mTail.node] \in ToSet(q) /\ next[mTail.node] \in Nodes
                   /\ next[mTail.node] # mHead.node
  <2>1. Listed(q, mHead.node, next) /\ mTail.node \in ToSet(q)
    BY <1>1 DEF Lists
  <2> QED BY <2>1, ListNext
<1>2. PICK q, d, order : Lists(q, d) /\ Apart(q, d) /\ Later(d, order)
  BY DEF Structure
<1>3. mTail.node \notin free
  BY <1>1, <1>2 DEF Apart
<1>4. /\ mTail \in Pointers /\ mTail.count \in Nat
  BY DEF Types, Pointers
<1>5. ASSUME next[mTail.node] # Null, mTail' = Advance(mTail, next[mTail.node])
      PROVE  /\ mTail' \in Pointers /\ mTail'.count = mTail.count + 1
             /\ mTail'.node = next[mTail.node]
  BY <1>1, <1>2, <1>4, <1>5 DEF Advance, Pointer, Pointers
<1>6. CASE mTail' = mTail
  BY <1>1, <1>2, <1>3, <1>4, <1>6
<1>7. CASE next[mTail.node] # Null /\ mTail' = Advance(mTail, next[mTail.node])
  <2>1. mTail'.count > mTail.count /\ mTail'.count >= mTail.count
    BY <1>4, <1>5, <1>7
  <2> QED BY <1>1, <1>2, <1>3, <1>5, <1>7, <2>1
<1> QED BY <1>6, <1>7 DEF TailSteps

\* what the other threads have read stays true
LEMMA OthersRead ==
  ASSUME Types, Structure, TailSteps, UNCHANGED <<mHead, next, data, free>>,
         NEW u \in Threads, Reads(u), pc'[u] = pc[u], my'[u] = my[u]
  PROVE  Reads(u)'
<1>1. /\ mTail' \in Pointers /\ mTail'.count >= mTail.count
      /\ mTail' # mTail => mTail'.count > mTail.count /\ mTail'.node # mHead.node
  BY TailFacts
<1>2. mTail.count \in Nat /\ mTail'.count \in Nat
  BY <1>1 DEF Types, Pointers
<1>3. Ready(u)'
  BY DEF Reads, Ready
<1>4. TailRead(u)'
  <2> SUFFICES ASSUME pc[u] \in WithTail
               PROVE  /\ my[u].tail \in Pointers /\ my[u].tail.count <= mTail'.count
                      /\ my[u].tail.count = mTail'.count => my[u].tail = mTail'
                      /\ my[u].tail.node \in free => next[my[u].tail.node] # Null
    BY DEF TailRead
  <2>1. /\ my[u].tail \in Pointers /\ my[u].tail.count <= mTail.count
        /\ my[u].tail.count = mTail.count => my[u].tail = mTail
        /\ my[u].tail.node \in free => next[my[u].tail.node] # Null
    BY DEF Reads, TailRead
  <2>2. my[u].tail.count \in Nat
    BY <2>1 DEF Pointers
  <2> QED BY <1>1, <1>2, <2>1, <2>2
<1>5. SwingRead(u)'
  <2> SUFFICES ASSUME my[u].tail = mTail'
               PROVE  /\ pc[u] \in {"Help", "HelpTail"} => next[mTail'.node] = my[u].succ
                      /\ pc[u] = "Swing" => next[mTail'.node] = my[u].node
    BY DEF SwingRead
  <2>1. pc[u] \in WithTail => mTail' = mTail
    BY <1>1, <1>2 DEF Reads, TailRead
  <2> QED BY <2>1 DEF Reads, SwingRead, WithTail
<1>6. HeadRead(u)'
  <2>1. /\ mTail'.node # mHead.node \/ mTail' = mTail
    BY <1>1
  <2> QED BY <2>1 DEF Reads, HeadRead
<1> QED BY <1>3, <1>4, <1>5, <1>6 DEF Reads

\* Such a step keeps the invariant if what its thread has read is true.
LEMMA Quiet ==
  ASSUME IInv, NEW t \in Threads, Others(t), Types', Reads(t)', TailSteps,
         UNCHANGED <<mHead, next, data, free>>,
         pc[t] \in Unlinked <=> pc'[t] \in Unlinked,
         pc[t] \in Unlinked => my'[t].node = my[t].node,
         pc[t] # "Release" /\ pc'[t] # "Release",
         pc'[t] \in {"ReadTailNext", "Link"} =>
            my'[t].tail = mTail \/ (pc[t] = "ReadTailNext" /\ my'[t].tail = my[t].tail)
  PROVE  IInv' /\ Full' = Full
<1>1. Types /\ Structure /\ \A u \in Threads : Reads(u)
  BY DEF IInv
<1>2. ASSUME NEW u \in Threads PROVE Reads(u)'
  <2>1. CASE u = t
    BY <2>1
  <2>2. CASE u # t
    BY <1>1, <2>2, OthersRead DEF Others
  <2> QED BY <2>1, <2>2
<1>3. PICK q \in Seq(Nodes), d \in [Producers -> Seq(Nodes)],
           order \in SUBSET (Producers \X Producers) :
               Lists(q, d) /\ Apart(q, d) /\ Later(d, order)
  BY <1>1 DEF Structure
<1>4. mTail'.node \in ToSet(q)
  BY <1>1, <1>3, TailFacts
<1>5. \A p \in Producers : (pc'[p] \in Unlinked <=> pc[p] \in Unlinked)
                           /\ (pc[p] \in Unlinked => my'[p].node = my[p].node)
  BY ThreadFacts DEF Others
<1>6. Lists(q, d)'
  BY <1>3, <1>4, <1>5 DEF Lists
<1>7. Apart(q, d)'
  <2>1. \A u \in Threads : Held(d, u)' = Held(d, u)
    BY DEF Held, Others
  <2> QED BY <1>3, <2>1 DEF Apart
<1>8. Later(d, order)'
  <2> SUFFICES ASSUME NEW p \in Producers, NEW r \in Producers,
                      pc'[p] \in {"ReadTailNext", "Link"}, my'[p].tail.node \in ToSet(d[r])
               PROVE  <<p, r>> \in order
    BY <1>3 DEF Later
  <2>1. CASE p # t
    BY <1>3, <2>1, ThreadFacts DEF Later, Others
  <2>2. CASE p = t /\ my'[t].tail = mTail
    <3>1. mTail.node \in ToSet(q) /\ mTail.node \in Held(d, r) /\ r \in Threads
      BY <1>3, <2>2, ThreadFacts DEF Lists, Held
    <3> QED BY <1>3, <3>1 DEF Apart
  <2>3. CASE p = t /\ pc[t] = "ReadTailNext" /\ my'[t].tail = my[t].tail
    BY <1>3, <2>3 DEF Later
  <2> QED BY <2>1, <2>2, <2>3
<1>9. Structure'
  BY <1>6, <1>7, <1>8 DEF Structure
<1>10. Full' = Full
  <2> DEFINE N == {my[u].node : u \in {u \in Producers : pc[u] \in Unlinked}}
             H == {my[c].head.node : c \in {c \in Consumers : pc[c] = "Release"}}
  <2>1. N' = N
    BY <1>5
  <2>2. \A c \in Consumers : (pc'[c] = "Release" <=> pc[c] = "Release")
                              /\ (pc[c] = "Release" => my'[c] = my[c])
    BY ThreadFacts DEF Others
  <2>3. H' = H
    BY <2>2
  <2>4. Full = Nodes \ (free \cup {mHead.node} \cup N \cup H)
    BY DEF Full
  <2>5. Full' = Nodes \ (free' \cup {mHead'.node} \cup N' \cup H')
    BY DEF Full
  <2> HIDE DEF N, H
  <2> QED BY <2>1, <2>3, <2>4, <2>5
<1> QED BY <1>2, <1>9, <1>10 DEF IInv

\* a step of one thread to a label, with new variables of its own
LEMMA Stepped ==
  ASSUME Types, NEW t \in Threads, NEW l, Goto(t, l),
         t \in Producers => l \in Enqueuing, t \in Consumers => l \in Dequeuing,
         NEW r \in Locals, my' = [my EXCEPT ![t] = r]
  PROVE  /\ pc'[t] = l /\ my'[t] = r /\ Others(t)
         /\ pc' \in [Threads -> Enqueuing \cup Dequeuing] /\ my' \in [Threads -> Locals]
         /\ \A p \in Producers : pc'[p] \in Enqueuing
         /\ \A c \in Consumers : pc'[c] \in Dequeuing
<1>1. pc \in [Threads -> Enqueuing \cup Dequeuing] /\ my \in [Threads -> Locals]
  BY DEF Types
<1>2. pc' = [pc EXCEPT ![t] = l] /\ l \in Enqueuing \cup Dequeuing
  BY ThreadFacts DEF Goto
<1>3. pc'[t] = l /\ my'[t] = r /\ Others(t)
  BY <1>1, <1>2 DEF Others
<1>4. pc' \in [Threads -> Enqueuing \cup Dequeuing] /\ my' \in [Threads -> Locals]
  BY <1>1, <1>2
<1>5. \A p \in Producers : pc'[p] \in Enqueuing
  BY <1>3, ThreadFacts DEF Types, Others
<1>6. \A c \in Consumers : pc'[c] \in Dequeuing
  BY <1>3, ThreadFacts DEF Types, Others
<1> QED BY <1>3, <1>4, <1>5, <1>6

\* a step that changes no more than the tail and the size
LEMMA QuietTypes ==
  ASSUME Types, Structure, NEW t \in Threads, NEW l, Goto(t, l),
         t \in Producers => l \in Enqueuing, t \in Consumers => l \in Dequeuing,
         NEW r \in Locals, my' = [my EXCEPT ![t] = r], TailSteps, mSize' \in Int,
         UNCHANGED <<mHead, next, data, free, count, linked, taken>>
  PROVE  Types' /\ pc'[t] = l /\ my'[t] = r /\ Others(t)
<1>1. mTail' \in Pointers
  BY TailFacts
<1>2. /\ pc'[t] = l /\ my'[t] = r /\ Others(t)
      /\ pc' \in [Threads -> Enqueuing \cup Dequeuing] /\ my' \in [Threads -> Locals]
      /\ \A p \in Producers : pc'[p] \in Enqueuing
      /\ \A c \in Consumers : pc'[c] \in Dequeuing
  BY Stepped
<1> QED BY <1>1, <1>2 DEF Types

\* what a thread keeps between its steps has its type
LEMMA LocalFacts ==
  ASSUME Types, NEW t \in Threads
  PROVE  /\ my[t] \in Locals /\ my = [my EXCEPT ![t] = my[t]] /\ Blank \in Locals
         /\ my[t].node \in Nodes \cup {Null} /\ my[t].succ \in Nodes \cup {Null}
         /\ my[t].head \in Pointers \cup {NoPointer} /\ my[t].tail \in Pointers \cup {NoPointer}
         /\ my[t].out \in Items \cup {NoItem}
<1>1. my \in [Threads -> Locals]
  BY DEF Types
<1>2. my[t] \in Locals
  BY <1>1
<1>3. Blank \in Locals
  BY DEF Blank, Locals
<1> QED BY <1>1, <1>2, <1>3 DEF Locals

LEMMA ReadTailKeeps ==
  ASSUME IInv, NEW p \in Producers, ReadTail(p)
  PROVE  IInv' /\ Full' = Full
<1>0. Types /\ Structure /\ Reads(p) /\ p \in Threads /\ TailSteps /\ mSize' \in Int
      /\ UNCHANGED <<mHead, mTail, next, data, free, count, linked, taken>>
      /\ pc[p] = "ReadTail"
  BY ThreadFacts DEF IInv, ReadTail, listVars, TailSteps, Types
<1> DEFINE r == [my[p] EXCEPT !.tail = mTail]
<1>1. r \in Locals /\ r.tail = mTail /\ r.node = my[p].node
      /\ my' = [my EXCEPT ![p] = r] /\ Goto(p, "ReadTailNext")
  BY <1>0, LocalFacts DEF ReadTail, Locals, Types
<1> HIDE DEF r
<1>2. Types' /\ pc'[p] = "ReadTailNext" /\ my'[p] = r /\ Others(p)
  BY <1>0, <1>1, QuietTypes, ThreadFacts DEF Enqueuing
<1>3. Reads(p)'
  <2>1. mTail.node \notin free /\ mTail \in Pointers /\ mTail.count \in Nat
    BY <1>0, TailFacts DEF Types, Pointers
  <2> QED BY <1>0, <1>1, <1>2, <2>1 DEF Reads, Ready, TailRead, SwingRead, HeadRead, WithTail, WithHead
<1> QED BY <1>0, <1>1, <1>2, <1>3, Quiet DEF Unlinked

\* the tail that a thread read, and what it read there
LEMMA ReadTailNextKeeps ==
  ASSUME IInv, NEW p \in Producers, ReadTailNext(p)
  PROVE  IInv' /\ Full' = Full
<1> DEFINE n == next[my[p].tail.node]
           r == [my[p] EXCEPT !.succ = n]
           l == IF n = Null THEN "Link" ELSE "Help"
<1>0. Types /\ Structure /\ Reads(p) /\ p \in Threads /\ TailSteps /\ mSize' \in Int
      /\ UNCHANGED <<mHead, mTail, next, data, free, count, linked, taken>>
      /\ pc[p] = "ReadTailNext"
  BY ThreadFacts DEF IInv, ReadTailNext, listVars, TailSteps, Types
<1>1. /\ my[p].tail \in Pointers /\ my[p].tail.count <= mTail.count
      /\ my[p].tail.count = mTail.count => my[p].tail = mTail
      /\ my[p].tail.node \in free => n # Null
      /\ n \in Nodes \cup {Null}
  BY <1>0 DEF Reads, TailRead, WithTail, Types, Pointers
<1>2. r \in Locals /\ r.tail = my[p].tail /\ r.node = my[p].node /\ r.succ = n
      /\ my' = [my EXCEPT ![p] = r] /\ Goto(p, l)
  BY <1>0, <1>1, LocalFacts DEF ReadTailNext, Locals
<1>3. (l = "Link" /\ n = Null) \/ (l = "Help" /\ n \in Nodes)
  BY <1>1
<1> HIDE DEF r, l
<1>4. Types' /\ pc'[p] = l /\ my'[p] = r /\ Others(p)
  BY <1>0, <1>2, <1>3, QuietTypes, ThreadFacts DEF Enqueuing
<1>5. Reads(p)'
  BY <1>0, <1>1, <1>2, <1>3, <1>4
     DEF Reads, Ready, TailRead, SwingRead, HeadRead, WithTail, WithHead
<1> QED BY <1>0, <1>2, <1>3, <1>4, <1>5, Quiet DEF Unlinked

\* another producer linked its node first
LEMMA LinkFailsKeeps ==
  ASSUME IInv, NEW p \in Producers, Link(p), next[my[p].tail.node] # Null
  PROVE  IInv' /\ Full' = Full
<1>0. Types /\ Structure /\ Reads(p) /\ p \in Threads /\ TailSteps /\ mSize' \in Int
      /\ UNCHANGED <<mHead, mTail, next, data, free, count, linked, taken>>
      /\ pc[p] = "Link" /\ my' = [my EXCEPT ![p] = my[p]] /\ Goto(p, "ReadTail")
      /\ my[p] \in Locals
  BY ThreadFacts, LocalFacts DEF IInv, Link, TailSteps, Types
<1>1. Types' /\ pc'[p] = "ReadTail" /\ my'[p] = my[p] /\ Others(p)
  BY <1>0, QuietTypes, ThreadFacts DEF Enqueuing
<1>2. Reads(p)'
  BY <1>0, <1>1 DEF Reads, Ready, TailRead, SwingRead, HeadRead, WithTail, WithHead
<1> QED BY <1>0, <1>1, <1>2, Quiet DEF Unlinked

LEMMA SwingKeeps ==
  ASSUME IInv, NEW p \in Producers, Swing(p)
  PROVE  IInv' /\ Full' = Full
<1>0. Types /\ Structure /\ Reads(p) /\ p \in Threads /\ mSize' \in Int
      /\ UNCHANGED <<mHead, next, data, free, count, linked, taken>>
      /\ pc[p] = "Swing" /\ my' = [my EXCEPT ![p] = my[p]] /\ Goto(p, "Count")
      /\ my[p] \in Locals /\ my[p].node # Null
  BY ThreadFacts, LocalFacts DEF IInv, Swing, Types, Reads, Ready
<1>1. TailSteps
  BY <1>0 DEF Swing, SwingTail, TailSteps, Reads, SwingRead
<1>2. Types' /\ pc'[p] = "Count" /\ my'[p] = my[p] /\ Others(p)
  BY <1>0, <1>1, QuietTypes, ThreadFacts DEF Enqueuing
<1>3. Reads(p)'
  BY <1>0, <1>2 DEF Reads, Ready, TailRead, SwingRead, HeadRead, WithTail, WithHead
<1> QED BY <1>0, <1>1, <1>2, <1>3, Quiet DEF Unlinked

LEMMA HelpKeeps ==
  ASSUME IInv, NEW p \in Producers, Help(p)
  PROVE  IInv' /\ Full' = Full
<1>0. Types /\ Structure /\ Reads(p) /\ p \in Threads /\ mSize' \in Int
      /\ UNCHANGED <<mHead, next, data, free, count, linked, taken>>
      /\ pc[p] = "Help" /\ my' = [my EXCEPT ![p] = my[p]] /\ Goto(p, "ReadTail")
      /\ my[p] \in Locals /\ my[p].succ # Null
  BY ThreadFacts, LocalFacts DEF IInv, Help, Types, Reads, Ready
<1>1. TailSteps
  BY <1>0 DEF Help, SwingTail, TailSteps, Reads, SwingRead
<1>2. Types' /\ pc'[p] = "ReadTail" /\ my'[p] = my[p] /\ Others(p)
  BY <1>0, <1>1, QuietTypes, ThreadFacts DEF Enqueuing
<1>3. Reads(p)'
  BY <1>0, <1>2 DEF Reads, Ready, TailRead, SwingRead, HeadRead, WithTail, WithHead
<1> QED BY <1>0, <1>1, <1>2, <1>3, Quiet DEF Unlinked

LEMMA CountKeeps ==
  ASSUME IInv, NEW p \in Producers, Count(p)
  PROVE  IInv' /\ Full' = Full
<1>0. Types /\ Structure /\ Reads(p) /\ p \in Threads /\ mSize' \in Int /\ TailSteps
      /\ UNCHANGED <<mHead, mTail, next, data, free, count, linked, taken>>
      /\ pc[p] = "Count" /\ my' = [my EXCEPT ![p] = Blank] /\ Goto(p, "Idle")
      /\ Blank \in Locals
  BY ThreadFacts, LocalFacts DEF IInv, Count, Return, Types, TailSteps
<1>1. Types' /\ pc'[p] = "Idle" /\ my'[p] = Blank /\ Others(p)
  BY <1>0, QuietTypes, ThreadFacts DEF Enqueuing
<1>2. Reads(p)'
  BY <1>0, <1>1, ThreadFacts
     DEF Reads, Ready, TailRead, SwingRead, HeadRead, WithTail, WithHead
<1> QED BY <1>0, <1>1, <1>2, Quiet DEF Unlinked

LEMMA LowerKeeps ==
  ASSUME IInv, NEW c \in Consumers, Lower(c)
  PROVE  IInv' /\ Full' = Full
<1> DEFINE l == IF mSize <= 0 THEN "Restore" ELSE "ReadHead"
<1>0. Types /\ Structure /\ Reads(c) /\ c \in Threads /\ mSize' \in Int /\ TailSteps
      /\ UNCHANGED <<mHead, mTail, next, data, free, count, linked, taken>>
      /\ pc[c] = "Idle" /\ my' = [my EXCEPT ![c] = my[c]] /\ Goto(c, l)
      /\ my[c] \in Locals
  BY ThreadFacts, LocalFacts DEF IInv, Lower, Types, TailSteps
<1>1. l \in {"Restore", "ReadHead"}
  OBVIOUS
<1> HIDE DEF l
<1>2. Types' /\ pc'[c] = l /\ my'[c] = my[c] /\ Others(c)
  BY <1>0, <1>1, QuietTypes, ThreadFacts DEF Dequeuing
<1>3. Reads(c)'
  BY <1>0, <1>1, <1>2, ThreadFacts
     DEF Reads, Ready, TailRead, SwingRead, HeadRead, WithTail, WithHead
<1> QED BY <1>0, <1>1, <1>2, <1>3, Quiet DEF Unlinked

LEMMA RestoreKeeps ==
  ASSUME IInv, NEW c \in Consumers, Restore(c)
  PROVE  IInv' /\ Full' = Full
<1>0. Types /\ Structure /\ Reads(c) /\ c \in Threads /\ mSize' \in Int /\ TailSteps
      /\ UNCHANGED <<mHead, mTail, next, data, free, count, linked, taken>>
      /\ pc[c] = "Restore" /\ my' = [my EXCEPT ![c] = Blank] /\ Goto(c, "Idle")
      /\ Blank \in Locals
  BY ThreadFacts, LocalFacts DEF IInv, Restore, Return, Types, TailSteps
<1>1. Types' /\ pc'[c] = "Idle" /\ my'[c] = Blank /\ Others(c)
  BY <1>0, QuietTypes, ThreadFacts DEF Dequeuing
<1>2. Reads(c)'
  BY <1>0, <1>1, ThreadFacts
     DEF Reads, Ready, TailRead, SwingRead, HeadRead, WithTail, WithHead
<1> QED BY <1>0, <1>1, <1>2, Quiet DEF Unlinked

LEMMA ReadHeadKeeps ==
  ASSUME IInv, NEW c \in Consumers, ReadHead(c)
  PROVE  IInv' /\ Full' = Full
<1> DEFINE r == [my[c] EXCEPT !.head = mHead]
<1>0. Types /\ Structure /\ Reads(c) /\ c \in Threads /\ mSize' \in Int /\ TailSteps
      /\ UNCHANGED <<mHead, mTail, next, data, free, count, linked, taken>>
      /\ pc[c] = "ReadHead"
  BY ThreadFacts DEF IInv, ReadHead, listVars, Types, TailSteps
<1>1. r \in Locals /\ r.head = mHead
      /\ my' = [my EXCEPT ![c] = r] /\ Goto(c, "ReadTailToo")
  BY <1>0, LocalFacts DEF ReadHead, Locals, Types
<1> HIDE DEF r
<1>2. Types' /\ pc'[c] = "ReadTailToo" /\ my'[c] = r /\ Others(c)
  BY <1>0, <1>1, QuietTypes, ThreadFacts DEF Dequeuing
<1>3. Reads(c)'
  <2>1. mHead \in Pointers /\ mHead.count \in Nat
    BY <1>0 DEF Types, Pointers
  <2> QED BY <1>0, <1>1, <1>2, <2>1, ThreadFacts
     DEF Reads, Ready, TailRead, SwingRead, HeadRead, WithTail, WithHead
<1> QED BY <1>0, <1>1, <1>2, <1>3, Quiet DEF Unlinked

LEMMA ReadTailTooKeeps ==
  ASSUME IInv, NEW c \in Consumers, ReadTailToo(c)
  PROVE  IInv' /\ Full' = Full
<1> DEFINE r == [my[c] EXCEPT !.tail = mTail]
<1>0. Types /\ Structure /\ Reads(c) /\ c \in Threads /\ mSize' \in Int /\ TailSteps
      /\ UNCHANGED <<mHead, mTail, next, data, free, count, linked, taken>>
      /\ pc[c] = "ReadTailToo"
  BY ThreadFacts DEF IInv, ReadTailToo, listVars, Types, TailSteps
<1>1. r \in Locals /\ r.head = my[c].head /\ r.tail = mTail
      /\ my' = [my EXCEPT ![c] = r] /\ Goto(c, "ReadHeadNext")
  BY <1>0, LocalFacts DEF ReadTailToo, Locals, Types
<1> HIDE DEF r
<1>2. Types' /\ pc'[c] = "ReadHeadNext" /\ my'[c] = r /\ Others(c)
  BY <1>0, <1>1, QuietTypes, ThreadFacts DEF Dequeuing
<1>3. Reads(c)'
  <2>1. mTail.node \notin free /\ mTail \in Pointers /\ mTail.count \in Nat
    BY <1>0, TailFacts DEF Types, Pointers
  <2> QED BY <1>0, <1>1, <1>2, <2>1, ThreadFacts
     DEF Reads, Ready, TailRead, SwingRead, HeadRead, WithTail, WithHead
<1> QED BY <1>0, <1>1, <1>2, <1>3, Quiet DEF Unlinked

LEMMA ReadHeadNextKeeps ==
  ASSUME IInv, NEW c \in Consumers, ReadHeadNext(c)
  PROVE  IInv' /\ Full' = Full
<1> DEFINE n == next[my[c].head.node]
           r == [my[c] EXCEPT !.succ = n]
           l == IF n = Null THEN "ReadHead"
                ELSE IF my[c].head.node = my[c].tail.node THEN "HelpTail" ELSE "ReadData"
<1>0. Types /\ Structure /\ Reads(c) /\ c \in Threads /\ mSize' \in Int /\ TailSteps
      /\ UNCHANGED <<mHead, mTail, next, data, free, count, linked, taken>>
      /\ pc[c] = "ReadHeadNext"
  BY ThreadFacts DEF IInv, ReadHeadNext, listVars, Types, TailSteps
<1>1. /\ my[c].head \in Pointers /\ n \in Nodes \cup {Null}
      /\ my[c].tail \in Pointers /\ my[c].tail.count <= mTail.count
      /\ my[c].tail.count = mTail.count => my[c].tail = mTail
      /\ my[c].tail.node \in free => next[my[c].tail.node] # Null
      /\ my[c].head = mHead => my[c].tail = mTail \/ mTail.node # mHead.node
      /\ my[c].head.count <= mHead.count
      /\ my[c].head.count = mHead.count => my[c].head = mHead
  BY <1>0 DEF Reads, TailRead, HeadRead, WithTail, WithHead, Types, Pointers
<1>2. r \in Locals /\ r.head = my[c].head /\ r.tail = my[c].tail /\ r.succ = n
      /\ my' = [my EXCEPT ![c] = r] /\ Goto(c, l)
  BY <1>0, <1>1, LocalFacts DEF ReadHeadNext, Locals
<1>3. \/ l = "ReadHead"
      \/ l = "HelpTail" /\ n \in Nodes /\ my[c].head.node = my[c].tail.node
      \/ l = "ReadData" /\ n \in Nodes /\ my[c].head.node # my[c].tail.node
  BY <1>1
<1> HIDE DEF r, l
<1>4. Types' /\ pc'[c] = l /\ my'[c] = r /\ Others(c)
  BY <1>0, <1>2, <1>3, QuietTypes, ThreadFacts DEF Dequeuing
<1>5. Reads(c)'
  <2>1. Ready(c)' /\ TailRead(c)'
    BY <1>0, <1>1, <1>2, <1>3, <1>4, ThreadFacts DEF Ready, TailRead, WithTail
  <2>2. SwingRead(c)'
    BY <1>0, <1>1, <1>2, <1>3, <1>4 DEF SwingRead
  <2>3. HeadRead(c)'
    BY <1>0, <1>1, <1>2, <1>3, <1>4 DEF HeadRead, WithHead
  <2> QED BY <2>1, <2>2, <2>3 DEF Reads
<1> QED BY <1>0, <1>2, <1>3, <1>4, <1>5, Quiet DEF Unlinked

LEMMA HelpTailKeeps ==
  ASSUME IInv, NEW c \in Consumers, HelpTail(c)
  PROVE  IInv' /\ Full' = Full
<1>0. Types /\ Structure /\ Reads(c) /\ c \in Threads /\ mSize' \in Int
      /\ UNCHANGED <<mHead, next, data, free, count, linked, taken>>
      /\ pc[c] = "HelpTail" /\ my' = [my EXCEPT ![c] = my[c]] /\ Goto(c, "ReadData")
      /\ my[c] \in Locals /\ my[c].succ \in Nodes /\ my[c].succ # Null
  BY ThreadFacts, LocalFacts DEF IInv, HelpTail, Types, Reads, Ready
<1>1. TailSteps
  BY <1>0 DEF HelpTail, SwingTail, TailSteps, Reads, SwingRead
<1>2. Types' /\ pc'[c] = "ReadData" /\ my'[c] = my[c] /\ Others(c)
  BY <1>0, <1>1, QuietTypes, ThreadFacts DEF Dequeuing
<1>3. /\ mTail.count \in Nat /\ mTail'.count >= mTail.count
      /\ mTail' # mTail => mTail'.node # mHead.node
  BY <1>0, <1>1, TailFacts DEF Types, Pointers
<1>4. ASSUME my[c].head = mHead PROVE mTail'.node # mHead.node
  <2>1. my[c].tail = mTail \/ mTail.node # mHead.node
    BY <1>0, <1>4 DEF Reads, HeadRead, WithHead
  <2>2. my[c].tail = mTail => mTail' # mTail
    <3> SUFFICES ASSUME my[c].tail = mTail PROVE mTail' # mTail
      OBVIOUS
    <3>1. mTail' = Advance(mTail, my[c].succ)
      BY DEF HelpTail, SwingTail
    <3>2. mTail'.count = mTail.count + 1
      BY <3>1 DEF Advance, Pointer
    <3> QED BY <1>3, <3>2
  <2> QED BY <1>3, <2>1, <2>2
<1>5. Reads(c)'
  BY <1>0, <1>2, <1>4, ThreadFacts
     DEF Reads, Ready, TailRead, SwingRead, HeadRead, WithTail, WithHead
<1> QED BY <1>0, <1>1, <1>2, <1>5, Quiet DEF Unlinked

LEMMA ReadDataKeeps ==
  ASSUME IInv, NEW c \in Consumers, ReadData(c)
  PROVE  IInv' /\ Full' = Full
<1> DEFINE r == [my[c] EXCEPT !.out = data[my[c].succ]]
<1>0. Types /\ Structure /\ Reads(c) /\ c \in Threads /\ mSize' \in Int /\ TailSteps
      /\ UNCHANGED <<mHead, mTail, next, data, free, count, linked, taken>>
      /\ pc[c] = "ReadData" /\ my[c].succ \in Nodes
      /\ data[my[c].succ] \in Items \cup {NoItem}
  BY ThreadFacts DEF IInv, ReadData, listVars, Types, TailSteps, Reads, Ready
<1>1. r \in Locals /\ r.head = my[c].head /\ r.tail = my[c].tail /\ r.succ = my[c].succ
      /\ r.out = data[my[c].succ] /\ my' = [my EXCEPT ![c] = r] /\ Goto(c, "Unlink")
  BY <1>0, LocalFacts DEF ReadData, Locals, Types
<1> HIDE DEF r
<1>2. Types' /\ pc'[c] = "Unlink" /\ my'[c] = r /\ Others(c)
  BY <1>0, <1>1, QuietTypes, ThreadFacts DEF Dequeuing
<1>3. Reads(c)'
  BY <1>0, <1>1, <1>2, ThreadFacts
     DEF Reads, Ready, TailRead, SwingRead, HeadRead, WithTail, WithHead
<1> QED BY <1>0, <1>1, <1>2, <1>3, Quiet DEF Unlinked

\* another consumer was faster
LEMMA UnlinkFailsKeeps ==
  ASSUME IInv, NEW c \in Consumers, Unlink(c), mHead # my[c].head
  PROVE  IInv' /\ Full' = Full
<1>0. Types /\ Structure /\ Reads(c) /\ c \in Threads /\ TailSteps /\ mSize' \in Int
      /\ UNCHANGED <<mHead, mTail, next, data, free, count, linked, taken>>
      /\ pc[c] = "Unlink" /\ my' = [my EXCEPT ![c] = my[c]] /\ Goto(c, "ReadHead")
      /\ my[c] \in Locals
  BY ThreadFacts, LocalFacts DEF IInv, Unlink, TailSteps, Types
<1>1. Types' /\ pc'[c] = "ReadHead" /\ my'[c] = my[c] /\ Others(c)
  BY <1>0, QuietTypes, ThreadFacts DEF Dequeuing
<1>2. Reads(c)'
  BY <1>0, <1>1, ThreadFacts
     DEF Reads, Ready, TailRead, SwingRead, HeadRead, WithTail, WithHead
<1> QED BY <1>0, <1>1, <1>2, Quiet DEF Unlinked

--------------------------------------------------------------------------------
(* Steps that change the lists.                                            *)

\* where the nodes of the queue and of each thread are, and are not
LEMMA Places ==
  ASSUME NEW q, NEW d, Lists(q, d), Apart(q, d)
  PROVE  /\ Listed(q, mHead.node, next)
         /\ mHead.node \in ToSet(q) /\ mHead.node \in Nodes /\ mHead.node \notin free
         /\ mTail.node \in ToSet(q) /\ mTail.node \notin free
         /\ next[mHead.node] # Null =>
               next[mHead.node] \in ToSet(q) /\ next[mHead.node] \notin free
         /\ \A p \in Producers : pc[p] \in Unlinked =>
               my[p].node \in ToSet(d[p]) /\ my[p].node \in Nodes
         /\ \A p \in Producers : pc[p] \notin Unlinked => ToSet(d[p]) = {}
         /\ \A p \in Producers : \A n \in ToSet(d[p]) :
               n \in Held(d, p) /\ n \in Nodes /\ n \notin free /\ n \notin ToSet(q)
         /\ \A c \in Consumers : pc[c] = "Release" => my[c].head.node \in Held(d, c)
         /\ \A p \in Producers : ToSet(d[p]) \cap ToSet(q) = {}
         /\ \A p, r \in Producers : p # r => ToSet(d[p]) \cap ToSet(d[r]) = {}
<1>1. Listed(q, mHead.node, next) /\ mTail.node \in ToSet(q)
  BY DEF Lists
<1>2. mHead.node \in ToSet(q) /\ ToSet(q) \subseteq Nodes
  BY <1>1, ListFacts
<1>3. next[mHead.node] # Null => next[mHead.node] \in ToSet(q)
  BY <1>1, <1>2, ListNext
<1>4. ASSUME NEW p \in Producers
      PROVE  /\ ToSet(d[p]) \subseteq Nodes
             /\ pc[p] \in Unlinked => my[p].node \in ToSet(d[p])
             /\ pc[p] \notin Unlinked => ToSet(d[p]) = {}
  <2>1. CASE pc[p] \in Unlinked
    <3>1. Listed(d[p], my[p].node, next)
      BY <2>1 DEF Lists
    <3> QED BY <2>1, <3>1, ListFacts
  <2>2. CASE pc[p] \notin Unlinked
    <3>1. d[p] = <<>>
      BY <2>2 DEF Lists
    <3> QED BY <2>2, <3>1 DEF ToSet
  <2> QED BY <2>1, <2>2
<1>5. \A p \in Producers : Held(d, p) = ToSet(d[p])
  BY DEF Held
<1>6. \A c \in Consumers : pc[c] = "Release" => my[c].head.node \in Held(d, c)
  BY ThreadFacts DEF Held
<1>7. \A n \in free : n \notin ToSet(q) /\ \A t \in Threads : n \notin Held(d, t)
  BY DEF Apart
<1>8. \A n \in ToSet(q) : \A t \in Threads : n \notin Held(d, t)
  BY DEF Apart
<1>9. \A t, u \in Threads : \A n \in Held(d, t) : n \in Held(d, u) => t = u
  BY DEF Apart
<1> QED BY <1>1, <1>2, <1>3, <1>4, <1>5, <1>6, <1>7, <1>8, <1>9, ThreadFacts

\* a node out of the pool links nowhere and is its producer's
LEMMA GetNodeKeeps ==
  ASSUME IInv, NEW p \in Producers, GetNode(p)
  PROVE  IInv' /\ Full' = Full
<1>0. /\ Types /\ Structure /\ \A u \in Threads : Reads(u)
      /\ p \in Threads /\ pc[p] = "Idle" /\ pc[p] \notin Unlinked
      /\ UNCHANGED <<mHead, mTail, mSize, linked, taken>>
      /\ count[p] \in Nat /\ count[p] < MaxItems /\ count' = [count EXCEPT ![p] = @ + 1]
      /\ Goto(p, "ReadTail")
  BY ThreadFacts DEF IInv, GetNode, Types, Unlinked
<1>1. PICK n \in free : /\ free' = free \ {n}
                        /\ my' = [my EXCEPT ![p].node = n]
                        /\ data' = [data EXCEPT ![n] = <<p, count[p] + 1>>]
                        /\ next' = [next EXCEPT ![n] = Null]
  BY DEF GetNode
<1> DEFINE r == [my[p] EXCEPT !.node = n]
<1>2. n \in Nodes /\ next'[n] = Null /\ \A m \in Nodes \ {n} : next'[m] = next[m] /\ data'[m] = data[m]
  BY <1>0, <1>1 DEF Types
<1>3. r \in Locals /\ r.node = n /\ my' = [my EXCEPT ![p] = r]
  BY <1>0, <1>1, <1>2, LocalFacts DEF Locals
<1> HIDE DEF r
<1>4. /\ pc'[p] = "ReadTail" /\ my'[p] = r /\ Others(p)
      /\ pc' \in [Threads -> Enqueuing \cup Dequeuing] /\ my' \in [Threads -> Locals]
      /\ \A u \in Producers : pc'[u] \in Enqueuing
      /\ \A c \in Consumers : pc'[c] \in Dequeuing
  BY <1>0, <1>3, Stepped, ThreadFacts DEF Enqueuing
<1>5. Types'
  <2>1. <<p, count[p] + 1>> \in Items
    <3>1. count[p] + 1 \in 1 .. MaxItems
      BY <1>0, QueueAssumption
    <3> QED BY <3>1 DEF Items
  <2>2. data' \in [Nodes -> Items \cup {NoItem}]
    BY <1>0, <1>1, <1>2, <2>1 DEF Types
  <2>3. next' \in [Nodes -> Nodes \cup {Null}] /\ free' \in SUBSET Nodes
    BY <1>0, <1>1, <1>2 DEF Types
  <2>4. count' \in [Producers -> Nat]
    BY <1>0 DEF Types
  <2> QED BY <1>0, <1>4, <2>2, <2>3, <2>4 DEF Types
<1>6. PICK q \in Seq(Nodes), d \in [Producers -> Seq(Nodes)],
           order \in SUBSET (Producers \X Producers) :
               Lists(q, d) /\ Apart(q, d) /\ Later(d, order)
  BY <1>0 DEF Structure
<1>7. /\ n \notin ToSet(q) /\ (\A t \in Threads : n \notin Held(d, t))
      /\ mHead.node \in Nodes /\ mHead.node # n /\ mTail.node # n
      /\ next[mHead.node] # Null => next[mHead.node] # n
      /\ ToSet(q) \subseteq Nodes /\ ToSet(d[p]) = {}
  <2>1. ToSet(q) \subseteq Nodes
    BY <1>6, ListFacts DEF Lists
  <2>2. n \notin ToSet(q) /\ \A t \in Threads : n \notin Held(d, t)
    BY <1>6 DEF Apart
  <2>3. /\ mHead.node \in Nodes /\ mHead.node \notin free /\ mTail.node \notin free
        /\ next[mHead.node] # Null => next[mHead.node] \notin free
        /\ ToSet(d[p]) = {}
    BY <1>0, <1>6, Places
  <2> QED BY <2>1, <2>2, <2>3
<1>8. ASSUME NEW u \in Threads PROVE Reads(u)'
  <2>1. CASE u = p
    BY <1>0, <1>2, <1>3, <1>4, <2>1, ThreadFacts
       DEF Reads, Ready, TailRead, SwingRead, HeadRead, WithTail, WithHead
  <2>2. CASE u # p
    <3>1. pc'[u] = pc[u] /\ my'[u] = my[u] /\ Reads(u)
      BY <1>0, <1>4, <2>2 DEF Others
    <3>2. Ready(u)'
      <4>1. pc[u] = "Release" => my[u].head.node # n
        <5> SUFFICES ASSUME pc[u] = "Release" PROVE my[u].head.node # n
          OBVIOUS
        <5>1. u \in Consumers
          BY <1>0, ThreadFacts DEF Types, Enqueuing
        <5>2. my[u].head.node \in Held(d, u)
          BY <1>6, <5>1, Places
        <5> QED BY <1>7, <5>2
      <4> QED BY <1>2, <3>1, <4>1 DEF Reads, Ready
    <3>3. TailRead(u)'
      <4>1. my[u].tail.node \in free' => my[u].tail.node \in free /\ my[u].tail.node # n
                                         /\ my[u].tail.node \in Nodes
        BY <1>0, <1>1 DEF Types
      <4> QED BY <1>0, <1>2, <3>1, <4>1 DEF Reads, TailRead
    <3>4. SwingRead(u)'
      <4>1. next'[mTail.node] = next[mTail.node]
        BY <1>0, <1>2, <1>7 DEF Types, Pointers
      <4> QED BY <1>0, <3>1, <4>1 DEF Reads, SwingRead
    <3>5. HeadRead(u)'
      <4>1. next'[mHead.node] = next[mHead.node]
        BY <1>2, <1>7
      <4>2. pc[u] = "Unlink" /\ my[u].succ = next[mHead.node] => data'[my[u].succ] = data[my[u].succ]
        BY <1>2, <1>7, <3>1, QueueAssumption DEF Reads, Ready
      <4> QED BY <1>0, <3>1, <4>1, <4>2 DEF Reads, HeadRead, WithHead
    <3> QED BY <3>1, <3>2, <3>3, <3>4, <3>5 DEF Reads
  <2> QED BY <2>1, <2>2
<1>9. Structure'
  <2> DEFINE e == [d EXCEPT ![p] = <<n>>]
             younger == {x \in order : x[1] # p /\ x[2] # p} \cup ((Producers \ {p}) \X {p})
  <2>1. e \in [Producers -> Seq(Nodes)] /\ e[p] = <<n>> /\ \A u \in Producers \ {p} : e[u] = d[u]
    BY <1>2
  <2>2. Listed(<<n>>, n, next') /\ ToSet(<<n>>) = {n}
    BY <1>2, ListOne
  <2>3. ASSUME NEW s, NEW m, Listed(s, m, next), n \notin ToSet(s) PROVE Listed(s, m, next')
    <3>1. ToSet(s) \subseteq Nodes
      BY <2>3, ListFacts
    <3>2. \A k \in ToSet(s) : next'[k] = next[k]
      BY <1>2, <2>3, <3>1
    <3> QED BY <2>3, <3>2, ListKept
  <2>4. \A u \in Producers \ {p} : (pc'[u] \in Unlinked <=> pc[u] \in Unlinked) /\ my'[u] = my[u]
                                   /\ n \notin ToSet(d[u])
    BY <1>4, <1>7, ThreadFacts DEF Others, Held
  <2> HIDE DEF e
  <2>5. Lists(q, e)'
    <3>1. Listed(q, mHead.node, next')
      BY <1>6, <1>7, <2>3 DEF Lists
    <3>2. ASSUME NEW u \in Producers
          PROVE  IF pc'[u] \in Unlinked THEN Listed(e[u], my'[u].node, next') ELSE e[u] = <<>>
      <4>1. CASE u = p
        BY <1>3, <1>4, <2>1, <2>2, <4>1 DEF Unlinked
      <4>2. CASE u # p
        BY <1>6, <2>1, <2>3, <2>4, <4>2 DEF Lists
      <4> QED BY <4>1, <4>2
    <3> QED BY <1>0, <1>6, <2>1, <3>1, <3>2 DEF Lists
  <2>6. Apart(q, e)'
    <3>1. Held(e, p)' = {n} /\ Held(d, p) = {}
      BY <1>7, <2>1, <2>2 DEF Held
    <3>2. \A t \in Threads \ {p} : Held(e, t)' = Held(d, t)
      BY <1>4, <2>1 DEF Held, Others
    <3>3. \A m \in Nodes : m \in free' \/ m \in ToSet(q) \/ \E t \in Threads : m \in Held(e, t)'
      <4> SUFFICES ASSUME NEW m \in Nodes, m # n
                   PROVE  m \in free' \/ m \in ToSet(q) \/ \E t \in Threads : m \in Held(e, t)'
        BY <1>0, <3>1
      <4>1. CASE \E t \in Threads : m \in Held(d, t)
        BY <3>1, <3>2, <4>1
      <4> QED BY <1>1, <1>6, <4>1 DEF Apart
    <3>4. \A m \in free' : m \in free /\ m # n
      BY <1>1
    <3>5. \A m \in free' : m \notin ToSet(q) /\ \A t \in Threads : m \notin Held(e, t)'
      BY <1>6, <3>1, <3>2, <3>4 DEF Apart
    <3>6. \A m \in ToSet(q) : \A t \in Threads : m \notin Held(e, t)'
      BY <1>6, <1>7, <3>1, <3>2 DEF Apart
    <3>7. \A t, u \in Threads : \A m \in Held(e, t)' : m \in Held(e, u)' => t = u
      BY <1>6, <1>7, <3>1, <3>2 DEF Apart
    <3> QED BY <3>3, <3>5, <3>6, <3>7 DEF Apart
  <2>7. Later(e, younger)'
    <3>1. \A a, b \in Producers : <<a, b>> \in younger <=>
             (<<a, b>> \in order /\ a # p /\ b # p) \/ (a # p /\ b = p)
      OBVIOUS
    <3>2. younger \in SUBSET (Producers \X Producers)
      OBVIOUS
    <3> HIDE DEF younger
    <3>3. \A a \in Producers : <<a, a>> \notin younger
      BY <1>6, <3>1 DEF Later
    <3>4. \A a, b, c \in Producers : <<a, b>> \in younger /\ <<b, c>> \in younger => <<a, c>> \in younger
      BY <1>6, <3>1 DEF Later
    <3>5. ASSUME NEW a \in Producers, NEW b \in Producers,
                 pc'[a] \in {"ReadTailNext", "Link"}, my'[a].tail.node \in ToSet(e[b])
          PROVE  <<a, b>> \in younger
      <4>1. a # p
        BY <1>4, <3>5
      <4>2. pc'[a] = pc[a] /\ my'[a] = my[a]
        BY <1>4, <4>1, ThreadFacts DEF Others
      <4>3. CASE b = p
        BY <3>1, <4>1, <4>3
      <4>4. CASE b # p
        BY <1>6, <2>1, <3>1, <3>5, <4>1, <4>2, <4>4 DEF Later
      <4> QED BY <4>3, <4>4
    <3> QED BY <3>2, <3>3, <3>4, <3>5 DEF Later
  <2>8. younger \in SUBSET (Producers \X Producers)
    OBVIOUS
  <2> HIDE DEF younger
  <2> QED BY <1>6, <2>1, <2>5, <2>6, <2>7, <2>8 DEF Structure
<1>10. Full' = Full
  <2> DEFINE N == {my[u].node : u \in {u \in Producers : pc[u] \in Unlinked}}
             H == {my[c].head.node : c \in {c \in Consumers : pc[c] = "Release"}}
  <2>1. N' = N \cup {n}
    <3>1. \A u \in Producers \ {p} : pc'[u] = pc[u] /\ my'[u] = my[u]
      BY <1>4, ThreadFacts DEF Others
    <3>2. pc'[p] \in Unlinked /\ pc[p] \notin Unlinked /\ my'[p].node = n
      BY <1>0, <1>3, <1>4 DEF Unlinked
    <3>3. \A u \in Producers : pc[u] \in Unlinked =>
             u # p /\ pc'[u] \in Unlinked /\ my'[u] = my[u]
      BY <3>1, <3>2
    <3>4. N' \subseteq N \cup {n}
      BY <3>1, <3>2
    <3>5. N \subseteq N'
      BY <3>3
    <3>6. n \in N'
      BY <3>2
    <3> QED BY <3>4, <3>5, <3>6
  <2>2. H' = H
    <3>1. \A c \in Consumers : pc'[c] = pc[c] /\ my'[c] = my[c]
      BY <1>4, ThreadFacts DEF Others
    <3> QED BY <3>1
  <2>3. free' = free \ {n} /\ n \in free /\ mHead' = mHead
    BY <1>0, <1>1
  <2>4. Full = Nodes \ (free \cup {mHead.node} \cup N \cup H)
    BY DEF Full
  <2>5. Full' = Nodes \ (free' \cup {mHead'.node} \cup N' \cup H')
    BY DEF Full
  <2> HIDE DEF N, H
  <2> QED BY <2>1, <2>2, <2>3, <2>4, <2>5
<1> QED BY <1>5, <1>8, <1>9, <1>10 DEF IInv

\* The node of the tail that a producer read is the last of its list if it has no
\* Next: of the queue, or of the list of a producer that is later.
LEMMA Target ==
  ASSUME IInv, NEW p \in Producers, pc[p] = "Link", next[my[p].tail.node] = Null,
         NEW q, NEW d, NEW order, Lists(q, d), Apart(q, d), Later(d, order)
  PROVE  /\ my[p].tail.node \in Nodes /\ my[p].tail.node \notin free
         /\ \/ my[p].tail.node \in ToSet(q)
            \/ \E r \in Producers :
                  my[p].tail.node \in ToSet(d[r]) /\ <<p, r>> \in order /\ r # p
<1> DEFINE x == my[p].tail.node
<1>1. p \in Threads /\ Reads(p) /\ Types /\ \A t \in Threads : Ready(t)
  BY ThreadFacts DEF IInv, Reads
<1>2. x \in Nodes /\ x \notin free
  BY <1>1 DEF Reads, TailRead, WithTail, Pointers
<1>3. ASSUME x \notin ToSet(q)
      PROVE  \E r \in Producers : x \in ToSet(d[r]) /\ <<p, r>> \in order /\ r # p
  <2>1. PICK t \in Threads : x \in Held(d, t)
    BY <1>2, <1>3 DEF Apart
  <2>2. t \in Producers
    <3> SUFFICES ASSUME t \notin Producers PROVE FALSE
      OBVIOUS
    <3>1. pc[t] = "Release" /\ x = my[t].head.node
      BY <2>1 DEF Held
    <3> QED BY <1>1, <3>1 DEF Ready
  <2>3. x \in ToSet(d[t])
    BY <2>1, <2>2 DEF Held
  <2>4. <<p, t>> \in order
    BY <2>2, <2>3 DEF Later
  <2>5. t # p
    BY <2>4 DEF Later
  <2> QED BY <2>2, <2>3, <2>4, <2>5
<1> QED BY <1>2, <1>3

LEMMA LinkKeeps ==
  ASSUME IInv, NEW p \in Producers, Link(p), next[my[p].tail.node] = Null
  PROVE  IInv' /\ Full' = Full \cup {my[p].node} /\ my[p].node \notin Full
<1> DEFINE x == my[p].tail.node
           n == my[p].node
<1>0. /\ Types /\ Structure /\ \A u \in Threads : Reads(u)
      /\ p \in Threads /\ pc[p] = "Link" /\ pc[p] \in Unlinked
      /\ UNCHANGED <<mHead, mTail, data, free, mSize, my, count, taken>>
      /\ next' = [next EXCEPT ![x] = n] /\ linked' = Append(linked, data[n])
      /\ Goto(p, "Swing") /\ my' = [my EXCEPT ![p] = my[p]] /\ my[p] \in Locals
      /\ n \in Nodes
  BY ThreadFacts, LocalFacts DEF IInv, Link, Unlinked, Reads, Ready
<1>1. PICK q \in Seq(Nodes), d \in [Producers -> Seq(Nodes)],
           order \in SUBSET (Producers \X Producers) :
               Lists(q, d) /\ Apart(q, d) /\ Later(d, order)
  BY <1>0 DEF Structure
<1>2. /\ x \in Nodes /\ x \notin free
      /\ \/ x \in ToSet(q)
         \/ \E r \in Producers : x \in ToSet(d[r]) /\ <<p, r>> \in order /\ r # p
  BY <1>0, <1>1, Target
<1>3. next[x] = Null /\ next'[x] = n /\ \A m \in Nodes \ {x} : next'[m] = next[m]
  BY <1>0, <1>2 DEF Types
<1>4. /\ pc'[p] = "Swing" /\ my' = my /\ Others(p)
      /\ pc' \in [Threads -> Enqueuing \cup Dequeuing] /\ my' \in [Threads -> Locals]
      /\ \A u \in Producers : pc'[u] \in Enqueuing
      /\ \A c \in Consumers : pc'[c] \in Dequeuing
  <2>1. /\ Types /\ p \in Threads /\ Goto(p, "Swing") /\ my' = [my EXCEPT ![p] = my[p]]
        /\ my[p] \in Locals /\ "Swing" \in Enqueuing /\ ~(p \in Consumers)
    BY <1>0, ThreadFacts DEF Enqueuing
  <2>2. /\ pc'[p] = "Swing" /\ Others(p)
        /\ pc' \in [Threads -> Enqueuing \cup Dequeuing] /\ my' \in [Threads -> Locals]
        /\ \A u \in Producers : pc'[u] \in Enqueuing
        /\ \A c \in Consumers : pc'[c] \in Dequeuing
    BY <2>1, Stepped
  <2> QED BY <1>0, <2>2
<1>5. Types'
  <2>1. next' \in [Nodes -> Nodes \cup {Null}] /\ linked' \in Seq(Items \cup {NoItem})
    <3>1. data[n] \in Items \cup {NoItem} /\ linked \in Seq(Items \cup {NoItem})
      BY <1>0 DEF Types
    <3>2. next' \in [Nodes -> Nodes \cup {Null}]
      BY <1>0, <1>2 DEF Types
    <3>3. linked' \in Seq(Items \cup {NoItem})
      BY <1>0, <3>1, AppendProperties
    <3> QED BY <3>2, <3>3
  <2> QED BY <1>0, <1>4, <2>1 DEF Types
<1>6. ASSUME NEW u \in Threads PROVE Reads(u)'
  <2>0. Reads(u) /\ (u # p => pc'[u] = pc[u]) /\ n # Null
    BY <1>0, <1>4, QueueAssumption DEF Others
  <2>a. \A m \in Nodes : next[m] # Null => next'[m] = next[m]
    BY <1>3
  <2>b. mHead.node \in Nodes /\ mTail.node \in Nodes
    BY <1>0 DEF Types, Pointers
  <2>1. CASE u = p
    <3>1. my[p].tail = mTail => next'[mTail.node] = n
      BY <1>3
    <3>2. TailRead(u)'
      BY <1>0, <1>2, <1>4, <2>0, <2>1 DEF Reads, TailRead, WithTail
    <3>3. Ready(u)'
      BY <1>0, <1>4, <2>1 DEF Ready
    <3>4. SwingRead(u)' /\ HeadRead(u)'
      BY <1>0, <1>4, <2>1, <3>1 DEF SwingRead, HeadRead, WithHead
    <3> QED BY <3>2, <3>3, <3>4 DEF Reads
  <2>2. CASE u # p
    <3>1. Ready(u)'
      BY <1>4, <2>0, <2>2, <2>a DEF Reads, Ready
    <3>2. TailRead(u)'
      <4>1. my[u].tail.node \in free => my[u].tail.node \in Nodes
        BY <1>0 DEF Types
      <4> QED BY <1>0, <1>4, <2>0, <2>2, <2>a, <4>1 DEF Reads, TailRead
    <3>3. SwingRead(u)'
      <4> SUFFICES ASSUME my[u].tail = mTail, pc[u] \in {"Help", "HelpTail", "Swing"}
                   PROVE  next'[mTail.node] = next[mTail.node]
        BY <1>0, <1>4, <2>0, <2>2 DEF Reads, SwingRead
      <4>1. CASE pc[u] \in {"Help", "HelpTail"}
        BY <2>0, <2>a, <2>b, <4>1, QueueAssumption DEF Reads, SwingRead, Ready
      <4>2. CASE pc[u] = "Swing"
        <5>1. u \in Producers
          BY <1>0, <4>2, ThreadFacts DEF Types, Dequeuing
        <5> QED BY <2>0, <2>a, <2>b, <4>2, <5>1, QueueAssumption DEF Reads, SwingRead, Ready
      <4> QED BY <4>1, <4>2
    <3>4. HeadRead(u)'
      <4>1. my[u].head = mHead /\ pc[u] \in {"HelpTail", "ReadData", "Unlink"} =>
               my[u].succ = next'[mHead.node]
        BY <2>0, <2>a, <2>b, QueueAssumption DEF Reads, HeadRead, WithHead, Ready
      <4> QED BY <1>0, <1>4, <2>0, <2>2, <4>1 DEF Reads, HeadRead, WithHead
    <3> QED BY <3>1, <3>2, <3>3, <3>4 DEF Reads
  <2> QED BY <2>1, <2>2
<1>7. /\ Listed(d[p], n, next) /\ Listed(q, mHead.node, next)
      /\ \A u \in Producers : pc[u] \in Unlinked => Listed(d[u], my[u].node, next)
      /\ \A u \in Producers : pc[u] \notin Unlinked => d[u] = <<>>
      /\ mTail.node \in ToSet(q)
  BY <1>0, <1>1 DEF Lists
<1>8. /\ ToSet(d[p]) \cap ToSet(q) = {}
      /\ \A u \in Producers \ {p} : ToSet(d[p]) \cap ToSet(d[u]) = {}
      /\ \A u, v \in Producers : u # v => ToSet(d[u]) \cap ToSet(d[v]) = {}
      /\ \A u \in Producers : ToSet(d[u]) \cap ToSet(q) = {}
  BY <1>1, Places
<1>9. ASSUME NEW s, NEW m, Listed(s, m, next), x \notin ToSet(s) PROVE Listed(s, m, next')
  <2>1. ToSet(s) \subseteq Nodes
    BY <1>9, ListFacts
  <2>2. \A k \in ToSet(s) : next'[k] = next[k]
    BY <1>3, <1>9, <2>1
  <2> QED BY <1>9, <2>2, ListKept
<1>10. ASSUME NEW s, NEW m, Listed(s, m, next), x \in ToSet(s), ToSet(s) \cap ToSet(d[p]) = {}
       PROVE  Listed(s \o d[p], m, next') /\ ToSet(s \o d[p]) = ToSet(s) \cup ToSet(d[p])
              /\ s \o d[p] \in Seq(Nodes)
  <2>1. next \in [Nodes -> Nodes \cup {Null}]
    BY <1>0 DEF Types
  <2>2. Listed(s \o d[p], m, next') /\ ToSet(s \o d[p]) = ToSet(s) \cup ToSet(d[p])
    <3>0. PICK r, k, y : r = d[p] /\ k = n /\ y = x
      OBVIOUS
    <3>1. /\ next'[y] = k /\ next[y] = Null /\ Listed(r, k, next)
          /\ \A i \in Nodes \ {y} : next'[i] = next[i]
      BY <1>3, <1>0, <1>7, <3>0
    <3>2. /\ Listed(s, m, next) /\ y \in ToSet(s) /\ \A i \in ToSet(r) : i \notin ToSet(s)
      BY <1>10, <3>0
    <3>3. Listed(s \o r, m, next') /\ ToSet(s \o r) = ToSet(s) \cup ToSet(r)
      <4>1. Listed(s, m, next) /\ Listed(r, k, next) /\ \A i \in ToSet(r) : i \notin ToSet(s)
        BY <3>1, <3>2
      <4>2. y \in ToSet(s) /\ next[y] = Null /\ next'[y] = k
        BY <3>1, <3>2
      <4>3. \A i \in Nodes \ {y} : next'[i] = next[i]
        BY <3>1
      <4>4. Listed(s \o r, m, next')
        BY <4>1, <4>2, <4>3, ListJoin
      <4>5. s \in Seq(Nodes) /\ r \in Seq(Nodes)
        BY <4>1, ListFacts
      <4>6. ToSet(s \o r) = ToSet(s) \cup ToSet(r)
        BY <4>5, ConcatSet
      <4> QED BY <4>4, <4>6
    <3> QED BY <3>0, <3>3
  <2> QED BY <2>2, ListFacts
<1>11. Structure'
  <2>1. CASE x \in ToSet(q)
    <3> DEFINE w == q \o d[p]
               e == [d EXCEPT ![p] = <<>>]
    <3>1. Listed(w, mHead.node, next') /\ ToSet(w) = ToSet(q) \cup ToSet(d[p]) /\ w \in Seq(Nodes)
      BY <1>7, <1>8, <1>10, <2>1
    <3>2. e \in [Producers -> Seq(Nodes)] /\ e[p] = <<>> /\ \A u \in Producers \ {p} : e[u] = d[u]
      OBVIOUS
    <3>3. ToSet(e[p]) = {}
      BY <3>2 DEF ToSet
    <3> HIDE DEF w, e
    <3>4. \A u \in Producers \ {p} : x \notin ToSet(d[u])
      BY <1>8, <2>1
    <3>5. Lists(w, e)'
      <4>1. ASSUME NEW u \in Producers
            PROVE  IF pc'[u] \in Unlinked THEN Listed(e[u], my'[u].node, next') ELSE e[u] = <<>>
        <5>1. CASE u = p
          BY <1>4, <3>2, <5>1 DEF Unlinked
        <5>2. CASE u # p
          <6>1. pc'[u] = pc[u] /\ e[u] = d[u] /\ x \notin ToSet(d[u])
            BY <1>4, <3>2, <3>4, <5>2, ThreadFacts DEF Others
          <6> QED BY <1>4, <1>7, <1>9, <6>1
        <5> QED BY <5>1, <5>2
      <4> QED BY <1>0, <1>7, <3>1, <3>2, <4>1 DEF Lists
    <3>6. Apart(w, e)'
      <4>1. Held(e, p)' = {} /\ Held(d, p) = ToSet(d[p])
        BY <3>3 DEF Held
      <4>2. \A t \in Threads \ {p} : Held(e, t)' = Held(d, t)
        BY <1>4, <3>2 DEF Held, Others
      <4>3. \A m \in Nodes : m \in free \/ m \in ToSet(w) \/ \E t \in Threads : m \in Held(e, t)'
        <5> SUFFICES ASSUME NEW m \in Nodes, NEW t \in Threads, m \in Held(d, t), m \notin ToSet(w)
                     PROVE  \E u \in Threads : m \in Held(e, u)'
          BY <1>1, <3>1 DEF Apart
        <5> QED BY <3>1, <4>1, <4>2
      <4>4. \A m \in free : m \notin ToSet(w) /\ \A t \in Threads : m \notin Held(e, t)'
        <5>1. \A m \in free : m \notin ToSet(q) /\ \A t \in Threads : m \notin Held(d, t)
          BY <1>1 DEF Apart
        <5>2. p \in Threads /\ free' = free
          BY <1>0
        <5> SUFFICES ASSUME NEW m \in free
                     PROVE  m \notin ToSet(w) /\ \A t \in Threads : m \notin Held(e, t)'
          OBVIOUS
        <5>3. m \notin ToSet(w)
          BY <3>1, <4>1, <5>1, <5>2
        <5>4. \A t \in Threads : m \notin Held(e, t)'
          BY <4>1, <4>2, <5>1
        <5> QED BY <5>3, <5>4
      <4>5. \A m \in ToSet(w) : \A t \in Threads : m \notin Held(e, t)'
        <5>1. \A m \in ToSet(q) : \A t \in Threads : m \notin Held(d, t)
          BY <1>1 DEF Apart
        <5>2. \A t \in Threads \ {p} : \A m \in Held(d, p) : m \notin Held(d, t)
          BY <1>0, <1>1 DEF Apart
        <5> SUFFICES ASSUME NEW m \in ToSet(w), NEW t \in Threads, m \in Held(e, t)'
                     PROVE  FALSE
          OBVIOUS
        <5>3. t # p /\ m \in Held(d, t)
          BY <4>1, <4>2
        <5>4. m \in ToSet(q) \/ m \in Held(d, p)
          BY <3>1, <4>1
        <5> QED BY <5>1, <5>2, <5>3, <5>4
      <4>6. \A t, u \in Threads : \A m \in Held(e, t)' : m \in Held(e, u)' => t = u
        BY <1>1, <4>1, <4>2 DEF Apart
      <4> QED BY <1>0, <4>3, <4>4, <4>5, <4>6 DEF Apart
    <3>7. Later(e, order)'
      <4> SUFFICES ASSUME NEW a \in Producers, NEW b \in Producers,
                          pc'[a] \in {"ReadTailNext", "Link"}, my'[a].tail.node \in ToSet(e[b])
                   PROVE  <<a, b>> \in order
        BY <1>1 DEF Later
      <4>1. a # p /\ pc'[a] = pc[a] /\ b # p
        BY <1>4, <3>3, ThreadFacts DEF Others
      <4> QED BY <1>1, <1>4, <3>2, <4>1 DEF Later
    <3> QED BY <1>1, <3>1, <3>2, <3>5, <3>6, <3>7 DEF Structure
  <2>2. CASE x \notin ToSet(q)
    <3>0. PICK r \in Producers : x \in ToSet(d[r]) /\ <<p, r>> \in order /\ r # p
      BY <1>2, <2>2
    <3> DEFINE w == d[r] \o d[p]
               e == [d EXCEPT ![r] = w, ![p] = <<>>]
    <3>a. pc[r] \in Unlinked
      <4> SUFFICES ASSUME pc[r] \notin Unlinked PROVE FALSE
        OBVIOUS
      <4>1. ToSet(d[r]) = {}
        BY <1>1, Places
      <4> QED BY <3>0, <4>1
    <3>1. Listed(w, my[r].node, next') /\ ToSet(w) = ToSet(d[r]) \cup ToSet(d[p]) /\ w \in Seq(Nodes)
      BY <1>7, <1>8, <1>10, <3>0, <3>a
    <3>2. e \in [Producers -> Seq(Nodes)] /\ e[p] = <<>> /\ e[r] = w
          /\ \A u \in Producers \ {p, r} : e[u] = d[u]
      <4>1. w \in Seq(Nodes)
        BY <3>1
      <4> HIDE DEF w
      <4>2. e \in [Producers -> Seq(Nodes)]
        <5>1. [d EXCEPT ![r] = w] \in [Producers -> Seq(Nodes)] /\ <<>> \in Seq(Nodes)
          BY <4>1
        <5> QED BY <5>1
      <4>3. e[p] = <<>> /\ e[r] = w
        BY <3>0
      <4>4. \A u \in Producers \ {p, r} : e[u] = d[u]
        BY <3>0
      <4> QED BY <4>2, <4>3, <4>4
    <3>3. ToSet(e[p]) = {}
      BY <3>2 DEF ToSet
    <3> HIDE DEF w, e
    <3>4. \A u \in Producers \ {p, r} : x \notin ToSet(d[u])
      BY <1>8, <3>0
    <3>5. Lists(q, e)'
      <4>1. ASSUME NEW u \in Producers
            PROVE  IF pc'[u] \in Unlinked THEN Listed(e[u], my'[u].node, next') ELSE e[u] = <<>>
        <5>1. CASE u = p
          BY <1>4, <3>2, <5>1 DEF Unlinked
        <5>2. CASE u = r
          <6>1. pc'[u] = pc[u]
            BY <1>4, <3>0, <5>2, ThreadFacts DEF Others
          <6> QED BY <1>4, <3>1, <3>2, <3>a, <5>2, <6>1
        <5>3. CASE u # p /\ u # r
          <6>1. pc'[u] = pc[u] /\ e[u] = d[u] /\ x \notin ToSet(d[u])
            BY <1>4, <3>2, <3>4, <5>3, ThreadFacts DEF Others
          <6> QED BY <1>4, <1>7, <1>9, <6>1
        <5> QED BY <5>1, <5>2, <5>3
      <4>2. Listed(q, mHead.node, next')
        BY <1>7, <1>9, <2>2
      <4> QED BY <1>0, <1>7, <3>2, <4>1, <4>2 DEF Lists
    <3>6. Apart(q, e)'
      <4>1. /\ Held(e, p)' = {} /\ Held(d, p) = ToSet(d[p])
            /\ Held(e, r)' = Held(d, r) \cup Held(d, p) /\ r \in Threads
        BY <3>1, <3>2, <3>3, ThreadFacts DEF Held
      <4>2. \A t \in Threads \ {p, r} : Held(e, t)' = Held(d, t)
        BY <1>4, <3>2 DEF Held, Others
      <4>3. \A m \in Nodes : m \in free \/ m \in ToSet(q) \/ \E t \in Threads : m \in Held(e, t)'
        <5> SUFFICES ASSUME NEW m \in Nodes, NEW t \in Threads, m \in Held(d, t)
                     PROVE  \E u \in Threads : m \in Held(e, u)'
          BY <1>1 DEF Apart
        <5> QED BY <4>1, <4>2
      <4>4. \A m \in free : m \notin ToSet(q) /\ \A t \in Threads : m \notin Held(e, t)'
        <5>1. \A m \in free : m \notin ToSet(q) /\ \A t \in Threads : m \notin Held(d, t)
          BY <1>1 DEF Apart
        <5>2. p \in Threads
          BY <1>0
        <5> SUFFICES ASSUME NEW m \in free, NEW t \in Threads PROVE m \notin Held(e, t)'
          BY <5>1
        <5>3. m \notin Held(d, t) /\ m \notin Held(d, p)
          BY <5>1, <5>2
        <5> QED BY <4>1, <4>2, <5>3
      <4>5. \A m \in ToSet(q) : \A t \in Threads : m \notin Held(e, t)'
        <5>1. \A m \in ToSet(q) : \A t \in Threads : m \notin Held(d, t)
          BY <1>1 DEF Apart
        <5> SUFFICES ASSUME NEW m \in ToSet(q), NEW t \in Threads, m \in Held(e, t)'
                     PROVE  FALSE
          OBVIOUS
        <5>2. m \in Held(d, t) \/ m \in Held(d, p)
          BY <4>1, <4>2
        <5>3. p \in Threads
          BY <1>0
        <5> QED BY <5>1, <5>2, <5>3
      <4>6. ASSUME NEW t \in Threads, NEW u \in Threads, NEW m \in Held(e, t)', m \in Held(e, u)'
            PROVE  t = u
        <5>1. \A v \in Threads : m \in Held(e, v)' =>
                 v # p /\ (m \in Held(d, v) \/ (v = r /\ m \in Held(d, p)))
          BY <3>0, <4>1, <4>2
        <5>2. \A v, z \in Threads : m \in Held(d, v) /\ m \in Held(d, z) => v = z
          BY <1>1 DEF Apart
        <5> QED BY <1>0, <4>6, <5>1, <5>2
      <4> QED BY <1>0, <4>3, <4>4, <4>5, <4>6 DEF Apart
    <3>7. Later(e, order)'
      <4> SUFFICES ASSUME NEW a \in Producers, NEW b \in Producers,
                          pc'[a] \in {"ReadTailNext", "Link"}, my'[a].tail.node \in ToSet(e[b])
                   PROVE  <<a, b>> \in order
        BY <1>1 DEF Later
      <4>1. a # p /\ pc'[a] = pc[a] /\ b # p /\ my'[a] = my[a]
        BY <1>4, <3>3, ThreadFacts DEF Others
      <4>2. CASE b = r
        <5>1. my[a].tail.node \in ToSet(d[r]) \/ my[a].tail.node \in ToSet(d[p])
          BY <3>1, <3>2, <4>1, <4>2
        <5>2. <<a, r>> \in order \/ <<a, p>> \in order
          BY <1>1, <4>1, <5>1 DEF Later
        <5> QED BY <1>1, <3>0, <4>2, <5>2 DEF Later
      <4>3. CASE b # r
        BY <1>1, <3>2, <4>1, <4>3 DEF Later
      <4> QED BY <4>2, <4>3
    <3> QED BY <1>1, <3>2, <3>5, <3>6, <3>7 DEF Structure
  <2> QED BY <2>1, <2>2
<1>12. Full' = Full \cup {n} /\ n \notin Full
  <2> DEFINE N == {my[u].node : u \in {u \in Producers : pc[u] \in Unlinked}}
             H == {my[c].head.node : c \in {c \in Consumers : pc[c] = "Release"}}
  <2>0. n \in ToSet(d[p]) /\ n \in Held(d, p) /\ n \notin free /\ n \notin ToSet(q)
        /\ mHead.node \in ToSet(q)
    BY <1>0, <1>1, Places
  <2>1. N = N' \cup {n} /\ n \notin N'
    <3>1. \A u \in Producers \ {p} : pc'[u] = pc[u] /\ my'[u] = my[u]
      BY <1>4, ThreadFacts DEF Others
    <3>2. pc'[p] \notin Unlinked /\ pc[p] \in Unlinked /\ my'[p].node = n
      BY <1>0, <1>4 DEF Unlinked
    <3>3. {u \in Producers : pc[u] \in Unlinked} = {u \in Producers : pc'[u] \in Unlinked} \cup {p}
      BY <3>1, <3>2
    <3>4. \A u \in Producers : pc'[u] \in Unlinked => u # p /\ pc[u] \in Unlinked /\ my'[u] = my[u]
      BY <3>1, <3>2
    <3>5. \A u \in Producers : pc'[u] \in Unlinked => my'[u].node # n
      <4> SUFFICES ASSUME NEW u \in Producers, pc'[u] \in Unlinked, my[u].node = n PROVE FALSE
        BY <3>4
      <4>1. n \in ToSet(d[u])
        BY <1>1, <3>4, Places
      <4> QED BY <1>8, <2>0, <3>4, <4>1
    <3> QED BY <1>4, <3>2, <3>3, <3>4, <3>5
  <2>2. H' = H /\ n \notin H
    <3>1. \A c \in Consumers : pc'[c] = pc[c] /\ my'[c] = my[c]
      BY <1>4, ThreadFacts DEF Others
    <3>2. \A c \in Consumers : pc[c] = "Release" => my[c].head.node # n
      <4> SUFFICES ASSUME NEW c \in Consumers, pc[c] = "Release", my[c].head.node = n PROVE FALSE
        OBVIOUS
      <4>1. n \in Held(d, c)
        BY <1>1, Places
      <4> QED BY <1>0, <1>1, <2>0, <4>1, ThreadFacts DEF Apart
    <3> QED BY <3>1, <3>2
  <2>3. free' = free /\ mHead' = mHead /\ n # mHead.node /\ n \in Nodes
    BY <1>0, <2>0
  <2>4. Full = Nodes \ (free \cup {mHead.node} \cup N \cup H)
    BY DEF Full
  <2>5. Full' = Nodes \ (free' \cup {mHead'.node} \cup N' \cup H')
    BY DEF Full
  <2> HIDE DEF N, H
  <2> QED BY <2>0, <2>1, <2>2, <2>3, <2>4, <2>5
<1> QED BY <1>5, <1>6, <1>11, <1>12 DEF IInv

\* the exchange on the head makes the old dummy the consumer's
LEMMA UnlinkKeeps ==
  ASSUME IInv, NEW c \in Consumers, Unlink(c), mHead = my[c].head
  PROVE  /\ IInv'
         /\ my[c].succ \in Full /\ Full' = Full \ {my[c].succ} /\ my[c].out = data[my[c].succ]
<1> DEFINE n == my[c].succ
           h == mHead.node
<1>0. /\ Types /\ Structure /\ \A u \in Threads : Reads(u)
      /\ c \in Threads /\ pc[c] = "Unlink"
      /\ UNCHANGED <<mTail, next, data, free, mSize, my, count, linked>>
      /\ mHead' = Advance(my[c].head, n) /\ taken' = Append(taken, my[c].out)
      /\ Goto(c, "Release") /\ my' = [my EXCEPT ![c] = my[c]] /\ my[c] \in Locals
  BY ThreadFacts, LocalFacts DEF IInv, Unlink, MoveHead
<1>1. /\ n \in Nodes /\ n = next[h] /\ n # Null /\ mTail.node # h /\ my[c].out = data[n]
      /\ mHead.count \in Nat /\ h \in Nodes
  BY <1>0, QueueAssumption DEF Reads, Ready, HeadRead, WithHead, Types, Pointers
<1>2. mHead' \in Pointers /\ mHead'.node = n /\ mHead'.count = mHead.count + 1
  BY <1>0, <1>1 DEF Advance, Pointer, Pointers
<1>3. /\ pc'[c] = "Release" /\ my' = my /\ Others(c)
      /\ pc' \in [Threads -> Enqueuing \cup Dequeuing] /\ my' \in [Threads -> Locals]
      /\ \A u \in Producers : pc'[u] \in Enqueuing
      /\ \A u \in Consumers : pc'[u] \in Dequeuing
  BY <1>0, Stepped, ThreadFacts DEF Dequeuing
<1>4. Types'
  <2>1. my[c].out \in Items \cup {NoItem} /\ taken \in Seq(Items \cup {NoItem})
    BY <1>0, LocalFacts DEF Types
  <2>2. taken' \in Seq(Items \cup {NoItem})
    BY <1>0, <2>1, AppendProperties
  <2> QED BY <1>0, <1>2, <1>3, <2>2 DEF Types
<1>5. ASSUME NEW u \in Threads PROVE Reads(u)'
  <2>1. CASE u = c
    <3>1. Ready(u)'
      BY <1>0, <1>1, <1>3, <2>1, ThreadFacts DEF Ready
    <3> QED BY <1>0, <1>3, <2>1, <3>1
            DEF Reads, TailRead, SwingRead, HeadRead, WithTail, WithHead
  <2>2. CASE u # c
    <3>1. pc'[u] = pc[u] /\ my'[u] = my[u] /\ Reads(u)
      BY <1>0, <1>3, <2>2 DEF Others
    <3>2. Ready(u)' /\ TailRead(u)' /\ SwingRead(u)'
      BY <1>0, <3>1 DEF Reads, Ready, TailRead, SwingRead
    <3>3. HeadRead(u)'
      <4> SUFFICES ASSUME pc[u] \in WithHead
                   PROVE  /\ my[u].head \in Pointers /\ my[u].head.count <= mHead'.count
                          /\ my[u].head.count # mHead'.count /\ my[u].head # mHead'
        BY <3>1 DEF HeadRead
      <4>1. my[u].head \in Pointers /\ my[u].head.count <= mHead.count
        BY <3>1 DEF Reads, HeadRead
      <4>2. my[u].head.count \in Nat
        BY <4>1 DEF Pointers
      <4>3. my[u].head.count <= mHead'.count /\ my[u].head.count # mHead'.count
        BY <1>1, <1>2, <4>1, <4>2
      <4> QED BY <4>1, <4>3
    <3> QED BY <3>2, <3>3 DEF Reads
  <2> QED BY <2>1, <2>2
<1>6. PICK q \in Seq(Nodes), d \in [Producers -> Seq(Nodes)],
           order \in SUBSET (Producers \X Producers) :
               Lists(q, d) /\ Apart(q, d) /\ Later(d, order)
  BY <1>0 DEF Structure
<1>7. /\ Listed(Tail(q), n, next) /\ ToSet(Tail(q)) = ToSet(q) \ {h} /\ Tail(q) \in Seq(Nodes)
      /\ h \in ToSet(q) /\ n \in ToSet(q) /\ n # h
  <2>1. Listed(q, h, next) /\ h \in ToSet(q)
    BY <1>6, Places
  <2>2. Listed(Tail(q), next[h], next) /\ ToSet(Tail(q)) = ToSet(q) \ {h}
    BY <1>1, <2>1, ListTail
  <2>3. n \in ToSet(q) /\ n # h
    BY <1>1, <2>1, ListNext
  <2> QED BY <1>1, <2>1, <2>2, <2>3, ListFacts
<1>8. \A u \in Producers : pc'[u] = pc[u] /\ my'[u] = my[u]
  BY <1>3, ThreadFacts DEF Others
<1>9. Structure'
  <2>1. Lists(Tail(q), d)'
    <3>1. mTail.node \in ToSet(Tail(q))
      BY <1>1, <1>6, <1>7 DEF Lists
    <3> QED BY <1>0, <1>2, <1>6, <1>7, <1>8, <3>1 DEF Lists
  <2>2. Apart(Tail(q), d)'
    <3>1. Held(d, c)' = {h} /\ Held(d, c) = {} /\ \A u \in Threads \ {c} : Held(d, u)' = Held(d, u)
      BY <1>0, <1>3, ThreadFacts DEF Held, Others
    <3>2. \A m \in Nodes : m \in free \/ m \in ToSet(Tail(q)) \/ \E t \in Threads : m \in Held(d, t)'
      <4> SUFFICES ASSUME NEW m \in Nodes, m # h
                   PROVE  m \in free \/ m \in ToSet(Tail(q)) \/ \E t \in Threads : m \in Held(d, t)'
        BY <1>0, <3>1
      <4>1. CASE \E t \in Threads : m \in Held(d, t)
        BY <3>1, <4>1
      <4> QED BY <1>6, <1>7, <4>1 DEF Apart
    <3>3. \A m \in free : m \notin ToSet(Tail(q)) /\ \A t \in Threads : m \notin Held(d, t)'
      <4>1. \A m \in free : m \notin ToSet(q) /\ \A t \in Threads : m \notin Held(d, t)
        BY <1>6 DEF Apart
      <4> QED BY <1>7, <3>1, <4>1
    <3>4. \A m \in ToSet(Tail(q)) : \A t \in Threads : m \notin Held(d, t)'
      <4>1. \A m \in ToSet(q) : \A t \in Threads : m \notin Held(d, t)
        BY <1>6 DEF Apart
      <4> QED BY <1>7, <3>1, <4>1
    <3>5. \A t, u \in Threads : \A m \in Held(d, t)' : m \in Held(d, u)' => t = u
      <4>1. \A t \in Threads : h \notin Held(d, t)
        BY <1>6, <1>7 DEF Apart
      <4>2. \A t, u \in Threads : \A m \in Held(d, t) : m \in Held(d, u) => t = u
        BY <1>6 DEF Apart
      <4> QED BY <3>1, <4>1, <4>2
    <3> QED BY <1>0, <3>2, <3>3, <3>4, <3>5 DEF Apart
  <2>3. Later(d, order)'
    BY <1>6, <1>8 DEF Later
  <2> QED BY <1>6, <1>7, <2>1, <2>2, <2>3 DEF Structure
<1>10. n \in Full /\ Full' = Full \ {n}
  <2> DEFINE N == {my[u].node : u \in {u \in Producers : pc[u] \in Unlinked}}
             H == {my[u].head.node : u \in {u \in Consumers : pc[u] = "Release"}}
  <2>1. N' = N
    BY <1>8
  <2>2. H' = H \cup {h}
    <3>1. \A u \in Consumers \ {c} : pc'[u] = pc[u] /\ my'[u] = my[u]
      BY <1>3, ThreadFacts DEF Others
    <3>2. pc'[c] = "Release" /\ pc[c] # "Release" /\ my'[c].head.node = h
      BY <1>0, <1>3
    <3>3. {u \in Consumers : pc'[u] = "Release"} = {u \in Consumers : pc[u] = "Release"} \cup {c}
      BY <3>1, <3>2
    <3> QED BY <1>3, <3>2, <3>3
  <2>3. n \notin free /\ n # h /\ n \notin N /\ n \notin H
    <3>1. n \notin free /\ \A t \in Threads : n \notin Held(d, t)
      BY <1>6, <1>7 DEF Apart
    <3>2. n \notin H
      BY <1>6, <3>1, Places, ThreadFacts
    <3>3. n \notin N
      <4> SUFFICES ASSUME NEW u \in Producers, pc[u] \in Unlinked PROVE my[u].node # n
        OBVIOUS
      <4>1. my[u].node \in ToSet(d[u]) /\ \A m \in ToSet(d[u]) : m \in Held(d, u)
        BY <1>6, Places
      <4> QED BY <3>1, <4>1, ThreadFacts
    <3> QED BY <1>7, <3>1, <3>2, <3>3
  <2>4. Full = Nodes \ (free \cup {mHead.node} \cup N \cup H)
    BY DEF Full
  <2>5. Full' = Nodes \ (free' \cup {mHead'.node} \cup N' \cup H')
    BY DEF Full
  <2>6. free' = free /\ mHead'.node = n /\ n \in Nodes
    BY <1>0, <1>1, <1>2
  <2> HIDE DEF N, H
  <2> QED BY <2>1, <2>2, <2>3, <2>4, <2>5, <2>6
<1> QED BY <1>1, <1>4, <1>5, <1>9, <1>10 DEF IInv

\* the old dummy goes back to the pool
LEMMA ReleaseKeeps ==
  ASSUME IInv, NEW c \in Consumers, Release(c)
  PROVE  IInv' /\ Full' = Full
<1> DEFINE h == my[c].head.node
<1>0. /\ Types /\ Structure /\ \A u \in Threads : Reads(u)
      /\ c \in Threads /\ pc[c] = "Release" /\ h \in Nodes /\ next[h] # Null
      /\ UNCHANGED <<mHead, mTail, next, data, mSize, count, linked, taken>>
      /\ free' = free \cup {h} /\ Goto(c, "Idle") /\ my' = [my EXCEPT ![c] = Blank]
      /\ Blank \in Locals
  BY ThreadFacts, LocalFacts DEF IInv, Release, Return, Reads, Ready
<1>1. /\ pc'[c] = "Idle" /\ my'[c] = Blank /\ Others(c)
      /\ pc' \in [Threads -> Enqueuing \cup Dequeuing] /\ my' \in [Threads -> Locals]
      /\ \A u \in Producers : pc'[u] \in Enqueuing
      /\ \A u \in Consumers : pc'[u] \in Dequeuing
  BY <1>0, Stepped, ThreadFacts DEF Dequeuing
<1>2. Types'
  BY <1>0, <1>1 DEF Types
<1>3. ASSUME NEW u \in Threads PROVE Reads(u)'
  <2>1. CASE u = c
    BY <1>0, <1>1, <2>1, ThreadFacts
       DEF Reads, Ready, TailRead, SwingRead, HeadRead, WithTail, WithHead
  <2>2. CASE u # c
    <3>1. pc'[u] = pc[u] /\ my'[u] = my[u] /\ Reads(u)
      BY <1>0, <1>1, <2>2 DEF Others
    <3>2. TailRead(u)'
      BY <1>0, <3>1 DEF Reads, TailRead
    <3>3. Ready(u)' /\ SwingRead(u)' /\ HeadRead(u)'
      BY <1>0, <3>1 DEF Reads, Ready, SwingRead, HeadRead
    <3> QED BY <3>2, <3>3 DEF Reads
  <2> QED BY <2>1, <2>2
<1>4. PICK q \in Seq(Nodes), d \in [Producers -> Seq(Nodes)],
           order \in SUBSET (Producers \X Producers) :
               Lists(q, d) /\ Apart(q, d) /\ Later(d, order)
  BY <1>0 DEF Structure
<1>5. \A u \in Producers : pc'[u] = pc[u] /\ my'[u] = my[u]
  BY <1>1, ThreadFacts DEF Others
<1>6. Structure'
  <2>1. Lists(q, d)'
    BY <1>0, <1>4, <1>5 DEF Lists
  <2>2. Apart(q, d)'
    <3>1. Held(d, c)' = {} /\ Held(d, c) = {h} /\ \A u \in Threads \ {c} : Held(d, u)' = Held(d, u)
      BY <1>0, <1>1, ThreadFacts DEF Held, Others
    <3>2. \A m \in Nodes : m \in free' \/ m \in ToSet(q) \/ \E t \in Threads : m \in Held(d, t)'
      <4> SUFFICES ASSUME NEW m \in Nodes, m # h
                   PROVE  m \in free \/ m \in ToSet(q) \/ \E t \in Threads : m \in Held(d, t)'
        BY <1>0
      <4>1. CASE \E t \in Threads : m \in Held(d, t)
        BY <3>1, <4>1
      <4> QED BY <1>4, <4>1 DEF Apart
    <3>3. \A m \in free' : m \notin ToSet(q) /\ \A t \in Threads : m \notin Held(d, t)'
      <4>1. \A m \in free : m \notin ToSet(q) /\ \A t \in Threads : m \notin Held(d, t)
        BY <1>4 DEF Apart
      <4>2. h \notin ToSet(q) /\ \A t \in Threads \ {c} : h \notin Held(d, t)
        BY <1>0, <1>4, <3>1 DEF Apart
      <4> QED BY <1>0, <3>1, <4>1, <4>2
    <3>4. \A m \in ToSet(q) : \A t \in Threads : m \notin Held(d, t)'
      <4>1. \A m \in ToSet(q) : \A t \in Threads : m \notin Held(d, t)
        BY <1>4 DEF Apart
      <4> QED BY <3>1, <4>1
    <3>5. \A t, u \in Threads : \A m \in Held(d, t)' : m \in Held(d, u)' => t = u
      <4>1. \A t, u \in Threads : \A m \in Held(d, t) : m \in Held(d, u) => t = u
        BY <1>4 DEF Apart
      <4> QED BY <3>1, <4>1
    <3> QED BY <1>0, <3>2, <3>3, <3>4, <3>5 DEF Apart
  <2>3. Later(d, order)'
    BY <1>4, <1>5 DEF Later
  <2> QED BY <1>4, <2>1, <2>2, <2>3 DEF Structure
<1>7. Full' = Full
  <2> DEFINE N == {my[u].node : u \in {u \in Producers : pc[u] \in Unlinked}}
             H == {my[u].head.node : u \in {u \in Consumers : pc[u] = "Release"}}
  <2>1. N' = N
    BY <1>5
  <2>2. H = H' \cup {h}
    <3>1. \A u \in Consumers \ {c} : pc'[u] = pc[u] /\ my'[u] = my[u]
      BY <1>1, ThreadFacts DEF Others
    <3>2. pc'[c] # "Release" /\ pc[c] = "Release"
      BY <1>0, <1>1
    <3>3. \A u \in Consumers : pc'[u] = "Release" => my'[u] = my[u] /\ pc[u] = "Release"
      BY <3>1, <3>2
    <3>4. H \subseteq H' \cup {h}
      BY <3>1, <3>2
    <3>5. H' \cup {h} \subseteq H
      BY <1>0, <3>3
    <3> QED BY <3>4, <3>5
  <2>3. free' = free \cup {h} /\ mHead' = mHead
    BY <1>0
  <2>4. Full = Nodes \ (free \cup {mHead.node} \cup N \cup H)
    BY DEF Full
  <2>5. Full' = Nodes \ (free' \cup {mHead'.node} \cup N' \cup H')
    BY DEF Full
  <2> HIDE DEF N, H
  <2> QED BY <2>1, <2>2, <2>3, <2>4, <2>5
<1> QED BY <1>2, <1>3, <1>6, <1>7 DEF IInv

--------------------------------------------------------------------------------
(* The invariant.                                                          *)

LEMMA InitHolds ==
  ASSUME Init
  PROVE  IInv /\ Full = {} /\ (\A t \in Threads : pc[t] = "Idle") /\ mSize = 0
         /\ linked = <<>> /\ taken = <<>> /\ \A p \in Producers : count[p] = 0
<1>1. PICK dummy \in Nodes :
        /\ mHead = Pointer(dummy, 0) /\ mTail = mHead
        /\ next = [n \in Nodes |-> Null]
        /\ data = [n \in Nodes |-> NoItem]
        /\ free = Nodes \ {dummy}
        /\ mSize = 0
        /\ pc = [t \in Threads |-> "Idle"]
        /\ my = [t \in Threads |-> Blank]
        /\ count = [p \in Producers |-> 0]
        /\ linked = <<>> /\ taken = <<>>
  BY DEF Init
<1>2. mHead \in Pointers /\ mHead.node = dummy
  BY <1>1 DEF Pointer, Pointers
<1>3. /\ \A t \in Threads : pc[t] = "Idle" /\ my[t] = Blank
      /\ \A p \in Producers : pc[p] = "Idle"
      /\ \A c \in Consumers : pc[c] = "Idle"
  BY <1>1, ThreadFacts
<1>4. Blank \in Locals
  BY DEF Blank, Locals
<1>5. Types
  <2>1. linked \in Seq(Items \cup {NoItem}) /\ taken \in Seq(Items \cup {NoItem})
    BY <1>1, EmptySeq
  <2>2. /\ next \in [Nodes -> Nodes \cup {Null}] /\ data \in [Nodes -> Items \cup {NoItem}]
        /\ free \in SUBSET Nodes /\ mSize \in Int /\ count \in [Producers -> Nat]
    BY <1>1
  <2>3. /\ pc \in [Threads -> Enqueuing \cup Dequeuing] /\ my \in [Threads -> Locals]
        /\ \A p \in Producers : pc[p] \in Enqueuing
        /\ \A c \in Consumers : pc[c] \in Dequeuing
    BY <1>1, <1>3, <1>4 DEF Enqueuing, Dequeuing
  <2> QED BY <1>1, <1>2, <2>1, <2>2, <2>3 DEF Types
<1>6. \A t \in Threads : Reads(t)
  BY <1>3, ThreadFacts DEF Reads, Ready, TailRead, SwingRead, HeadRead, WithTail, WithHead
<1>7. Structure
  <2> DEFINE q == <<dummy>>
             d == [p \in Producers |-> <<>>]
  <2>1. Listed(q, dummy, next) /\ ToSet(q) = {dummy} /\ q \in Seq(Nodes)
    BY <1>1, ListOne
  <2>2. d \in [Producers -> Seq(Nodes)] /\ \A p \in Producers : d[p] = <<>> /\ ToSet(d[p]) = {}
    BY EmptySeq DEF ToSet
  <2> HIDE DEF q, d
  <2>3. Lists(q, d)
    BY <1>1, <1>2, <1>3, <2>1, <2>2, ThreadFacts DEF Lists
  <2>4. Apart(q, d)
    <3>1. \A t \in Threads : Held(d, t) = {}
      BY <1>3, <2>2 DEF Held
    <3> QED BY <1>1, <2>1, <3>1 DEF Apart
  <2>5. Later(d, {})
    BY <1>3, <2>2 DEF Later
  <2>6. {} \in SUBSET (Producers \X Producers)
    OBVIOUS
  <2> QED BY <2>1, <2>2, <2>3, <2>4, <2>5, <2>6 DEF Structure
<1>8. Full = {}
  BY <1>1, <1>2 DEF Full
<1> QED BY <1>1, <1>3, <1>5, <1>6, <1>7, <1>8 DEF IInv

LEMMA StepKeeps ==
  ASSUME IInv, [Next]_vars
  PROVE  IInv'
<1>1. CASE UNCHANGED vars
  <2>0. UNCHANGED <<mHead, mTail, next, data, free, mSize, pc, my, count, linked, taken>>
    BY <1>1 DEF vars, listVars
  <2>1. Types'
    BY <2>0 DEF IInv, Types
  <2>2. ASSUME NEW t \in Threads PROVE Reads(t)'
    BY <2>0 DEF IInv, Reads, Ready, TailRead, SwingRead, HeadRead
  <2>3. PICK q \in Seq(Nodes), d \in [Producers -> Seq(Nodes)],
             order \in SUBSET (Producers \X Producers) :
                 Lists(q, d) /\ Apart(q, d) /\ Later(d, order)
    BY DEF IInv, Structure
  <2>4. Lists(q, d)' /\ Later(d, order)'
    BY <2>0, <2>3 DEF Lists, Later
  <2>5. Apart(q, d)'
    <3>1. \A t \in Threads : Held(d, t)' = Held(d, t)
      BY <2>0 DEF Held
    <3> QED BY <2>0, <2>3, <3>1 DEF Apart
  <2> QED BY <2>1, <2>2, <2>3, <2>4, <2>5 DEF IInv, Structure
<1>2. ASSUME NEW p \in Producers, TryEnqueue(p) PROVE IInv'
  <2>1. CASE GetNode(p) BY <2>1, GetNodeKeeps
  <2>2. CASE ReadTail(p) BY <2>2, ReadTailKeeps
  <2>3. CASE ReadTailNext(p) BY <2>3, ReadTailNextKeeps
  <2>4. CASE Link(p) BY <2>4, LinkKeeps, LinkFailsKeeps
  <2>5. CASE Swing(p) BY <2>5, SwingKeeps
  <2>6. CASE Help(p) BY <2>6, HelpKeeps
  <2>7. CASE Count(p) BY <2>7, CountKeeps
  <2> QED BY <1>2, <2>1, <2>2, <2>3, <2>4, <2>5, <2>6, <2>7 DEF TryEnqueue
<1>3. ASSUME NEW c \in Consumers, TryDequeue(c) PROVE IInv'
  <2>1. CASE Lower(c) BY <2>1, LowerKeeps
  <2>2. CASE Restore(c) BY <2>2, RestoreKeeps
  <2>3. CASE ReadHead(c) BY <2>3, ReadHeadKeeps
  <2>4. CASE ReadTailToo(c) BY <2>4, ReadTailTooKeeps
  <2>5. CASE ReadHeadNext(c) BY <2>5, ReadHeadNextKeeps
  <2>6. CASE HelpTail(c) BY <2>6, HelpTailKeeps
  <2>7. CASE ReadData(c) BY <2>7, ReadDataKeeps
  <2>8. CASE Unlink(c) BY <2>8, UnlinkKeeps, UnlinkFailsKeeps
  <2>9. CASE Release(c) BY <2>9, ReleaseKeeps
  <2> QED BY <1>3, <2>1, <2>2, <2>3, <2>4, <2>5, <2>6, <2>7, <2>8, <2>9 DEF TryDequeue
<1> QED BY <1>1, <1>2, <1>3 DEF Next

\* The lists of the queue and of the nodes not linked yet are ends of Next, hold no
\* node twice and have none in common; what a thread has read is what is there if the
\* pointer it read is still the same.
THEOREM Invariant == Spec => []IInv
<1>1. Init => IInv
  BY InitHolds
<1>2. IInv /\ [Next]_vars => IInv'
  BY StepKeeps
<1> QED BY <1>1, <1>2, PTL DEF Spec

--------------------------------------------------------------------------------
(* Every node is in one place.                                             *)

\* a list has no node twice
LEMMA ListRest ==
  ASSUME NEW s, NEW n, NEW succ, Listed(s, n, succ)
  PROVE  ToSet(Tail(s)) = ToSet(s) \ {n} /\ IsInjective(s)
<1>1. /\ s \in Seq(Nodes) /\ s # <<>> /\ s[1] = n /\ Len(s) \in Nat /\ Len(s) >= 1
      /\ DOMAIN s = 1 .. Len(s) /\ ToSet(s) = {s[i] : i \in 1 .. Len(s)}
      /\ \A i, j \in 1 .. Len(s) : s[i] = s[j] => i = j
      /\ \A i \in 1 .. Len(s) : s[i] \in Nodes
      /\ \A i \in 1 .. Len(s) : succ[s[i]] = IF i = Len(s) THEN Null ELSE s[i + 1]
  BY ListFacts
<1>2. IsInjective(s)
  BY <1>1 DEF IsInjective
<1>3. ToSet(Tail(s)) = ToSet(s) \ {n}
  <2>1. CASE succ[n] # Null
    BY <2>1, ListTail
  <2>2. CASE succ[n] = Null
    <3>1. Len(s) = 1
      <4> SUFFICES ASSUME Len(s) # 1 PROVE FALSE
        OBVIOUS
      <4>1. 1 \in 1 .. Len(s) /\ 1 + 1 \in 1 .. Len(s)
        <5>1. Len(s) \in Nat /\ Len(s) >= 1 /\ Len(s) # 1
          BY <1>1
        <5>2. \A l \in Nat : l >= 1 /\ l # 1 => 1 \in 1 .. l /\ 1 + 1 \in 1 .. l
          OBVIOUS
        <5> QED BY <5>1, <5>2
      <4>2. succ[s[1]] = s[1 + 1] /\ s[1 + 1] \in Nodes
        BY <1>1, <4>1
      <4> QED BY <1>1, <2>2, <4>2, QueueAssumption
    <3>2. ToSet(s) = {n}
      BY <1>1, <3>1
    <3>3. Tail(s) \in Seq(Nodes) /\ Len(Tail(s)) = 0
      BY <1>1, <3>1, HeadTailProperties
    <3>4. Tail(s) = <<>>
      BY <3>3, EmptySeq
    <3>5. ToSet(Tail(s)) = {}
      BY <3>4 DEF ToSet
    <3> QED BY <3>2, <3>5
  <2> QED BY <2>1, <2>2
<1> QED BY <1>2, <1>3

\* the chains are the lists
LEMMA Chains ==
  ASSUME Types, NEW q, NEW d, Lists(q, d), Apart(q, d)
  PROVE  /\ Chain(mHead.node, next) = q /\ InQueue = ToSet(q)
         /\ \A p \in Producers : pc[p] \in Unlinked => Chain(my[p].node, next) = d[p]
         /\ \A t \in Threads : pc[t] \in Unlinked => t \in Producers
         /\ \A t \in Threads : Hands(t) = Held(d, t)
         /\ Full = Waiting
<1>1. Chain(mHead.node, next) = q
  BY ChainOf DEF Lists
<1>2. ASSUME NEW p \in Producers, pc[p] \in Unlinked PROVE Chain(my[p].node, next) = d[p]
  BY <1>2, ChainOf DEF Lists
<1>3. ASSUME NEW t \in Threads, pc[t] \in Unlinked PROVE t \in Producers
  BY <1>3, ThreadFacts DEF Types, Dequeuing, Unlinked
<1>4. ASSUME NEW t \in Threads PROVE Hands(t) = Held(d, t)
  <2>1. CASE pc[t] \in Unlinked
    BY <1>2, <1>3, <2>1 DEF Hands, Held
  <2>2. CASE pc[t] = "Release"
    <3>1. t \notin Producers
      BY <2>2 DEF Types, Enqueuing
    <3> QED BY <2>2, <3>1, ThreadFacts DEF Hands, Held
  <2>3. CASE pc[t] \notin Unlinked /\ pc[t] # "Release"
    <3>1. t \in Producers => ToSet(d[t]) = {}
      BY <2>3, Places
    <3> QED BY <2>3, <3>1 DEF Hands, Held
  <2> QED BY <2>1, <2>2, <2>3
<1>5. InQueue = ToSet(q)
  BY <1>1 DEF InQueue
<1>6. Full = Waiting
  <2>0. /\ Listed(q, mHead.node, next) /\ ToSet(q) \subseteq Nodes /\ mHead.node \in ToSet(q)
        /\ Queue = Tail(q) /\ ToSet(Queue) = ToSet(q) \ {mHead.node}
    BY <1>1, ListRest, ListFacts DEF Lists, Queue
  <2>1. ASSUME NEW n \in Waiting PROVE n \in Full
    <3>1. CASE n \in ToSet(Queue)
      <4>1. n \in Nodes /\ n \in ToSet(q) /\ n # mHead.node
        BY <2>0, <3>1
      <4>2. n \notin free /\ \A t \in Threads : n \notin Held(d, t)
        BY <4>1 DEF Apart
      <4>3. \A p \in Producers : pc[p] \in Unlinked => my[p].node # n
        BY <4>2, Places, ThreadFacts
      <4>4. \A c \in Consumers : pc[c] = "Release" => my[c].head.node # n
        BY <4>2, Places, ThreadFacts
      <4> QED BY <4>1, <4>2, <4>3, <4>4 DEF Full
    <3>2. ASSUME NEW p \in Producers, pc[p] \in Unlinked, n \in Hands(p), n # my[p].node
          PROVE  n \in Full
      <4>1. n \in Held(d, p) /\ n \in ToSet(d[p]) /\ p \in Threads
        BY <1>4, <3>2, ThreadFacts DEF Held
      <4>2. n \in Nodes /\ n \notin free /\ n # mHead.node
        BY <4>1, Places
      <4>3. \A t \in Threads : n \in Held(d, t) => t = p
        BY <4>1 DEF Apart
      <4>4. \A r \in Producers : pc[r] \in Unlinked => my[r].node # n
        BY <3>2, <4>3, Places, ThreadFacts
      <4>5. \A c \in Consumers : pc[c] = "Release" => my[c].head.node # n
        BY <4>3, Places, ThreadFacts
      <4> QED BY <4>2, <4>4, <4>5 DEF Full
    <3> QED BY <3>1, <3>2 DEF Waiting
  <2>2. ASSUME NEW n \in Full PROVE n \in Waiting
    <3>1. /\ n \in Nodes /\ n \notin free /\ n # mHead.node
          /\ \A p \in Producers : pc[p] \in Unlinked => my[p].node # n
          /\ \A c \in Consumers : pc[c] = "Release" => my[c].head.node # n
      BY DEF Full
    <3>2. CASE n \in ToSet(q)
      BY <2>0, <3>1, <3>2 DEF Waiting
    <3>3. CASE n \notin ToSet(q)
      <4>1. PICK t \in Threads : n \in Held(d, t)
        BY <3>1, <3>3 DEF Apart
      <4>2. t \in Producers
        BY <3>1, <4>1, ThreadFacts DEF Held
      <4>3. pc[t] \in Unlinked
        BY <4>1, <4>2, Places DEF Held
      <4>4. n \in Hands(t) \ {my[t].node}
        BY <1>4, <3>1, <4>1, <4>2, <4>3
      <4> QED BY <4>2, <4>3, <4>4 DEF Waiting
    <3> QED BY <3>2, <3>3
  <2> QED BY <2>1, <2>2
<1> QED BY <1>1, <1>2, <1>3, <1>4, <1>5, <1>6

\* A node is free, in the queue behind the head, in the hands of one thread with what
\* hangs off it, or the old dummy of one consumer: whatever the order in which the
\* threads' exchanges succeed, none is lost or used twice.
THEOREM NodesInOnePlace == Spec => []NodesAccounted
<1>1. ASSUME IInv PROVE NodesAccounted
  <2>1. PICK q \in Seq(Nodes), d \in [Producers -> Seq(Nodes)],
             order \in SUBSET (Producers \X Producers) :
                 Lists(q, d) /\ Apart(q, d) /\ Later(d, order)
    BY <1>1 DEF IInv, Structure
  <2>2. /\ Chain(mHead.node, next) = q /\ InQueue = ToSet(q)
        /\ \A p \in Producers : pc[p] \in Unlinked => Chain(my[p].node, next) = d[p]
        /\ \A t \in Threads : pc[t] \in Unlinked => t \in Producers
        /\ \A t \in Threads : Hands(t) = Held(d, t)
    BY <1>1, <2>1, Chains DEF IInv
  <2>3. IsInjective(q) /\ ToSet(q) \subseteq Nodes
    BY <2>1, ListRest, ListFacts DEF Lists
  <2>4. \A p \in Producers : pc[p] \in Unlinked => IsInjective(d[p])
    BY <2>1, ListRest DEF Lists
  <2>5. ASSUME NEW t \in Threads PROVE Held(d, t) \subseteq Nodes
    <3>1. CASE t \in Producers
      BY <2>1, <3>1, Places DEF Held
    <3>2. CASE t \notin Producers
      BY <1>1, <3>2 DEF IInv, Reads, Ready, Held
    <3> QED BY <3>1, <3>2
  <2>6. /\ free \cup ToSet(q) \cup UNION {Held(d, t) : t \in Threads} = Nodes
    BY <1>1, <2>1, <2>3, <2>5 DEF Apart, IInv, Types
  <2>7. /\ free \cap ToSet(q) = {}
        /\ \A t \in Threads : Held(d, t) \cap (free \cup ToSet(q)) = {}
        /\ \A t, u \in Threads : t # u => Held(d, t) \cap Held(d, u) = {}
    BY <2>1 DEF Apart
  <2>8. UNION {Hands(t) : t \in Threads} = UNION {Held(d, t) : t \in Threads}
    BY <2>2
  <2> QED BY <2>2, <2>3, <2>4, <2>6, <2>7, <2>8 DEF NodesAccounted
<1> QED BY <1>1, Invariant, PTL

--------------------------------------------------------------------------------
(* No item is lost or found twice.                                         *)

\* one more at the end of a sequence
LEMMA Appended ==
  ASSUME NEW S, NEW s \in Seq(S), NEW x \in S
  PROVE  /\ ToSet(Append(s, x)) = ToSet(s) \cup {x}
         /\ IsInjective(s) /\ x \notin ToSet(s) => IsInjective(Append(s, x))
<1> DEFINE t == Append(s, x)
<1>1. /\ Len(s) \in Nat /\ DOMAIN s = 1 .. Len(s)
      /\ t \in Seq(S) /\ Len(t) = Len(s) + 1 /\ DOMAIN t = 1 .. Len(s) + 1
      /\ \A i \in 1 .. Len(s) : t[i] = s[i]
      /\ t[Len(s) + 1] = x
  BY AppendProperties, LenProperties
<1>2. \A i \in DOMAIN t : i \in DOMAIN s \/ i = Len(s) + 1
  BY <1>1
<1>3. Len(s) + 1 \in DOMAIN t /\ \A i \in DOMAIN s : i \in DOMAIN t /\ t[i] = s[i]
  BY <1>1
<1> HIDE DEF t
<1>4. ToSet(t) = ToSet(s) \cup {x}
  BY <1>1, <1>2, <1>3 DEF ToSet
<1>5. ASSUME IsInjective(s), x \notin ToSet(s) PROVE IsInjective(t)
  <2>1. \A i \in DOMAIN s : s[i] # x
    BY <1>5 DEF ToSet
  <2> QED BY <1>1, <1>2, <1>3, <1>5, <2>1 DEF IsInjective
<1> QED BY <1>4, <1>5 DEF t

\* a step that neither links nor takes leaves the items alone
LEMMA ItemsKeptQuiet ==
  ASSUME ItemsKept, UNCHANGED <<data, count, linked, taken>>, Full' = Full,
         \A p \in Producers : pc'[p] \in Unlinked =>
            pc[p] \in Unlinked /\ my'[p].node = my[p].node
  PROVE  ItemsKept'
BY DEF ItemsKept

\* a step of another kind of thread, or one that leaves the node of its own alone
LEMMA Elsewhere ==
  ASSUME Types, NEW t \in Threads, NEW l, Goto(t, l),
         \A u \in Threads \ {t} : my'[u] = my[u],
         l \in Unlinked => pc[t] \in Unlinked /\ my'[t].node = my[t].node
  PROVE  \A p \in Producers : pc'[p] \in Unlinked =>
            pc[p] \in Unlinked /\ my'[p].node = my[p].node
<1>1. pc'[t] = l /\ \A u \in Threads \ {t} : pc'[u] = pc[u]
  BY DEF Goto, Types
<1> QED BY <1>1, ThreadFacts

LEMMA ProducerKeepsItems ==
  ASSUME IInv, ItemsKept, NEW p \in Producers, TryEnqueue(p)
  PROVE  ItemsKept'
<1>0. /\ Types /\ p \in Threads /\ my \in [Threads -> Locals]
      /\ \A n \in Full : n \in Nodes /\ n \notin free
      /\ \A q \in Producers : q \in Threads
  BY ThreadFacts DEF IInv, Types, Full
<1>1. CASE GetNode(p)
  <2>1. PICK n \in free : /\ free' = free \ {n}
                          /\ my' = [my EXCEPT ![p].node = n]
                          /\ data' = [data EXCEPT ![n] = <<p, count[p] + 1>>]
    BY <1>1 DEF GetNode
  <2>2. /\ pc[p] = "Idle" /\ Goto(p, "ReadTail") /\ count' = [count EXCEPT ![p] = @ + 1]
        /\ linked' = linked /\ taken' = taken /\ Full' = Full
    BY <1>1, GetNodeKeeps DEF GetNode
  <2>3. /\ my'[p].node = n /\ \A u \in Threads \ {p} : my'[u] = my[u]
        /\ data'[n] = <<p, count[p] + 1>> /\ \A m \in Nodes \ {n} : data'[m] = data[m]
        /\ pc'[p] = "ReadTail" /\ \A u \in Threads \ {p} : pc'[u] = pc[u]
        /\ count'[p] = count[p] + 1 /\ \A u \in Producers \ {p} : count'[u] = count[u]
        /\ count \in [Producers -> Nat]
    BY <1>0, <2>1, <2>2 DEF Types, Goto, Locals
  <2>4. \A m \in Full : data'[m] = data[m]
    BY <1>0, <2>1, <2>3
  <2>5. \A u \in Producers : pc[u] \in Unlinked => my[u].node \in Nodes /\ my[u].node # n
    <3>1. PICK q \in Seq(Nodes), d \in [Producers -> Seq(Nodes)],
               order \in SUBSET (Producers \X Producers) :
                   Lists(q, d) /\ Apart(q, d) /\ Later(d, order)
      BY DEF IInv, Structure
    <3>2. \A u \in Producers : pc[u] \in Unlinked => my[u].node \in Nodes /\ my[u].node \in ToSet(d[u])
      BY <3>1, Places
    <3>3. \A u \in Producers : \A m \in ToSet(d[u]) : m \notin free
      BY <3>1, Places
    <3> QED BY <2>1, <3>2, <3>3
  <2>6. ASSUME NEW u \in Producers, pc'[u] \in Unlinked
        PROVE  data'[my'[u].node] = <<u, count'[u]>>
    <3>1. CASE u = p
      BY <2>3, <3>1
    <3>2. CASE u # p
      <4>1. /\ pc'[u] = pc[u] /\ my'[u] = my[u] /\ count'[u] = count[u]
            /\ data'[my[u].node] = data[my[u].node]
        BY <1>0, <2>3, <2>5, <2>6, <3>2
      <4> QED BY <2>6, <4>1 DEF ItemsKept
    <3> QED BY <3>1, <3>2
  <2>7. ASSUME NEW u \in Producers, NEW k \in Nat, <<u, k>> \in ToSet(linked)
        PROVE  k <= count'[u] /\ (pc'[u] \in Unlinked => k < count'[u])
    <3>1. k <= count[u] /\ (pc[u] \in Unlinked => k < count[u]) /\ count[u] \in Nat
      BY <2>3, <2>7 DEF ItemsKept
    <3>2. CASE u = p
      BY <2>3, <3>1, <3>2
    <3>3. CASE u # p
      BY <1>0, <2>3, <3>1, <3>3
    <3> QED BY <3>2, <3>3
  <2>8. {data'[m] : m \in Full} = {data[m] : m \in Full}
    BY <2>4
  <2> QED BY <2>2, <2>4, <2>6, <2>7, <2>8 DEF ItemsKept
<1>2. CASE Link(p) /\ next[my[p].tail.node] = Null
  <2> DEFINE n == my[p].node
  <2>1. /\ Full' = Full \cup {n} /\ n \notin Full
        /\ UNCHANGED <<data, my, count, taken>> /\ linked' = Append(linked, data[n])
        /\ Goto(p, "Swing") /\ pc[p] = "Link" /\ pc[p] \in Unlinked
    BY <1>2, LinkKeeps DEF Link, Unlinked
  <2>2. /\ data[n] = <<p, count[p]>> /\ data[n] \notin ToSet(linked) /\ count[p] \in Nat
    <3>1. data[n] = <<p, count[p]>> /\ count[p] \in Nat
      BY <1>0, <2>1 DEF ItemsKept, Types
    <3>2. <<p, count[p]>> \in ToSet(linked) => count[p] < count[p]
      BY <2>1, <3>1 DEF ItemsKept
    <3> QED BY <3>1, <3>2
  <2>3. ToSet(linked') = ToSet(linked) \cup {data[n]}
    <3>1. linked \in Seq(Items \cup {NoItem}) /\ n \in Nodes
      BY <1>0, <2>1 DEF Types, IInv, Reads, Ready
    <3>2. data[n] \in Items \cup {NoItem}
      BY <1>0, <3>1 DEF Types
    <3> QED BY <2>1, <3>1, <3>2, Appended
  <2> HIDE DEF n
  <2>4. /\ \A m \in Full : data[m] \in ToSet(linked)
        /\ \A i \in ToSet(taken) : i \in ToSet(linked)
    BY DEF ItemsKept
  <2>5. \A m \in Full \cup {n} : \A k \in Full \cup {n} : data[m] = data[k] => m = k
    BY <2>2, <2>4 DEF ItemsKept
  <2>6. \A m \in Full \cup {n} : data[m] \notin ToSet(taken)
    BY <2>2, <2>4 DEF ItemsKept
  <2>7. {data[m] : m \in Full \cup {n}} \cup ToSet(taken) = ToSet(linked')
    <3>1. {data[m] : m \in Full \cup {n}} = {data[m] : m \in Full} \cup {data[n]}
      OBVIOUS
    <3> QED BY <2>3, <3>1 DEF ItemsKept
  <2>8. pc'[p] = "Swing" /\ \A u \in Threads \ {p} : pc'[u] = pc[u]
    BY <1>0, <2>1 DEF Types, Goto
  <2>9. \A u \in Producers : pc'[u] \in Unlinked => u # p /\ pc[u] \in Unlinked
    BY <1>0, <2>8 DEF Unlinked
  <2>10. \A u \in Producers : pc'[u] \in Unlinked => data[my[u].node] = <<u, count[u]>>
    BY <2>9 DEF ItemsKept
  <2>11. ASSUME NEW u \in Producers, NEW k \in Nat, <<u, k>> \in ToSet(linked')
         PROVE  k <= count[u] /\ (pc'[u] \in Unlinked => k < count[u])
    <3>1. CASE <<u, k>> \in ToSet(linked)
      BY <2>9, <3>1 DEF ItemsKept
    <3>2. CASE <<u, k>> = data[n]
      <4>1. u = p /\ k = count[p]
        BY <2>2, <3>2
      <4> QED BY <2>2, <2>9, <4>1
    <3> QED BY <2>3, <2>11, <3>1, <3>2
  <2>12. IsInjective(taken)
    BY DEF ItemsKept
  <2>13. my' = my /\ data' = data /\ count' = count /\ taken' = taken
    BY <2>1
  <2>14. /\ \A m, k \in Full' : data'[m] = data'[k] => m = k
         /\ \A m \in Full' : data'[m] \notin ToSet(taken')
    BY <2>1, <2>5, <2>6, <2>13
  <2>15. {data'[m] : m \in Full'} \cup ToSet(taken') = ToSet(linked')
    BY <2>1, <2>7, <2>13
  <2>16. /\ \A u \in Producers : pc'[u] \in Unlinked => data'[my'[u].node] = <<u, count'[u]>>
         /\ \A u \in Producers, k \in Nat : <<u, k>> \in ToSet(linked') =>
               k <= count'[u] /\ (pc'[u] \in Unlinked => k < count'[u])
    BY <2>10, <2>11, <2>13
  <2>17. IsInjective(taken')
    BY <2>12, <2>13
  <2> QED BY <2>14, <2>15, <2>16, <2>17 DEF ItemsKept
<1>3. ASSUME NEW l, Goto(p, l), NEW r, my' = [my EXCEPT ![p] = r],
             l \in Unlinked => pc[p] \in Unlinked /\ r.node = my[p].node,
             UNCHANGED <<data, count, linked, taken>>, Full' = Full
      PROVE  ItemsKept'
  <2>1. my'[p] = r /\ \A u \in Threads \ {p} : my'[u] = my[u]
    BY <1>0, <1>3
  <2> QED BY <1>0, <1>3, <2>1, Elsewhere, ItemsKeptQuiet
<1>4. CASE ReadTail(p)
  <2>1. /\ Goto(p, "ReadTailNext") /\ my' = [my EXCEPT ![p].tail = mTail] /\ pc[p] \in Unlinked
        /\ UNCHANGED <<data, count, linked, taken>> /\ Full' = Full
    BY <1>4, ReadTailKeeps DEF ReadTail, listVars, Unlinked
  <2> DEFINE r == [my[p] EXCEPT !.tail = mTail]
  <2>2. my' = [my EXCEPT ![p] = r] /\ r.node = my[p].node
    BY <1>0, <2>1 DEF Locals
  <2> HIDE DEF r
  <2> QED BY <1>3, <2>1, <2>2
<1>5. CASE ReadTailNext(p)
  <2> DEFINE n == next[my[p].tail.node]
             l == IF n = Null THEN "Link" ELSE "Help"
  <2>1. /\ Goto(p, l) /\ my' = [my EXCEPT ![p].succ = n] /\ pc[p] \in Unlinked
        /\ UNCHANGED <<data, count, linked, taken>> /\ Full' = Full
    BY <1>5, ReadTailNextKeeps DEF ReadTailNext, listVars, Unlinked
  <2> DEFINE r == [my[p] EXCEPT !.succ = n]
  <2>2. my' = [my EXCEPT ![p] = r] /\ r.node = my[p].node
    BY <1>0, <2>1 DEF Locals
  <2> HIDE DEF l, n, r
  <2> QED BY <1>3, <2>1, <2>2
<1>6. CASE Link(p) /\ next[my[p].tail.node] # Null
  <2>1. /\ Goto(p, "ReadTail") /\ my' = [my EXCEPT ![p] = my[p]] /\ pc[p] \in Unlinked
        /\ UNCHANGED <<data, count, linked, taken>> /\ Full' = Full
    BY <1>0, <1>6, LinkFailsKeeps DEF Link, Unlinked
  <2> QED BY <1>3, <2>1
<1>7. CASE Swing(p)
  <2>1. /\ Goto(p, "Count") /\ my' = [my EXCEPT ![p] = my[p]] /\ "Count" \notin Unlinked
        /\ UNCHANGED <<data, count, linked, taken>> /\ Full' = Full
    BY <1>0, <1>7, SwingKeeps DEF Swing, Unlinked
  <2> QED BY <1>3, <2>1
<1>8. CASE Help(p)
  <2>1. /\ Goto(p, "ReadTail") /\ my' = [my EXCEPT ![p] = my[p]] /\ pc[p] \in Unlinked
        /\ UNCHANGED <<data, count, linked, taken>> /\ Full' = Full
    BY <1>0, <1>8, HelpKeeps DEF Help, Unlinked
  <2> QED BY <1>3, <2>1
<1>9. CASE Count(p)
  <2>1. /\ Goto(p, "Idle") /\ my' = [my EXCEPT ![p] = Blank] /\ "Idle" \notin Unlinked
        /\ UNCHANGED <<data, count, linked, taken>> /\ Full' = Full
    BY <1>9, CountKeeps DEF Count, Return, Unlinked
  <2> QED BY <1>3, <2>1
<1> QED BY <1>1, <1>2, <1>4, <1>5, <1>6, <1>7, <1>8, <1>9 DEF TryEnqueue

LEMMA ConsumerKeepsItems ==
  ASSUME IInv, ItemsKept, NEW c \in Consumers, TryDequeue(c)
  PROVE  ItemsKept'
<1>0. /\ Types /\ c \in Threads /\ c \notin Producers /\ my \in [Threads -> Locals]
      /\ my = [my EXCEPT ![c] = my[c]]
  BY ThreadFacts, LocalFacts DEF IInv, Types
<1>1. ASSUME NEW l, Goto(c, l), NEW r, my' = [my EXCEPT ![c] = r]
      PROVE  \A p \in Producers : pc'[p] = pc[p] /\ my'[p] = my[p]
  BY <1>0, <1>1, ThreadFacts DEF Goto, Types
<1>2. ASSUME NEW l, Goto(c, l), NEW r, my' = [my EXCEPT ![c] = r],
             UNCHANGED <<data, count, linked, taken>>, Full' = Full
      PROVE  ItemsKept'
  <2>1. \A p \in Producers : pc'[p] = pc[p] /\ my'[p] = my[p]
    BY <1>1, <1>2
  <2> QED BY <1>2, <2>1, ItemsKeptQuiet
<1>3. CASE Unlink(c) /\ mHead = my[c].head
  <2> DEFINE n == my[c].succ
  <2>1. /\ n \in Full /\ Full' = Full \ {n} /\ my[c].out = data[n]
        /\ UNCHANGED <<data, my, count, linked>> /\ taken' = Append(taken, my[c].out)
        /\ Goto(c, "Release")
    BY <1>3, UnlinkKeeps DEF Unlink, MoveHead
  <2>2. taken \in Seq(Items \cup {NoItem}) /\ data[n] \in Items \cup {NoItem}
    BY <1>0, <2>1 DEF Types, Full
  <2> HIDE DEF n
  <2>3. IsInjective(taken) /\ data[n] \notin ToSet(taken)
    BY <2>1 DEF ItemsKept
  <2>4. ToSet(taken') = ToSet(taken) \cup {data[n]} /\ IsInjective(taken')
    BY <2>1, <2>2, <2>3, Appended
  <2>5. \A m, k \in Full : data[m] = data[k] => m = k
    BY DEF ItemsKept
  <2>6. /\ \A m, k \in Full' : data'[m] = data'[k] => m = k
        /\ \A m \in Full' : data'[m] \notin ToSet(taken')
    <3>1. \A m \in Full' : m \in Full /\ m # n
      BY <2>1
    <3>2. \A m \in Full : data[m] \notin ToSet(taken)
      BY DEF ItemsKept
    <3> QED BY <2>1, <2>4, <2>5, <3>1, <3>2
  <2>7. {data'[m] : m \in Full'} \cup ToSet(taken') = ToSet(linked')
    <3>1. {data[m] : m \in Full} = {data[m] : m \in Full \ {n}} \cup {data[n]}
      BY <2>1
    <3>2. {data[m] : m \in Full} \cup ToSet(taken) = ToSet(linked)
      BY DEF ItemsKept
    <3> QED BY <2>1, <2>4, <3>1, <3>2
  <2>8. /\ \A u \in Producers : pc'[u] \in Unlinked => data'[my'[u].node] = <<u, count'[u]>>
        /\ \A u \in Producers, k \in Nat : <<u, k>> \in ToSet(linked') =>
              k <= count'[u] /\ (pc'[u] \in Unlinked => k < count'[u])
    <3>1. \A u \in Producers : pc'[u] = pc[u] /\ my'[u] = my[u]
      BY <1>0, <1>1, <2>1
    <3> QED BY <2>1, <3>1 DEF ItemsKept
  <2> QED BY <2>4, <2>6, <2>7, <2>8 DEF ItemsKept
<1>4. CASE Lower(c)
  BY <1>0, <1>2, <1>4, LowerKeeps DEF Lower
<1>5. CASE Restore(c)
  BY <1>2, <1>5, RestoreKeeps DEF Restore, Return
<1>6. CASE ReadHead(c)
  <2>1. my' = [my EXCEPT ![c] = [my[c] EXCEPT !.head = mHead]]
    BY <1>0, <1>6 DEF ReadHead
  <2> QED BY <1>2, <1>6, <2>1, ReadHeadKeeps DEF ReadHead, listVars
<1>7. CASE ReadTailToo(c)
  <2>1. my' = [my EXCEPT ![c] = [my[c] EXCEPT !.tail = mTail]]
    BY <1>0, <1>7 DEF ReadTailToo
  <2> QED BY <1>2, <1>7, <2>1, ReadTailTooKeeps DEF ReadTailToo, listVars
<1>8. CASE ReadHeadNext(c)
  <2> DEFINE n == next[my[c].head.node]
             l == IF n = Null THEN "ReadHead"
                  ELSE IF my[c].head.node = my[c].tail.node THEN "HelpTail" ELSE "ReadData"
  <2>1. /\ Goto(c, l) /\ my' = [my EXCEPT ![c] = [my[c] EXCEPT !.succ = n]]
        /\ UNCHANGED <<data, count, linked, taken>> /\ Full' = Full
    BY <1>0, <1>8, ReadHeadNextKeeps DEF ReadHeadNext, listVars
  <2> HIDE DEF l, n
  <2> QED BY <1>2, <2>1
<1>9. CASE HelpTail(c)
  BY <1>0, <1>2, <1>9, HelpTailKeeps DEF HelpTail
<1>10. CASE ReadData(c)
  <2>1. my' = [my EXCEPT ![c] = [my[c] EXCEPT !.out = data[my[c].succ]]]
    BY <1>0, <1>10 DEF ReadData
  <2> QED BY <1>2, <1>10, <2>1, ReadDataKeeps DEF ReadData, listVars
<1>11. CASE Unlink(c) /\ mHead # my[c].head
  BY <1>0, <1>2, <1>11, UnlinkFailsKeeps DEF Unlink
<1>12. CASE Release(c)
  BY <1>2, <1>12, ReleaseKeeps DEF Release, Return
<1> QED BY <1>3, <1>4, <1>5, <1>6, <1>7, <1>8, <1>9, <1>10, <1>11, <1>12 DEF TryDequeue

\* What was linked and not taken is in a node that is reachable, once.
LEMMA ItemsStep ==
  ASSUME IInv, ItemsKept, [Next]_vars
  PROVE  ItemsKept'
<1>1. CASE UNCHANGED vars
  <2>1. Full' = Full /\ UNCHANGED <<data, count, linked, taken, pc, my>>
    BY <1>1 DEF vars, listVars, Full
  <2> QED BY <2>1, ItemsKeptQuiet
<1>2. CASE Next
  BY <1>2, ProducerKeepsItems, ConsumerKeepsItems DEF Next
<1> QED BY <1>1, <1>2

--------------------------------------------------------------------------------
(* mSize.                                                                  *)

\* the sets whose numbers make up mSize are finite
LEMMA FiniteGroups ==
  ASSUME Types
  PROVE  /\ IsFiniteSet(Full) /\ IsFiniteSet(Counting) /\ IsFiniteSet(Lowered)
         /\ Cardinality(Full) \in Int /\ Cardinality(Counting) \in Int /\ Cardinality(Lowered) \in Int
<1>1. Full \subseteq Nodes /\ Counting \subseteq Threads /\ Lowered \subseteq Threads
  BY ThreadFacts DEF Full, Counting, Lowered
<1>2. IsFiniteSet(Full) /\ IsFiniteSet(Counting) /\ IsFiniteSet(Lowered)
  BY <1>1, QueueAssumption, FS_Subset
<1>3. /\ Cardinality(Full) \in Nat /\ Cardinality(Counting) \in Nat /\ Cardinality(Lowered) \in Nat
  BY <1>2, FS_CardinalityType
<1> QED BY <1>2, <1>3

LEMMA OneMore ==
  ASSUME NEW S, IsFiniteSet(S), NEW x, x \notin S, NEW T, T = S \cup {x}
  PROVE  Cardinality(T) = Cardinality(S) + 1
BY FS_AddElement

LEMMA OneLess ==
  ASSUME NEW S, IsFiniteSet(S), NEW x \in S, NEW T, T = S \ {x}
  PROVE  Cardinality(T) = Cardinality(S) - 1
BY FS_RemoveElement

\* who counts and who has lowered mSize changes with the thread that moves
LEMMA Groups ==
  ASSUME Types, NEW t \in Threads, NEW l, Goto(t, l)
  PROVE  /\ Counting' = IF t \in Producers /\ l \in {"Swing", "Count"}
                        THEN Counting \cup {t} ELSE Counting \ {t}
         /\ Lowered' = IF t \in Consumers /\ l \notin {"Idle", "Release"}
                       THEN Lowered \cup {t} ELSE Lowered \ {t}
<1>1. pc'[t] = l /\ \A u \in Threads \ {t} : pc'[u] = pc[u]
  BY DEF Goto, Types
<1>2. \A u : u \in Counting' <=> IF u = t THEN t \in Producers /\ l \in {"Swing", "Count"}
                                 ELSE u \in Counting
  BY <1>1, ThreadFacts DEF Counting
<1>3. \A u : u \in Lowered' <=> IF u = t THEN t \in Consumers /\ l \notin {"Idle", "Release"}
                                ELSE u \in Lowered
  BY <1>1, ThreadFacts DEF Lowered
<1>4. CASE t \in Producers /\ l \in {"Swing", "Count"}
  BY <1>2, <1>3, <1>4, ThreadFacts
<1>5. CASE t \in Consumers /\ l \notin {"Idle", "Release"}
  BY <1>2, <1>3, <1>5, ThreadFacts
<1>6. CASE ~(t \in Producers /\ l \in {"Swing", "Count"})
           /\ ~(t \in Consumers /\ l \notin {"Idle", "Release"})
  BY <1>2, <1>3, <1>6
<1> QED BY <1>4, <1>5, <1>6

LEMMA ProducerKeepsSize ==
  ASSUME IInv, Sized, NEW p \in Producers, TryEnqueue(p)
  PROVE  Sized'
<1> DEFINE A == Cardinality(Full)
           B == Cardinality(Counting)
           C == Cardinality(Lowered)
<1>0. /\ Types /\ p \in Threads /\ p \notin Consumers /\ p \notin Lowered
      /\ A \in Int /\ B \in Int /\ C \in Int /\ mSize = A - B - C
      /\ IsFiniteSet(Full) /\ IsFiniteSet(Counting) /\ IsFiniteSet(Lowered)
      /\ p \in Counting <=> pc[p] \in {"Swing", "Count"}
  BY FiniteGroups, ThreadFacts DEF IInv, Sized, Lowered, Counting
<1>1. ASSUME NEW l, Goto(p, l), l \in {"Swing", "Count"} <=> pc[p] \in {"Swing", "Count"},
             mSize' = mSize, Full' = Full
      PROVE  Sized'
  <2>1. Counting' = Counting /\ Lowered' = Lowered
    BY <1>0, <1>1, Groups
  <2> QED BY <1>1, <2>1 DEF Sized
<1>2. CASE GetNode(p)
  BY <1>1, <1>2, GetNodeKeeps DEF GetNode
<1>3. CASE ReadTail(p)
  BY <1>1, <1>3, ReadTailKeeps DEF ReadTail, listVars
<1>4. CASE ReadTailNext(p)
  <2> DEFINE l == IF next[my[p].tail.node] = Null THEN "Link" ELSE "Help"
  <2>1. Goto(p, l) /\ mSize' = mSize /\ Full' = Full /\ pc[p] = "ReadTailNext"
    BY <1>4, ReadTailNextKeeps DEF ReadTailNext, listVars
  <2>2. l \notin {"Swing", "Count"}
    OBVIOUS
  <2> HIDE DEF l
  <2> QED BY <1>1, <2>1, <2>2
<1>5. CASE Link(p) /\ next[my[p].tail.node] = Null
  <2>1. /\ Goto(p, "Swing") /\ mSize' = mSize /\ pc[p] = "Link"
        /\ Full' = Full \cup {my[p].node} /\ my[p].node \notin Full
    BY <1>5, LinkKeeps DEF Link
  <2>2. Counting' = Counting \cup {p} /\ Lowered' = Lowered /\ p \notin Counting
    BY <1>0, <2>1, Groups
  <2>3. Cardinality(Full') = A + 1
    BY <1>0, <2>1, OneMore
  <2>4. Cardinality(Counting') = B + 1
    BY <1>0, <2>2, OneMore
  <2>5. Cardinality(Lowered') = C
    BY <2>2
  <2> HIDE DEF A, B, C
  <2>6. mSize' = Cardinality(Full') - Cardinality(Counting') - Cardinality(Lowered')
    BY <1>0, <2>1, <2>3, <2>4, <2>5
  <2> QED BY <2>6 DEF Sized
<1>6. CASE Link(p) /\ next[my[p].tail.node] # Null
  BY <1>1, <1>6, LinkFailsKeeps DEF Link
<1>7. CASE Swing(p)
  BY <1>1, <1>7, SwingKeeps DEF Swing
<1>8. CASE Help(p)
  BY <1>1, <1>8, HelpKeeps DEF Help
<1>9. CASE Count(p)
  <2>1. /\ Goto(p, "Idle") /\ mSize' = mSize + 1 /\ pc[p] = "Count" /\ Full' = Full
    BY <1>9, CountKeeps DEF Count, Return
  <2>2. Counting' = Counting \ {p} /\ Lowered' = Lowered /\ p \in Counting
    <3>1. Counting' = Counting \ {p} /\ Lowered' = Lowered \ {p}
      BY <1>0, <2>1, Groups
    <3> QED BY <1>0, <2>1, <3>1
  <2>3. Cardinality(Full') = A /\ Cardinality(Lowered') = C
    BY <2>1, <2>2
  <2>4. Cardinality(Counting') = B - 1
    BY <1>0, <2>2, OneLess
  <2> HIDE DEF A, B, C
  <2>5. mSize' = Cardinality(Full') - Cardinality(Counting') - Cardinality(Lowered')
    BY <1>0, <2>1, <2>3, <2>4
  <2> QED BY <2>5 DEF Sized
<1> QED BY <1>2, <1>3, <1>4, <1>5, <1>6, <1>7, <1>8, <1>9 DEF TryEnqueue

LEMMA ConsumerKeepsSize ==
  ASSUME IInv, Sized, NEW c \in Consumers, TryDequeue(c)
  PROVE  Sized'
<1> DEFINE A == Cardinality(Full)
           B == Cardinality(Counting)
           C == Cardinality(Lowered)
<1>0. /\ Types /\ c \in Threads /\ c \notin Producers /\ c \notin Counting
      /\ A \in Int /\ B \in Int /\ C \in Int /\ mSize = A - B - C
      /\ IsFiniteSet(Full) /\ IsFiniteSet(Counting) /\ IsFiniteSet(Lowered)
      /\ c \in Lowered <=> pc[c] \notin {"Idle", "Release"}
  BY FiniteGroups, ThreadFacts DEF IInv, Sized, Lowered, Counting
<1>1. ASSUME NEW l, Goto(c, l), l \in {"Idle", "Release"} <=> pc[c] \in {"Idle", "Release"},
             mSize' = mSize, Full' = Full
      PROVE  Sized'
  <2>1. Counting' = Counting \ {c}
    BY <1>0, <1>1, Groups
  <2>2. CASE l \in {"Idle", "Release"}
    <3>1. Lowered' = Lowered \ {c} /\ c \notin Lowered
      BY <1>0, <1>1, <2>2, Groups
    <3> QED BY <1>0, <1>1, <2>1, <3>1 DEF Sized
  <2>3. CASE l \notin {"Idle", "Release"}
    <3>1. Lowered' = Lowered \cup {c} /\ c \in Lowered
      BY <1>0, <1>1, <2>3, Groups
    <3> QED BY <1>0, <1>1, <2>1, <3>1 DEF Sized
  <2> QED BY <2>2, <2>3
<1>2. CASE Lower(c)
  <2> DEFINE l == IF mSize <= 0 THEN "Restore" ELSE "ReadHead"
  <2>1. /\ Goto(c, l) /\ mSize' = mSize - 1 /\ pc[c] = "Idle" /\ Full' = Full
    BY <1>2, LowerKeeps DEF Lower
  <2>2. l \notin {"Idle", "Release"}
    OBVIOUS
  <2> HIDE DEF l
  <2>3. Counting' = Counting /\ Lowered' = Lowered \cup {c} /\ c \notin Lowered
    <3>1. Counting' = Counting \ {c} /\ Lowered' = Lowered \cup {c}
      BY <1>0, <2>1, <2>2, Groups
    <3> QED BY <1>0, <2>1, <3>1
  <2>4. Cardinality(Full') = A /\ Cardinality(Counting') = B
    BY <2>1, <2>3
  <2>5. Cardinality(Lowered') = C + 1
    BY <1>0, <2>3, OneMore
  <2> HIDE DEF A, B, C
  <2>6. mSize' = Cardinality(Full') - Cardinality(Counting') - Cardinality(Lowered')
    BY <1>0, <2>1, <2>4, <2>5
  <2> QED BY <2>6 DEF Sized
<1>3. CASE Restore(c)
  <2>1. /\ Goto(c, "Idle") /\ mSize' = mSize + 1 /\ pc[c] = "Restore" /\ Full' = Full
    BY <1>3, RestoreKeeps DEF Restore, Return
  <2>2. Counting' = Counting /\ Lowered' = Lowered \ {c} /\ c \in Lowered
    BY <1>0, <2>1, Groups
  <2>3. Cardinality(Full') = A /\ Cardinality(Counting') = B
    BY <2>1, <2>2
  <2>4. Cardinality(Lowered') = C - 1
    BY <1>0, <2>2, OneLess
  <2> HIDE DEF A, B, C
  <2>5. mSize' = Cardinality(Full') - Cardinality(Counting') - Cardinality(Lowered')
    BY <1>0, <2>1, <2>3, <2>4
  <2> QED BY <2>5 DEF Sized
<1>4. CASE ReadHead(c)
  BY <1>1, <1>4, ReadHeadKeeps DEF ReadHead, listVars
<1>5. CASE ReadTailToo(c)
  BY <1>1, <1>5, ReadTailTooKeeps DEF ReadTailToo, listVars
<1>6. CASE ReadHeadNext(c)
  <2> DEFINE n == next[my[c].head.node]
             l == IF n = Null THEN "ReadHead"
                  ELSE IF my[c].head.node = my[c].tail.node THEN "HelpTail" ELSE "ReadData"
  <2>1. Goto(c, l) /\ mSize' = mSize /\ Full' = Full /\ pc[c] = "ReadHeadNext"
    BY <1>6, ReadHeadNextKeeps DEF ReadHeadNext, listVars
  <2>2. l \notin {"Idle", "Release"}
    OBVIOUS
  <2> HIDE DEF n, l
  <2> QED BY <1>1, <2>1, <2>2
<1>7. CASE HelpTail(c)
  BY <1>1, <1>7, HelpTailKeeps DEF HelpTail
<1>8. CASE ReadData(c)
  BY <1>1, <1>8, ReadDataKeeps DEF ReadData, listVars
<1>9. CASE Unlink(c) /\ mHead = my[c].head
  <2>1. /\ Goto(c, "Release") /\ mSize' = mSize /\ pc[c] = "Unlink"
        /\ Full' = Full \ {my[c].succ} /\ my[c].succ \in Full
    BY <1>9, UnlinkKeeps DEF Unlink, MoveHead
  <2>2. Counting' = Counting /\ Lowered' = Lowered \ {c} /\ c \in Lowered
    BY <1>0, <2>1, Groups
  <2>3. Cardinality(Full') = A - 1
    BY <1>0, <2>1, OneLess
  <2>4. Cardinality(Lowered') = C - 1
    BY <1>0, <2>2, OneLess
  <2>5. Cardinality(Counting') = B
    BY <2>2
  <2> HIDE DEF A, B, C
  <2>6. mSize' = Cardinality(Full') - Cardinality(Counting') - Cardinality(Lowered')
    BY <1>0, <2>1, <2>3, <2>4, <2>5
  <2> QED BY <2>6 DEF Sized
<1>10. CASE Unlink(c) /\ mHead # my[c].head
  BY <1>1, <1>10, UnlinkFailsKeeps DEF Unlink
<1>11. CASE Release(c)
  BY <1>1, <1>11, ReleaseKeeps DEF Release, Return
<1> QED BY <1>2, <1>3, <1>4, <1>5, <1>6, <1>7, <1>8, <1>9, <1>10, <1>11 DEF TryDequeue

LEMMA SizeStep ==
  ASSUME IInv, Sized, [Next]_vars
  PROVE  Sized'
<1>1. CASE UNCHANGED vars
  <2>1. Full' = Full /\ Counting' = Counting /\ Lowered' = Lowered /\ mSize' = mSize
    BY <1>1 DEF vars, listVars, Full, Counting, Lowered
  <2> QED BY <2>1 DEF Sized
<1>2. CASE Next
  BY <1>2, ProducerKeepsSize, ConsumerKeepsSize DEF Next
<1> QED BY <1>1, <1>2

\* Every item that was linked and not taken is in the queue or hangs off a node that
\* is about to be linked, once, none that was taken is, none is taken twice; and mSize
\* counts them, short of what is not counted yet and of what was lowered for an item
\* not taken yet.
THEOREM ItemsInOnePlace == Spec => []NothingLost
<1>1. Init => ItemsKept /\ Sized
  <2> SUFFICES ASSUME Init PROVE ItemsKept /\ Sized
    OBVIOUS
  <2>1. /\ Full = {} /\ mSize = 0 /\ linked = <<>> /\ taken = <<>>
        /\ \A t \in Threads : pc[t] = "Idle"
    BY InitHolds
  <2>2. ToSet(linked) = {} /\ ToSet(taken) = {} /\ IsInjective(taken)
    BY <2>1 DEF ToSet, IsInjective
  <2>3. ItemsKept
    BY <2>1, <2>2, ThreadFacts DEF ItemsKept
  <2>4. Counting = {} /\ Lowered = {}
    BY <2>1, ThreadFacts DEF Counting, Lowered
  <2>5. Cardinality({}) = 0
    BY FS_EmptySet
  <2>6. Sized
    BY <2>1, <2>4, <2>5 DEF Sized
  <2> QED BY <2>3, <2>6
<1>2. IInv /\ ItemsKept /\ Sized /\ [Next]_vars => ItemsKept' /\ Sized'
  BY ItemsStep, SizeStep
<1>3. ASSUME IInv, ItemsKept, Sized PROVE NothingLost
  <2>1. Full = Waiting
    BY <1>3, Chains DEF IInv, Structure
  <2> QED BY <1>3, <2>1 DEF NothingLost, ItemsKept, Sized, Counting, Lowered
<1> QED BY <1>1, <1>2, <1>3, Invariant, PTL DEF Spec

--------------------------------------------------------------------------------
(* With one producer the items come out in the order they went in.         *)

OneProducer == \A p, r \in Producers : p = r

\* then nothing hangs off a node that is not linked yet
Fresh == \A p \in Producers : pc[p] \in Unlinked =>
            my[p].node \in Nodes /\ next[my[p].node] = Null /\ data[my[p].node] \in Items

\* the data of the nodes of a sequence
Contents(s, values) == [i \in DOMAIN s |-> values[s[i]]]

\* its length and members
LEMMA ContentsFacts ==
  ASSUME NEW values \in [Nodes -> Items \cup {NoItem}], NEW s \in Seq(Nodes)
  PROVE  /\ Contents(s, values) \in Seq(Items \cup {NoItem})
         /\ Len(Contents(s, values)) = Len(s) /\ Len(s) \in Nat
         /\ \A i \in 1 .. Len(s) : Contents(s, values)[i] = values[s[i]]
<1>1. Len(s) \in Nat /\ DOMAIN s = 1 .. Len(s) /\ \A i \in 1 .. Len(s) : s[i] \in Nodes
  BY LenProperties, ElementOfSeq
<1>2. Contents(s, values) = [i \in 1 .. Len(s) |-> values[s[i]]]
  BY <1>1 DEF Contents
<1>3. Contents(s, values) \in [1 .. Len(s) -> Items \cup {NoItem}]
  BY <1>1, <1>2
<1>4. Contents(s, values) \in Seq(Items \cup {NoItem})
  BY <1>1, <1>3, SeqDef
<1>5. Len(Contents(s, values)) = Len(s)
  BY <1>1, <1>3, <1>4, LenProperties
<1> QED BY <1>1, <1>2, <1>4, <1>5

\* of a sequence with one more node
LEMMA ContentsAppend ==
  ASSUME NEW values \in [Nodes -> Items \cup {NoItem}], NEW s \in Seq(Nodes), NEW n \in Nodes
  PROVE  Contents(Append(s, n), values) = Append(Contents(s, values), values[n])
<1> DEFINE t == Append(s, n)
           a == Contents(t, values)
           b == Contents(s, values)
           c == Append(b, values[n])
<1>1. /\ t \in Seq(Nodes) /\ Len(t) = Len(s) + 1 /\ t[Len(s) + 1] = n
      /\ \A i \in 1 .. Len(s) : t[i] = s[i]
  BY AppendProperties
<1>2. /\ b \in Seq(Items \cup {NoItem}) /\ Len(b) = Len(s) /\ Len(s) \in Nat
      /\ \A i \in 1 .. Len(s) : b[i] = values[s[i]]
  BY ContentsFacts
<1>3. /\ a \in Seq(Items \cup {NoItem}) /\ Len(a) = Len(t)
      /\ \A i \in 1 .. Len(t) : a[i] = values[t[i]]
  BY <1>1, ContentsFacts
<1> HIDE DEF t, a, b
<1>4. /\ c \in Seq(Items \cup {NoItem}) /\ Len(c) = Len(b) + 1 /\ c[Len(b) + 1] = values[n]
      /\ \A i \in 1 .. Len(b) : c[i] = b[i]
  BY <1>2, AppendProperties
<1> HIDE DEF c
<1>5. \A i \in 1 .. Len(s) + 1 : i \in 1 .. Len(s) \/ i = Len(s) + 1
  BY <1>2
<1>6. \A i \in 1 .. Len(a) : a[i] = c[i]
  BY <1>1, <1>2, <1>3, <1>4, <1>5
<1>7. Len(a) = Len(c)
  BY <1>1, <1>2, <1>3, <1>4
<1>8. a = c
  BY <1>3, <1>4, <1>6, <1>7, SeqEqual
<1> QED BY <1>8 DEF a, b, c, t

\* of a sequence without its first node
LEMMA ContentsTail ==
  ASSUME NEW values \in [Nodes -> Items \cup {NoItem}], NEW s \in Seq(Nodes), s # <<>>
  PROVE  /\ Contents(s, values) # <<>> /\ Head(Contents(s, values)) = values[s[1]]
         /\ Contents(Tail(s), values) = Tail(Contents(s, values))
<1> DEFINE t == Tail(s)
           a == Contents(t, values)
           b == Contents(s, values)
           c == Tail(b)
<1>1. /\ t \in Seq(Nodes) /\ Len(t) = Len(s) - 1 /\ \A i \in 1 .. Len(t) : t[i] = s[i + 1]
  BY HeadTailProperties
<1>2. /\ b \in Seq(Items \cup {NoItem}) /\ Len(b) = Len(s) /\ Len(s) \in Nat
      /\ \A i \in 1 .. Len(s) : b[i] = values[s[i]]
  BY ContentsFacts
<1>3. /\ a \in Seq(Items \cup {NoItem}) /\ Len(a) = Len(t)
      /\ \A i \in 1 .. Len(t) : a[i] = values[t[i]]
  BY <1>1, ContentsFacts
<1>4. Len(s) # 0
  BY EmptySeq
<1> HIDE DEF t, a, b
<1>5. b # <<>>
  BY <1>2, <1>4, EmptySeq
<1>6. /\ c \in Seq(Items \cup {NoItem}) /\ Len(c) = Len(b) - 1
      /\ \A i \in 1 .. Len(c) : c[i] = b[i + 1]
      /\ Head(b) = b[1]
  BY <1>2, <1>5, HeadTailProperties
<1> HIDE DEF c
<1>7. \A i \in 1 .. Len(s) - 1 : i + 1 \in 1 .. Len(s)
  BY <1>2
<1>8. ASSUME NEW i \in 1 .. Len(a) PROVE a[i] = c[i]
  <2>1. /\ i \in 1 .. Len(t) /\ i \in 1 .. Len(c) /\ i + 1 \in 1 .. Len(s)
    BY <1>1, <1>2, <1>3, <1>6, <1>7
  <2>2. a[i] = values[s[i + 1]]
    BY <1>1, <1>3, <2>1
  <2>3. c[i] = values[s[i + 1]]
    BY <1>2, <1>6, <2>1
  <2> QED BY <2>2, <2>3
<1>9. a = c
  <2>1. Len(a) = Len(c)
    BY <1>1, <1>2, <1>3, <1>6
  <2> QED BY <1>3, <1>6, <1>8, <2>1, SeqEqual
<1>10. Head(b) = values[s[1]]
  BY <1>2, <1>4, <1>6
<1> QED BY <1>5, <1>9, <1>10 DEF a, b, c, t

\* with one producer a node that is not linked yet has nothing behind it
LEMMA FreshStep ==
  ASSUME IInv, OneProducer, Fresh, [Next]_vars
  PROVE  Fresh'
<1>0. Types /\ my \in [Threads -> Locals] /\ next \in [Nodes -> Nodes \cup {Null}]
      /\ data \in [Nodes -> Items \cup {NoItem}] /\ \A t \in Threads : Reads(t)
  BY DEF IInv, Types
<1>1. ASSUME UNCHANGED <<next, data>>,
             \A p \in Producers : pc'[p] \in Unlinked =>
                pc[p] \in Unlinked /\ my'[p].node = my[p].node
      PROVE  Fresh'
  BY <1>1 DEF Fresh
<1>2. ASSUME NEW p \in Producers, TryEnqueue(p) PROVE Fresh'
  <2>0. p \in Threads /\ my = [my EXCEPT ![p] = my[p]] /\ \A r \in Producers : r = p
    BY <1>0, ThreadFacts DEF OneProducer
  <2>1. ASSUME NEW l, Goto(p, l), NEW r, my' = [my EXCEPT ![p] = r], UNCHANGED <<next, data>>,
               l \in Unlinked => pc[p] \in Unlinked /\ r.node = my[p].node
        PROVE  Fresh'
    <3>1. my'[p] = r /\ \A u \in Threads \ {p} : my'[u] = my[u]
      BY <1>0, <2>0, <2>1
    <3> QED BY <1>0, <1>1, <2>0, <2>1, <3>1, Elsewhere
  <2>2. CASE GetNode(p)
    <3>1. PICK n \in free : /\ my' = [my EXCEPT ![p].node = n]
                            /\ data' = [data EXCEPT ![n] = <<p, count[p] + 1>>]
                            /\ next' = [next EXCEPT ![n] = Null]
      BY <2>2 DEF GetNode
    <3>2. n \in Nodes /\ count[p] \in Nat /\ count[p] < MaxItems
      BY <1>0, <2>2 DEF Types, GetNode
    <3>3. <<p, count[p] + 1>> \in Items
      <4>1. count[p] + 1 \in 1 .. MaxItems
        BY <3>2, QueueAssumption
      <4> QED BY <4>1 DEF Items
    <3>4. my'[p].node = n /\ next'[n] = Null /\ data'[n] \in Items
      BY <1>0, <2>0, <3>1, <3>2, <3>3 DEF Locals
    <3> QED BY <2>0, <3>2, <3>4 DEF Fresh
  <2>3. CASE ReadTail(p)
    <3>1. my' = [my EXCEPT ![p] = [my[p] EXCEPT !.tail = mTail]]
      BY <1>0, <2>3 DEF ReadTail
    <3>2. /\ Goto(p, "ReadTailNext") /\ UNCHANGED <<next, data>> /\ pc[p] \in Unlinked
          /\ [my[p] EXCEPT !.tail = mTail].node = my[p].node
      BY <1>0, <2>0, <2>3 DEF ReadTail, listVars, Unlinked, Locals
    <3> QED BY <2>1, <3>1, <3>2
  <2>4. CASE ReadTailNext(p)
    <3> DEFINE n == next[my[p].tail.node]
               r == [my[p] EXCEPT !.succ = n]
               l == IF n = Null THEN "Link" ELSE "Help"
    <3>1. my' = [my EXCEPT ![p] = r] /\ r.node = my[p].node
      BY <1>0, <2>0, <2>4 DEF ReadTailNext, Locals
    <3>2. Goto(p, l) /\ UNCHANGED <<next, data>> /\ pc[p] \in Unlinked
      BY <2>4 DEF ReadTailNext, listVars, Unlinked
    <3> HIDE DEF l, r, n
    <3> QED BY <2>1, <3>1, <3>2
  <2>5. CASE Link(p) /\ next[my[p].tail.node] = Null
    <3>1. Goto(p, "Swing") /\ "Swing" \notin Unlinked
      BY <2>5 DEF Link, Unlinked
    <3>2. pc'[p] = "Swing"
      BY <1>0, <2>0, <3>1 DEF Goto, Types
    <3> QED BY <2>0, <3>1, <3>2 DEF Fresh
  <2>6. CASE Link(p) /\ next[my[p].tail.node] # Null
    BY <2>0, <2>1, <2>6 DEF Link, Unlinked
  <2>7. CASE Swing(p)
    BY <2>0, <2>1, <2>7 DEF Swing, Unlinked
  <2>8. CASE Help(p)
    BY <2>0, <2>1, <2>8 DEF Help, Unlinked
  <2>9. CASE Count(p)
    <3>1. /\ Goto(p, "Idle") /\ my' = [my EXCEPT ![p] = Blank] /\ UNCHANGED <<next, data>>
          /\ "Idle" \notin Unlinked
      BY <2>9 DEF Count, Return, Unlinked
    <3> QED BY <2>1, <3>1
  <2> QED BY <1>2, <2>2, <2>3, <2>4, <2>5, <2>6, <2>7, <2>8, <2>9 DEF TryEnqueue
<1>3. ASSUME NEW c \in Consumers, TryDequeue(c) PROVE Fresh'
  <2>1. UNCHANGED <<next, data>>
    BY <1>3 DEF TryDequeue, Lower, Restore, ReadHead, ReadTailToo, ReadHeadNext, HelpTail,
                ReadData, Unlink, Release, listVars
  <2>2. \A p \in Producers : pc'[p] = pc[p] /\ my'[p] = my[p]
    <3>1. \E l : Goto(c, l)
      BY <1>3 DEF TryDequeue, Lower, Restore, ReadHead, ReadTailToo, ReadHeadNext, HelpTail,
                  ReadData, Unlink, MoveHead, Release, Return
    <3>2. \A t \in Threads \ {c} : my'[t] = my[t]
      BY <1>0, <1>3 DEF TryDequeue, Lower, Restore, ReadHead, ReadTailToo, ReadHeadNext, HelpTail,
                  ReadData, Unlink, MoveHead, Release, Return
    <3> QED BY <1>0, <3>1, <3>2, ThreadFacts DEF Goto, Types
  <2> QED BY <1>1, <2>1, <2>2
<1>4. CASE UNCHANGED vars
  BY <1>1, <1>4 DEF vars, listVars
<1> QED BY <1>2, <1>3, <1>4 DEF Next

\* what the queue is, and what is in it
LEMMA QueuedIs ==
  ASSUME NEW s, NEW n, NEW succ, Listed(s, n, succ)
  PROVE  /\ Tail(Chain(n, succ)) = Tail(s)
         /\ s \in Seq(Nodes) /\ s # <<>> /\ Tail(s) \in Seq(Nodes)
<1>1. s \in Seq(Nodes) /\ s # <<>>
  BY ListFacts
<1> QED BY <1>1, ChainOf, HeadTailProperties

LEMMA Queueds ==
  /\ Queued = Contents(Tail(Chain(mHead.node, next)), data)
  /\ Queued' = Contents(Tail(Chain(mHead'.node, next')), data')
BY DEF Queued, Queue, Contents

\* the link is the enqueue of the contract, all else of the operation a stutter
LEMMA EnqueueStep ==
  ASSUME IInv, OneProducer, Fresh, NEW p \in Producers, TryEnqueue(p)
  PROVE  [Contract!Next]_<<Queued, taken>>
<1>1. PICK q \in Seq(Nodes), d \in [Producers -> Seq(Nodes)],
           order \in SUBSET (Producers \X Producers) :
               Lists(q, d) /\ Apart(q, d) /\ Later(d, order)
  BY DEF IInv, Structure
<1>2. /\ Listed(q, mHead.node, next) /\ q # <<>> /\ ToSet(q) \subseteq Nodes
      /\ Tail(q) \in Seq(Nodes) /\ Queued = Contents(Tail(q), data)
      /\ \A i \in DOMAIN Tail(q) : Tail(q)[i] \in ToSet(q)
  <2>1. Listed(q, mHead.node, next)
    BY <1>1 DEF Lists
  <2>2. /\ q # <<>> /\ ToSet(q) \subseteq Nodes /\ Tail(q) \in Seq(Nodes)
        /\ Tail(Chain(mHead.node, next)) = Tail(q)
    BY <2>1, QueuedIs, ListFacts
  <2>3. \A i \in DOMAIN Tail(q) : Tail(q)[i] \in ToSet(q)
    <3>1. ToSet(Tail(q)) \subseteq ToSet(q)
      BY <2>1, ListRest
    <3> QED BY <3>1 DEF ToSet
  <2> QED BY <2>1, <2>2, <2>3, Queueds
<1>3. p \in Threads /\ Reads(p) /\ Types /\ mHead' = mHead
  BY ThreadFacts DEF IInv, TryEnqueue, GetNode, ReadTail, ReadTailNext, Link, Swing, Help,
                     Count, listVars
<1>4. CASE GetNode(p)
  <2>1. PICK n \in free : /\ data' = [data EXCEPT ![n] = <<p, count[p] + 1>>]
                          /\ next' = [next EXCEPT ![n] = Null]
    BY <1>4 DEF GetNode
  <2>2. n \notin ToSet(q)
    BY <1>1 DEF Apart
  <2>3. \A m \in ToSet(q) : next'[m] = next[m] /\ data'[m] = data[m]
    BY <1>2, <1>3, <2>1, <2>2 DEF Types
  <2>4. Listed(q, mHead.node, next')
    BY <1>2, <2>3, ListKept
  <2>5. Queued' = Contents(Tail(q), data')
    BY <1>3, <2>4, QueuedIs, Queueds
  <2>6. Contents(Tail(q), data') = Contents(Tail(q), data)
    BY <1>2, <2>3 DEF Contents
  <2>7. taken' = taken
    BY <1>4 DEF GetNode
  <2> QED BY <1>2, <2>5, <2>6, <2>7
<1>5. CASE Link(p) /\ next[my[p].tail.node] = Null
  <2> DEFINE x == my[p].tail.node
             n == my[p].node
  <2>1. /\ next' = [next EXCEPT ![x] = n] /\ next[x] = Null /\ data' = data /\ taken' = taken
        /\ pc[p] = "Link" /\ pc[p] \in Unlinked
    BY <1>5 DEF Link, Unlinked
  <2>2. /\ x \in ToSet(q) /\ x \in Nodes
    <3>1. \/ x \in ToSet(q)
          \/ \E r \in Producers : x \in ToSet(d[r]) /\ <<p, r>> \in order /\ r # p
      BY <1>1, <2>1, Target
    <3>2. \A r \in Producers : r = p
      BY DEF OneProducer
    <3> QED BY <1>2, <3>1, <3>2
  <2>3. n \in Nodes /\ next[n] = Null /\ data[n] \in Items /\ n \notin ToSet(q)
    BY <1>1, <2>1, Places DEF Fresh
  <2>4. Listed(<<n>>, n, next) /\ ToSet(<<n>>) = {n}
    BY <2>3, ListOne
  <2>5. next'[x] = n /\ \A k \in Nodes \ {x} : next'[k] = next[k]
    BY <1>3, <2>1, <2>2 DEF Types
  <2>6. PICK h, k, y, r : h = mHead.node /\ k = n /\ y = x /\ r = <<n>>
    OBVIOUS
  <2>7. Listed(q \o r, h, next')
    <3>1. /\ Listed(q, h, next) /\ Listed(r, k, next) /\ \A i \in ToSet(r) : i \notin ToSet(q)
          /\ y \in ToSet(q) /\ next[y] = Null /\ next'[y] = k
          /\ \A i \in Nodes \ {y} : next'[i] = next[i]
      BY <1>2, <2>1, <2>2, <2>3, <2>4, <2>5, <2>6
    <3> QED BY <3>1, ListJoin
  <2>8. q \o r = Append(q, n)
    BY <2>3, <2>6, AppendIsConcat
  <2>9. Queued' = Contents(Tail(Append(q, n)), data)
    <3>1. Queued' = Contents(Tail(Chain(mHead.node, next')), data)
      BY <1>3, <2>1, Queueds
    <3> HIDE DEF n, x
    <3> QED BY <2>6, <2>7, <2>8, <3>1, QueuedIs
  <2>10. Tail(Append(q, n)) = Append(Tail(q), n)
    BY <1>2, <2>3, HeadTailAppend
  <2>11. data \in [Nodes -> Items \cup {NoItem}]
    BY <1>3 DEF Types
  <2>12. Queued' = Append(Queued, data[n])
    <3>1. Contents(Append(Tail(q), n), data) = Append(Contents(Tail(q), data), data[n])
      BY <1>2, <2>3, <2>11, ContentsAppend
    <3> QED BY <1>2, <2>9, <2>10, <3>1
  <2>13. Contract!TryEnqueue(data[n])
    BY <2>1, <2>12 DEF Contract!TryEnqueue
  <2> QED BY <2>3, <2>13 DEF Contract!Next
<1>6. ASSUME UNCHANGED <<next, data, taken>> PROVE [Contract!Next]_<<Queued, taken>>
  BY <1>3, <1>6, Queueds
<1> QED BY <1>4, <1>5, <1>6
        DEF TryEnqueue, ReadTail, ReadTailNext, Link, Swing, Help, Count, listVars

\* the exchange on the head is its dequeue, all else of the operation a stutter
LEMMA DequeueStep ==
  ASSUME IInv, NEW c \in Consumers, TryDequeue(c)
  PROVE  [Contract!Next]_<<Queued, taken>>
<1>1. UNCHANGED <<next, data>>
  BY DEF TryDequeue, Lower, Restore, ReadHead, ReadTailToo, ReadHeadNext, HelpTail,
         ReadData, Unlink, Release, listVars
<1>2. CASE Unlink(c) /\ mHead = my[c].head
  <2>1. PICK q \in Seq(Nodes), d \in [Producers -> Seq(Nodes)],
             order \in SUBSET (Producers \X Producers) :
                 Lists(q, d) /\ Apart(q, d) /\ Later(d, order)
    BY DEF IInv, Structure
  <2> DEFINE n == my[c].succ
             h == mHead.node
  <2>2. /\ mHead' = Advance(my[c].head, n) /\ taken' = Append(taken, my[c].out)
        /\ pc[c] = "Unlink" /\ c \in Threads /\ Reads(c) /\ Types
    BY <1>2, ThreadFacts DEF Unlink, MoveHead, IInv
  <2>3. /\ n = next[h] /\ n \in Nodes /\ n # Null /\ my[c].out = data[n] /\ mHead'.node = n
    BY <1>2, <2>2, QueueAssumption DEF Reads, Ready, HeadRead, WithHead, Advance, Pointer
  <2>4. /\ Listed(q, h, next) /\ q \in Seq(Nodes) /\ Len(q) \in Nat /\ Len(q) >= 1 /\ q[1] = h
        /\ \A i \in 1 .. Len(q) : next[q[i]] = IF i = Len(q) THEN Null ELSE q[i + 1]
    BY <2>1, ListFacts DEF Lists
  <2>5. Listed(Tail(q), n, next)
    BY <2>3, <2>4, ListTail
  <2>6. /\ Tail(q) \in Seq(Nodes) /\ Tail(q) # <<>> /\ Tail(q)[1] = n
    BY <2>5, ListFacts
  <2> HIDE DEF n, h
  <2>7. Queued = Contents(Tail(q), data)
    BY <2>4, QueuedIs, Queueds DEF h
  <2>8. Queued' = Contents(Tail(Tail(q)), data)
    <3>1. Queued' = Contents(Tail(Chain(n, next)), data)
      BY <1>1, <2>3, Queueds
    <3>2. Chain(n, next) = Tail(q)
      BY <2>5, ChainOf
    <3> QED BY <3>1, <3>2
  <2>9. data \in [Nodes -> Items \cup {NoItem}]
    BY <2>2 DEF Types
  <2>10. Queued # <<>> /\ Head(Queued) = data[n] /\ Queued' = Tail(Queued)
    BY <2>6, <2>7, <2>8, <2>9, ContentsTail
  <2>11. Contract!TryDequeue
    BY <2>2, <2>3, <2>10 DEF Contract!TryDequeue
  <2> QED BY <2>11 DEF Contract!Next
<1>3. ASSUME UNCHANGED <<mHead, taken>> PROVE [Contract!Next]_<<Queued, taken>>
  BY <1>1, <1>3, Queueds
<1> QED BY <1>2, <1>3
        DEF TryDequeue, Lower, Restore, ReadHead, ReadTailToo, ReadHeadNext, HelpTail,
            ReadData, Unlink, Release, Return, listVars

\* When one thread enqueues, however many dequeue: each item that is linked comes
\* to the end of the queue, and each that is taken from its front.
THEOREM FirstInFirstOut ==
  ASSUME OneProducer
  PROVE  Spec => RefinesQueue
<1>1. Init => Contract!Init /\ Fresh
  <2> SUFFICES ASSUME Init PROVE Contract!Init /\ Fresh
    OBVIOUS
  <2>1. IInv /\ taken = <<>> /\ \A t \in Threads : pc[t] = "Idle"
    BY InitHolds
  <2>2. PICK dummy \in Nodes : mHead.node = dummy /\ next = [n \in Nodes |-> Null]
    BY DEF Init, Pointer
  <2>3. Listed(<<dummy>>, dummy, next)
    BY <2>2, ListOne
  <2>4. Queued = Contents(Tail(<<dummy>>), data)
    BY <2>2, <2>3, QueuedIs, Queueds
  <2>5. Tail(<<dummy>>) = <<>>
    OBVIOUS
  <2>6. Queued = <<>>
    <3>1. data \in [Nodes -> Items \cup {NoItem}]
      BY <2>1 DEF IInv, Types
    <3>2. <<>> \in Seq(Nodes) /\ Len(<<>>) = 0
      BY EmptySeq
    <3>3. /\ Contents(<<>>, data) \in Seq(Items \cup {NoItem})
          /\ Len(Contents(<<>>, data)) = 0
      BY <3>1, <3>2, ContentsFacts
    <3>4. Contents(<<>>, data) = <<>>
      BY <3>3, EmptySeq
    <3> QED BY <2>4, <2>5, <3>4
  <2>7. Fresh
    BY <2>1, ThreadFacts DEF Fresh
  <2> QED BY <2>1, <2>6, <2>7 DEF Contract!Init
<1>2. IInv /\ Fresh /\ [Next]_vars => Fresh'
  BY FreshStep
<1>3. IInv /\ Fresh /\ [Next]_vars => [Contract!Next]_<<Queued, taken>>
  <2> SUFFICES ASSUME IInv, Fresh, [Next]_vars PROVE [Contract!Next]_<<Queued, taken>>
    OBVIOUS
  <2>1. CASE UNCHANGED vars
    <3>1. UNCHANGED <<mHead, next, data, taken>>
      BY <2>1 DEF vars, listVars
    <3> QED BY <3>1, Queueds
  <2>2. CASE Next
    BY <2>2, EnqueueStep, DequeueStep DEF Next
  <2> QED BY <2>1, <2>2
<1> QED BY <1>1, <1>2, <1>3, Invariant, PTL DEF Spec, RefinesQueue, Contract!Spec
=============================================================================
