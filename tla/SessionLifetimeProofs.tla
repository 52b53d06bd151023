------------------------- MODULE SessionLifetimeProofs -------------------------
(***************************************************************************)
(* Proofs about SessionLifetime for every table size and every number of   *)
(* worker and calling threads: the count of references is exact, and no    *)
(* session is released or recycled under a thread or an operation.         *)
(***************************************************************************)
EXTENDS SessionLifetime, FiniteSetTheorems, TLAPS

\* A thread that owns a reference while posting owns another one.
LEMMA LabelFacts ==
    /\ PosterLabels \subseteq OwnerLabels
    /\ HolderLabels \subseteq OwnerLabels
    /\ SetupLabels \subseteq OwnerLabels
    /\ HolderLabels \cap (SetupLabels \cup ReleaseLabels) = {}
    /\ SetupLabels \cap ReleaseLabels = {}
BY DEF PosterLabels, HolderLabels, OwnerLabels, SetupLabels, ReleaseLabels

LEMMA ThreadsFinite == IsFiniteSet(Threads)
BY ThreadsAssumption, FS_Singleton, FS_Union DEF Threads

\* Two finite sets that differ in at most one element.
LEMMA DifferInOne ==
    ASSUME NEW A, NEW B, NEW t, IsFiniteSet(A), A \ {t} = B \ {t}
    PROVE  Cardinality(B) = Cardinality(A) + (IF t \in B THEN 1 ELSE 0)
                                           - (IF t \in A THEN 1 ELSE 0)
<1>1. CASE t \in A /\ t \in B
  <2>1. A = B
    BY <1>1
  <2> QED
    BY <1>1, <2>1, FS_CardinalityType
<1>2. CASE t \in A /\ t \notin B
  <2>1. B = A \ {t}
    BY <1>2
  <2>2. Cardinality(B) = Cardinality(A) - 1
    BY <1>2, <2>1, FS_RemoveElement
  <2>3. Cardinality(A) \in Nat
    BY FS_CardinalityType
  <2> QED
    BY <1>2, <2>2, <2>3
<1>3. CASE t \notin A /\ t \in B
  <2>1. B = A \cup {t}
    BY <1>3
  <2>2. Cardinality(B) = Cardinality(A) + 1
    BY <1>3, <2>1, FS_AddElement
  <2>3. Cardinality(A) \in Nat
    BY FS_CardinalityType
  <2> QED
    BY <1>3, <2>2, <2>3
<1>4. CASE t \notin A /\ t \notin B
  <2>1. A = B
    BY <1>4
  <2> QED
    BY <1>4, <2>1, FS_CardinalityType
<1> QED
  BY <1>1, <1>2, <1>3, <1>4

--------------------------------------------------------------------------------
(* The inductive invariant.                                                *)

\* the types, with the counters only known to be integers
Types ==
    /\ id \in [Slots -> IDs \cup {NoID}]
    /\ sock \in [Slots -> {"none", "open", "broken"}]
    /\ flag \in [Slots -> {0, 1}]
    /\ ioCount \in [Slots -> Int]
    /\ sending \in [Slots -> BOOLEAN]
    /\ recvIO \in [Slots -> Nat]
    /\ sendIO \in [Slots -> Nat]
    /\ cancelled \in [Slots -> SUBSET {"recv", "send"}]
    /\ useable \subseteq Slots
    /\ sessionCount \in Int
    /\ uniqueID \in 0 .. MaxUnique
    /\ joined \subseteq IDs
    /\ left \subseteq IDs
    /\ pc \in [Threads -> Labels]
    /\ cur \in [Threads -> Slots \cup {NoSlot}]
    /\ arg \in [Threads -> IDs \cup {NoID}]
    /\ ret \in [Threads -> {"Idle", "Final"}]

\* which thread can be where, and what its locals hold there
AcceptorLabels == SetupLabels \cup {"Pop", "Count", "Join"}
CallerLabels == {"AcqInc", "AcqFlag", "AcqID", "AcqUndo", "Use"}
Roles ==
    \A t \in Threads :
        /\ pc[t] \in AcceptorLabels => t = Acceptor
        /\ pc[t] \notin {"Idle", "Pop"} => cur[t] \in Slots
        /\ pc[t] \in CallerLabels => arg[t] \in joined /\ IndexOf(arg[t]) = cur[t]
        /\ pc[t] \in {"SetSocket", "ClearFlag", "RelClose"} =>
              id[cur[t]] \in IDs /\ IndexOf(id[cur[t]]) = cur[t]
        /\ pc[t] = "ClearFlag" => sock[cur[t]] # "none"
        /\ pc[t] = "SetID" => uniqueID < MaxUnique
        /\ pc[t] = "Pop" => uniqueID < MaxUnique
        /\ pc[t] \in {"RelInc", "RelLeave", "RelPush"} =>
              arg[t] \in IDs /\ IndexOf(arg[t]) = cur[t]

\* nobody was ever told of a session in this slot
Unused(s) == \A i \in joined : IndexOf(i) # s

\* a free slot, and one that is being set up or released
Exclusive ==
    \A t \in Threads : pc[t] \in SetupLabels \cup ReleaseLabels =>
        /\ cur[t] \notin useable
        /\ \A u \in Threads :
              pc[u] \in SetupLabels \cup ReleaseLabels /\ cur[u] = cur[t] => u = t
Released ==
    /\ \A s \in useable : flag[s] = 1 \/ Unused(s)
    /\ \A t \in Threads :
          /\ pc[t] \in SetupLabels => flag[cur[t]] = 1 \/ Unused(cur[t])
          /\ pc[t] \in ReleaseLabels => flag[cur[t]] = 1

\* releaseSession is only ever called from the last reference a thread has:
\* the count cannot reach zero inside recvPost or sendPost
Returns ==
    \A t \in Threads :
        pc[t] \in ReleaseLabels \cup {"Release", "RelCount"} => ret[t] = "Idle"

IInv ==
    /\ Types /\ Roles /\ RefsExact /\ Exclusive /\ Released /\ Returns
    /\ HolderSafe

USE DEF IndexOf

LEMMA InitIInv == Init => IInv
<1> SUFFICES ASSUME Init PROVE IInv
  OBVIOUS
<1>1. Types
  BY SlotsAssumption DEF Init, Types, Labels
<1>2. Roles
  BY DEF Init, Roles, AcceptorLabels, SetupLabels, CallerLabels
<1>3. \A labels, s : "Idle" \notin labels => Within(labels, s) = {}
  BY DEF Init, Within
<1>4. RefsExact
  <2> SUFFICES ASSUME NEW s \in Slots
               PROVE  ioCount[s] = Cardinality(Within(OwnerLabels, s))
                          + Cardinality(Within(PosterLabels, s))
                          + recvIO[s] + sendIO[s] + Bit(s \in useable)
    BY DEF RefsExact
  <2>1. Within(OwnerLabels, s) = {} /\ Within(PosterLabels, s) = {}
    BY <1>3 DEF OwnerLabels, PosterLabels
  <2> QED
    BY <2>1, FS_EmptySet DEF Init, Bit
<1>5. Exclusive /\ Released
  BY DEF Init, Exclusive, Released, SetupLabels, ReleaseLabels, Unused
<1>7. Returns
  BY DEF Init, Returns
<1>6. HolderSafe
  BY DEF Init, HolderSafe, HolderLabels, Live
<1> QED
  BY <1>1, <1>2, <1>4, <1>5, <1>6, <1>7 DEF IInv

--------------------------------------------------------------------------------
(* How one thread's move changes what Within counts.                       *)

Members(where, at, labels, s) == {t \in Threads : where[t] \in labels /\ at[t] = s}

\* Thread t, and no other, moves.
LEMMA MembersMove ==
    ASSUME NEW t \in Threads,
           \A u \in Threads \ {t} : pc'[u] = pc[u] /\ cur'[u] = cur[u]
    PROVE  \A labels, s :
             /\ Cardinality(Members(pc, cur, labels, s)) \in Nat
             /\ Cardinality(Members(pc', cur', labels, s)) =
                  Cardinality(Members(pc, cur, labels, s))
                  + (IF pc'[t] \in labels /\ cur'[t] = s THEN 1 ELSE 0)
                  - (IF pc[t] \in labels /\ cur[t] = s THEN 1 ELSE 0)
<1> TAKE labels, s
<1> DEFINE A == Members(pc, cur, labels, s)
           B == Members(pc', cur', labels, s)
<1>1. IsFiniteSet(A)
  BY ThreadsFinite, FS_Subset DEF Members
<1>2. A \ {t} = B \ {t}
  BY DEF Members
<1>3. (t \in A) <=> (pc[t] \in labels /\ cur[t] = s)
  BY DEF Members
<1>4. (t \in B) <=> (pc'[t] \in labels /\ cur'[t] = s)
  BY DEF Members
<1>5. Cardinality(B) = Cardinality(A) + (IF t \in B THEN 1 ELSE 0)
                                      - (IF t \in A THEN 1 ELSE 0)
  <2> HIDE DEF A, B
  <2> QED
    BY <1>1, <1>2, DifferInOne
<1>6. Cardinality(A) \in Nat
  BY <1>1, FS_CardinalityType
<1> QED
  BY <1>3, <1>4, <1>5, <1>6

\* What a thread at label l of slot c contributes to the count of slot s.
Share(l, c, s) ==
    IF l \in OwnerLabels /\ c = s
    THEN IF l \in PosterLabels THEN 2 ELSE 1
    ELSE 0

LEMMA RefsStep ==
    ASSUME Types, RefsExact, NEW t \in Threads,
           \A u \in Threads \ {t} : pc'[u] = pc[u] /\ cur'[u] = cur[u],
           \A s \in Slots :
              /\ recvIO'[s] \in Nat /\ sendIO'[s] \in Nat /\ ioCount'[s] \in Int
              /\ ioCount'[s] - ioCount[s] =
                   Share(pc'[t], cur'[t], s) - Share(pc[t], cur[t], s)
                   + (recvIO'[s] - recvIO[s]) + (sendIO'[s] - sendIO[s])
                   + (IF s \in useable' THEN 1 ELSE 0)
                   - (IF s \in useable THEN 1 ELSE 0)
    PROVE  RefsExact'
<1> SUFFICES ASSUME NEW s \in Slots
             PROVE  ioCount'[s] = Cardinality(Members(pc', cur', OwnerLabels, s))
                        + Cardinality(Members(pc', cur', PosterLabels, s))
                        + recvIO'[s] + sendIO'[s]
                        + (IF s \in useable' THEN 1 ELSE 0)
  BY DEF RefsExact, Within, Members, Bit
<1>1. /\ ioCount[s] \in Int /\ recvIO[s] \in Nat /\ sendIO[s] \in Nat
      /\ ioCount'[s] \in Int /\ recvIO'[s] \in Nat /\ sendIO'[s] \in Nat
  BY DEF Types
<1>2. ioCount[s] = Cardinality(Members(pc, cur, OwnerLabels, s))
                     + Cardinality(Members(pc, cur, PosterLabels, s))
                     + recvIO[s] + sendIO[s] + (IF s \in useable THEN 1 ELSE 0)
  BY DEF RefsExact, Within, Members, Bit
<1>10. \A labels, r :
             /\ Cardinality(Members(pc, cur, labels, r)) \in Nat
             /\ Cardinality(Members(pc', cur', labels, r)) =
                  Cardinality(Members(pc, cur, labels, r))
                  + (IF pc'[t] \in labels /\ cur'[t] = r THEN 1 ELSE 0)
                  - (IF pc[t] \in labels /\ cur[t] = r THEN 1 ELSE 0)
  BY MembersMove, Zenon
<1>3. /\ Cardinality(Members(pc, cur, OwnerLabels, s)) \in Nat
      /\ Cardinality(Members(pc', cur', OwnerLabels, s)) =
            Cardinality(Members(pc, cur, OwnerLabels, s))
            + (IF pc'[t] \in OwnerLabels /\ cur'[t] = s THEN 1 ELSE 0)
            - (IF pc[t] \in OwnerLabels /\ cur[t] = s THEN 1 ELSE 0)
  BY <1>10
<1>4. /\ Cardinality(Members(pc, cur, PosterLabels, s)) \in Nat
      /\ Cardinality(Members(pc', cur', PosterLabels, s)) =
            Cardinality(Members(pc, cur, PosterLabels, s))
            + (IF pc'[t] \in PosterLabels /\ cur'[t] = s THEN 1 ELSE 0)
            - (IF pc[t] \in PosterLabels /\ cur[t] = s THEN 1 ELSE 0)
  BY <1>10
<1>5. ioCount'[s] - ioCount[s] =
         Share(pc'[t], cur'[t], s) - Share(pc[t], cur[t], s)
         + (recvIO'[s] - recvIO[s]) + (sendIO'[s] - sendIO[s])
         + (IF s \in useable' THEN 1 ELSE 0) - (IF s \in useable THEN 1 ELSE 0)
  OBVIOUS
<1>6. \A k, c : /\ Share(k, c, s) \in Nat
                /\ Share(k, c, s) = (IF k \in OwnerLabels /\ c = s THEN 1 ELSE 0)
                                  + (IF k \in PosterLabels /\ c = s THEN 1 ELSE 0)
  BY LabelFacts DEF Share
<1>7. ioCount'[s] - ioCount[s] =
         Cardinality(Members(pc', cur', OwnerLabels, s))
         - Cardinality(Members(pc, cur, OwnerLabels, s))
         + (Cardinality(Members(pc', cur', PosterLabels, s))
            - Cardinality(Members(pc, cur, PosterLabels, s)))
         + (recvIO'[s] - recvIO[s]) + (sendIO'[s] - sendIO[s])
         + (IF s \in useable' THEN 1 ELSE 0) - (IF s \in useable THEN 1 ELSE 0)
  <2>1. Share(pc'[t], cur'[t], s) - Share(pc[t], cur[t], s) =
         Cardinality(Members(pc', cur', OwnerLabels, s))
         - Cardinality(Members(pc, cur, OwnerLabels, s))
         + (Cardinality(Members(pc', cur', PosterLabels, s))
            - Cardinality(Members(pc, cur, PosterLabels, s)))
    <3>1. /\ Share(pc'[t], cur'[t], s) =
                (IF pc'[t] \in OwnerLabels /\ cur'[t] = s THEN 1 ELSE 0)
                + (IF pc'[t] \in PosterLabels /\ cur'[t] = s THEN 1 ELSE 0)
          /\ Share(pc[t], cur[t], s) =
                (IF pc[t] \in OwnerLabels /\ cur[t] = s THEN 1 ELSE 0)
                + (IF pc[t] \in PosterLabels /\ cur[t] = s THEN 1 ELSE 0)
      BY <1>6
    <3> QED
      BY <1>3, <1>4, <3>1
  <2> QED
    BY <1>1, <1>3, <1>4, <1>5, <1>6, <2>1
<1>8. /\ Cardinality(Members(pc', cur', OwnerLabels, s)) \in Int
      /\ Cardinality(Members(pc', cur', PosterLabels, s)) \in Int
  BY <1>3, <1>4
<1>9. /\ Cardinality(Members(pc, cur, OwnerLabels, s)) \in Int
       /\ Cardinality(Members(pc, cur, PosterLabels, s)) \in Int
  BY <1>3, <1>4
<1> QED
  <2> DEFINE u == IF s \in useable THEN 1 ELSE 0
             u2 == IF s \in useable' THEN 1 ELSE 0
  <2>1. u \in Int /\ u2 \in Int
    OBVIOUS
  <2>2. /\ ioCount[s] = Cardinality(Members(pc, cur, OwnerLabels, s))
                     + Cardinality(Members(pc, cur, PosterLabels, s))
                     + recvIO[s] + sendIO[s] + u
        /\ ioCount'[s] - ioCount[s] =
             Cardinality(Members(pc', cur', OwnerLabels, s))
             - Cardinality(Members(pc, cur, OwnerLabels, s))
             + (Cardinality(Members(pc', cur', PosterLabels, s))
                - Cardinality(Members(pc, cur, PosterLabels, s)))
             + (recvIO'[s] - recvIO[s]) + (sendIO'[s] - sendIO[s]) + u2 - u
    BY <1>2, <1>7
  <2> HIDE DEF u, u2
  <2>3. ioCount'[s] = Cardinality(Members(pc', cur', OwnerLabels, s))
                     + Cardinality(Members(pc', cur', PosterLabels, s))
                     + recvIO'[s] + sendIO'[s] + u2
    BY <1>1, <1>8, <1>9, <2>1, <2>2
  <2> QED
    BY <2>3 DEF u2

\* A reference in sight keeps the count above zero.
LEMMA Counted ==
    ASSUME Types, RefsExact, NEW s \in Slots,
           \/ s \in useable
           \/ recvIO[s] + sendIO[s] > 0
           \/ \E t \in Threads : pc[t] \in OwnerLabels /\ cur[t] = s
    PROVE  ioCount[s] > 0
<1> DEFINE O == Within(OwnerLabels, s)
           P == Within(PosterLabels, s)
<1>1. IsFiniteSet(O) /\ IsFiniteSet(P)
  BY ThreadsFinite, FS_Subset DEF Within
<1>2. Cardinality(O) \in Nat /\ Cardinality(P) \in Nat
  BY <1>1, FS_CardinalityType
<1>3. ioCount[s] = Cardinality(O) + Cardinality(P) + recvIO[s] + sendIO[s]
                   + (IF s \in useable THEN 1 ELSE 0)
  BY DEF RefsExact, Bit
<1>4. recvIO[s] \in Nat /\ sendIO[s] \in Nat
  BY DEF Types
<1>5. CASE \E t \in Threads : pc[t] \in OwnerLabels /\ cur[t] = s
  <2>1. O # {}
    BY <1>5 DEF Within
  <2>2. Cardinality(O) # 0
    BY <1>1, <2>1, FS_EmptySet
  <2> HIDE DEF O, P
  <2> QED
    BY <1>2, <1>3, <1>4, <2>2
<1>6. CASE s \in useable \/ recvIO[s] + sendIO[s] > 0
  <2> HIDE DEF O, P
  <2> QED
    BY <1>2, <1>3, <1>4, <1>6
<1> QED
  BY <1>5, <1>6
--------------------------------------------------------------------------------
(* Every step preserves the types.                                         *)

ThreadTypes ==
    /\ pc \in [Threads -> Labels]
    /\ cur \in [Threads -> Slots \cup {NoSlot}]
    /\ arg \in [Threads -> IDs \cup {NoID}]
    /\ ret \in [Threads -> {"Idle", "Final"}]

LEMMA ReturnTypes ==
    ASSUME Types, NEW t \in Threads, NEW l \in {"Idle", "Final"}, Return(t, l)
    PROVE  ThreadTypes'
BY DEF Types, ThreadTypes, Return, Labels

LEMMA IncType ==
    ASSUME Types, NEW s \in Slots, Inc(s)
    PROVE  ioCount' \in [Slots -> Int]
BY DEF Types, Inc

LEMMA DecTypes ==
    ASSUME Types, NEW t \in Threads, cur[t] \in Slots,
           NEW l \in {"Idle", "Final"}, Dec(t, l)
    PROVE  ThreadTypes' /\ ioCount' \in [Slots -> Int]
<1>1. ioCount' \in [Slots -> Int]
  BY DEF Types, Dec
<1>2. CASE ioCount[cur[t]] = 1
  <2>1. /\ pc' = [pc EXCEPT ![t] = "Release"]
        /\ ret' = [ret EXCEPT ![t] = l]
        /\ cur' = cur /\ arg' = arg
    BY <1>2 DEF Dec
  <2> QED
    BY <1>1, <2>1 DEF Types, ThreadTypes, Labels
<1>3. CASE ioCount[cur[t]] # 1
  BY <1>1, <1>3, ReturnTypes DEF Dec
<1> QED
  BY <1>1, <1>2, <1>3

LEMMA TypesNext == IInv /\ [Next]_vars => Types'
<1> SUFFICES ASSUME IInv, [Next]_vars PROVE Types'
  OBVIOUS
<1> USE SlotsAssumption DEF IInv, Types, Labels, Goto, At,
        slotVars, ioVars, serverVars, eventVars, threadVars
<1>0. \A t \in Threads : pc[t] \notin {"Idle", "Pop"} => cur[t] \in Slots
  BY DEF Roles
<1>1. CASE AcceptorStep
  <2>0. Acceptor \in Threads
    BY DEF Threads
  <2>1. CASE Accept
    BY <2>0, <2>1 DEF Accept
  <2>2. CASE Pop
    BY <2>0, <2>2 DEF Pop
  <2>3. CASE SetID
    BY <2>0, <2>3 DEF SetID, Roles, MakeID, IDs
  <2>4. CASE SetSocket
    BY <2>0, <2>4 DEF SetSocket
  <2>5. CASE ClearFlag
    BY <2>0, <2>5 DEF ClearFlag
  <2>6. CASE Count
    BY <2>0, <2>6 DEF Count
  <2>7. CASE Join
    <3>1. id[cur[Acceptor]] \in IDs
      BY <2>0, <2>7 DEF Join, Roles, HolderSafe, HolderLabels
    <3> QED
      BY <2>0, <2>7, <3>1 DEF Join
  <2> QED
    BY <1>1, <2>1, <2>2, <2>3, <2>4, <2>5, <2>6, <2>7 DEF AcceptorStep
<1>2. ASSUME NEW w \in Workers, WorkerStep(w) PROVE Types'
  <2>0. w \in Threads
    BY DEF Threads
  <2>1. ASSUME NEW s \in Slots, NEW kind \in {"recv", "send"},
               GqcsData(w, s, kind) \/ GqcsZero(w, s, kind)
        PROVE  Types'
    BY <2>0, <2>1 DEF GqcsData, GqcsZero, Take
  <2>2. CASE Deliver(w)
    BY <2>0, <2>2 DEF Deliver
  <2>3. CASE SendDone(w)
    BY <2>0, <2>3 DEF SendDone
  <2> QED
    BY <1>2, <2>1, <2>2, <2>3 DEF WorkerStep
<1>3. ASSUME NEW c \in Callers, CallerStep(c) PROVE Types'
  <2>0. c \in Threads
    BY DEF Threads
  <2>1. ASSUME NEW i \in joined, Call(c, i) PROVE Types'
    BY <2>0, <2>1 DEF Call, IDs
  <2>2. CASE AcqInc(c)
    <3>1. cur[c] \in Slots
      BY <1>0, <2>0, <2>2 DEF AcqInc
    <3> QED
      BY <2>0, <2>2, <3>1, IncType DEF AcqInc
  <2>3. CASE AcqFlag(c)
    BY <2>0, <2>3 DEF AcqFlag
  <2>4. CASE AcqID(c)
    BY <2>0, <2>4 DEF AcqID
  <2>5. CASE AcqUndo(c)
    <3>1. cur[c] \in Slots
      BY <1>0, <2>0, <2>5 DEF AcqUndo
    <3> QED
      BY <2>0, <2>5, <3>1, DecTypes DEF AcqUndo, ThreadTypes
  <2>6. CASE UseSend(c)
    BY <2>0, <2>6 DEF UseSend
  <2>7. CASE UseDisconnect(c)
    <3>1. PICK kinds \in SUBSET {"recv", "send"} :
             cancelled' = [cancelled EXCEPT ![cur[c]] = @ \cup kinds]
      BY <2>7 DEF UseDisconnect
    <3> QED
      BY <2>0, <2>7, <3>1 DEF UseDisconnect
  <2> QED
    BY <1>3, <2>1, <2>2, <2>3, <2>4, <2>5, <2>6, <2>7 DEF CallerStep
<1>4. ASSUME NEW t \in Threads, SharedStep(t) PROVE Types'
  <2>1. CASE RecvInc(t)
    <3>1. cur[t] \in Slots
      BY <1>0, <2>1 DEF RecvInc
    <3> QED
      BY <2>1, <3>1, IncType DEF RecvInc
  <2>2. CASE RecvPost(t)
    BY <2>2 DEF RecvPost
  <2>3. CASE RecvUndo(t)
    <3>1. cur[t] \in Slots
      BY <1>0, <2>3 DEF RecvUndo
    <3> QED
      BY <2>3, <3>1, DecTypes DEF RecvUndo, ThreadTypes
  <2>4. CASE SendTry(t)
    BY ZenonT(60), <2>4 DEF SendTry
  <2>5. CASE SendInc(t)
    <3>1. cur[t] \in Slots
      BY <1>0, <2>5 DEF SendInc
    <3> QED
      BY <2>5, <3>1, IncType DEF SendInc
  <2>6. CASE SendPost(t)
    BY <2>6 DEF SendPost
  <2>7. CASE SendUndo1(t)
    BY <2>7 DEF SendUndo1
  <2>8. CASE SendUndo2(t)
    <3>1. cur[t] \in Slots
      BY <1>0, <2>8 DEF SendUndo2
    <3> QED
      BY <2>8, <3>1, DecTypes DEF SendUndo2, ThreadTypes
  <2>9. CASE Final(t)
    <3>1. cur[t] \in Slots
      BY <1>0, <2>9 DEF Final
    <3> QED
      BY <2>9, <3>1, DecTypes DEF Final, ThreadTypes
  <2>10. CASE Release(t)
    BY <2>10, ReturnTypes DEF Release, ThreadTypes
  <2>11. CASE RelClose(t)
    BY <2>11 DEF RelClose, Roles
  <2>12. CASE RelInc(t)
    <3>1. cur[t] \in Slots
      BY <1>0, <2>12 DEF RelInc
    <3> QED
      BY <2>12, <3>1, IncType DEF RelInc
  <2>13. CASE RelLeave(t)
    BY <2>13 DEF RelLeave, Roles
  <2>14. CASE RelPush(t)
    BY <2>14 DEF RelPush, Roles
  <2>15. CASE RelCount(t)
    BY <2>15, ReturnTypes DEF RelCount, ThreadTypes
  <2> QED
    BY <1>4, <2>1, <2>2, <2>3, <2>4, <2>5, <2>6, <2>7, <2>8, <2>9, <2>10,
       <2>11, <2>12, <2>13, <2>14, <2>15 DEF SharedStep
<1>5. ASSUME NEW s \in Slots, Break(s) PROVE Types'
  BY <1>5 DEF Break
<1>6. CASE UNCHANGED vars
  BY <1>6 DEF vars
<1> QED
  BY <1>1, <1>2, <1>3, <1>4, <1>5, <1>6 DEF Next
--------------------------------------------------------------------------------
(* Steps that leave the slots' phases alone.                               *)

LEMMA LabelsApart ==
    /\ \A l \in {"Idle", "Pop", "Release", "RelCount", "AcqInc", "AcqFlag",
                  "AcqID", "AcqUndo", "Use"} :
          l \notin SetupLabels \cup ReleaseLabels
    /\ \A l \in HolderLabels : l \notin SetupLabels \cup ReleaseLabels
BY DEF SetupLabels, ReleaseLabels, HolderLabels

LEMMA LiveSame ==
    ASSUME Types, NEW t \in Threads, NEW l, NEW s,
           pc' = [pc EXCEPT ![t] = l],
           \A u \in Threads \ {t} : cur'[u] = cur[u],
           flag'[s] = flag[s], s \in useable' <=> s \in useable,
           l \notin SetupLabels, pc[t] \notin SetupLabels
    PROVE  Live(s)' <=> Live(s)
<1>1. {u \in Threads : pc'[u] \in SetupLabels /\ cur'[u] = s}
        = {u \in Threads : pc[u] \in SetupLabels /\ cur[u] = s}
  BY DEF Types
<1> QED
  BY <1>1 DEF Live, Within

LEMMA Calm ==
    ASSUME Types, Types', Roles, Exclusive, Released, Returns, HolderSafe,
           NEW t \in Threads, NEW l,
           pc' = [pc EXCEPT ![t] = l],
           \A u \in Threads \ {t} :
              cur'[u] = cur[u] /\ arg'[u] = arg[u] /\ ret'[u] = ret[u],
           UNCHANGED <<id, sock, flag, useable, joined, uniqueID>>,
           l \in {"Release", "RelCount"} => ret'[t] = "Idle",
           l \notin SetupLabels \cup ReleaseLabels,
           pc[t] \notin SetupLabels \cup ReleaseLabels,
           l \in AcceptorLabels => t = Acceptor,
           l = "Pop" => uniqueID < MaxUnique,
           l \notin {"Idle", "Pop"} => cur'[t] \in Slots,
           l \in CallerLabels => arg'[t] \in joined /\ IndexOf(arg'[t]) = cur'[t],
           l \in HolderLabels => Live(cur'[t]),
           l = "Use" => id[cur'[t]] = arg'[t],
           \A s \in Slots : recvIO'[s] + sendIO'[s] > 0 => Live(s)
    PROVE  Roles' /\ Exclusive' /\ Released' /\ Returns' /\ HolderSafe'
<1>0. /\ pc'[t] = l
      /\ \A u \in Threads \ {t} : pc'[u] = pc[u]
  BY DEF Types
<1>1. Roles'
  <2> SUFFICES ASSUME NEW u \in Threads
               PROVE  /\ pc'[u] \in AcceptorLabels => u = Acceptor
                      /\ pc'[u] \notin {"Idle", "Pop"} => cur'[u] \in Slots
                      /\ pc'[u] \in CallerLabels => arg'[u] \in joined /\ IndexOf(arg'[u]) = cur'[u]
                      /\ pc'[u] \in {"SetSocket", "ClearFlag", "RelClose"} =>
                            id[cur'[u]] \in IDs /\ IndexOf(id[cur'[u]]) = cur'[u]
                      /\ pc'[u] = "ClearFlag" => sock[cur'[u]] # "none"
                      /\ pc'[u] = "SetID" => uniqueID < MaxUnique
                      /\ pc'[u] = "Pop" => uniqueID < MaxUnique
                      /\ pc'[u] \in {"RelInc", "RelLeave", "RelPush"} =>
                            arg'[u] \in IDs /\ IndexOf(arg'[u]) = cur'[u]
    BY DEF Roles
  <2>1. CASE u = t
    BY <1>0, <2>1 DEF AcceptorLabels, SetupLabels, ReleaseLabels
  <2>2. CASE u # t
    BY <1>0, <2>2 DEF Roles
  <2> QED
    BY <2>1, <2>2
<1>2. Exclusive'
  BY <1>0 DEF Exclusive
<1>3. Released'
  BY <1>0 DEF Released, Unused
<1>6. Returns'
  BY <1>0 DEF Returns
<1>4. \A s : Live(s)' <=> Live(s)
  <2> TAKE s
  <2> QED
    BY LiveSame
<1>5. HolderSafe'
  <2>1. ASSUME NEW u \in Threads, pc'[u] \in HolderLabels
        PROVE  Live(cur'[u]) /\ (pc'[u] = "Use" => id[cur'[u]] = arg'[u])
    <3>1. CASE u = t
      BY <1>0, <2>1, <3>1
    <3>2. CASE u # t
      BY <1>0, <2>1, <3>2 DEF HolderSafe
    <3> QED
      BY <3>1, <3>2
  <2>2. ASSUME NEW s \in Slots, Live(s)
        PROVE  sock[s] # "none" /\ id[s] \in IDs /\ IndexOf(id[s]) = s
    BY <2>2 DEF HolderSafe
  <2> QED
    BY <1>4, <2>1, <2>2 DEF HolderSafe
<1> QED
  BY <1>1, <1>2, <1>3, <1>5, <1>6
\* A thread that is posting holds two references.
LEMMA CountedTwice ==
    ASSUME Types, RefsExact, NEW t \in Threads, cur[t] \in Slots,
           pc[t] \in PosterLabels
    PROVE  ioCount[cur[t]] > 1
<1> DEFINE O == Within(OwnerLabels, cur[t])
           P == Within(PosterLabels, cur[t])
<1>1. IsFiniteSet(O) /\ IsFiniteSet(P)
  BY ThreadsFinite, FS_Subset DEF Within
<1>2. Cardinality(O) \in Nat /\ Cardinality(P) \in Nat
  BY <1>1, FS_CardinalityType
<1>3. ioCount[cur[t]] = Cardinality(O) + Cardinality(P)
                        + recvIO[cur[t]] + sendIO[cur[t]]
                        + (IF cur[t] \in useable THEN 1 ELSE 0)
  BY DEF RefsExact, Bit
<1>4. recvIO[cur[t]] \in Nat /\ sendIO[cur[t]] \in Nat
  BY DEF Types
<1>5. t \in O /\ t \in P
  BY LabelFacts DEF Within
<1>6. Cardinality(O) # 0 /\ Cardinality(P) # 0
  BY <1>1, <1>5, FS_EmptySet
<1> HIDE DEF O, P
<1> QED
  BY <1>2, <1>3, <1>4, <1>6

\* Giving a reference back.
LEMMA DecStep ==
    ASSUME IInv, Types', NEW t \in Threads, NEW l,
           \/ pc[t] \in {"AcqUndo", "Final"} /\ l = "Idle"
           \/ pc[t] \in {"RecvUndo", "SendUndo2"} /\ l = "Final",
           Dec(t, l),
           UNCHANGED <<id, sock, flag, sending, recvIO, sendIO, cancelled, useable,
                       sessionCount, uniqueID, joined, left>>
    PROVE  IInv'
<1> USE DEF IInv
<1>1. cur[t] \in Slots
  BY DEF Roles
<1>2. PICK k \in {"Release", l} :
        /\ pc' = [pc EXCEPT ![t] = k]
        /\ pc'[t] = k /\ \A u \in Threads \ {t} : pc'[u] = pc[u]
        /\ k = "Release" <=> ioCount[cur[t]] = 1
        /\ \A u \in Threads \ {t} :
              cur'[u] = cur[u] /\ arg'[u] = arg[u] /\ ret'[u] = ret[u]
        /\ k = "Release" => ret'[t] = l
        /\ k # "Idle" => cur'[t] = cur[t]
        /\ k = "Idle" => cur'[t] = NoSlot
        /\ ioCount' = [ioCount EXCEPT ![cur[t]] = @ - 1]
  <2>1. CASE ioCount[cur[t]] = 1
    BY <2>1 DEF Dec, Types
  <2>2. CASE ioCount[cur[t]] # 1
    BY <2>2 DEF Dec, Return, Types
  <2> QED
    BY <2>1, <2>2
<1>3. pc[t] \in {"RecvUndo", "SendUndo2"} => k = "Final"
  BY <1>1, <1>2, CountedTwice DEF PosterLabels
<1>4. RefsExact'
  <2>1. ASSUME NEW s \in Slots
        PROVE  ioCount'[s] - ioCount[s] =
                 Share(pc'[t], cur'[t], s) - Share(pc[t], cur[t], s)
    <3>1. CASE s = cur[t]
      <4>1. ioCount'[s] - ioCount[s] = -1
        BY <1>1, <1>2, <3>1 DEF Types
      <4>2. CASE pc[t] \in {"RecvUndo", "SendUndo2"}
        BY <1>2, <1>3, <3>1, <4>1, <4>2 DEF Share, OwnerLabels, PosterLabels
      <4>3. CASE pc[t] \in {"AcqUndo", "Final"}
        BY <1>2, <3>1, <4>1, <4>3 DEF Share, OwnerLabels, PosterLabels
      <4> QED
        BY <4>2, <4>3
    <3>2. CASE s # cur[t]
      BY <1>2, <3>2, SlotsAssumption DEF Share, Types
    <3> QED
      BY <3>1, <3>2
  <2>2. \A s \in Slots :
          /\ recvIO'[s] \in Nat /\ sendIO'[s] \in Nat /\ ioCount'[s] \in Int
          /\ recvIO'[s] - recvIO[s] = 0 /\ sendIO'[s] - sendIO[s] = 0
    BY DEF Types
  <2>3. \A s \in Slots : /\ Share(pc'[t], cur'[t], s) - Share(pc[t], cur[t], s) \in Int
    BY DEF Share
  <2>4. \A s \in Slots :
              ioCount'[s] - ioCount[s] =
                   Share(pc'[t], cur'[t], s) - Share(pc[t], cur[t], s)
                   + (recvIO'[s] - recvIO[s]) + (sendIO'[s] - sendIO[s])
                   + (IF s \in useable' THEN 1 ELSE 0)
                   - (IF s \in useable THEN 1 ELSE 0)
    BY <2>1, <2>2, <2>3
  <2> QED
    BY <1>2, <2>2, <2>4, RefsStep
<1>5. Roles' /\ Exclusive' /\ Released' /\ Returns' /\ HolderSafe'
  <2>1. k \in {"Release", "Idle", "Final"}
    BY <1>2
  <2>2. pc[t] \in {"RecvUndo", "SendUndo2", "Final"} => Live(cur[t])
    BY DEF HolderSafe, HolderLabels
  <2>3. k = "Final" => Live(cur'[t])
    BY <1>2, <2>2
  <2>4. \A s \in Slots : recvIO'[s] + sendIO'[s] > 0 => Live(s)
    BY DEF HolderSafe
  <2>5. k = "Release" => ret'[t] = "Idle"
    BY <1>2, <1>3
  <2> QED
    BY <1>1, <1>2, <2>1, <2>3, <2>4, <2>5, Calm
       DEF SetupLabels, ReleaseLabels, AcceptorLabels, CallerLabels, HolderLabels
<1> QED
  BY <1>4, <1>5
Weight(l) == IF l \in OwnerLabels THEN IF l \in PosterLabels THEN 2 ELSE 1 ELSE 0

\* A thread goes on within the slot it works on.
LEMMA RefsStay ==
    ASSUME Types, Types', RefsExact, NEW t \in Threads, cur[t] \in Slots, NEW l,
           pc' = [pc EXCEPT ![t] = l],
           UNCHANGED <<cur, useable>>,
           \A s \in Slots \ {cur[t]} :
              ioCount'[s] = ioCount[s] /\ recvIO'[s] = recvIO[s] /\ sendIO'[s] = sendIO[s],
           ioCount'[cur[t]] - ioCount[cur[t]] =
              Weight(l) - Weight(pc[t])
              + (recvIO'[cur[t]] - recvIO[cur[t]]) + (sendIO'[cur[t]] - sendIO[cur[t]])
    PROVE  RefsExact'
<1>0. pc'[t] = l
  BY DEF Types
<1>1. \A s \in Slots : ioCount[s] \in Int /\ recvIO[s] \in Nat /\ sendIO[s] \in Nat
  BY DEF Types
<1>2. \A s \in Slots : ioCount'[s] \in Int /\ recvIO'[s] \in Nat /\ sendIO'[s] \in Nat
  BY DEF Types
<1>3. ASSUME NEW s \in Slots
      PROVE  ioCount'[s] - ioCount[s] =
                 Share(pc'[t], cur'[t], s) - Share(pc[t], cur[t], s)
                 + (recvIO'[s] - recvIO[s]) + (sendIO'[s] - sendIO[s])
                 + (IF s \in useable' THEN 1 ELSE 0)
                 - (IF s \in useable THEN 1 ELSE 0)
  <2>1. CASE s = cur[t]
    BY <1>0, <1>1, <1>2, <2>1 DEF Share, Weight
  <2>2. CASE s # cur[t]
    BY <1>1, <1>2, <2>2 DEF Share
  <2> QED
    BY <2>1, <2>2
<1>4. \A u \in Threads \ {t} : pc'[u] = pc[u] /\ cur'[u] = cur[u]
  BY DEF Types
<1> QED
  BY <1>2, <1>3, <1>4, RefsStep

LEMMA RefsSame ==
    ASSUME Types, Types', RefsExact, NEW t \in Threads, cur[t] \in Slots, NEW l,
           pc' = [pc EXCEPT ![t] = l],
           UNCHANGED <<cur, useable, ioCount, recvIO, sendIO>>,
           Weight(l) = Weight(pc[t])
    PROVE  RefsExact'
<1>1. \A s \in Slots : ioCount[s] \in Int /\ recvIO[s] \in Nat /\ sendIO[s] \in Nat
  BY DEF Types
<1>2. Weight(l) \in Nat
  BY DEF Weight
<1>3. ioCount'[cur[t]] - ioCount[cur[t]] =
              Weight(l) - Weight(pc[t])
              + (recvIO'[cur[t]] - recvIO[cur[t]]) + (sendIO'[cur[t]] - sendIO[cur[t]])
  BY <1>1, <1>2
<1> QED
  BY <1>3, RefsStay

LEMMA StayStep ==
    ASSUME IInv, Types', NEW t \in Threads, cur[t] \in Slots, NEW l,
           pc' = [pc EXCEPT ![t] = l],
           UNCHANGED <<cur, arg, ret, id, sock, flag, useable, joined, uniqueID>>,
           l \notin SetupLabels \cup ReleaseLabels \cup {"Idle", "Pop", "Release", "RelCount"},
           pc[t] \notin SetupLabels \cup ReleaseLabels,
           l \in AcceptorLabels => t = Acceptor,
           l \in CallerLabels => pc[t] \in CallerLabels,
           l \in HolderLabels => Live(cur[t]),
           l = "Use" => id[cur[t]] = arg[t],
           recvIO'[cur[t]] + sendIO'[cur[t]] > 0 => Live(cur[t]),
           \A s \in Slots \ {cur[t]} :
              ioCount'[s] = ioCount[s] /\ recvIO'[s] = recvIO[s] /\ sendIO'[s] = sendIO[s],
           ioCount'[cur[t]] - ioCount[cur[t]] =
              Weight(l) - Weight(pc[t])
              + (recvIO'[cur[t]] - recvIO[cur[t]]) + (sendIO'[cur[t]] - sendIO[cur[t]])
    PROVE  IInv'
<1> USE DEF IInv
<1>1. RefsExact'
  BY RefsStay
<1>2. \A s \in Slots : recvIO'[s] + sendIO'[s] > 0 => Live(s)
  BY DEF HolderSafe
<1>3. Roles' /\ Exclusive' /\ Released' /\ Returns' /\ HolderSafe'
  <2>1. pc[t] \in CallerLabels => arg[t] \in joined /\ IndexOf(arg[t]) = cur[t]
    BY DEF Roles
  <2> QED
    BY <1>2, <2>1, Calm
<1> QED
  BY <1>1, <1>3

\* ... touching no counter
LEMMA StaySame ==
    ASSUME IInv, Types', NEW t \in Threads, NEW l,
           pc' = [pc EXCEPT ![t] = l],
           UNCHANGED <<cur, arg, ret, id, sock, flag, useable, joined, uniqueID,
                       ioCount, recvIO, sendIO>>,
           l \notin SetupLabels \cup ReleaseLabels \cup {"Idle", "Pop", "Release", "RelCount"},
           pc[t] \notin SetupLabels \cup ReleaseLabels \cup {"Idle", "Pop"},
           l \in AcceptorLabels => t = Acceptor,
           l \in CallerLabels => pc[t] \in CallerLabels,
           l \in HolderLabels => Live(cur[t]),
           l = "Use" => id[cur[t]] = arg[t],
           Weight(l) = Weight(pc[t])
    PROVE  IInv'
<1> USE DEF IInv
<1>1. cur[t] \in Slots
  BY DEF Roles
<1>2. /\ ioCount[cur[t]] \in Int /\ recvIO[cur[t]] \in Nat /\ sendIO[cur[t]] \in Nat
      /\ Weight(l) \in Nat
  BY <1>1 DEF Types, Weight
<1>3. recvIO'[cur[t]] + sendIO'[cur[t]] > 0 => Live(cur[t])
  BY <1>1 DEF HolderSafe
<1>4. ioCount'[cur[t]] - ioCount[cur[t]] =
              Weight(l) - Weight(pc[t])
              + (recvIO'[cur[t]] - recvIO[cur[t]]) + (sendIO'[cur[t]] - sendIO[cur[t]])
  BY <1>2
<1> QED
  BY <1>1, <1>3, <1>4, StayStep

--------------------------------------------------------------------------------
(* Steps that move a slot from one phase to the next.                      *)

LEMMA LiveNext ==
    ASSUME NEW s
    PROVE  Live(s)' <=> /\ flag'[s] = 0 /\ s \notin useable'
                        /\ Members(pc', cur', SetupLabels, s) = {}
BY DEF Live, Within, Members

LEMMA LiveOfNext ==
    ASSUME NEW u
    PROVE  Live(cur[u])' <=> /\ flag'[cur'[u]] = 0 /\ cur'[u] \notin useable'
                             /\ Members(pc', cur', SetupLabels, cur'[u]) = {}
BY DEF Live, Within, Members

\* HolderSafe survives whatever happens to slots that are not live.
LEMMA HolderKeep ==
    ASSUME Types, Types', Roles, HolderSafe, NEW t \in Threads,
           \A u \in Threads \ {t} :
              pc'[u] = pc[u] /\ cur'[u] = cur[u] /\ arg'[u] = arg[u],
           pc'[t] # "Use",
           pc'[t] \in HolderLabels => cur'[t] \in Slots,
           \A s \in Slots :
              /\ pc'[t] \in HolderLabels /\ cur'[t] = s => Live(s)'
              /\ \A u \in Threads \ {t} :
                    pc[u] \in HolderLabels /\ cur[u] = s => Live(s)'
              /\ recvIO[s] + sendIO[s] > 0 => Live(s)'
              /\ Live(s)' => sock'[s] # "none" /\ id'[s] \in IDs /\ IndexOf(id'[s]) = s
              /\ Live(s) /\ Live(s)' => id'[s] = id[s],
           UNCHANGED <<recvIO, sendIO>>
    PROVE  HolderSafe'
<1>1. ASSUME NEW u \in Threads, pc'[u] \in HolderLabels
      PROVE  \E s \in Slots :
                /\ cur'[u] = s /\ Live(s)'
                /\ pc'[u] = "Use" => id'[s] = arg'[u]
  <2>1. CASE u = t
    BY <1>1, <2>1
  <2>2. CASE u # t
    <3>1. pc[u] \in HolderLabels /\ cur'[u] = cur[u] /\ arg'[u] = arg[u]
      BY <1>1, <2>2
    <3>2. Live(cur[u]) /\ (pc[u] = "Use" => id[cur[u]] = arg[u])
      BY <2>2, <3>1 DEF HolderSafe
    <3>3. cur[u] \in Slots
      BY <3>1 DEF Roles, HolderLabels
    <3>4. PICK s \in Slots : s = cur[u]
      BY <3>3
    <3>5. Live(s)' /\ Live(s)
      BY <2>2, <3>1, <3>2, <3>4
    <3>6. id'[s] = id[s]
      BY <3>5
    <3> QED
      BY <2>2, <3>1, <3>2, <3>4, <3>5, <3>6
  <2> QED
    BY <2>1, <2>2
<1>2. ASSUME NEW u \in Threads, pc'[u] \in HolderLabels
      PROVE  Live(cur[u])' /\ (pc'[u] = "Use" => id'[cur'[u]] = arg'[u])
  <2>1. PICK s \in Slots :
           /\ cur'[u] = s /\ Live(s)'
           /\ pc'[u] = "Use" => id'[s] = arg'[u]
    BY <1>1, <1>2
  <2>2. flag'[s] = 0 /\ s \notin useable' /\ Members(pc', cur', SetupLabels, s) = {}
    BY <2>1, LiveNext
  <2>3. /\ flag'[cur'[u]] = 0 /\ cur'[u] \notin useable'
        /\ Members(pc', cur', SetupLabels, cur'[u]) = {}
    BY <2>1, <2>2
  <2>4. Live(cur[u])'
    BY <2>3, LiveOfNext
  <2> QED
    BY <2>1, <2>4
<1> QED
  BY <1>2 DEF HolderSafe

\* The thread that has the slot to itself rewrites it.
LEMMA PhaseStep ==
    ASSUME Types, Types', Roles, Exclusive, Released, Returns, HolderSafe,
           NEW t \in Threads, NEW l,
           \/ pc[t] \in SetupLabels /\ l \in SetupLabels
           \/ pc[t] \in ReleaseLabels /\ l \in ReleaseLabels,
           pc' = [pc EXCEPT ![t] = l],
           \A u \in Threads \ {t} : arg'[u] = arg[u],
           \A s \in Slots \ {cur[t]} : id'[s] = id[s] /\ sock'[s] = sock[s],
           UNCHANGED <<cur, ret, flag, useable, joined, recvIO, sendIO>>
    PROVE  Exclusive' /\ Released' /\ Returns' /\ HolderSafe'
<1>0. /\ pc'[t] = l
      /\ \A u \in Threads \ {t} : pc'[u] = pc[u]
  BY DEF Types
<1>1. Exclusive'
  BY <1>0, LabelFacts DEF Exclusive
<1>8. Released'
  BY <1>0, LabelFacts DEF Released, Unused
<1>9. Returns'
  BY <1>0, LabelFacts, LabelsApart DEF Returns
<1>2. \A s : Live(s)' <=> Live(s)
  <2> TAKE s
  <2>1. {u \in Threads : pc'[u] \in SetupLabels /\ cur'[u] = s}
          = {u \in Threads : pc[u] \in SetupLabels /\ cur[u] = s}
    BY <1>0, LabelFacts
  <2> QED
    BY <2>1 DEF Live, Within
<1>3. ~ Live(cur[t])
  <2>1. CASE pc[t] \in SetupLabels
    BY <2>1 DEF Live, Within
  <2>2. CASE pc[t] \in ReleaseLabels
    BY <2>2 DEF Live, Released
  <2> QED
    BY <2>1, <2>2
<1>4. l \notin HolderLabels /\ l # "Use"
  BY LabelFacts DEF HolderLabels
<1>5. ASSUME NEW s \in Slots
      PROVE  /\ \A u \in Threads \ {t} :
                   pc[u] \in HolderLabels /\ cur[u] = s => Live(s)'
             /\ recvIO[s] + sendIO[s] > 0 => Live(s)'
             /\ Live(s)' => sock'[s] # "none" /\ id'[s] \in IDs /\ IndexOf(id'[s]) = s
             /\ Live(s) /\ Live(s)' => id'[s] = id[s]
  <2>1. Live(s)' <=> Live(s)
    BY <1>2
  <2>2. Live(s) => id'[s] = id[s] /\ sock'[s] = sock[s]
    BY <1>3
  <2> QED
    BY <1>4, <2>1, <2>2 DEF HolderSafe
<1>7. HolderSafe'
  BY <1>0, <1>4, <1>5, HolderKeep
<1> QED
  BY <1>1, <1>7, <1>8, <1>9
LEMMA PopStep == IInv /\ Types' /\ Pop => IInv'
<1> SUFFICES ASSUME IInv, Types', Pop PROVE IInv'
  OBVIOUS
<1> USE DEF IInv
<1> DEFINE t == Acceptor
<1>0. t \in Threads
  BY DEF Threads
<1>1. PICK s \in useable :
         /\ useable' = useable \ {s}
         /\ cur' = [cur EXCEPT ![t] = s]
         /\ pc[t] = "Pop" /\ pc' = [pc EXCEPT ![t] = "SetID"]
         /\ UNCHANGED <<slotVars, ioVars, sessionCount, uniqueID, eventVars, arg, ret>>
  BY DEF Pop, At
<1>2. /\ s \in Slots /\ pc'[t] = "SetID" /\ cur'[t] = s
      /\ \A u \in Threads \ {t} : pc'[u] = pc[u] /\ cur'[u] = cur[u] /\ arg'[u] = arg[u]
      /\ UNCHANGED <<id, sock, flag, ioCount, recvIO, sendIO, joined, arg, ret>>
  BY <1>0, <1>1 DEF Types, slotVars, ioVars, eventVars
<1>3. RefsExact'
  <2>1. ASSUME NEW r \in Slots
        PROVE  ioCount'[r] - ioCount[r] =
                   Share(pc'[t], cur'[t], r) - Share(pc[t], cur[t], r)
                   + (recvIO'[r] - recvIO[r]) + (sendIO'[r] - sendIO[r])
                   + (IF r \in useable' THEN 1 ELSE 0)
                   - (IF r \in useable THEN 1 ELSE 0)
    <3>1. /\ ioCount'[r] = ioCount[r] /\ recvIO'[r] = recvIO[r] /\ sendIO'[r] = sendIO[r]
          /\ ioCount[r] \in Int /\ recvIO[r] \in Int /\ sendIO[r] \in Int
      BY <1>2 DEF Types
    <3>2. /\ Share(pc'[t], cur'[t], r) = (IF r = s THEN 1 ELSE 0)
          /\ Share(pc[t], cur[t], r) = 0
      BY <1>1, <1>2 DEF Share, OwnerLabels, PosterLabels
    <3> QED
      BY <1>1, <3>1, <3>2
  <2>2. \A r \in Slots : /\ recvIO'[r] \in Nat /\ sendIO'[r] \in Nat /\ ioCount'[r] \in Int
    BY DEF Types
  <2> QED
    BY <1>0, <1>1, <1>2, <2>1, <2>2, RefsStep
<1>4. Roles'
  BY <1>0, <1>1, <1>2 DEF Roles, AcceptorLabels, SetupLabels, CallerLabels
<1>5. Exclusive'
  BY <1>0, <1>1, <1>2 DEF Exclusive, SetupLabels, ReleaseLabels
<1>6. Released'
  BY <1>0, <1>1, <1>2 DEF Released, Unused, SetupLabels, ReleaseLabels
<1>7. Returns'
  BY <1>0, <1>1, <1>2 DEF Returns, SetupLabels, ReleaseLabels
<1>8. HolderSafe'
  <2>1. ASSUME NEW r \in Slots PROVE Live(r)' <=> Live(r)
    <3>1. CASE r = s
      <4>1. t \in Members(pc', cur', SetupLabels, r)
        BY <1>0, <1>2, <3>1 DEF Members, SetupLabels
      <4> QED
        BY <3>1, <4>1, LiveNext DEF Live
    <3>2. CASE r # s
      <4>1. Members(pc', cur', SetupLabels, r) = Within(SetupLabels, r)
        BY <1>1, <1>2, <3>2 DEF Members, Within, SetupLabels
      <4>2. flag'[r] = flag[r] /\ (r \in useable' <=> r \in useable)
        BY <1>1, <1>2, <3>2
      <4> QED
        BY <4>1, <4>2, LiveNext DEF Live
    <3> QED
      BY <3>1, <3>2
  <2>2. "SetID" \notin HolderLabels
    BY DEF HolderLabels
  <2>3. ASSUME NEW r \in Slots
        PROVE  /\ \A u \in Threads \ {t} :
                     pc[u] \in HolderLabels /\ cur[u] = r => Live(r)'
               /\ recvIO[r] + sendIO[r] > 0 => Live(r)'
               /\ Live(r)' => sock'[r] # "none" /\ id'[r] \in IDs /\ IndexOf(id'[r]) = r
               /\ Live(r) /\ Live(r)' => id'[r] = id[r]
    <3>1. Live(r)' <=> Live(r)
      BY <2>1
    <3> QED
      BY <1>2, <3>1 DEF HolderSafe
  <2> QED
    BY <1>0, <1>1, <1>2, <2>2, <2>3, HolderKeep
<1> QED
  BY <1>3, <1>4, <1>5, <1>6, <1>7, <1>8

LEMMA SetIDStep == IInv /\ Types' /\ SetID => IInv'
<1> SUFFICES ASSUME IInv, Types', SetID PROVE IInv'
  OBVIOUS
<1> USE DEF IInv
<1> DEFINE t == Acceptor
           c == cur[t]
<1>0. t \in Threads
  BY DEF Threads
<1>1. /\ pc[t] = "SetID" /\ pc' = [pc EXCEPT ![t] = "SetSocket"]
      /\ id' = [id EXCEPT ![c] = <<uniqueID, c>>]
      /\ UNCHANGED <<cur, arg, ret, sock, flag, ioCount, recvIO, sendIO, useable, joined>>
  BY DEF SetID, At, Goto, MakeID, ioVars, eventVars
<1>2. c \in Slots /\ uniqueID < MaxUnique
  BY <1>0, <1>1 DEF Roles
<1>3. id'[c] = <<uniqueID, c>> /\ id'[c] \in IDs /\ IndexOf(id'[c]) = c
  BY <1>1, <1>2, SlotsAssumption DEF Types, IDs
<1>4. RefsExact'
  <2>1. Weight("SetID") = 1 /\ Weight("SetSocket") = 1
    BY DEF Weight, OwnerLabels, PosterLabels
  <2> QED
    BY <1>0, <1>1, <1>2, <2>1, RefsSame
<1>5. Exclusive' /\ Released' /\ Returns' /\ HolderSafe'
  <2>1. \A s \in Slots \ {c} : id'[s] = id[s] /\ sock'[s] = sock[s]
    BY <1>1, <1>2 DEF Types
  <2> QED
    BY <1>0, <1>1, <2>1, PhaseStep DEF SetupLabels
<1>6. Roles'
  <2> SUFFICES ASSUME NEW u \in Threads
               PROVE  /\ pc'[u] \in AcceptorLabels => u = Acceptor
                      /\ pc'[u] \notin {"Idle", "Pop"} => cur'[u] \in Slots
                      /\ pc'[u] \in CallerLabels => arg'[u] \in joined' /\ IndexOf(arg'[u]) = cur'[u]
                      /\ pc'[u] \in {"SetSocket", "ClearFlag", "RelClose"} =>
                            id'[cur'[u]] \in IDs /\ IndexOf(id'[cur'[u]]) = cur'[u]
                      /\ pc'[u] = "ClearFlag" => sock'[cur'[u]] # "none"
                      /\ pc'[u] = "SetID" => uniqueID' < MaxUnique
                      /\ pc'[u] = "Pop" => uniqueID' < MaxUnique
                      /\ pc'[u] \in {"RelInc", "RelLeave", "RelPush"} =>
                            arg'[u] \in IDs /\ IndexOf(arg'[u]) = cur'[u]
    BY DEF Roles
  <2>1. CASE u = t
    BY <1>0, <1>1, <1>2, <1>3, <2>1 DEF Types, AcceptorLabels, SetupLabels, CallerLabels
  <2>2. CASE u # t
    <3>1. pc'[u] = pc[u] /\ cur'[u] = cur[u] /\ arg'[u] = arg[u]
      BY <1>1, <2>2 DEF Types
    <3>2. pc[u] \notin {"SetID", "SetSocket", "ClearFlag", "Pop", "Count", "Join"}
      BY <2>2 DEF Roles, AcceptorLabels, SetupLabels
    <3>3. pc[u] = "RelClose" => cur[u] # c
      BY <1>0, <1>1, <2>2 DEF Exclusive, SetupLabels, ReleaseLabels
    <3>4. pc[u] = "RelClose" => id'[cur[u]] = id[cur[u]]
      BY <1>1, <3>3 DEF Roles, Types
    <3> QED
      BY <1>1, <3>1, <3>2, <3>4 DEF Roles, AcceptorLabels, SetupLabels
  <2> QED
    BY <2>1, <2>2
<1> QED
  BY <1>4, <1>5, <1>6

LEMMA SetSocketStep == IInv /\ Types' /\ SetSocket => IInv'
<1> SUFFICES ASSUME IInv, Types', SetSocket PROVE IInv'
  OBVIOUS
<1> USE DEF IInv
<1> DEFINE t == Acceptor
           c == cur[t]
<1>0. t \in Threads
  BY DEF Threads
<1>1. /\ pc[t] = "SetSocket" /\ pc' = [pc EXCEPT ![t] = "ClearFlag"]
      /\ sock' = [sock EXCEPT ![c] = "open"]
      /\ UNCHANGED <<cur, arg, ret, id, flag, ioCount, recvIO, sendIO, useable,
                     joined, uniqueID>>
  BY DEF SetSocket, At, Goto, ioVars, eventVars, serverVars
<1>2. c \in Slots
  BY <1>0, <1>1 DEF Roles
<1>3. sock'[c] # "none"
  BY <1>1, <1>2 DEF Types
<1>4. RefsExact'
  <2>1. Weight("SetSocket") = 1 /\ Weight("ClearFlag") = 1
    BY DEF Weight, OwnerLabels, PosterLabels
  <2> QED
    BY <1>0, <1>1, <1>2, <2>1, RefsSame
<1>5. Exclusive' /\ Released' /\ Returns' /\ HolderSafe'
  <2>1. \A s \in Slots \ {c} : id'[s] = id[s] /\ sock'[s] = sock[s]
    BY <1>1, <1>2 DEF Types
  <2> QED
    BY <1>0, <1>1, <2>1, PhaseStep DEF SetupLabels
<1>6. Roles'
  <2>1. \A u \in Threads \ {t} : pc'[u] = pc[u] /\ pc[u] \notin AcceptorLabels
    BY <1>1 DEF Roles, Types
  <2>2. pc'[t] = "ClearFlag"
    BY <1>0, <1>1 DEF Types
  <2> QED
    BY <1>0, <1>1, <1>2, <1>3, <2>1, <2>2 DEF Roles, AcceptorLabels, SetupLabels, CallerLabels
<1> QED
  BY <1>4, <1>5, <1>6

LEMMA ClearFlagStep == IInv /\ Types' /\ ClearFlag => IInv'
<1> SUFFICES ASSUME IInv, Types', ClearFlag PROVE IInv'
  OBVIOUS
<1> USE DEF IInv
<1> DEFINE t == Acceptor
           c == cur[t]
<1>0. t \in Threads
  BY DEF Threads
<1>1. /\ pc[t] = "ClearFlag" /\ pc' = [pc EXCEPT ![t] = "Count"]
      /\ flag' = [flag EXCEPT ![c] = 0]
      /\ UNCHANGED <<cur, arg, ret, id, sock, ioCount, recvIO, sendIO, useable,
                     joined, uniqueID>>
  BY DEF ClearFlag, At, Goto, ioVars, eventVars, serverVars
<1>2. /\ c \in Slots /\ pc'[t] = "Count"
      /\ \A u \in Threads \ {t} : pc'[u] = pc[u]
      /\ flag'[c] = 0 /\ \A s \in Slots \ {c} : flag'[s] = flag[s]
  BY <1>0, <1>1 DEF Roles, Types
<1>3. /\ id[c] \in IDs /\ IndexOf(id[c]) = c /\ sock[c] # "none"
      /\ c \notin useable
      /\ \A u \in Threads \ {t} : cur[u] = c => pc[u] \notin SetupLabels \cup ReleaseLabels
  BY <1>0, <1>1 DEF Roles, Exclusive, SetupLabels
<1>4. RefsExact'
  <2>1. Weight("ClearFlag") = 1 /\ Weight("Count") = 1
    BY DEF Weight, OwnerLabels, PosterLabels
  <2> QED
    BY <1>0, <1>1, <1>2, <2>1, RefsSame
<1>5. Roles'
  BY <1>0, <1>1, <1>2 DEF Roles, AcceptorLabels, SetupLabels, CallerLabels
<1>6. Exclusive'
  BY <1>0, <1>1, <1>2 DEF Exclusive, SetupLabels, ReleaseLabels
<1>7. Released'
  <2>1. \A u \in Threads : pc'[u] \in SetupLabels \cup ReleaseLabels =>
           /\ u # t /\ pc'[u] = pc[u] /\ cur[u] \in Slots /\ cur[u] # c
    BY <1>2, <1>3 DEF Roles, SetupLabels, ReleaseLabels
  <2>2. \A s \in useable : s \in Slots \ {c}
    BY <1>3 DEF Types
  <2> QED
    BY <1>1, <1>2, <2>1, <2>2 DEF Released, Unused
<1>8. Returns'
  BY <1>0, <1>1, <1>2 DEF Returns, ReleaseLabels
<1>9. HolderSafe'
  <2>1. Live(c)'
    <3>1. Members(pc', cur', SetupLabels, c) = {}
      BY <1>1, <1>2, <1>3 DEF Members, SetupLabels
    <3> QED
      BY <1>1, <1>2, <1>3, <3>1, LiveNext
  <2>2. ASSUME NEW s \in Slots, s # c PROVE Live(s)' <=> Live(s)
    <3>1. Members(pc', cur', SetupLabels, s) = Within(SetupLabels, s)
      BY <1>1, <1>2, <2>2 DEF Members, Within, SetupLabels
    <3>2. flag'[s] = flag[s] /\ (s \in useable' <=> s \in useable)
      BY <1>1, <1>2, <2>2
    <3> QED
      BY <3>1, <3>2, LiveNext DEF Live
  <2>3. ASSUME NEW s \in Slots
        PROVE  /\ cur'[t] = s => Live(s)'
               /\ \A u \in Threads \ {t} :
                     pc[u] \in HolderLabels /\ cur[u] = s => Live(s)'
               /\ recvIO[s] + sendIO[s] > 0 => Live(s)'
               /\ Live(s)' => sock'[s] # "none" /\ id'[s] \in IDs /\ IndexOf(id'[s]) = s
               /\ Live(s) /\ Live(s)' => id'[s] = id[s]
    <3>1. CASE s = c
      BY <1>1, <1>3, <2>1, <3>1
    <3>2. CASE s # c
      <4>1. Live(s)' <=> Live(s)
        BY <2>2, <3>2
      <4> QED
        BY <1>1, <3>2, <4>1 DEF HolderSafe
    <3> QED
      BY <3>1, <3>2
  <2>4. /\ \A u \in Threads \ {t} :
              pc'[u] = pc[u] /\ cur'[u] = cur[u] /\ arg'[u] = arg[u]
        /\ pc'[t] # "Use" /\ cur'[t] \in Slots
        /\ UNCHANGED <<recvIO, sendIO>>
    BY <1>1, <1>2
  <2> QED
    BY <1>0, <2>3, <2>4, HolderKeep
<1> QED
  BY <1>4, <1>5, <1>6, <1>7, <1>8, <1>9

LEMMA JoinStep == IInv /\ Types' /\ Join => IInv'
<1> SUFFICES ASSUME IInv, Types', Join PROVE IInv'
  OBVIOUS
<1> USE DEF IInv
<1> DEFINE t == Acceptor
           c == cur[t]
<1>0. t \in Threads
  BY DEF Threads
<1>1. /\ pc[t] = "Join" /\ pc' = [pc EXCEPT ![t] = "RecvInc"]
      /\ joined' = joined \cup {id[c]}
      /\ UNCHANGED <<cur, arg, ret, id, sock, flag, ioCount, recvIO, sendIO,
                     useable, uniqueID>>
  BY DEF Join, At, Goto, slotVars, ioVars, serverVars
<1>2. /\ c \in Slots /\ pc'[t] = "RecvInc"
      /\ \A u \in Threads \ {t} : pc'[u] = pc[u]
  BY <1>0, <1>1 DEF Roles, Types
<1>3. Live(c) /\ IndexOf(id[c]) = c
  BY <1>0, <1>1, <1>2 DEF HolderSafe, HolderLabels
<1>4. RefsExact'
  <2>1. Weight("Join") = 1 /\ Weight("RecvInc") = 1
    BY DEF Weight, OwnerLabels, PosterLabels
  <2> QED
    BY <1>0, <1>1, <1>2, <2>1, RefsSame
<1>5. Roles'
  BY <1>0, <1>1, <1>2 DEF Roles, AcceptorLabels, SetupLabels, CallerLabels
<1>6. Exclusive'
  BY <1>0, <1>1, <1>2 DEF Exclusive, SetupLabels, ReleaseLabels
<1>7. Released'
  <2>1. \A s : Unused(s) /\ s # c => Unused(s)'
    BY <1>1, <1>3 DEF Unused
  <2>2. c \notin useable /\ \A u \in Threads : pc[u] \in SetupLabels => cur[u] # c
    BY <1>3 DEF Live, Within
  <2>3. \A s \in useable' : flag'[s] = 1 \/ Unused(s)'
    BY <1>1, <2>1, <2>2 DEF Released
  <2>4. ASSUME NEW u \in Threads, pc'[u] \in SetupLabels
        PROVE  flag'[cur'[u]] = 1 \/ \A i \in joined' : IndexOf(i) # cur'[u]
    <3>1. pc'[u] = pc[u] /\ cur'[u] # c
      BY <1>1, <1>2, <2>2, <2>4 DEF SetupLabels
    <3> QED
      BY <1>1, <1>3, <2>4, <3>1 DEF Released, Unused
  <2>5. \A u \in Threads : pc'[u] \in ReleaseLabels => flag'[cur'[u]] = 1
    BY <1>1, <1>2 DEF Released, ReleaseLabels
  <2> QED
    BY <2>3, <2>4, <2>5 DEF Released, Unused
<1>8. Returns'
  BY <1>0, <1>1, <1>2 DEF Returns, ReleaseLabels
<1>9. HolderSafe'
  <2>1. ASSUME NEW s \in Slots PROVE Live(s)' <=> Live(s)
    <3>1. "RecvInc" \notin SetupLabels /\ pc[t] \notin SetupLabels
      BY <1>1 DEF SetupLabels
    <3> QED
      BY <1>0, <1>1, <3>1, LiveSame
  <2>2. ASSUME NEW s \in Slots
        PROVE  /\ cur'[t] = s => Live(s)'
               /\ \A u \in Threads \ {t} :
                     pc[u] \in HolderLabels /\ cur[u] = s => Live(s)'
               /\ recvIO[s] + sendIO[s] > 0 => Live(s)'
               /\ Live(s)' => sock'[s] # "none" /\ id'[s] \in IDs /\ IndexOf(id'[s]) = s
               /\ Live(s) /\ Live(s)' => id'[s] = id[s]
    <3>1. Live(s)' <=> Live(s)
      BY <2>1
    <3> QED
      BY <1>1, <1>3, <3>1 DEF HolderSafe
  <2>4. /\ \A u \in Threads \ {t} :
              pc'[u] = pc[u] /\ cur'[u] = cur[u] /\ arg'[u] = arg[u]
        /\ pc'[t] # "Use" /\ cur'[t] \in Slots
        /\ UNCHANGED <<recvIO, sendIO>>
    BY <1>1, <1>2
  <2> QED
    BY <1>0, <2>2, <2>4, HolderKeep
<1> QED
  BY <1>4, <1>5, <1>6, <1>7, <1>8, <1>9

LEMMA TakeStep ==
    ASSUME IInv, Types', NEW w \in Workers, NEW s \in Slots,
           NEW kind \in {"recv", "send"}, Take(w, s, kind),
           NEW l \in {"Deliver", "SendDone", "Final"}, pc' = [pc EXCEPT ![w] = l]
    PROVE  IInv'
<1> USE DEF IInv
<1>0. w \in Threads
  BY DEF Threads
<1>1. /\ pc[w] = "Idle"
      /\ cur' = [cur EXCEPT ![w] = s]
      /\ UNCHANGED <<arg, ret, id, sock, flag, ioCount, useable, joined, uniqueID>>
  BY DEF Take, At, slotVars, serverVars, eventVars
<1>2. /\ pc'[w] = l /\ cur'[w] = s
      /\ \A u \in Threads \ {w} : pc'[u] = pc[u] /\ cur'[u] = cur[u]
  BY <1>0, <1>1 DEF Types
<1>3. \A r \in Slots : /\ ioCount[r] \in Int /\ recvIO[r] \in Nat /\ sendIO[r] \in Nat
                       /\ ioCount'[r] \in Int /\ recvIO'[r] \in Nat /\ sendIO'[r] \in Nat
  BY DEF Types
<1>4. /\ \A r \in Slots \ {s} : recvIO'[r] = recvIO[r] /\ sendIO'[r] = sendIO[r]
      /\ recvIO'[s] + sendIO'[s] = recvIO[s] + sendIO[s] - 1
  <2>1. CASE kind = "recv"
    BY <1>3, <2>1 DEF Take, Types
  <2>2. CASE kind = "send"
    BY <1>3, <2>2 DEF Take, Types
  <2> QED
    BY <2>1, <2>2
<1>5. RefsExact'
  <2>1. ASSUME NEW r \in Slots
        PROVE  ioCount'[r] - ioCount[r] =
                   Share(pc'[w], cur'[w], r) - Share(pc[w], cur[w], r)
                   + (recvIO'[r] - recvIO[r]) + (sendIO'[r] - sendIO[r])
                   + (IF r \in useable' THEN 1 ELSE 0)
                   - (IF r \in useable THEN 1 ELSE 0)
    <3>1. /\ Share(pc'[w], cur'[w], r) = (IF r = s THEN 1 ELSE 0)
          /\ Share(pc[w], cur[w], r) = 0
      BY <1>1, <1>2 DEF Share, OwnerLabels, PosterLabels
    <3>2. CASE r = s
      BY <1>1, <1>3, <1>4, <3>1, <3>2
    <3>3. CASE r # s
      BY <1>1, <1>3, <1>4, <3>1, <3>3
    <3> QED
      BY <3>2, <3>3
  <2> QED
    BY <1>0, <1>2, <1>3, <2>1, RefsStep
<1>6. Live(s)
  <2>1. recvIO[s] + sendIO[s] > 0
    BY <1>3, <1>4
  <2> QED
    BY <2>1 DEF HolderSafe
<1>7. \A r \in Slots : recvIO'[r] + sendIO'[r] > 0 => Live(r)
  BY <1>4, <1>6 DEF HolderSafe
<1>8. Roles' /\ Exclusive' /\ Released' /\ Returns' /\ HolderSafe'
  BY <1>0, <1>1, <1>2, <1>6, <1>7, Calm
     DEF SetupLabels, ReleaseLabels, AcceptorLabels, CallerLabels
<1> QED
  BY <1>5, <1>8

\* A thread that owns nothing starts or ends its work.
LEMMA IdleStep ==
    ASSUME IInv, Types', NEW t \in Threads,
           NEW k \in {"Idle", "AcqInc", "Pop"},
           pc[t] \in {"Idle", "Release", "RelCount"},
           pc' = [pc EXCEPT ![t] = k],
           \A u \in Threads \ {t} :
              cur'[u] = cur[u] /\ arg'[u] = arg[u] /\ ret'[u] = ret[u],
           k = "AcqInc" => arg'[t] \in joined /\ IndexOf(arg'[t]) = cur'[t]
                           /\ cur'[t] \in Slots,
           k = "Pop" => t = Acceptor /\ uniqueID < MaxUnique,
           UNCHANGED <<id, sock, flag, ioCount, recvIO, sendIO, useable, joined,
                       uniqueID>>
    PROVE  IInv'
<1> USE DEF IInv
<1>0. pc'[t] = k /\ \A u \in Threads \ {t} : pc'[u] = pc[u]
  BY DEF Types
<1>1. RefsExact'
  <2>1. ASSUME NEW s \in Slots
        PROVE  ioCount'[s] - ioCount[s] =
                   Share(pc'[t], cur'[t], s) - Share(pc[t], cur[t], s)
                   + (recvIO'[s] - recvIO[s]) + (sendIO'[s] - sendIO[s])
                   + (IF s \in useable' THEN 1 ELSE 0)
                   - (IF s \in useable THEN 1 ELSE 0)
    <3>1. /\ ioCount[s] \in Int /\ recvIO[s] \in Int /\ sendIO[s] \in Int
      BY DEF Types
    <3>2. Share(pc'[t], cur'[t], s) = 0 /\ Share(pc[t], cur[t], s) = 0
      BY <1>0 DEF Share, OwnerLabels
    <3> QED
      BY <3>1, <3>2
  <2>2. \A s \in Slots : /\ recvIO'[s] \in Nat /\ sendIO'[s] \in Nat /\ ioCount'[s] \in Int
    BY DEF Types
  <2> QED
    BY <1>0, <2>1, <2>2, RefsStep
<1>2. Roles' /\ Exclusive' /\ Released' /\ Returns' /\ HolderSafe'
  <2>1. \A s \in Slots : recvIO'[s] + sendIO'[s] > 0 => Live(s)
    BY DEF HolderSafe
  <2> QED
    BY <2>1, Calm
       DEF SetupLabels, ReleaseLabels, AcceptorLabels, CallerLabels, HolderLabels
<1> QED
  BY <1>1, <1>2

\* The exchange succeeds: nothing refers to the slot, so nobody notices.
LEMMA ReleaseWins ==
    ASSUME IInv, Types', NEW t \in Threads, pc[t] = "Release",
           flag[cur[t]] = 0, ioCount[cur[t]] = 0,
           flag' = [flag EXCEPT ![cur[t]] = 1],
           pc' = [pc EXCEPT ![t] = "RelClose"],
           UNCHANGED <<cur, arg, ret, id, sock, ioCount, recvIO, sendIO, useable,
                       joined, uniqueID>>
    PROVE  IInv'
<1> USE DEF IInv
<1> DEFINE c == cur[t]
<1>1. /\ c \in Slots /\ pc'[t] = "RelClose" /\ ret[t] = "Idle"
      /\ \A u \in Threads \ {t} : pc'[u] = pc[u]
      /\ flag'[c] = 1 /\ \A s \in Slots \ {c} : flag'[s] = flag[s]
  BY DEF Roles, Returns, Types
<1>2. /\ c \notin useable
      /\ ~ (recvIO[c] + sendIO[c] > 0)
      /\ \A u \in Threads : cur[u] = c => pc[u] \notin OwnerLabels
  BY <1>1, Counted
<1>3. \A u \in Threads : cur[u] = c => pc[u] \notin SetupLabels \cup ReleaseLabels
  BY <1>2, LabelFacts DEF Released
<1>4. Live(c) /\ id[c] \in IDs /\ IndexOf(id[c]) = c
  <2>1. Within(SetupLabels, c) = {}
    BY <1>3 DEF Within
  <2>2. Live(c)
    BY <1>2, <2>1 DEF Live
  <2> QED
    BY <1>1, <2>2 DEF HolderSafe
<1>5. RefsExact'
  <2>1. Weight("Release") = 0 /\ Weight("RelClose") = 0
    BY DEF Weight, OwnerLabels
  <2> QED
    BY <1>1, <2>1, RefsSame
<1>6. Roles'
  BY <1>1, <1>4 DEF Roles, AcceptorLabels, SetupLabels, CallerLabels
<1>7. Exclusive'
  BY <1>1, <1>2, <1>3 DEF Exclusive
<1>8. Released'
  <2>1. \A u \in Threads \ {t} : pc'[u] \in SetupLabels \cup ReleaseLabels =>
           /\ pc'[u] = pc[u] /\ cur[u] \in Slots /\ flag'[cur[u]] = flag[cur[u]]
    BY <1>1, <1>3 DEF Roles, SetupLabels, ReleaseLabels
  <2>2. \A s \in useable : flag'[s] = flag[s]
    BY <1>1, <1>2 DEF Types
  <2>3. pc'[t] \notin SetupLabels
    BY <1>1 DEF SetupLabels
  <2> QED
    BY <1>1, <2>1, <2>2, <2>3 DEF Released, Unused
<1>9. Returns'
  BY <1>1 DEF Returns
<1>10. HolderSafe'
  <2>1. ~ Live(c)'
    BY <1>1, LiveNext
  <2>2. ASSUME NEW s \in Slots, s # c PROVE Live(s)' <=> Live(s)
    <3>1. Members(pc', cur', SetupLabels, s) = Within(SetupLabels, s)
      BY <1>1, <2>2 DEF Members, Within, SetupLabels
    <3> QED
      BY <1>1, <2>2, <3>1, LiveNext DEF Live
  <2>3. ASSUME NEW s \in Slots
        PROVE  /\ \A u \in Threads \ {t} :
                     pc[u] \in HolderLabels /\ cur[u] = s => Live(s)'
               /\ recvIO[s] + sendIO[s] > 0 => Live(s)'
               /\ Live(s)' => sock'[s] # "none" /\ id'[s] \in IDs /\ IndexOf(id'[s]) = s
               /\ Live(s) /\ Live(s)' => id'[s] = id[s]
    <3>1. CASE s = c
      BY <1>2, <2>1, <3>1, LabelFacts
    <3>2. CASE s # c
      <4>1. Live(s)' <=> Live(s)
        BY <2>2, <3>2
      <4> QED
        BY <4>1 DEF HolderSafe
    <3> QED
      BY <3>1, <3>2
  <2>4. pc'[t] \notin HolderLabels /\ pc'[t] # "Use"
    BY <1>1 DEF HolderLabels
  <2> QED
    BY <1>1, <2>3, <2>4, HolderKeep
<1> QED
  BY <1>5, <1>6, <1>7, <1>8, <1>9, <1>10

LEMMA RelCloseStep ==
    ASSUME IInv, Types', NEW t \in Threads, RelClose(t) PROVE IInv'
<1> USE DEF IInv
<1> DEFINE c == cur[t]
<1>1. /\ pc[t] = "RelClose" /\ pc' = [pc EXCEPT ![t] = "RelInc"]
      /\ arg' = [arg EXCEPT ![t] = id[c]]
      /\ id' = [id EXCEPT ![c] = NoID]
      /\ sock' = [sock EXCEPT ![c] = "none"]
      /\ UNCHANGED <<cur, ret, flag, ioCount, recvIO, sendIO, useable, joined, uniqueID>>
  BY DEF RelClose, At, ioVars, serverVars, eventVars
<1>2. /\ c \in Slots /\ pc'[t] = "RelInc" /\ arg'[t] = id[c]
      /\ id[c] \in IDs /\ IndexOf(id[c]) = c
      /\ \A u \in Threads \ {t} : pc'[u] = pc[u] /\ arg'[u] = arg[u]
      /\ \A s \in Slots \ {c} : id'[s] = id[s] /\ sock'[s] = sock[s]
  BY <1>1 DEF Roles, Types
<1>3. RefsExact'
  <2>1. Weight("RelClose") = 0 /\ Weight("RelInc") = 0
    BY DEF Weight, OwnerLabels
  <2> QED
    BY <1>1, <1>2, <2>1, RefsSame
<1>4. Exclusive' /\ Released' /\ Returns' /\ HolderSafe'
  BY <1>1, <1>2, PhaseStep DEF ReleaseLabels
<1>5. Roles'
  <2>1. \A u \in Threads \ {t} : pc[u] \in SetupLabels \cup ReleaseLabels => cur[u] # c
    BY <1>1 DEF Exclusive, ReleaseLabels
  <2>2. \A u \in Threads \ {t} : pc[u] \in SetupLabels \cup ReleaseLabels =>
           id'[cur[u]] = id[cur[u]] /\ sock'[cur[u]] = sock[cur[u]]
    BY <1>2, <2>1 DEF Roles, SetupLabels, ReleaseLabels
  <2> QED
    BY <1>1, <1>2, <2>2 DEF Roles, AcceptorLabels, SetupLabels, CallerLabels, ReleaseLabels
<1> QED
  BY <1>3, <1>4, <1>5

LEMMA RelIncStep ==
    ASSUME IInv, Types', NEW t \in Threads, RelInc(t) PROVE IInv'
<1> USE DEF IInv
<1> DEFINE c == cur[t]
<1>1. /\ pc[t] = "RelInc" /\ pc' = [pc EXCEPT ![t] = "RelLeave"]
      /\ ioCount' = [ioCount EXCEPT ![c] = @ + 1]
      /\ UNCHANGED <<cur, arg, ret, id, sock, flag, recvIO, sendIO, useable, joined,
                     uniqueID>>
  BY DEF RelInc, At, Goto, Inc, ioVars, serverVars, eventVars
<1>2. /\ c \in Slots /\ pc'[t] = "RelLeave"
      /\ \A u \in Threads \ {t} : pc'[u] = pc[u]
  BY <1>1 DEF Roles, Types
<1>3. RefsExact'
  <2>1. Weight("RelInc") = 0 /\ Weight("RelLeave") = 1
    BY DEF Weight, OwnerLabels, PosterLabels
  <2>2. /\ ioCount'[c] - ioCount[c] = 1
        /\ \A s \in Slots \ {c} : ioCount'[s] = ioCount[s]
        /\ recvIO[c] \in Nat /\ sendIO[c] \in Nat
    BY <1>1, <1>2 DEF Types
  <2>3. ioCount'[c] - ioCount[c] =
              Weight("RelLeave") - Weight(pc[t])
              + (recvIO'[c] - recvIO[c]) + (sendIO'[c] - sendIO[c])
    BY <1>1, <2>1, <2>2
  <2> QED
    BY <1>1, <1>2, <2>2, <2>3, RefsStay
<1>4. Exclusive' /\ Released' /\ Returns' /\ HolderSafe'
  BY <1>1, <1>2, PhaseStep DEF ReleaseLabels
<1>5. Roles'
  BY <1>1, <1>2 DEF Roles, AcceptorLabels, SetupLabels, CallerLabels
<1> QED
  BY <1>3, <1>4, <1>5

LEMMA RelLeaveStep ==
    ASSUME IInv, Types', NEW t \in Threads, RelLeave(t) PROVE IInv'
<1> USE DEF IInv
<1>1. /\ pc[t] = "RelLeave" /\ pc' = [pc EXCEPT ![t] = "RelPush"]
      /\ UNCHANGED <<cur, arg, ret, id, sock, flag, ioCount, recvIO, sendIO, useable,
                     joined, uniqueID>>
  BY DEF RelLeave, At, Goto, slotVars, ioVars, serverVars
<1>2. /\ cur[t] \in Slots /\ pc'[t] = "RelPush"
      /\ \A u \in Threads \ {t} : pc'[u] = pc[u]
  BY <1>1 DEF Roles, Types
<1>3. RefsExact'
  <2>1. Weight("RelLeave") = 1 /\ Weight("RelPush") = 1
    BY DEF Weight, OwnerLabels, PosterLabels
  <2> QED
    BY <1>1, <1>2, <2>1, RefsSame
<1>4. Exclusive' /\ Released' /\ Returns' /\ HolderSafe'
  BY <1>1, <1>2, PhaseStep DEF ReleaseLabels
<1>5. Roles'
  BY <1>1, <1>2 DEF Roles, AcceptorLabels, SetupLabels, CallerLabels
<1> QED
  BY <1>3, <1>4, <1>5

LEMMA RelPushStep ==
    ASSUME IInv, Types', NEW t \in Threads, RelPush(t) PROVE IInv'
<1> USE DEF IInv
<1> DEFINE c == cur[t]
<1>1. /\ pc[t] = "RelPush" /\ pc' = [pc EXCEPT ![t] = "RelCount"]
      /\ useable' = useable \cup {IndexOf(arg[t])}
      /\ UNCHANGED <<cur, arg, ret, id, sock, flag, ioCount, recvIO, sendIO, joined,
                     uniqueID>>
  BY DEF RelPush, At, Goto, slotVars, ioVars, eventVars
<1>2. /\ c \in Slots /\ pc'[t] = "RelCount"
      /\ \A u \in Threads \ {t} : pc'[u] = pc[u]
      /\ useable' = useable \cup {c} /\ flag[c] = 1 /\ c \notin useable
      /\ \A u \in Threads \ {t} : pc[u] \in SetupLabels \cup ReleaseLabels => cur[u] # c
  BY <1>1 DEF Roles, Types, Released, Exclusive, ReleaseLabels
<1>3. RefsExact'
  <2>1. ASSUME NEW s \in Slots
        PROVE  ioCount'[s] - ioCount[s] =
                   Share(pc'[t], cur'[t], s) - Share(pc[t], cur[t], s)
                   + (recvIO'[s] - recvIO[s]) + (sendIO'[s] - sendIO[s])
                   + (IF s \in useable' THEN 1 ELSE 0)
                   - (IF s \in useable THEN 1 ELSE 0)
    <3>1. /\ Share(pc'[t], cur'[t], s) = 0
          /\ Share(pc[t], cur[t], s) = (IF s = c THEN 1 ELSE 0)
      BY <1>1, <1>2 DEF Share, OwnerLabels, PosterLabels
    <3>2. ioCount[s] \in Int /\ recvIO[s] \in Nat /\ sendIO[s] \in Nat
      BY DEF Types
    <3> QED
      BY <1>1, <1>2, <3>1, <3>2
  <2>2. \A s \in Slots : /\ recvIO'[s] \in Nat /\ sendIO'[s] \in Nat /\ ioCount'[s] \in Int
    BY DEF Types
  <2> QED
    BY <1>1, <1>2, <2>1, <2>2, RefsStep
<1>4. Roles'
  BY <1>1, <1>2 DEF Roles, AcceptorLabels, SetupLabels, CallerLabels
<1>5. Exclusive'
  BY <1>1, <1>2 DEF Exclusive, SetupLabels, ReleaseLabels
<1>6. Released'
  BY <1>1, <1>2 DEF Released, Unused, SetupLabels, ReleaseLabels
<1>7. Returns'
  BY <1>1, <1>2 DEF Returns, ReleaseLabels
<1>8. HolderSafe'
  <2>1. ASSUME NEW s \in Slots PROVE Live(s)' <=> Live(s)
    <3>1. CASE s = c
      BY <1>1, <1>2, <3>1, LiveNext DEF Live
    <3>2. CASE s # c
      <4>1. Members(pc', cur', SetupLabels, s) = Within(SetupLabels, s)
        BY <1>1, <1>2, <3>2 DEF Members, Within, SetupLabels
      <4> QED
        BY <1>1, <1>2, <3>2, <4>1, LiveNext DEF Live
    <3> QED
      BY <3>1, <3>2
  <2>2. ASSUME NEW s \in Slots
        PROVE  /\ \A u \in Threads \ {t} :
                     pc[u] \in HolderLabels /\ cur[u] = s => Live(s)'
               /\ recvIO[s] + sendIO[s] > 0 => Live(s)'
               /\ Live(s)' => sock'[s] # "none" /\ id'[s] \in IDs /\ IndexOf(id'[s]) = s
               /\ Live(s) /\ Live(s)' => id'[s] = id[s]
    <3>1. Live(s)' <=> Live(s)
      BY <2>1
    <3> QED
      BY <1>1, <3>1 DEF HolderSafe
  <2>3. pc'[t] \notin HolderLabels /\ pc'[t] # "Use"
    BY <1>2 DEF HolderLabels
  <2> QED
    BY <1>1, <1>2, <2>2, <2>3, HolderKeep
<1> QED
  BY <1>3, <1>4, <1>5, <1>6, <1>7, <1>8

LEMMA BreakStep ==
    ASSUME IInv, Types', NEW s \in Slots, Break(s) PROVE IInv'
<1> USE DEF IInv
<1>1. /\ sock' = [sock EXCEPT ![s] = "broken"] /\ sock[s] = "open"
      /\ UNCHANGED <<id, flag, ioCount, recvIO, sendIO, useable, joined, uniqueID,
                     pc, cur, arg, ret>>
  BY DEF Break, ioVars, serverVars, eventVars, threadVars
<1>2. \A r \in Slots : sock'[r] # "none" <=> sock[r] # "none"
  BY <1>1 DEF Types
<1>3. RefsExact' /\ Exclusive' /\ Released' /\ Returns'
  BY <1>1 DEF RefsExact, Within, Exclusive, Released, Unused, Returns
<1>4. Roles'
  <2>1. \A t \in Threads : pc[t] = "ClearFlag" => sock'[cur[t]] # "none"
    BY <1>2 DEF Roles
  <2> QED
    BY <1>1, <2>1 DEF Roles
<1>5. HolderSafe'
  BY <1>1, <1>2 DEF HolderSafe, Live, Within
<1> QED
  BY <1>3, <1>4, <1>5

--------------------------------------------------------------------------------
\* where each label of the middle of a session's life belongs
SessionLabels == HolderLabels \cup {"AcqInc", "AcqFlag", "AcqUndo"}

LEMMA LabelTable ==
    /\ \A l \in SessionLabels :
          /\ l \notin SetupLabels \cup ReleaseLabels \cup {"Idle", "Pop", "Release", "RelCount"}
          /\ l \in AcceptorLabels <=> l \in {"Count", "Join"}
          /\ l \in HolderLabels <=> l \notin {"AcqInc", "AcqFlag", "AcqUndo"}
          /\ Weight(l) = IF l = "AcqInc" THEN 0 ELSE IF l \in PosterLabels THEN 2 ELSE 1
    /\ PosterLabels \subseteq SessionLabels
BY DEF SessionLabels, SetupLabels, ReleaseLabels, AcceptorLabels, HolderLabels,
       OwnerLabels, PosterLabels, Weight

\* A step within a live session, as the actions below present it.
LEMMA SessionSame ==
    ASSUME IInv, Types', NEW t \in Threads, NEW l \in SessionLabels,
           pc' = [pc EXCEPT ![t] = l],
           UNCHANGED <<cur, arg, ret, id, sock, flag, useable, joined, uniqueID,
                       ioCount, recvIO, sendIO>>,
           pc[t] \in SessionLabels \ {"AcqInc"},
           l # "AcqInc", l \in {"Count", "Join"} => t = Acceptor,
           pc[t] \in PosterLabels <=> l \in PosterLabels,
           l \in CallerLabels => pc[t] \in CallerLabels,
           l = "AcqID" => Live(cur[t]),
           pc[t] \in {"AcqFlag", "AcqUndo"} => l \in {"AcqID", "AcqUndo"},
           l = "Use" => id[cur[t]] = arg[t]
    PROVE  IInv'
<1>1. Weight(l) = Weight(pc[t])
  BY LabelTable DEF CallerLabels
<1>2. l \in HolderLabels => Live(cur[t])
  <2>1. CASE pc[t] \in HolderLabels
    BY <2>1 DEF IInv, HolderSafe
  <2>2. CASE pc[t] \notin HolderLabels
    BY <2>2, LabelTable
  <2> QED
    BY <2>1, <2>2
<1>3. l \in AcceptorLabels => t = Acceptor
  BY LabelTable
<1>4. /\ l \notin SetupLabels \cup ReleaseLabels \cup {"Idle", "Pop", "Release", "RelCount"}
      /\ pc[t] \notin SetupLabels \cup ReleaseLabels \cup {"Idle", "Pop"}
  BY LabelTable
<1> QED
  BY <1>1, <1>2, <1>3, <1>4, StaySame

LEMMA SessionInc ==
    ASSUME IInv, Types', NEW t \in Threads, NEW l \in SessionLabels,
           pc' = [pc EXCEPT ![t] = l],
           UNCHANGED <<cur, arg, ret, id, sock, flag, useable, joined, uniqueID,
                       recvIO, sendIO>>,
           Inc(cur[t]),
           \/ pc[t] = "RecvInc" /\ l = "RecvPost"
           \/ pc[t] = "SendInc" /\ l = "SendPost"
           \/ pc[t] = "AcqInc" /\ l = "AcqFlag"
    PROVE  IInv'
<1> USE DEF IInv
<1>1. cur[t] \in Slots
  BY DEF Roles
<1>2. /\ ioCount'[cur[t]] - ioCount[cur[t]] = 1
      /\ recvIO[cur[t]] \in Nat /\ sendIO[cur[t]] \in Nat
      /\ \A s \in Slots \ {cur[t]} : ioCount'[s] = ioCount[s]
  BY <1>1 DEF Types, Inc
<1>3. Weight(l) - Weight(pc[t]) = 1 /\ Weight(l) \in Nat /\ Weight(pc[t]) \in Nat
  BY DEF Weight, OwnerLabels, PosterLabels
<1>4. ioCount'[cur[t]] - ioCount[cur[t]] =
              Weight(l) - Weight(pc[t])
              + (recvIO'[cur[t]] - recvIO[cur[t]]) + (sendIO'[cur[t]] - sendIO[cur[t]])
  BY <1>2, <1>3
<1>5. l \in HolderLabels => Live(cur[t])
  BY DEF HolderSafe, HolderLabels
<1>6. recvIO'[cur[t]] + sendIO'[cur[t]] > 0 => Live(cur[t])
  BY <1>1 DEF HolderSafe
<1>7. /\ pc[t] \notin SetupLabels \cup ReleaseLabels
      /\ l \notin SetupLabels \cup ReleaseLabels \cup {"Idle", "Pop", "Release", "RelCount"}
      /\ l \notin AcceptorLabels /\ l # "Use"
      /\ l \in CallerLabels => pc[t] \in CallerLabels
  BY DEF SetupLabels, ReleaseLabels, AcceptorLabels, CallerLabels
<1> QED
  BY <1>1, <1>2, <1>4, <1>5, <1>6, <1>7, StayStep

\* WSARecv or WSASend is accepted: the reference passes to the operation.
LEMMA SessionPost ==
    ASSUME IInv, Types', NEW t \in Threads,
           pc' = [pc EXCEPT ![t] = "Final"],
           UNCHANGED <<cur, arg, ret, id, sock, flag, useable, joined, uniqueID,
                       ioCount>>,
           \/ /\ pc[t] = "RecvPost" /\ sendIO' = sendIO
              /\ recvIO' = [recvIO EXCEPT ![cur[t]] = @ + 1]
           \/ /\ pc[t] = "SendPost" /\ recvIO' = recvIO
              /\ sendIO' = [sendIO EXCEPT ![cur[t]] = @ + 1]
    PROVE  IInv'
<1> USE DEF IInv
<1>1. cur[t] \in Slots
  BY DEF Roles
<1>2. /\ ioCount[cur[t]] \in Int
      /\ (recvIO'[cur[t]] - recvIO[cur[t]]) + (sendIO'[cur[t]] - sendIO[cur[t]]) = 1
      /\ \A s \in Slots \ {cur[t]} : recvIO'[s] = recvIO[s] /\ sendIO'[s] = sendIO[s]
      /\ recvIO[cur[t]] \in Nat /\ sendIO[cur[t]] \in Nat
      /\ recvIO'[cur[t]] \in Nat /\ sendIO'[cur[t]] \in Nat
  BY <1>1 DEF Types
<1>3. Weight("Final") = 1 /\ Weight(pc[t]) = 2
  BY DEF Weight, OwnerLabels, PosterLabels
<1>4. ioCount'[cur[t]] - ioCount[cur[t]] =
              Weight("Final") - Weight(pc[t])
              + (recvIO'[cur[t]] - recvIO[cur[t]]) + (sendIO'[cur[t]] - sendIO[cur[t]])
  BY <1>2, <1>3
<1>5. Live(cur[t])
  BY DEF HolderSafe, HolderLabels
<1>6. /\ pc[t] \notin SetupLabels \cup ReleaseLabels
      /\ "Final" \notin SetupLabels \cup ReleaseLabels \cup {"Idle", "Pop", "Release", "RelCount"}
      /\ "Final" \notin AcceptorLabels /\ "Final" \notin CallerLabels
  BY DEF SetupLabels, ReleaseLabels, AcceptorLabels, CallerLabels
<1> QED
  BY <1>1, <1>2, <1>4, <1>5, <1>6, StayStep

LEMMA NextIInv == IInv /\ [Next]_vars => IInv'
<1> SUFFICES ASSUME IInv, [Next]_vars PROVE IInv'
  OBVIOUS
<1>0. Types'
  BY TypesNext
<1> USE DEF IInv
<1>1. \A t \in Threads : pc[t] \notin {"Idle", "Pop"} => cur[t] \in Slots
  BY DEF Roles
<1>2. \A t \in Threads : pc[t] \in HolderLabels => Live(cur[t])
  BY DEF HolderSafe
<1>3. CASE AcceptorStep
  <2>0. Acceptor \in Threads
    BY DEF Threads
  <2>1. CASE Accept
    BY <1>0, <2>0, <2>1, IdleStep
       DEF Accept, At, Goto, slotVars, ioVars, serverVars, eventVars
  <2>2. CASE Pop
    BY <1>0, <2>2, PopStep
  <2>3. CASE SetID
    BY <1>0, <2>3, SetIDStep
  <2>4. CASE SetSocket
    BY <1>0, <2>4, SetSocketStep
  <2>5. CASE ClearFlag
    BY <1>0, <2>5, ClearFlagStep
  <2>6. CASE Count
    <3>1. Weight("Count") = 1 /\ Weight("Join") = 1
      BY DEF Weight, OwnerLabels, PosterLabels
    <3>2. /\ "Join" \notin SetupLabels \cup ReleaseLabels \cup {"Idle", "Pop", "Release", "RelCount"}
          /\ "Count" \notin SetupLabels \cup ReleaseLabels
          /\ "Join" \notin CallerLabels /\ "Count" \in HolderLabels
      BY DEF SetupLabels, ReleaseLabels, CallerLabels, HolderLabels
    <3> QED
      BY <1>0, <1>1, <1>2, <2>0, <2>6, <3>1, <3>2, StaySame
         DEF Count, At, Goto, slotVars, ioVars, eventVars
  <2>7. CASE Join
    BY <1>0, <2>7, JoinStep
  <2> QED
    BY <1>3, <2>1, <2>2, <2>3, <2>4, <2>5, <2>6, <2>7 DEF AcceptorStep
<1>4. ASSUME NEW w \in Workers, WorkerStep(w) PROVE IInv'
  <2>0. w \in Threads
    BY DEF Threads
  <2>1. ASSUME NEW s \in Slots, NEW kind \in {"recv", "send"}, GqcsData(w, s, kind)
        PROVE  IInv'
    BY <1>0, <2>1, TakeStep DEF GqcsData
  <2>2. ASSUME NEW s \in Slots, NEW kind \in {"recv", "send"}, GqcsZero(w, s, kind)
        PROVE  IInv'
    BY <1>0, <2>2, TakeStep DEF GqcsZero
  <2>3. CASE Deliver(w)
    <3>1. PICK l \in {"RecvInc", "Final"} : Goto(w, l)
      BY <2>3 DEF Deliver
    <3> QED
      BY <1>0, <2>0, <2>3, <3>1, SessionSame
         DEF Deliver, Goto, At, SessionLabels, HolderLabels, PosterLabels, CallerLabels,
             slotVars, ioVars, serverVars, eventVars
  <2>4. CASE SendDone(w)
    BY <1>0, <2>0, <2>4, SessionSame
       DEF SendDone, Goto, At, SessionLabels, HolderLabels, PosterLabels, CallerLabels,
           ioVars, serverVars, eventVars
  <2> QED
    BY <1>4, <2>1, <2>2, <2>3, <2>4 DEF WorkerStep
<1>5. ASSUME NEW c \in Callers, CallerStep(c) PROVE IInv'
  <2>0. c \in Threads
    BY DEF Threads
  <2>1. ASSUME NEW i \in joined, Call(c, i) PROVE IInv'
    <3>1. IndexOf(i) \in Slots
      BY DEF Types, IDs
    <3>2. /\ pc[c] = "Idle" /\ pc' = [pc EXCEPT ![c] = "AcqInc"]
          /\ cur'[c] = IndexOf(i) /\ arg'[c] = i
          /\ \A u \in Threads \ {c} :
                cur'[u] = cur[u] /\ arg'[u] = arg[u] /\ ret'[u] = ret[u]
          /\ UNCHANGED <<id, sock, flag, ioCount, recvIO, sendIO, useable, joined, uniqueID>>
      BY <2>0, <2>1 DEF Call, At, Types, slotVars, ioVars, serverVars, eventVars
    <3> QED
      BY <1>0, <2>0, <3>1, <3>2, IdleStep
  <2>2. CASE AcqInc(c)
    BY <1>0, <2>0, <2>2, SessionInc
       DEF AcqInc, At, Goto, SessionLabels, ioVars, serverVars, eventVars
  <2>3. CASE AcqFlag(c)
    <3>1. PICK l \in {"AcqID", "AcqUndo"} :
             /\ pc' = [pc EXCEPT ![c] = l] /\ UNCHANGED <<cur, arg, ret>>
             /\ l = "AcqID" => flag[cur[c]] = 0
      BY <2>3 DEF AcqFlag, Goto
    <3>2. ASSUME l = "AcqID" PROVE Live(cur[c])
      <4>1. arg[c] \in joined /\ IndexOf(arg[c]) = cur[c] /\ cur[c] \in Slots
        BY <2>0, <2>3 DEF AcqFlag, At, Roles, CallerLabels
      <4>2. ~ Unused(cur[c])
        BY <4>1 DEF Unused
      <4>3. cur[c] \notin useable /\ \A t \in Threads : pc[t] \in SetupLabels => cur[t] # cur[c]
        BY <3>1, <3>2, <4>2 DEF Released
      <4> QED
        BY <3>1, <3>2, <4>3 DEF Live, Within
    <3> QED
      BY <1>0, <2>0, <2>3, <3>1, <3>2, SessionSame
         DEF AcqFlag, At, SessionLabels, HolderLabels, PosterLabels, CallerLabels,
             slotVars, ioVars, serverVars, eventVars
  <2>4. CASE AcqID(c)
    <3>1. PICK l \in {"Use", "AcqUndo"} :
             /\ pc' = [pc EXCEPT ![c] = l] /\ UNCHANGED <<cur, arg, ret>>
             /\ l = "Use" => id[cur[c]] = arg[c]
      BY <2>4 DEF AcqID, Goto
    <3> QED
      BY <1>0, <2>0, <2>4, <3>1, SessionSame
         DEF AcqID, At, SessionLabels, HolderLabels, PosterLabels, CallerLabels,
             slotVars, ioVars, serverVars, eventVars
  <2>5. CASE AcqUndo(c)
    BY <1>0, <2>0, <2>5, DecStep DEF AcqUndo, At, ioVars, serverVars, eventVars
  <2>6. CASE UseSend(c)
    BY <1>0, <2>0, <2>6, SessionSame
       DEF UseSend, Goto, At, SessionLabels, HolderLabels, PosterLabels, CallerLabels,
           slotVars, ioVars, serverVars, eventVars
  <2>7. CASE UseDisconnect(c)
    BY <1>0, <2>0, <2>7, SessionSame
       DEF UseDisconnect, Goto, At, SessionLabels, HolderLabels, PosterLabels, CallerLabels,
           slotVars, serverVars, eventVars
  <2> QED
    BY <1>5, <2>1, <2>2, <2>3, <2>4, <2>5, <2>6, <2>7 DEF CallerStep
<1>6. ASSUME NEW t \in Threads, SharedStep(t) PROVE IInv'
  <2>1. CASE RecvInc(t)
    BY <1>0, <2>1, SessionInc
       DEF RecvInc, At, Goto, SessionLabels, HolderLabels, ioVars, serverVars, eventVars
  <2>2. CASE RecvPost(t)
    <3>1. CASE pc' = [pc EXCEPT ![t] = "Final"] /\ recvIO' = [recvIO EXCEPT ![cur[t]] = @ + 1]
      BY <1>0, <2>2, <3>1, SessionPost
         DEF RecvPost, At, Goto, slotVars, serverVars, eventVars
    <3>2. CASE pc' = [pc EXCEPT ![t] = "RecvUndo"] /\ recvIO' = recvIO
      BY <1>0, <2>2, <3>2, SessionSame
         DEF RecvPost, At, Goto, SessionLabels, HolderLabels, PosterLabels, CallerLabels,
             slotVars, serverVars, eventVars
    <3> QED
      BY <2>2, <3>1, <3>2 DEF RecvPost, Goto
  <2>3. CASE RecvUndo(t)
    BY <1>0, <2>3, DecStep DEF RecvUndo, At, ioVars, serverVars, eventVars
  <2>4. CASE SendTry(t)
    <3>1. PICK l \in {"Final", "SendInc"} : Goto(t, l)
      BY <2>4 DEF SendTry
    <3> QED
      BY <1>0, <2>4, <3>1, SessionSame
         DEF SendTry, At, Goto, SessionLabels, HolderLabels, PosterLabels, CallerLabels,
             ioVars, serverVars, eventVars
  <2>5. CASE SendInc(t)
    BY <1>0, <2>5, SessionInc
       DEF SendInc, At, Goto, SessionLabels, HolderLabels, ioVars, serverVars, eventVars
  <2>6. CASE SendPost(t)
    <3>1. CASE pc' = [pc EXCEPT ![t] = "Final"] /\ sendIO' = [sendIO EXCEPT ![cur[t]] = @ + 1]
      BY <1>0, <2>6, <3>1, SessionPost
         DEF SendPost, At, Goto, slotVars, serverVars, eventVars
    <3>2. CASE pc' = [pc EXCEPT ![t] = "SendUndo1"] /\ sendIO' = sendIO
      BY <1>0, <2>6, <3>2, SessionSame
         DEF SendPost, At, Goto, SessionLabels, HolderLabels, PosterLabels, CallerLabels,
             slotVars, serverVars, eventVars
    <3> QED
      BY <2>6, <3>1, <3>2 DEF SendPost, Goto
  <2>7. CASE SendUndo1(t)
    BY <1>0, <2>7, SessionSame
       DEF SendUndo1, Goto, At, SessionLabels, HolderLabels, PosterLabels, CallerLabels,
           ioVars, serverVars, eventVars
  <2>8. CASE SendUndo2(t)
    BY <1>0, <2>8, DecStep DEF SendUndo2, At, ioVars, serverVars, eventVars
  <2>9. CASE Final(t)
    BY <1>0, <2>9, DecStep DEF Final, At, ioVars, serverVars, eventVars
  <2>10. CASE Release(t)
    <3>1. CASE flag[cur[t]] = 0 /\ ioCount[cur[t]] = 0
      BY <1>0, <2>10, <3>1, ReleaseWins
         DEF Release, At, Goto, ioVars, serverVars, eventVars
    <3>2. CASE ~ (flag[cur[t]] = 0 /\ ioCount[cur[t]] = 0)
      <4>1. Return(t, "Idle") /\ UNCHANGED flag
        BY <2>10, <3>2 DEF Release, At, Returns
      <4> QED
        BY ZenonT(60), <1>0, <2>10, <4>1, IdleStep
           DEF Release, At, Return, Types, ioVars, serverVars, eventVars
    <3> QED
      BY <3>1, <3>2
  <2>11. CASE RelClose(t)
    BY <1>0, <2>11, RelCloseStep
  <2>12. CASE RelInc(t)
    BY <1>0, <2>12, RelIncStep
  <2>13. CASE RelLeave(t)
    BY <1>0, <2>13, RelLeaveStep
  <2>14. CASE RelPush(t)
    BY <1>0, <2>14, RelPushStep
  <2>15. CASE RelCount(t)
    <3>1. Return(t, "Idle")
      BY <2>15 DEF RelCount, At, Returns
    <3> QED
      <4>1. /\ pc[t] = "RelCount" /\ pc' = [pc EXCEPT ![t] = "Idle"]
            /\ \A u \in Threads \ {t} :
                  cur'[u] = cur[u] /\ arg'[u] = arg[u] /\ ret'[u] = ret[u]
            /\ UNCHANGED <<id, sock, flag, ioCount, recvIO, sendIO, useable, joined, uniqueID>>
        BY <2>15, <3>1 DEF RelCount, At, Return, Types, slotVars, ioVars, eventVars
      <4> QED
        BY <1>0, <4>1, IdleStep
  <2> QED
    BY <1>6, <2>1, <2>2, <2>3, <2>4, <2>5, <2>6, <2>7, <2>8, <2>9, <2>10,
       <2>11, <2>12, <2>13, <2>14, <2>15 DEF SharedStep
<1>7. ASSUME NEW s \in Slots, Break(s) PROVE IInv'
  BY <1>0, <1>7, BreakStep
<1>8. CASE UNCHANGED vars
  BY <1>0, <1>8
     DEF vars, slotVars, ioVars, serverVars, eventVars, threadVars, Roles, RefsExact,
         Within, Exclusive, Released, Unused, Returns, HolderSafe, Live
<1> QED
  BY <1>3, <1>4, <1>5, <1>6, <1>7, <1>8 DEF Next

--------------------------------------------------------------------------------
\* The inductive invariant holds in every reachable state of the code of
\* acceptThread, workerThread, TrySendMessage, TryDisconnect and releaseSession.
THEOREM Invariant == Spec => []IInv
BY InitIInv, NextIInv, PTL DEF Spec

-----------------------------------------------------------------------------
(***************************************************************************)
(* What the inductive invariant gives: each safety property of             *)
(* SessionLifetime, and that it implements the contract of the listener.   *)
(***************************************************************************)
\* CurrentAsyncIOCount is at every instant the number of references there
\* are: no path through sendPost, recvPost, acquireSessionOrNull and
\* releaseSession loses or invents one.
THEOREM ExactReferences == Spec => []RefsExact
<1>1. IInv => RefsExact
  BY DEF IInv
<1> QED
  BY Invariant, <1>1, PTL

\* Whoever works on a session finds it set up and not released, and whoever
\* acquireSessionOrNull let in finds the session it asked for.
THEOREM HoldersAreSafe == Spec => []HolderSafe
<1>1. IInv => HolderSafe
  BY DEF IInv
<1> QED
  BY Invariant, <1>1, PTL

\* releaseSession's exchange lets one thread in, and never while the acceptor
\* sets the slot up or can find it in mUseableIndexesStack.
THEOREM ReleasedOnce == Spec => []OneReleaser
<1>1. ASSUME IInv, NEW s \in Slots
      PROVE  /\ Cardinality(Within(SetupLabels \cup ReleaseLabels, s)) <= 1
             /\ s \in useable => Within(SetupLabels \cup ReleaseLabels, s) = {}
  <2> DEFINE W == Within(SetupLabels \cup ReleaseLabels, s)
  <2>1. \A t, u \in W : t = u
    BY <1>1 DEF IInv, Exclusive, Within
  <2>2. Cardinality(W) <= 1
    <3>1. CASE W = {}
      <4>1. Cardinality(W) = 0
        BY <3>1, FS_EmptySet, Zenon
      <4> QED
        BY <4>1
    <3>2. CASE W # {}
      <4>1. PICK t : t \in W
        BY <3>2
      <4>2. W = {t}
        BY <2>1, <4>1
      <4> HIDE DEF W
      <4> QED
        BY <4>2, FS_Singleton
    <3> QED
      BY <3>1, <3>2
  <2>3. s \in useable => W = {}
    BY <1>1 DEF IInv, Exclusive, Within
  <2> QED
    BY <2>2, <2>3
<1>2. IInv => OneReleaser
  BY <1>1 DEF OneReleaser
<1> QED
  BY Invariant, <1>2, PTL

--------------------------------------------------------------------------------
\* The ID and the flag of a slot are written in four places only.
LEMMA Rewrites ==
    ASSUME [Next]_vars
    PROVE  \/ UNCHANGED <<id, flag>>
           \/ SetID \/ ClearFlag
           \/ \E t \in Threads : Release(t) \/ RelClose(t)
<1>1. CASE AcceptorStep
  BY <1>1 DEF AcceptorStep, Accept, Pop, SetSocket, Count, Join, slotVars
<1>2. ASSUME NEW w \in Workers, WorkerStep(w) PROVE UNCHANGED <<id, flag>>
  BY <1>2 DEF WorkerStep, GqcsData, GqcsZero, Take, Deliver, SendDone, slotVars
<1>3. ASSUME NEW c \in Callers, CallerStep(c) PROVE UNCHANGED <<id, flag>>
  BY <1>3 DEF CallerStep, Call, AcqInc, AcqFlag, AcqID, AcqUndo, UseSend,
              UseDisconnect, slotVars
<1>4. ASSUME NEW t \in Threads, SharedStep(t)
      PROVE  UNCHANGED <<id, flag>> \/ Release(t) \/ RelClose(t)
  BY <1>4 DEF SharedStep, RecvInc, RecvPost, RecvUndo, SendTry, SendInc, SendPost,
              SendUndo1, SendUndo2, Final, RelInc, RelLeave, RelPush, RelCount, slotVars
<1>5. ASSUME NEW s \in Slots, Break(s) PROVE UNCHANGED <<id, flag>>
  BY <1>5 DEF Break
<1>6. CASE UNCHANGED vars
  BY <1>6 DEF vars, slotVars
<1> QED
  BY <1>1, <1>2, <1>3, <1>4, <1>5, <1>6 DEF Next

\* A slot is never recycled under a worker, a caller or a posted operation:
\* while there is one, its ID and its release flag stay what they were.
THEOREM NeverRecycledUnderHolder == Spec => NoRecycleUnderHolder
<1>1. ASSUME IInv, [Next]_vars, NEW s \in Slots,
             Within(HolderLabels, s) # {} \/ recvIO[s] + sendIO[s] > 0
      PROVE  id'[s] = id[s] /\ flag'[s] = 0
  <2> USE DEF IInv
  <2>1. Live(s)
    BY <1>1 DEF HolderSafe, Within
  <2>2. ioCount[s] > 0
    <3>1. \/ recvIO[s] + sendIO[s] > 0
          \/ \E t \in Threads : pc[t] \in OwnerLabels /\ cur[t] = s
      BY <1>1, LabelFacts DEF Within
    <3> QED
      BY <1>1, <3>1, Counted
  <2>3. flag[s] = 0 /\ \A t \in Threads : pc[t] \in SetupLabels => cur[t] # s
    BY <2>1 DEF Live, Within
  <2>4. CASE UNCHANGED <<id, flag>>
    BY <2>3, <2>4
  <2>5. CASE SetID
    <3>1. cur[Acceptor] # s
      BY <2>3, <2>5 DEF SetID, At, SetupLabels, Threads
    <3> QED
      BY <1>1, <2>3, <2>5, <3>1 DEF SetID, Types
  <2>6. CASE ClearFlag
    BY <1>1, <2>3, <2>6 DEF ClearFlag, Types
  <2>7. ASSUME NEW t \in Threads, Release(t) PROVE id'[s] = id[s] /\ flag'[s] = 0
    <3>1. ioCount[s] # 0
      BY <1>1, <2>2 DEF Types
    <3> QED
      BY <1>1, <2>3, <2>7, <3>1 DEF Release, Types
  <2>8. ASSUME NEW t \in Threads, RelClose(t) PROVE id'[s] = id[s] /\ flag'[s] = 0
    <3>1. cur[t] # s
      BY <1>1, <2>3, <2>8 DEF RelClose, At, ReleaseLabels, Released
    <3> QED
      BY <1>1, <2>3, <2>8, <3>1 DEF RelClose, Types
  <2> QED
    BY <1>1, <2>4, <2>5, <2>6, <2>7, <2>8, Rewrites
<1>2. IInv /\ [Next]_vars =>
        [\A s \in Slots :
          \/ Within(HolderLabels, s) # {}
          \/ recvIO[s] + sendIO[s] > 0
          => id'[s] = id[s] /\ flag'[s] = 0]_vars
  BY <1>1
<1> QED
  BY Invariant, <1>2, PTL DEF Spec, NoRecycleUnderHolder

--------------------------------------------------------------------------------
\* Every reference is counted, so the count is never negative.
LEMMA CountIsNat ==
    ASSUME Types, RefsExact, NEW s \in Slots PROVE ioCount[s] \in Nat
<1> DEFINE O == Cardinality(Within(OwnerLabels, s))
           P == Cardinality(Within(PosterLabels, s))
<1>1. O \in Nat /\ P \in Nat
  <2>1. /\ IsFiniteSet(Within(OwnerLabels, s))
        /\ IsFiniteSet(Within(PosterLabels, s))
    BY ThreadsFinite, FS_Subset DEF Within
  <2> QED
    BY <2>1, FS_CardinalityType
<1>2. ioCount[s] = O + P + recvIO[s] + sendIO[s] + (IF s \in useable THEN 1 ELSE 0)
  BY DEF RefsExact, Bit
<1>3. recvIO[s] \in Nat /\ sendIO[s] \in Nat
  BY DEF Types
<1> HIDE DEF O, P
<1> QED
  BY <1>1, <1>2, <1>3

\* A step is one thread's; it takes a count to zero only on the way to
\* releaseSession, and clears a flag only in acceptThread.
OwnStep(t) ==
    /\ \A u \in Threads \ {t} : pc'[u] = pc[u] /\ cur'[u] = cur[u]
    /\ pc[t] = "Release" => Release(t) \/ (pc' = pc /\ cur' = cur)
    /\ \A s \in Slots :
          /\ ioCount'[s] = 0 /\ ioCount[s] # 0 => pc'[t] = "Release" /\ cur'[t] = s
          /\ flag'[s] = 0 /\ flag[s] # 0 => pc[t] = "ClearFlag" /\ cur[t] = s

LEMMA OwnSteps ==
    ASSUME IInv, [Next]_vars
    PROVE  \E t \in Threads : OwnStep(t)
<1> USE DEF IInv
<1>1. \A s \in Slots : ioCount[s] \in Nat
  BY CountIsNat
<1>2. \A t \in Threads : pc[t] \notin {"Idle", "Pop"} => cur[t] \in Slots
  BY DEF Roles
<1>3. Acceptor \in Threads /\ Workers \subseteq Threads /\ Callers \subseteq Threads
  BY DEF Threads
<1>4. ASSUME NEW t \in Threads, NEW l, Dec(t, l), pc[t] \notin {"Idle", "Pop", "Release"},
             flag' = flag
      PROVE  OwnStep(t)
  BY <1>1, <1>2, <1>4 DEF OwnStep, Dec, Return, Types
<1>5. ASSUME NEW t \in Threads, NEW l, Goto(t, l), Inc(cur[t]),
             pc[t] \notin {"Idle", "Pop", "Release"}, flag' = flag
      PROVE  OwnStep(t)
  BY <1>1, <1>2, <1>5 DEF OwnStep, Inc, Goto, Types
<1>6. ASSUME NEW t \in Threads, pc[t] # "Release",
             \A u \in Threads \ {t} : pc'[u] = pc[u] /\ cur'[u] = cur[u],
             ioCount' = ioCount, flag' = flag
      PROVE  OwnStep(t)
  BY <1>6 DEF OwnStep
<1>7. CASE AcceptorStep
  <2>1. CASE ClearFlag
    BY <1>2, <1>3, <2>1 DEF ClearFlag, At, Goto, OwnStep, Types
  <2>2. CASE AcceptorStep /\ ~ ClearFlag
    <3>1. /\ pc[Acceptor] # "Release" /\ ioCount' = ioCount /\ flag' = flag
          /\ \A u \in Threads \ {Acceptor} : pc'[u] = pc[u] /\ cur'[u] = cur[u]
      BY <1>3, <2>2 DEF AcceptorStep, Accept, Pop, SetID, SetSocket, Count, Join,
                        At, Goto, slotVars, Types
    <3> QED
      BY <1>3, <1>6, <3>1
  <2> QED
    BY <1>3, <1>7, <2>1, <2>2
<1>8. ASSUME NEW w \in Workers, WorkerStep(w) PROVE OwnStep(w)
  <2>1. /\ pc[w] # "Release" /\ ioCount' = ioCount /\ flag' = flag
        /\ \A u \in Threads \ {w} : pc'[u] = pc[u] /\ cur'[u] = cur[u]
    BY <1>3, <1>8 DEF WorkerStep, GqcsData, GqcsZero, Take, Deliver, SendDone,
                      At, Goto, slotVars, Types
  <2> QED
    BY <1>3, <1>6, <2>1
<1>9. ASSUME NEW c \in Callers, CallerStep(c) PROVE OwnStep(c)
  <2>1. CASE AcqInc(c)
    BY <1>3, <1>5, <2>1 DEF AcqInc, At
  <2>2. CASE AcqUndo(c)
    BY <1>3, <1>4, <2>2 DEF AcqUndo, At
  <2>3. ASSUME CallerStep(c), ~ AcqInc(c), ~ AcqUndo(c) PROVE OwnStep(c)
    <3>1. /\ pc[c] # "Release" /\ ioCount' = ioCount /\ flag' = flag
          /\ \A u \in Threads \ {c} : pc'[u] = pc[u] /\ cur'[u] = cur[u]
      BY <1>3, <2>3 DEF CallerStep, Call, AcqFlag, AcqID, UseSend, UseDisconnect,
                        At, Goto, slotVars, Types
    <3> QED
      BY <1>3, <1>6, <3>1
  <2> QED
    BY <1>9, <2>1, <2>2, <2>3
<1>10. ASSUME NEW t \in Threads, SharedStep(t) PROVE OwnStep(t)
  <2>1. CASE RecvInc(t) \/ SendInc(t) \/ RelInc(t)
    BY <1>5, <2>1 DEF RecvInc, SendInc, RelInc, At
  <2>2. CASE RecvUndo(t) \/ SendUndo2(t) \/ Final(t)
    BY <1>4, <2>2 DEF RecvUndo, SendUndo2, Final, At
  <2>3. CASE Release(t)
    <3>1. /\ ioCount' = ioCount
          /\ \A u \in Threads \ {t} : pc'[u] = pc[u] /\ cur'[u] = cur[u]
      BY <2>3 DEF Release, Goto, Return, Types
    <3>2. \A s \in Slots : flag'[s] = 0 => flag[s] = 0
      BY <2>3 DEF Release, Types
    <3> QED
      <4>1. \A s \in Slots :
              /\ ioCount'[s] = 0 /\ ioCount[s] # 0 => pc'[t] = "Release" /\ cur'[t] = s
              /\ flag'[s] = 0 /\ flag[s] # 0 => pc[t] = "ClearFlag" /\ cur[t] = s
        BY <3>1, <3>2
      <4>2. pc[t] = "Release" => Release(t) \/ (pc' = pc /\ cur' = cur)
        BY <2>3
      <4> QED
        BY <3>1, <4>1, <4>2, Zenon DEF OwnStep
  <2>4. CASE RecvPost(t) \/ SendTry(t) \/ SendPost(t) \/ SendUndo1(t)
    <3>1. /\ pc[t] # "Release" /\ ioCount' = ioCount /\ flag' = flag
          /\ \A u \in Threads \ {t} : pc'[u] = pc[u] /\ cur'[u] = cur[u]
      BY <2>4 DEF RecvPost, SendTry, SendPost, SendUndo1, At, Goto, slotVars, Types
    <3> QED
      BY <1>6, <3>1
  <2>5. CASE RelClose(t) \/ RelLeave(t) \/ RelPush(t) \/ RelCount(t)
    <3>1. /\ pc[t] # "Release" /\ ioCount' = ioCount /\ flag' = flag
          /\ \A u \in Threads \ {t} : pc'[u] = pc[u] /\ cur'[u] = cur[u]
      BY <2>5 DEF RelClose, RelLeave, RelPush, RelCount, At, Goto, Return, slotVars, Types
    <3> QED
      BY <1>6, <3>1
  <2> QED
    BY <1>10, <2>1, <2>2, <2>3, <2>4, <2>5 DEF SharedStep
<1>11. CASE (\E s \in Slots : Break(s)) \/ UNCHANGED vars
  <2>1. UNCHANGED <<pc, cur, ioCount, flag>>
    BY <1>11 DEF Break, vars, slotVars, threadVars
  <2> QED
    BY <1>3, <2>1 DEF OwnStep
<1> QED
  BY <1>3, <1>7, <1>8, <1>9, <1>10, <1>11 DEF Next

\* releaseSession is never forgotten: a session that is not released and that
\* nothing refers to has a thread about to try the exchange.
THEOREM LastReferenceIsNoticed == Spec => []ZeroIsNoticed
<1>1. Init => ZeroIsNoticed
  BY DEF Init, ZeroIsNoticed
<1>2. ASSUME IInv, IInv', ZeroIsNoticed, [Next]_vars PROVE ZeroIsNoticed'
  <2> SUFFICES ASSUME NEW s \in Slots, Live(s)', ioCount'[s] = 0
               PROVE  \E t \in Threads : pc'[t] = "Release" /\ cur'[t] = s
    BY DEF ZeroIsNoticed, Within
  <2>1. PICK t \in Threads : OwnStep(t)
    BY <1>2, OwnSteps
  <2>2. flag'[s] = 0 /\ s \notin useable'
    BY DEF Live
  <2>3. CASE ioCount[s] # 0
    BY <2>1, <2>3 DEF OwnStep
  <2>4. CASE ioCount[s] = 0
    <3>1. s \notin useable /\ \A u \in Threads : pc[u] \in OwnerLabels => cur[u] # s
      BY <1>2, <2>4, Counted DEF IInv
    <3>2. Within(SetupLabels, s) = {}
      BY <3>1, LabelFacts DEF Within
    <3>3. flag[s] = 0
      BY <2>1, <2>2, <3>1 DEF OwnStep, OwnerLabels
    <3>4. PICK u \in Threads : pc[u] = "Release" /\ cur[u] = s
      BY <1>2, <2>4, <3>1, <3>2, <3>3 DEF ZeroIsNoticed, Live, Within
    <3>5. CASE u # t
      BY <2>1, <3>4, <3>5 DEF OwnStep
    <3>6. CASE u = t /\ Release(t)
      <4>1. flag' = [flag EXCEPT ![s] = 1]
        BY <2>4, <3>3, <3>4, <3>6 DEF Release
      <4> QED
        BY <1>2, <2>2, <4>1 DEF IInv, Types
    <3>7. CASE u = t /\ ~ Release(t)
      BY <2>1, <3>4, <3>7 DEF OwnStep
    <3> QED
      BY <3>5, <3>6, <3>7
  <2> QED
    BY <2>3, <2>4
<1> QED
  BY Invariant, <1>1, <1>2, PTL DEF Spec

--------------------------------------------------------------------------------
(* Free slots and the count of sessions.                                   *)

\* where the acceptor has a slot that is neither free nor counted
UncountedLabels == SetupLabels \cup {"Count"}

\* acceptThread checked the count before it popped a slot, and it alone
\* increments it: the room it saw is still there.
Accounting ==
    /\ SlotsAccounted
    /\ sessionCount <= Cardinality(Slots)
    /\ pc[Acceptor] \in {"Pop"} \cup UncountedLabels => sessionCount < Cardinality(Slots)

LEMMA SlotsFinite ==
    ASSUME Types
    PROVE  IsFiniteSet(useable) /\ Cardinality(useable) \in Nat
           /\ Cardinality(useable) <= Cardinality(Slots)
           /\ Cardinality(Slots) \in Nat
<1>1. useable \subseteq Slots /\ IsFiniteSet(Slots)
  BY SlotsAssumption DEF Types
<1> QED
  BY <1>1, FS_Subset, FS_CardinalityType

Counting(where) == {t \in Threads : where[t] = "RelCount"}

LEMMA CountingMove ==
    ASSUME Types, NEW t \in Threads, \A u \in Threads \ {t} : pc'[u] = pc[u]
    PROVE  /\ Cardinality(Counting(pc)) \in Nat
           /\ pc[t] = "RelCount" => Cardinality(Counting(pc)) > 0
           /\ Cardinality(Counting(pc')) =
                 Cardinality(Counting(pc)) + (IF pc'[t] = "RelCount" THEN 1 ELSE 0)
                                           - (IF pc[t] = "RelCount" THEN 1 ELSE 0)
<1> DEFINE A == Counting(pc)
           B == Counting(pc')
<1>1. IsFiniteSet(A) /\ A \ {t} = B \ {t}
  BY ThreadsFinite, FS_Subset DEF Counting
<1>2. (t \in A <=> pc[t] = "RelCount") /\ (t \in B <=> pc'[t] = "RelCount")
  BY DEF Counting
<1> HIDE DEF A, B
<1>3. Cardinality(B) = Cardinality(A) + (IF t \in B THEN 1 ELSE 0)
                                      - (IF t \in A THEN 1 ELSE 0)
  BY <1>1, DifferInOne
<1>4. Cardinality(A) \in Nat
  BY <1>1, FS_CardinalityType
<1>5. t \in A => Cardinality(A) # 0
  BY <1>1, FS_EmptySet
<1>6. /\ Cardinality(A) \in Nat
      /\ pc[t] = "RelCount" => Cardinality(A) > 0
      /\ Cardinality(B) = Cardinality(A) + (IF pc'[t] = "RelCount" THEN 1 ELSE 0)
                                         - (IF pc[t] = "RelCount" THEN 1 ELSE 0)
  BY <1>2, <1>3, <1>4, <1>5
<1> QED
  BY <1>6 DEF A, B

\* One thread's move, and what it does to the three terms.
LEMMA AccountingMove ==
    ASSUME Types, Types', Accounting, NEW t \in Threads,
           \A u \in Threads \ {t} : pc'[u] = pc[u],
           Cardinality(useable') + sessionCount' - (Cardinality(useable) + sessionCount) =
                (IF pc'[t] = "RelCount" THEN 1 ELSE 0)
                - (IF pc[t] = "RelCount" THEN 1 ELSE 0)
                - (IF pc'[Acceptor] \in UncountedLabels THEN 1 ELSE 0)
                + (IF pc[Acceptor] \in UncountedLabels THEN 1 ELSE 0),
           sessionCount' <= Cardinality(Slots),
           pc'[Acceptor] \in {"Pop"} \cup UncountedLabels => sessionCount' < Cardinality(Slots)
    PROVE  Accounting'
<1>1. /\ Cardinality(useable) + sessionCount =
             Cardinality(Slots) + Cardinality(Counting(pc))
             - (IF pc[Acceptor] \in UncountedLabels THEN 1 ELSE 0)
  BY DEF Accounting, SlotsAccounted, Counting, Bit, UncountedLabels
<1>2. /\ Cardinality(Counting(pc)) \in Nat
      /\ Cardinality(Counting(pc')) =
                 Cardinality(Counting(pc)) + (IF pc'[t] = "RelCount" THEN 1 ELSE 0)
                                           - (IF pc[t] = "RelCount" THEN 1 ELSE 0)
  BY CountingMove
<1>3. /\ Cardinality(useable) \in Int /\ Cardinality(Slots) \in Int
      /\ sessionCount \in Int /\ sessionCount' \in Int
  BY SlotsFinite DEF Types
<1>4. Cardinality(useable') \in Int
  <2>1. useable' \subseteq Slots /\ IsFiniteSet(Slots)
    BY SlotsAssumption DEF Types
  <2> QED
    BY <2>1, FS_Subset, FS_CardinalityType
<1>5. Cardinality(useable') + sessionCount' =
             Cardinality(Slots) + Cardinality(Counting(pc'))
             - (IF pc'[Acceptor] \in UncountedLabels THEN 1 ELSE 0)
  <2> DEFINE a == IF pc'[t] = "RelCount" THEN 1 ELSE 0
             b == IF pc[t] = "RelCount" THEN 1 ELSE 0
             c == IF pc'[Acceptor] \in UncountedLabels THEN 1 ELSE 0
             d == IF pc[Acceptor] \in UncountedLabels THEN 1 ELSE 0
  <2>1. a \in Int /\ b \in Int /\ c \in Int /\ d \in Int
    OBVIOUS
  <2>2. /\ Cardinality(useable') + sessionCount' - (Cardinality(useable) + sessionCount)
                = a - b - c + d
        /\ Cardinality(useable) + sessionCount =
                Cardinality(Slots) + Cardinality(Counting(pc)) - d
        /\ Cardinality(Counting(pc')) = Cardinality(Counting(pc)) + a - b
    BY <1>1, <1>2
  <2> HIDE DEF a, b, c, d
  <2>3. Cardinality(useable') + sessionCount' =
             Cardinality(Slots) + Cardinality(Counting(pc')) - c
    BY <1>2, <1>3, <1>4, <2>1, <2>2
  <2> QED
    BY <2>3 DEF c
<1> QED
  BY <1>5 DEF Accounting, SlotsAccounted, Counting, Bit, UncountedLabels

\* A step that leaves the free slots and the count alone.
LEMMA AccountingSame ==
    ASSUME Types, Types', Accounting, NEW t \in Threads,
           \A u \in Threads \ {t} : pc'[u] = pc[u],
           UNCHANGED <<useable, sessionCount>>,
           pc'[t] # "RelCount", pc[t] # "RelCount",
           pc'[t] \in UncountedLabels <=> pc[t] \in UncountedLabels,
           pc'[t] = "Pop" => pc[t] = "Pop" \/ sessionCount # Cardinality(Slots)
    PROVE  Accounting'
<1>1. pc'[Acceptor] \in UncountedLabels <=> pc[Acceptor] \in UncountedLabels
  BY DEF Threads
<1>2. Cardinality(useable) \in Int /\ sessionCount \in Int /\ Cardinality(Slots) \in Int
  BY SlotsFinite DEF Types
<1>3. sessionCount <= Cardinality(Slots)
  BY DEF Accounting
<1>4. pc'[Acceptor] \in {"Pop"} \cup UncountedLabels => sessionCount' < Cardinality(Slots)
  BY <1>1, <1>2, <1>3 DEF Accounting, Threads
<1>5. Cardinality(useable') + sessionCount' - (Cardinality(useable) + sessionCount) = 0
  BY <1>2
<1>6. 0 = (IF pc'[t] = "RelCount" THEN 1 ELSE 0)
          - (IF pc[t] = "RelCount" THEN 1 ELSE 0)
          - (IF pc'[Acceptor] \in UncountedLabels THEN 1 ELSE 0)
          + (IF pc[Acceptor] \in UncountedLabels THEN 1 ELSE 0)
  BY <1>1
<1> QED
  BY <1>3, <1>4, <1>5, <1>6, AccountingMove

LEMMA AccountingNext ==
    ASSUME IInv, IInv', Accounting, [Next]_vars PROVE Accounting'
<1>0. /\ Types /\ Types' /\ Exclusive
      /\ Acceptor \in Threads /\ Workers \subseteq Threads /\ Callers \subseteq Threads
      /\ sessionCount \in Int /\ Cardinality(Slots) \in Nat /\ Cardinality(useable) \in Nat
      /\ IsFiniteSet(useable)
  BY SlotsFinite DEF IInv, Types, Threads
<1>1. CASE AcceptorStep
  <2>1. CASE Pop
    <3>1. PICK s \in useable : useable' = useable \ {s}
      BY <2>1 DEF Pop
    <3>2. Cardinality(useable') = Cardinality(useable) - 1
      BY <1>0, <3>1, FS_RemoveElement
    <3>3. /\ pc[Acceptor] = "Pop" /\ pc'[Acceptor] = "SetID" /\ sessionCount' = sessionCount
          /\ \A u \in Threads \ {Acceptor} : pc'[u] = pc[u]
      BY <1>0, <2>1 DEF Pop, At, Types
    <3>4. "SetID" \in UncountedLabels /\ "Pop" \notin UncountedLabels
      BY DEF UncountedLabels, SetupLabels
    <3> QED
      BY <1>0, <3>2, <3>3, <3>4, AccountingMove DEF Accounting
  <2>2. CASE Count
    <3>1. /\ pc[Acceptor] = "Count" /\ pc'[Acceptor] = "Join"
          /\ sessionCount' = sessionCount + 1 /\ useable' = useable
          /\ \A u \in Threads \ {Acceptor} : pc'[u] = pc[u]
      BY <1>0, <2>2 DEF Count, At, Goto, Types
    <3>2. "Count" \in UncountedLabels /\ "Join" \notin {"Pop"} \cup UncountedLabels
      BY DEF UncountedLabels, SetupLabels
    <3>3. sessionCount' <= Cardinality(Slots)
      BY <1>0, <3>1, <3>2 DEF Accounting
    <3> QED
      BY <1>0, <3>1, <3>2, <3>3, AccountingMove
  <2>3. CASE Accept \/ SetID \/ SetSocket \/ ClearFlag \/ Join
    <3>1. /\ UNCHANGED <<useable, sessionCount>>
          /\ \A u \in Threads \ {Acceptor} : pc'[u] = pc[u]
          /\ pc'[Acceptor] # "RelCount" /\ pc[Acceptor] # "RelCount"
          /\ pc'[Acceptor] \in UncountedLabels <=> pc[Acceptor] \in UncountedLabels
          /\ pc'[Acceptor] = "Pop" => sessionCount # Cardinality(Slots)
      BY <1>0, <2>3 DEF Accept, SetID, SetSocket, ClearFlag, Join, At, Goto, Types,
                        serverVars, UncountedLabels, SetupLabels
    <3> QED
      BY <1>0, <3>1, AccountingSame
  <2> QED
    BY <1>1, <2>1, <2>2, <2>3 DEF AcceptorStep
<1>2. ASSUME NEW w \in Workers, WorkerStep(w) PROVE Accounting'
  <2>1. /\ UNCHANGED <<useable, sessionCount>>
        /\ \A u \in Threads \ {w} : pc'[u] = pc[u]
        /\ pc'[w] \notin {"RelCount", "Pop"} \cup UncountedLabels
        /\ pc[w] \notin {"RelCount"} \cup UncountedLabels
    BY <1>0, <1>2 DEF WorkerStep, GqcsData, GqcsZero, Take, Deliver, SendDone, At, Goto,
                      Types, serverVars, UncountedLabels, SetupLabels
  <2> QED
    BY <1>0, <2>1, AccountingSame
<1>3. ASSUME NEW c \in Callers, CallerStep(c) PROVE Accounting'
  <2>1. CASE AcqUndo(c)
    <3>1. /\ UNCHANGED <<useable, sessionCount>>
          /\ \A u \in Threads \ {c} : pc'[u] = pc[u]
          /\ pc'[c] \notin {"RelCount", "Pop"} \cup UncountedLabels
          /\ pc[c] \notin {"RelCount"} \cup UncountedLabels
      BY <1>0, <2>1 DEF AcqUndo, Dec, Return, At, Types, serverVars, UncountedLabels,
                        SetupLabels
    <3> QED
      BY <1>0, <3>1, AccountingSame
  <2>2. ASSUME CallerStep(c), ~ AcqUndo(c) PROVE Accounting'
    <3>1. /\ UNCHANGED <<useable, sessionCount>>
          /\ \A u \in Threads \ {c} : pc'[u] = pc[u]
          /\ pc'[c] \notin {"RelCount", "Pop"} \cup UncountedLabels
          /\ pc[c] \notin {"RelCount"} \cup UncountedLabels
      BY <1>0, <2>2 DEF CallerStep, Call, AcqInc, AcqFlag, AcqID, UseSend, UseDisconnect,
                        At, Goto, Types, serverVars, UncountedLabels, SetupLabels
    <3> QED
      BY <1>0, <3>1, AccountingSame
  <2> QED
    BY <1>3, <2>1, <2>2
<1>4. ASSUME NEW t \in Threads, SharedStep(t) PROVE Accounting'
  <2>1. CASE RelPush(t)
    <3>1. /\ pc[t] = "RelPush" /\ pc'[t] = "RelCount" /\ sessionCount' = sessionCount
          /\ useable' = useable \cup {cur[t]} /\ cur[t] \notin useable
          /\ \A u \in Threads \ {t} : pc'[u] = pc[u]
      BY <1>0, <2>1 DEF RelPush, At, Goto, Types, IInv, Exclusive, Roles, ReleaseLabels
    <3>2. Cardinality(useable') = Cardinality(useable) + 1
      BY <1>0, <3>1, FS_AddElement
    <3>3. pc'[Acceptor] \in {"Pop"} \cup UncountedLabels <=>
                pc[Acceptor] \in {"Pop"} \cup UncountedLabels
      BY <1>0, <3>1 DEF UncountedLabels, SetupLabels
    <3>4. pc'[Acceptor] \in UncountedLabels <=> pc[Acceptor] \in UncountedLabels
      BY <1>0, <3>1 DEF UncountedLabels, SetupLabels
    <3>5. Cardinality(useable') + sessionCount' - (Cardinality(useable) + sessionCount) =
                (IF pc'[t] = "RelCount" THEN 1 ELSE 0)
                - (IF pc[t] = "RelCount" THEN 1 ELSE 0)
                - (IF pc'[Acceptor] \in UncountedLabels THEN 1 ELSE 0)
                + (IF pc[Acceptor] \in UncountedLabels THEN 1 ELSE 0)
      BY <1>0, <3>1, <3>2, <3>4
    <3> QED
      BY <1>0, <3>1, <3>3, <3>5, AccountingMove DEF Accounting
  <2>2. CASE RelCount(t)
    <3>1. /\ pc[t] = "RelCount" /\ pc'[t] = ret[t] /\ sessionCount' = sessionCount - 1
          /\ useable' = useable /\ ret[t] \in {"Idle", "Final"}
          /\ \A u \in Threads \ {t} : pc'[u] = pc[u]
      BY <1>0, <2>2 DEF RelCount, At, Return, Types
    <3>3. pc'[Acceptor] \in {"Pop"} \cup UncountedLabels =>
                pc[Acceptor] \in {"Pop"} \cup UncountedLabels
      BY <1>0, <3>1 DEF UncountedLabels, SetupLabels
    <3>4. pc'[Acceptor] \in UncountedLabels <=> pc[Acceptor] \in UncountedLabels
      BY <1>0, <3>1 DEF UncountedLabels, SetupLabels
    <3>5. Cardinality(useable') + sessionCount' - (Cardinality(useable) + sessionCount) =
                (IF pc'[t] = "RelCount" THEN 1 ELSE 0)
                - (IF pc[t] = "RelCount" THEN 1 ELSE 0)
                - (IF pc'[Acceptor] \in UncountedLabels THEN 1 ELSE 0)
                + (IF pc[Acceptor] \in UncountedLabels THEN 1 ELSE 0)
      BY <1>0, <3>1, <3>4
    <3>6. sessionCount' < Cardinality(Slots) \/ sessionCount' = sessionCount - 1
      BY <3>1
    <3>7. /\ sessionCount' <= Cardinality(Slots)
          /\ pc'[Acceptor] \in {"Pop"} \cup UncountedLabels =>
                sessionCount' < Cardinality(Slots)
      BY <1>0, <3>1, <3>3 DEF Accounting
    <3> QED
      BY <1>0, <3>1, <3>5, <3>7, AccountingMove
  <2>3. CASE RecvUndo(t) \/ SendUndo2(t) \/ Final(t)
    <3>1. /\ UNCHANGED <<useable, sessionCount>>
          /\ \A u \in Threads \ {t} : pc'[u] = pc[u]
          /\ pc'[t] \notin {"RelCount", "Pop"} \cup UncountedLabels
          /\ pc[t] \notin {"RelCount"} \cup UncountedLabels
      BY <1>0, <2>3 DEF RecvUndo, SendUndo2, Final, Dec, Return, At, Types, serverVars,
                        UncountedLabels, SetupLabels
    <3> QED
      BY <1>0, <3>1, AccountingSame
  <2>4. CASE Release(t) \/ RelClose(t) \/ RelInc(t) \/ RelLeave(t)
    <3>1. /\ UNCHANGED <<useable, sessionCount>>
          /\ \A u \in Threads \ {t} : pc'[u] = pc[u]
          /\ pc'[t] \notin {"RelCount", "Pop"} \cup UncountedLabels
          /\ pc[t] \notin {"RelCount"} \cup UncountedLabels
      BY <1>0, <2>4 DEF Release, RelClose, RelInc, RelLeave, Goto, Return, At, Types,
                        serverVars, UncountedLabels, SetupLabels
    <3> QED
      BY <1>0, <3>1, AccountingSame
  <2>5. CASE \/ RecvInc(t) \/ RecvPost(t) \/ SendTry(t) \/ SendInc(t) \/ SendPost(t)
             \/ SendUndo1(t)
    <3>1. /\ UNCHANGED <<useable, sessionCount>>
          /\ \A u \in Threads \ {t} : pc'[u] = pc[u]
          /\ pc'[t] \notin {"RelCount", "Pop"} \cup UncountedLabels
          /\ pc[t] \notin {"RelCount"} \cup UncountedLabels
      BY <1>0, <2>5 DEF RecvInc, RecvPost, SendTry, SendInc, SendPost, SendUndo1, Goto,
                        At, Types, serverVars, UncountedLabels, SetupLabels
    <3> QED
      BY <1>0, <3>1, AccountingSame
  <2> QED
    BY <1>4, <2>1, <2>2, <2>3, <2>4, <2>5 DEF SharedStep
<1>5. CASE (\E s \in Slots : Break(s)) \/ UNCHANGED vars
  <2>1. UNCHANGED <<pc, useable, sessionCount>>
    BY <1>5 DEF Break, vars, serverVars, threadVars
  <2> QED
    BY <2>1 DEF Accounting, SlotsAccounted
<1> QED
  BY <1>1, <1>2, <1>3, <1>4, <1>5 DEF Next

LEMMA AccountingInit == Init => Accounting
<1> SUFFICES ASSUME Init PROVE Accounting
  OBVIOUS
<1>1. {t \in Threads : pc[t] = "RelCount"} = {}
  BY DEF Init
<1>2. Acceptor \in Threads /\ pc[Acceptor] = "Idle"
  BY DEF Init, Threads
<1>3. Cardinality(Slots) \in Nat
  BY SlotsAssumption, FS_CardinalityType
<1>4. Cardinality({t \in Threads : pc[t] = "RelCount"}) = 0
  BY <1>1, FS_EmptySet, Zenon
<1>5. useable = Slots /\ sessionCount = 0
  BY DEF Init
<1>6. pc[Acceptor] \notin SetupLabels \cup {"Count", "Pop"}
  BY <1>2 DEF SetupLabels
<1> QED
  BY <1>3, <1>4, <1>5, <1>6 DEF Accounting, SlotsAccounted, Bit, UncountedLabels

LEMMA AccountingHolds == Spec => []Accounting
BY Invariant, AccountingInit, AccountingNext, PTL DEF Spec

\* The free slots, the sessions counted by mCurrentSessionCount and those on
\* their way from one to the other make up the table.
THEOREM EverySlotAccounted == Spec => []SlotsAccounted
<1>1. Accounting => SlotsAccounted
  BY DEF Accounting
<1> QED
  BY AccountingHolds, <1>1, PTL

\* Since releaseSession counts a session out after it pushed its slot,
\* acceptThread finds a slot whenever the count says there is room.
THEOREM PopFindsSlot == Spec => []NeverPopEmpty
<1>1. ASSUME IInv, Accounting PROVE NeverPopEmpty
  <2> SUFFICES ASSUME pc[Acceptor] = "Pop", useable = {} PROVE FALSE
    BY DEF NeverPopEmpty, At
  <2>1. IsFiniteSet(Counting(pc))
    BY ThreadsFinite, FS_Subset DEF Counting
  <2>2. Cardinality(Counting(pc)) \in Nat /\ Cardinality(useable) = 0
    BY <2>1, FS_CardinalityType, FS_EmptySet
  <2>3. pc[Acceptor] \notin SetupLabels \cup {"Count"}
    BY DEF SetupLabels
  <2>4. 0 + sessionCount = Cardinality(Slots) + Cardinality(Counting(pc)) - 0
    BY <1>1, <2>2, <2>3 DEF Accounting, SlotsAccounted, Bit, Counting
  <2>5. sessionCount \in Int /\ Cardinality(Slots) \in Nat
    BY <1>1, SlotsFinite DEF IInv, Types
  <2> QED
    BY <1>1, <2>2, <2>4, <2>5 DEF Accounting
<1> QED
  BY Invariant, AccountingHolds, <1>1, PTL

\* Every variable keeps its type; in particular neither count goes negative.
THEOREM TypeCorrect == Spec => []TypeOK
<1>1. ASSUME IInv, Accounting PROVE TypeOK
  <2> USE DEF IInv
  <2>1. ioCount \in [Slots -> Nat]
    BY <1>1, CountIsNat DEF Types
  <2>2. sessionCount \in Nat
    <3>1. IsFiniteSet(Counting(pc))
      BY ThreadsFinite, FS_Subset DEF Counting
    <3>2. Cardinality(Counting(pc)) \in Nat
      BY <3>1, FS_CardinalityType
    <3>3. /\ Cardinality(useable) \in Nat /\ Cardinality(useable) <= Cardinality(Slots)
          /\ Cardinality(Slots) \in Nat /\ sessionCount \in Int
      BY <1>1, SlotsFinite DEF Types
    <3>4. Cardinality(useable) + sessionCount =
             Cardinality(Slots) + Cardinality(Counting(pc))
             - (IF pc[Acceptor] \in SetupLabels \cup {"Count"} THEN 1 ELSE 0)
      BY <1>1 DEF Accounting, SlotsAccounted, Bit, Counting
    <3>5. CASE pc[Acceptor] \in SetupLabels \cup {"Count"}
      <4>1. cur[Acceptor] \in Slots \ useable
        BY <1>1, <3>5 DEF Roles, Exclusive, HolderSafe, HolderLabels, Live, Threads,
                          SetupLabels
      <4>2. Cardinality(useable) # Cardinality(Slots)
        <5>1. IsFiniteSet(Slots) /\ useable \subseteq Slots
          BY <1>1, SlotsAssumption DEF Types
        <5> QED
          BY <4>1, <5>1, FS_Subset
      <4> QED
        BY <3>2, <3>3, <3>4, <3>5, <4>2
    <3>6. CASE pc[Acceptor] \notin SetupLabels \cup {"Count"}
      BY <3>2, <3>3, <3>4, <3>6
    <3> QED
      BY <3>5, <3>6
  <2> QED
    BY <1>1, <2>1, <2>2 DEF Types, Roles, TypeOK
<1> QED
  BY Invariant, AccountingHolds, <1>1, PTL

--------------------------------------------------------------------------------
(* One receive and one send at a time.                                     *)

\* where a thread has the session's receive in its hands, and its send
RecvLabels == {"Count", "Join", "Deliver", "RecvInc", "RecvPost"}
SendLabels == {"SendDone", "SendInc", "SendPost", "SendUndo1"}

\* A new session has no receive before its acceptor posts the first, and who
\* has the send has set bIsSending.
OneOfAKind ==
    \A s \in Slots :
        /\ recvIO[s] + Cardinality(Within(RecvLabels, s)) <= 1
        /\ sendIO[s] + Cardinality(Within(SendLabels, s)) <= 1
        /\ sendIO[s] + Cardinality(Within(SendLabels, s)) = 1 => sending[s]

\* what a thread at label l of slot c counts for slot s
Here(l, c, labels, s) == IF l \in labels /\ c = s THEN 1 ELSE 0

\* the operations of a slot that are posted or in this thread's hands
Recvs(t, s) == recvIO[s] + Here(pc[t], cur[t], RecvLabels, s)
Sends(t, s) == sendIO[s] + Here(pc[t], cur[t], SendLabels, s)

NoRecv(s) == recvIO[s] = 0 /\ Within(RecvLabels, s) = {}
NoSend(s) == sendIO[s] = 0 /\ Within(SendLabels, s) = {}

\* what a step of one thread may do to the operations of a slot
RecvMove(t, s) ==
    \/ Recvs(t, s)' <= Recvs(t, s)
    \/ NoRecv(s) /\ Recvs(t, s)' <= 1
SendMove(t, s) ==
    \/ Sends(t, s)' = Sends(t, s) /\ (sending[s] => sending'[s])
    \/ Sends(t, s)' = Sends(t, s) - 1
    \/ NoSend(s) /\ Sends(t, s)' <= 1 /\ (Sends(t, s)' = 1 => sending'[s])

LEMMA OneOfAKindMove ==
    ASSUME Types, Types', OneOfAKind, NEW t \in Threads,
           \A u \in Threads \ {t} : pc'[u] = pc[u] /\ cur'[u] = cur[u],
           \A s \in Slots : RecvMove(t, s) /\ SendMove(t, s)
    PROVE  OneOfAKind'
<1> SUFFICES ASSUME NEW s \in Slots
             PROVE  LET r == Cardinality(Members(pc', cur', RecvLabels, s))
                        n == Cardinality(Members(pc', cur', SendLabels, s))
                    IN  /\ recvIO'[s] + r <= 1
                        /\ sendIO'[s] + n <= 1
                        /\ sendIO'[s] + n = 1 => sending'[s]
  BY DEF OneOfAKind, Within, Members
<1> DEFINE R == Cardinality(Members(pc, cur, RecvLabels, s))
           R2 == Cardinality(Members(pc', cur', RecvLabels, s))
           S == Cardinality(Members(pc, cur, SendLabels, s))
           S2 == Cardinality(Members(pc', cur', SendLabels, s))
<1>1. \A labels, r :
        /\ Cardinality(Members(pc, cur, labels, r)) \in Nat
        /\ Cardinality(Members(pc', cur', labels, r)) =
             Cardinality(Members(pc, cur, labels, r))
             + (IF pc'[t] \in labels /\ cur'[t] = r THEN 1 ELSE 0)
             - (IF pc[t] \in labels /\ cur[t] = r THEN 1 ELSE 0)
  BY MembersMove, Zenon
<1>2. /\ R \in Nat /\ S \in Nat
      /\ R2 = R + Here(pc'[t], cur'[t], RecvLabels, s) - Here(pc[t], cur[t], RecvLabels, s)
      /\ S2 = S + Here(pc'[t], cur'[t], SendLabels, s) - Here(pc[t], cur[t], SendLabels, s)
  BY <1>1 DEF Here
<1>3. \A l, c, labels : Here(l, c, labels, s) \in {0, 1}
  BY DEF Here
<1>4. /\ recvIO[s] + R <= 1 /\ sendIO[s] + S <= 1
      /\ sendIO[s] + S = 1 => sending[s]
  BY DEF OneOfAKind, Within, Members
<1>5. /\ recvIO[s] \in Nat /\ sendIO[s] \in Nat
      /\ recvIO'[s] \in Nat /\ sendIO'[s] \in Nat
  BY DEF Types
<1>6. NoRecv(s) => recvIO[s] + R = 0 /\ Here(pc[t], cur[t], RecvLabels, s) = 0
  BY FS_EmptySet DEF NoRecv, Within, Members, Here
<1>7. NoSend(s) => sendIO[s] + S = 0 /\ Here(pc[t], cur[t], SendLabels, s) = 0
  BY FS_EmptySet DEF NoSend, Within, Members, Here
<1>8. RecvMove(t, s) /\ SendMove(t, s)
  OBVIOUS
<1> DEFINE h == Here(pc[t], cur[t], RecvLabels, s)
           h2 == Here(pc'[t], cur'[t], RecvLabels, s)
           k == Here(pc[t], cur[t], SendLabels, s)
           k2 == Here(pc'[t], cur'[t], SendLabels, s)
<1>9. /\ R2 = R + h2 - h /\ S2 = S + k2 - k
      /\ h \in {0, 1} /\ h2 \in {0, 1} /\ k \in {0, 1} /\ k2 \in {0, 1}
  BY <1>2, <1>3
<1>10. \/ recvIO'[s] + h2 <= recvIO[s] + h
       \/ recvIO[s] + R = 0 /\ h = 0 /\ recvIO'[s] + h2 <= 1
  BY <1>6, <1>8 DEF RecvMove, Recvs
<1>11. \/ sendIO'[s] + k2 = sendIO[s] + k /\ (sending[s] => sending'[s])
       \/ sendIO'[s] + k2 = sendIO[s] + k - 1
       \/ /\ sendIO[s] + S = 0 /\ k = 0 /\ sendIO'[s] + k2 <= 1
          /\ sendIO'[s] + k2 = 1 => sending'[s]
  <2>1. Sends(t, s) = sendIO[s] + k /\ Sends(t, s)' = sendIO'[s] + k2
    BY DEF Sends
  <2>2. NoSend(s) => sendIO[s] + S = 0 /\ k = 0
    BY <1>7
  <2> HIDE DEF S, k, k2
  <2>3. CASE Sends(t, s)' = Sends(t, s) /\ (sending[s] => sending'[s])
    <3>1. sendIO'[s] + k2 = sendIO[s] + k
      BY <2>1, <2>3
    <3>2. sending[s] => sending'[s]
      BY <2>3
    <3> QED
      BY <3>1, <3>2
  <2>4. CASE Sends(t, s)' = Sends(t, s) - 1
    <3>1. sendIO'[s] + k2 = sendIO[s] + k - 1
      BY <1>5, <1>9, <2>1, <2>4
    <3> QED
      BY <3>1
  <2>5. CASE NoSend(s) /\ Sends(t, s)' <= 1 /\ (Sends(t, s)' = 1 => sending'[s])
    <3>1. sendIO[s] + S = 0 /\ k = 0 /\ sendIO'[s] + k2 <= 1
      BY <2>1, <2>2, <2>5
    <3>2. sendIO'[s] + k2 = 1 => sending'[s]
      BY <2>1, <2>5
    <3> QED
      BY <3>1, <3>2
  <2> QED
    BY <1>8, <2>3, <2>4, <2>5, Zenon DEF SendMove
<1> HIDE DEF R, R2, S, S2, h, h2, k, k2
<1>12. recvIO'[s] + R2 <= 1
  BY <1>2, <1>4, <1>5, <1>9, <1>10
<1>13. sendIO'[s] + S2 <= 1 /\ (sendIO'[s] + S2 = 1 => sending'[s])
  BY <1>2, <1>4, <1>5, <1>9, <1>11
<1> QED
  BY <1>12, <1>13 DEF R2, S2

\* A step that leaves both to whoever has them.
LEMMA OneOfAKindKeep ==
    ASSUME Types, Types', OneOfAKind, NEW t \in Threads,
           \A u \in Threads \ {t} : pc'[u] = pc[u] /\ cur'[u] = cur[u],
           UNCHANGED <<recvIO, sendIO, sending>>,
           pc'[t] \in RecvLabels => pc[t] \in RecvLabels /\ cur'[t] = cur[t],
           pc'[t] \notin SendLabels, pc[t] \notin SendLabels
    PROVE  OneOfAKind'
<1>1. ASSUME NEW s \in Slots PROVE RecvMove(t, s) /\ SendMove(t, s)
  <2>1. recvIO[s] \in Nat /\ sendIO[s] \in Nat
    BY DEF Types
  <2> QED
    BY <2>1 DEF RecvMove, SendMove, Recvs, Sends, Here
<1> QED
  BY <1>1, OneOfAKindMove

\* A slot that is not live has neither.
LEMMA NothingPosted ==
    ASSUME IInv, NEW s \in Slots, ~ Live(s)
    PROVE  NoRecv(s) /\ NoSend(s)
<1>1. recvIO[s] \in Nat /\ sendIO[s] \in Nat /\ ~ (recvIO[s] + sendIO[s] > 0)
  BY DEF IInv, Types, HolderSafe
<1>2. \A t \in Threads : pc[t] \in RecvLabels \cup SendLabels => cur[t] # s
  BY DEF IInv, HolderSafe, HolderLabels, RecvLabels, SendLabels
<1> QED
  BY <1>1, <1>2 DEF NoRecv, NoSend, Within

LEMMA OneOfAKindNext ==
    ASSUME IInv, IInv', OneOfAKind, [Next]_vars PROVE OneOfAKind'
<1>0. /\ Types /\ Types'
      /\ Acceptor \in Threads /\ Workers \subseteq Threads /\ Callers \subseteq Threads
      /\ \A t \in Threads : pc[t] \notin {"Idle", "Pop"} => cur[t] \in Slots
      /\ \A s \in Slots : recvIO[s] \in Nat /\ sendIO[s] \in Nat
  BY DEF IInv, Types, Threads, Roles
<1> USE DEF RecvLabels, SendLabels
<1>1. CASE AcceptorStep
  <2>1. CASE Accept \/ Pop \/ SetID \/ Count \/ Join
    <3>1. /\ UNCHANGED <<recvIO, sendIO, sending>>
          /\ \A u \in Threads \ {Acceptor} : pc'[u] = pc[u] /\ cur'[u] = cur[u]
          /\ pc'[Acceptor] \in RecvLabels =>
                pc[Acceptor] \in RecvLabels /\ cur'[Acceptor] = cur[Acceptor]
          /\ pc'[Acceptor] \notin SendLabels /\ pc[Acceptor] \notin SendLabels
      BY <1>0, <2>1 DEF Accept, Pop, SetID, Count, Join, At, Goto, slotVars, ioVars, Types
    <3> QED
      BY <1>0, <3>1, OneOfAKindKeep
  <2>2. CASE SetSocket \/ ClearFlag
    <3> DEFINE c == cur[Acceptor]
    <3>1. /\ c \in Slots /\ ~ Live(c)
          /\ \A u \in Threads \ {Acceptor} : pc'[u] = pc[u] /\ cur'[u] = cur[u]
          /\ pc[Acceptor] \notin RecvLabels \cup SendLabels
          /\ pc'[Acceptor] \notin SendLabels
          /\ cur' = cur /\ UNCHANGED <<recvIO, sendIO>>
          /\ \A s \in Slots \ {c} : sending'[s] = sending[s]
      BY <1>0, <2>2 DEF SetSocket, ClearFlag, At, Goto, ioVars, Types, Live, Within,
                        SetupLabels
    <3>2. NoRecv(c) /\ NoSend(c)
      BY <3>1, NothingPosted
    <3>3. ASSUME NEW s \in Slots PROVE RecvMove(Acceptor, s) /\ SendMove(Acceptor, s)
      <4>1. CASE s = c
        BY <1>0, <3>1, <3>2, <4>1
           DEF RecvMove, SendMove, Recvs, Sends, Here, NoRecv, NoSend
      <4>2. CASE s # c
        BY <1>0, <3>1, <4>2 DEF RecvMove, SendMove, Recvs, Sends, Here
      <4> QED
        BY <4>1, <4>2
    <3> QED
      BY <1>0, <3>1, <3>3, OneOfAKindMove
  <2> QED
    BY <1>1, <2>1, <2>2 DEF AcceptorStep
<1>2. ASSUME NEW w \in Workers, WorkerStep(w) PROVE OneOfAKind'
  <2>1. ASSUME NEW s \in Slots, NEW kind \in {"recv", "send"},
               GqcsData(w, s, kind) \/ GqcsZero(w, s, kind)
        PROVE  OneOfAKind'
    <3>1. /\ pc[w] = "Idle" /\ cur'[w] = s /\ sending' = sending
          /\ \A u \in Threads \ {w} : pc'[u] = pc[u] /\ cur'[u] = cur[u]
      BY <1>0, <2>1 DEF GqcsData, GqcsZero, Take, At, slotVars, Types
    <3>2. CASE kind = "recv"
      <4>1. /\ recvIO[s] > 0 /\ recvIO' = [recvIO EXCEPT ![s] = @ - 1]
            /\ sendIO' = sendIO /\ pc'[w] \in {"Deliver", "Final"}
        BY <1>0, <2>1, <3>2 DEF GqcsData, GqcsZero, Take, Types
      <4>2. ASSUME NEW r \in Slots PROVE RecvMove(w, r) /\ SendMove(w, r)
        BY <1>0, <3>1, <4>1 DEF RecvMove, SendMove, Recvs, Sends, Here, Types
      <4> QED
        BY <1>0, <3>1, <4>2, OneOfAKindMove
    <3>3. CASE kind = "send"
      <4>1. /\ sendIO[s] > 0 /\ sendIO' = [sendIO EXCEPT ![s] = @ - 1]
            /\ recvIO' = recvIO /\ pc'[w] \in {"SendDone", "Final"}
        BY <1>0, <2>1, <3>3 DEF GqcsData, GqcsZero, Take, Types
      <4>2. ASSUME NEW r \in Slots PROVE RecvMove(w, r) /\ SendMove(w, r)
        BY <1>0, <3>1, <4>1 DEF RecvMove, SendMove, Recvs, Sends, Here, Types
      <4> QED
        BY <1>0, <3>1, <4>2, OneOfAKindMove
    <3> QED
      BY <3>2, <3>3
  <2>2. CASE Deliver(w)
    <3>1. /\ UNCHANGED <<recvIO, sendIO, sending, cur>>
          /\ \A u \in Threads \ {w} : pc'[u] = pc[u]
          /\ pc[w] = "Deliver" /\ pc'[w] \in {"RecvInc", "Final"}
      BY <1>0, <2>2 DEF Deliver, At, Goto, slotVars, ioVars, Types
    <3> QED
      BY <1>0, <3>1, OneOfAKindKeep
  <2>3. CASE SendDone(w)
    <3>1. /\ UNCHANGED <<recvIO, sendIO, cur>> /\ cur[w] \in Slots
          /\ \A s \in Slots \ {cur[w]} : sending'[s] = sending[s]
          /\ \A u \in Threads \ {w} : pc'[u] = pc[u]
          /\ pc[w] = "SendDone" /\ pc'[w] = "SendTry"
      BY <1>0, <2>3 DEF SendDone, At, Goto, ioVars, Types
    <3>2. ASSUME NEW s \in Slots PROVE RecvMove(w, s) /\ SendMove(w, s)
      BY <1>0, <3>1 DEF RecvMove, SendMove, Recvs, Sends, Here
    <3> QED
      BY <1>0, <3>1, <3>2, OneOfAKindMove
  <2> QED
    BY <1>2, <2>1, <2>2, <2>3 DEF WorkerStep
<1>3. ASSUME NEW c \in Callers, CallerStep(c) PROVE OneOfAKind'
  <2>1. /\ UNCHANGED <<recvIO, sendIO, sending>>
        /\ \A u \in Threads \ {c} : pc'[u] = pc[u] /\ cur'[u] = cur[u]
        /\ pc'[c] \notin RecvLabels \cup SendLabels
        /\ pc[c] \notin SendLabels
    <3>1. CASE AcqUndo(c)
      BY <1>0, <3>1 DEF AcqUndo, Dec, Return, At, ioVars, Types
    <3>2. ASSUME CallerStep(c), ~ AcqUndo(c)
          PROVE  /\ UNCHANGED <<recvIO, sendIO, sending>>
                 /\ \A u \in Threads \ {c} : pc'[u] = pc[u] /\ cur'[u] = cur[u]
                 /\ pc'[c] \notin RecvLabels \cup SendLabels
                 /\ pc[c] \notin SendLabels
      BY <1>0, <3>2 DEF CallerStep, Call, AcqInc, AcqFlag, AcqID, UseSend, UseDisconnect,
                        At, Goto, slotVars, ioVars, Types
    <3> QED
      BY <1>3, <3>1, <3>2
  <2> QED
    BY <1>0, <2>1, OneOfAKindKeep
<1>4. ASSUME NEW t \in Threads, SharedStep(t) PROVE OneOfAKind'
  <2>1. CASE RecvInc(t) \/ Release(t) \/ RelClose(t) \/ RelInc(t) \/ RelLeave(t)
             \/ RelPush(t) \/ RelCount(t)
    <3>1. /\ UNCHANGED <<recvIO, sendIO, sending>>
          /\ \A u \in Threads \ {t} : pc'[u] = pc[u] /\ cur'[u] = cur[u]
          /\ pc'[t] \in RecvLabels => pc[t] \in RecvLabels /\ cur'[t] = cur[t]
          /\ pc'[t] \notin SendLabels /\ pc[t] \notin SendLabels
      BY <1>0, <2>1 DEF RecvInc, Release, RelClose, RelInc, RelLeave, RelPush, RelCount,
                        At, Goto, Return, slotVars, ioVars, Types
    <3> QED
      BY <1>0, <3>1, OneOfAKindKeep
  <2>2. CASE RecvUndo(t) \/ SendUndo2(t) \/ Final(t)
    <3>1. /\ UNCHANGED <<recvIO, sendIO, sending>>
          /\ \A u \in Threads \ {t} : pc'[u] = pc[u] /\ cur'[u] = cur[u]
          /\ pc'[t] \notin RecvLabels \cup SendLabels
          /\ pc[t] \notin SendLabels
      BY <1>0, <2>2 DEF RecvUndo, SendUndo2, Final, Dec, Return, At, ioVars, Types
    <3> QED
      BY <1>0, <3>1, OneOfAKindKeep
  <2>3. CASE RecvPost(t)
    <3>1. /\ UNCHANGED <<sendIO, sending, cur>> /\ cur[t] \in Slots /\ pc[t] = "RecvPost"
          /\ \A u \in Threads \ {t} : pc'[u] = pc[u]
          /\ \/ pc'[t] = "Final" /\ recvIO' = [recvIO EXCEPT ![cur[t]] = @ + 1]
             \/ pc'[t] = "RecvUndo" /\ recvIO' = recvIO
      BY <1>0, <2>3 DEF RecvPost, At, Goto, slotVars, Types
    <3>2. ASSUME NEW s \in Slots PROVE RecvMove(t, s) /\ SendMove(t, s)
      BY <1>0, <3>1 DEF RecvMove, SendMove, Recvs, Sends, Here, Types
    <3> QED
      BY <1>0, <3>1, <3>2, OneOfAKindMove
  <2>4. CASE SendTry(t)
    <3>1. /\ UNCHANGED <<recvIO, sendIO, cur>> /\ cur[t] \in Slots /\ pc[t] = "SendTry"
          /\ \A u \in Threads \ {t} : pc'[u] = pc[u]
          /\ \/ /\ sending' = [sending EXCEPT ![cur[t]] = TRUE]
                /\ pc'[t] = IF sending[cur[t]] THEN "Final" ELSE "SendInc"
             \/ pc'[t] = "Final" /\ sending' = sending
      BY <1>0, <2>4 DEF SendTry, At, Goto, ioVars, Types
    <3>2. ~ sending[cur[t]] => NoSend(cur[t])
      <4>1. ASSUME ~ sending[cur[t]]
            PROVE  sendIO[cur[t]] = 0 /\ Within(SendLabels, cur[t]) = {}
        <5>1. IsFiniteSet(Within(SendLabels, cur[t]))
          BY ThreadsFinite, FS_Subset DEF Within
        <5>2. Cardinality(Within(SendLabels, cur[t])) \in Nat
          BY <5>1, FS_CardinalityType
        <5>3. /\ sendIO[cur[t]] + Cardinality(Within(SendLabels, cur[t])) <= 1
              /\ sendIO[cur[t]] + Cardinality(Within(SendLabels, cur[t])) # 1
          BY <3>1, <4>1 DEF OneOfAKind
        <5>4. sendIO[cur[t]] = 0 /\ Cardinality(Within(SendLabels, cur[t])) = 0
          BY <1>0, <3>1, <5>2, <5>3
        <5> QED
          BY <5>1, <5>4, FS_EmptySet
      <4> QED
        BY <4>1 DEF NoSend
    <3>3. ASSUME NEW s \in Slots PROVE RecvMove(t, s) /\ SendMove(t, s)
      <4>1. sending'[s] = (sending[s] \/ (s = cur[t] /\ sending' # sending))
        BY <1>0, <3>1 DEF Types
      <4> QED
        BY <1>0, <3>1, <3>2, <4>1
           DEF RecvMove, SendMove, Recvs, Sends, Here, Types, NoSend
    <3> QED
      BY <1>0, <3>1, <3>3, OneOfAKindMove
  <2>5. CASE SendInc(t)
    <3>1. /\ UNCHANGED <<recvIO, sendIO, sending, cur>> /\ cur[t] \in Slots
          /\ pc[t] = "SendInc" /\ pc'[t] = "SendPost"
          /\ \A u \in Threads \ {t} : pc'[u] = pc[u]
      BY <1>0, <2>5 DEF SendInc, At, Goto, ioVars, Types
    <3>2. ASSUME NEW s \in Slots PROVE RecvMove(t, s) /\ SendMove(t, s)
      BY <1>0, <3>1 DEF RecvMove, SendMove, Recvs, Sends, Here
    <3> QED
      BY <1>0, <3>1, <3>2, OneOfAKindMove
  <2>6. CASE SendPost(t)
    <3>1. /\ UNCHANGED <<recvIO, sending, cur>> /\ cur[t] \in Slots /\ pc[t] = "SendPost"
          /\ \A u \in Threads \ {t} : pc'[u] = pc[u]
          /\ \/ pc'[t] = "Final" /\ sendIO' = [sendIO EXCEPT ![cur[t]] = @ + 1]
             \/ pc'[t] = "SendUndo1" /\ sendIO' = sendIO
      BY <1>0, <2>6 DEF SendPost, At, Goto, slotVars, Types
    <3>2. ASSUME NEW s \in Slots PROVE RecvMove(t, s) /\ SendMove(t, s)
      BY <1>0, <3>1 DEF RecvMove, SendMove, Recvs, Sends, Here, Types
    <3> QED
      BY <1>0, <3>1, <3>2, OneOfAKindMove
  <2>7. CASE SendUndo1(t)
    <3>1. /\ UNCHANGED <<recvIO, sendIO, cur>> /\ cur[t] \in Slots
          /\ \A s \in Slots \ {cur[t]} : sending'[s] = sending[s]
          /\ \A u \in Threads \ {t} : pc'[u] = pc[u]
          /\ pc[t] = "SendUndo1" /\ pc'[t] = "SendUndo2"
      BY <1>0, <2>7 DEF SendUndo1, At, Goto, ioVars, Types
    <3>2. ASSUME NEW s \in Slots PROVE RecvMove(t, s) /\ SendMove(t, s)
      BY <1>0, <3>1 DEF RecvMove, SendMove, Recvs, Sends, Here
    <3> QED
      BY <1>0, <3>1, <3>2, OneOfAKindMove
  <2> QED
    BY <1>4, <2>1, <2>2, <2>3, <2>4, <2>5, <2>6, <2>7 DEF SharedStep
<1>5. CASE (\E s \in Slots : Break(s)) \/ UNCHANGED vars
  <2>1. UNCHANGED <<pc, cur, recvIO, sendIO, sending>>
    BY <1>5 DEF Break, vars, slotVars, ioVars, threadVars
  <2> QED
    BY <2>1 DEF OneOfAKind, Within
<1> QED
  BY <1>1, <1>2, <1>3, <1>4, <1>5 DEF Next

LEMMA OneOfAKindHolds == Spec => []OneOfAKind
<1>1. ASSUME Init PROVE OneOfAKind
  <2>1. \A s : Within(RecvLabels, s) = {} /\ Within(SendLabels, s) = {}
    BY <1>1 DEF Init, Within, RecvLabels, SendLabels
  <2>2. Cardinality({}) = 0
    BY FS_EmptySet
  <2> QED
    BY SMTT(30), <1>1, <2>1, <2>2 DEF Init, OneOfAKind
<1> QED
  BY Invariant, <1>1, OneOfAKindNext, PTL DEF Spec

\* RecvOverlapped and SendOverlapped are never used by two operations: the next
\* receive is posted by whoever handled the last one, and bIsSending keeps a
\* second sender out until the first send is completed.
THEOREM OneOperationAtATime == Spec => []OneOperationPerKind
<1>1. ASSUME OneOfAKind, IInv, NEW s \in Slots
      PROVE  /\ recvIO[s] + Cardinality(Within({"Join", "Deliver", "RecvInc", "RecvPost"}, s)) <= 1
             /\ sendIO[s] + Cardinality(Within({"SendDone", "SendInc", "SendPost", "SendUndo1"}, s)) <= 1
  <2> DEFINE A == Within({"Join", "Deliver", "RecvInc", "RecvPost"}, s)
             B == Within(RecvLabels, s)
  <2>1. IsFiniteSet(B) /\ A \subseteq B
    BY ThreadsFinite, FS_Subset DEF Within, RecvLabels
  <2>2. Cardinality(A) \in Nat /\ Cardinality(B) \in Nat /\ Cardinality(A) <= Cardinality(B)
    <3> HIDE DEF A, B
    <3> QED
      BY <2>1, FS_Subset, FS_CardinalityType
  <2>3. recvIO[s] + Cardinality(B) <= 1 /\ recvIO[s] \in Nat
    BY <1>1 DEF OneOfAKind, IInv, Types
  <2>4. recvIO[s] + Cardinality(A) <= 1
    <3> HIDE DEF A, B
    <3> QED
      BY <2>2, <2>3
  <2> QED
    BY <1>1, <2>4 DEF OneOfAKind, SendLabels
<1>2. IInv /\ OneOfAKind => OneOperationPerKind
  BY <1>1 DEF OneOperationPerKind
<1> QED
  BY Invariant, OneOfAKindHolds, <1>2, PTL

USE DEF IndexOf

--------------------------------------------------------------------------------
(* The contract with the listener.                                         *)

\* announced and not yet withdrawn
LiveIDs == joined \ left

\* acceptThread counts its connections, so its IDs rise.
Serial ==
    /\ \A j \in joined : j[1] < uniqueID
    /\ pc[Acceptor] \in {"SetSocket", "ClearFlag", "Count", "Join"} =>
          /\ id[cur[Acceptor]][1] = uniqueID - 1
          /\ \A j \in joined : j[1] < uniqueID - 1

\* The acceptor has announced the session, and nobody has begun to release it.
InUse(s) == Live(s) /\ ~ (pc[Acceptor] \in {"Count", "Join"} /\ cur[Acceptor] = s)

\* A slot in use, or being released up to OnClientLeave, has an ID that the
\* listener knows; and what the listener knows is one of these.
Announced ==
    /\ left \subseteq joined
    /\ \A s \in Slots : InUse(s) => id[s] \in LiveIDs
    /\ \A t \in Threads : pc[t] = "RelClose" => id[cur[t]] \in LiveIDs
    /\ \A t \in Threads : pc[t] \in {"RelInc", "RelLeave"} => arg[t] \in LiveIDs
    /\ \A j \in LiveIDs :
        \/ InUse(j[2]) /\ id[j[2]] = j
        \/ \E t \in Threads : pc[t] = "RelClose" /\ cur[t] = j[2] /\ id[j[2]] = j
        \/ \E t \in Threads : pc[t] \in {"RelInc", "RelLeave"} /\ arg[t] = j

LEMMA SerialNext ==
    ASSUME IInv, IInv', Serial, [Next]_vars PROVE Serial'
<1>0. /\ Types /\ Types' /\ Acceptor \in Threads
      /\ pc[Acceptor] \notin {"Idle", "Pop"} => cur[Acceptor] \in Slots
      /\ uniqueID \in Int /\ \A j \in IDs : j[1] \in Int
  BY DEF IInv, Types, Threads, Roles, IDs
<1>1. CASE SetID
  <2>1. /\ uniqueID' = uniqueID + 1 /\ joined' = joined /\ cur' = cur
        /\ id'[cur[Acceptor]][1] = uniqueID
    BY <1>0, <1>1 DEF SetID, At, Goto, MakeID, eventVars, Types
  <2>2. \A j \in joined : j \in IDs
    BY <1>0 DEF Types
  <2> QED
    BY <1>0, <2>1, <2>2 DEF Serial
<1>2. CASE Join
  <2>1. /\ pc[Acceptor] = "Join" /\ pc'[Acceptor] = "RecvInc" /\ uniqueID' = uniqueID
        /\ joined' = joined \cup {id[cur[Acceptor]]}
    BY <1>0, <1>2 DEF Join, At, Goto, serverVars, Types
  <2> QED
    BY <1>0, <2>1 DEF Serial
<1>3. CASE Accept \/ Pop \/ SetSocket \/ ClearFlag \/ Count
  <2>1. /\ UNCHANGED <<id, uniqueID, joined>>
        /\ pc'[Acceptor] \in {"SetSocket", "ClearFlag", "Count", "Join"} =>
              pc[Acceptor] \in {"SetSocket", "ClearFlag", "Count", "Join"} /\ cur' = cur
    BY <1>0, <1>3 DEF Accept, Pop, SetSocket, ClearFlag, Count, At, Goto, slotVars,
                      serverVars, eventVars, Types
  <2> QED
    BY <2>1 DEF Serial
<1>4. ASSUME NEW t \in Threads, RelClose(t) PROVE Serial'
  <2>1. /\ UNCHANGED <<uniqueID, joined, cur>>
        /\ \A u \in Threads \ {t} : pc'[u] = pc[u]
        /\ pc'[t] = "RelInc" /\ id' = [id EXCEPT ![cur[t]] = NoID]
    BY <1>0, <1>4 DEF RelClose, At, serverVars, eventVars, Types
  <2>2. pc[Acceptor] \in {"SetSocket", "ClearFlag", "Count", "Join"} =>
            cur[Acceptor] # cur[t] \/ t = Acceptor
    <3>1. pc[t] = "RelClose"
      BY <1>4 DEF RelClose, At
    <3>2. pc[Acceptor] \in {"SetSocket", "ClearFlag"} => cur[Acceptor] # cur[t] \/ t = Acceptor
      BY <1>0, <3>1 DEF IInv, Exclusive, SetupLabels, ReleaseLabels
    <3>3. flag[cur[t]] = 1
      BY <3>1 DEF IInv, Released, ReleaseLabels
    <3>4. pc[Acceptor] \in {"Count", "Join"} => flag[cur[Acceptor]] = 0
      BY <1>0 DEF IInv, HolderSafe, Live, HolderLabels
    <3> QED
      BY <3>2, <3>3, <3>4
  <2>3. CASE t = Acceptor
    BY <1>0, <2>1, <2>3 DEF Serial
  <2>4. CASE t # Acceptor
    BY <1>0, <2>1, <2>2, <2>4 DEF Serial, Types
  <2> QED
    BY <2>3, <2>4
<1>5. ASSUME UNCHANGED <<id, uniqueID, joined>>,
             pc'[Acceptor] = pc[Acceptor] /\ cur'[Acceptor] = cur[Acceptor]
      PROVE  Serial'
  BY <1>5 DEF Serial
<1>6. ASSUME NEW t \in Threads, SharedStep(t), ~ RelClose(t) PROVE Serial'
  <2>1. /\ UNCHANGED <<id, uniqueID, joined>>
        /\ \A u \in Threads \ {t} : pc'[u] = pc[u] /\ cur'[u] = cur[u]
        /\ pc'[t] \notin {"SetSocket", "ClearFlag", "Count", "Join"}
    BY <1>0, <1>6 DEF SharedStep, RecvInc, RecvPost, RecvUndo, SendTry, SendInc, SendPost,
          SendUndo1, SendUndo2, Final, Release, RelInc, RelLeave, RelPush, RelCount,
          At, Goto, Return, Dec, slotVars, serverVars, eventVars, Types
  <2> QED
    BY <1>0, <2>1 DEF Serial
<1>7. ASSUME NEW w \in Workers, WorkerStep(w) PROVE Serial'
  <2>1. /\ UNCHANGED <<id, uniqueID, joined>>
        /\ pc'[Acceptor] = pc[Acceptor] /\ cur'[Acceptor] = cur[Acceptor]
    BY <1>0, <1>7, ThreadsAssumption
       DEF WorkerStep, GqcsData, GqcsZero, Take, Deliver, SendDone, At, Goto, slotVars,
           serverVars, eventVars, Types
  <2> QED
    BY <1>5, <2>1
<1>8. ASSUME NEW c \in Callers, CallerStep(c) PROVE Serial'
  <2>1. /\ UNCHANGED <<id, uniqueID, joined>>
        /\ pc'[Acceptor] = pc[Acceptor] /\ cur'[Acceptor] = cur[Acceptor]
    BY <1>0, <1>8, ThreadsAssumption
       DEF CallerStep, Call, AcqInc, AcqFlag, AcqID, AcqUndo, UseSend, UseDisconnect,
           At, Goto, Return, Dec, slotVars, serverVars, eventVars, Types
  <2> QED
    BY <1>5, <2>1
<1>9. CASE (\E s \in Slots : Break(s)) \/ UNCHANGED vars
  BY <1>5, <1>9 DEF Break, vars, slotVars, serverVars, eventVars, threadVars
<1> QED
  BY <1>1, <1>2, <1>3, <1>4, <1>6, <1>7, <1>8, <1>9 DEF Next, AcceptorStep

--------------------------------------------------------------------------------
\* A step that keeps every slot in its phase keeps what the listener knows.
LEMMA AnnouncedKeep ==
    ASSUME Types, Types', Announced, NEW t \in Threads,
           \A u \in Threads \ {t} :
              pc'[u] = pc[u] /\ cur'[u] = cur[u] /\ arg'[u] = arg[u],
           \A j \in LiveIDs : id'[j[2]] = id[j[2]],
           UNCHANGED <<joined, left>>,
           \A s \in Slots : InUse(s)' <=> InUse(s),
           \A s \in Slots : InUse(s) => id'[s] = id[s],
           \A u \in Threads \ {t} : pc[u] = "RelClose" => id'[cur[u]] = id[cur[u]],
           pc'[t] \notin {"RelClose", "RelInc", "RelLeave"},
           pc[t] \notin {"RelClose", "RelInc", "RelLeave"}
    PROVE  Announced'
<1>1. LiveIDs' = LiveIDs /\ \A j \in LiveIDs : j[2] \in Slots
  BY DEF LiveIDs, Types, IDs
<1>2. ASSUME NEW s \in Slots, InUse(s)' PROVE id'[s] \in LiveIDs
  BY <1>2 DEF Announced
<1>3. ASSUME NEW u \in Threads, pc'[u] = "RelClose" PROVE id'[cur'[u]] \in LiveIDs
  <2>1. u # t
    BY <1>3
  <2>2. pc[u] = "RelClose" /\ cur'[u] = cur[u]
    BY <1>3, <2>1
  <2> QED
    BY <2>1, <2>2 DEF Announced
<1>4. ASSUME NEW u \in Threads, pc'[u] \in {"RelInc", "RelLeave"} PROVE arg'[u] \in LiveIDs
  BY <1>4 DEF Announced
<1>5. ASSUME NEW j \in LiveIDs
      PROVE  \/ InUse(j[2])' /\ id'[j[2]] = j
             \/ \E u \in Threads : pc'[u] = "RelClose" /\ cur'[u] = j[2] /\ id'[j[2]] = j
             \/ \E u \in Threads : pc'[u] \in {"RelInc", "RelLeave"} /\ arg'[u] = j
  <2>1. CASE InUse(j[2]) /\ id[j[2]] = j
    BY <1>1, <2>1
  <2>2. ASSUME NEW u \in Threads, pc[u] = "RelClose", cur[u] = j[2], id[j[2]] = j
        PROVE  pc'[u] = "RelClose" /\ cur'[u] = j[2] /\ id'[j[2]] = j
    <3>1. u # t
      BY <2>2
    <3> QED
      BY <2>2, <3>1
  <2>3. ASSUME NEW u \in Threads, pc[u] \in {"RelInc", "RelLeave"}, arg[u] = j
        PROVE  pc'[u] \in {"RelInc", "RelLeave"} /\ arg'[u] = j
    BY <2>3
  <2> QED
    BY <2>1, <2>2, <2>3 DEF Announced
<1>6. /\ left' \subseteq joined'
      /\ \A s \in Slots : InUse(s)' => id'[s] \in LiveIDs'
      /\ \A u \in Threads : pc'[u] = "RelClose" => id'[cur'[u]] \in LiveIDs'
      /\ \A u \in Threads : pc'[u] \in {"RelInc", "RelLeave"} => arg'[u] \in LiveIDs'
      /\ \A j \in LiveIDs' :
            \/ InUse(j[2])' /\ id'[j[2]] = j
            \/ \E u \in Threads : pc'[u] = "RelClose" /\ cur'[u] = j[2] /\ id'[j[2]] = j
            \/ \E u \in Threads : pc'[u] \in {"RelInc", "RelLeave"} /\ arg'[u] = j
  BY <1>1, <1>2, <1>3, <1>4, <1>5 DEF Announced
<1> QED
  BY <1>6 DEF Announced

\* No phase changes when the thread that moves is in no set-up before or after.
LEMMA InUseSame ==
    ASSUME NEW t \in Threads, NEW s,
           \A u \in Threads \ {t} : pc'[u] = pc[u] /\ cur'[u] = cur[u],
           flag'[s] = flag[s], s \in useable' <=> s \in useable,
           pc'[t] \notin SetupLabels \cup {"Count", "Join"},
           pc[t] \notin SetupLabels \cup {"Count", "Join"}
    PROVE  InUse(s)' <=> InUse(s)
<1>1. {u \in Threads : pc'[u] \in SetupLabels /\ cur'[u] = s}
        = {u \in Threads : pc[u] \in SetupLabels /\ cur[u] = s}
  OBVIOUS
<1>2. (pc'[Acceptor] \in {"Count", "Join"} /\ cur'[Acceptor] = s)
        <=> (pc[Acceptor] \in {"Count", "Join"} /\ cur[Acceptor] = s)
  BY DEF Threads
<1> QED
  BY <1>1, <1>2 DEF InUse, Live, Within

\* Nothing in set-up, released or free is in use.
LEMMA NotInUse ==
    ASSUME IInv, NEW t \in Threads,
           pc[t] \in SetupLabels \cup ReleaseLabels
    PROVE  /\ cur[t] \in Slots /\ ~ Live(cur[t])
           /\ pc[t] \in SetupLabels /\ Announced => \A j \in LiveIDs : j[2] # cur[t]
<1>1. cur[t] \in Slots
  BY DEF IInv, Roles, SetupLabels, ReleaseLabels
<1>2. ~ Live(cur[t])
  BY DEF IInv, Released, Live, Within
<1>3. ASSUME pc[t] \in SetupLabels, Announced, NEW j \in LiveIDs PROVE j[2] # cur[t]
  <2>1. CASE InUse(j[2])
    BY <1>2, <2>1 DEF InUse
  <2>2. ASSUME NEW u \in Threads, pc[u] = "RelClose", cur[u] = j[2] PROVE j[2] # cur[t]
    BY <1>3, <2>2 DEF IInv, Exclusive, SetupLabels, ReleaseLabels
  <2>3. ASSUME NEW u \in Threads, pc[u] \in {"RelInc", "RelLeave"}, arg[u] = j
        PROVE  j[2] # cur[t]
    <3>1. cur[u] = j[2]
      BY <2>3 DEF IInv, Roles
    <3> QED
      BY <1>3, <2>3, <3>1 DEF IInv, Exclusive, SetupLabels, ReleaseLabels
  <2> QED
    BY <1>3, <2>1, <2>2, <2>3 DEF Announced
<1> QED
  BY <1>1, <1>2, <1>3

\* A step outside set-up and release that writes no slot.
LEMMA AnnouncedSame ==
    ASSUME Types, Types', Announced, NEW t \in Threads,
           \A u \in Threads \ {t} :
              pc'[u] = pc[u] /\ cur'[u] = cur[u] /\ arg'[u] = arg[u],
           UNCHANGED <<id, flag, useable, joined, left>>,
           pc'[t] \notin SetupLabels \cup ReleaseLabels \cup {"Count", "Join"},
           pc[t] \notin SetupLabels \cup ReleaseLabels \cup {"Count", "Join"}
    PROVE  Announced'
<1>1. \A s \in Slots : InUse(s)' <=> InUse(s)
  BY InUseSame
<1>2. /\ pc'[t] \notin {"RelClose", "RelInc", "RelLeave"}
      /\ pc[t] \notin {"RelClose", "RelInc", "RelLeave"}
  BY DEF ReleaseLabels
<1> QED
  BY <1>1, <1>2, AnnouncedKeep

LEMMA AnnouncedJoin ==
    ASSUME IInv, IInv', Serial, Announced, Join PROVE Announced'
<1> DEFINE c == cur[Acceptor]
<1>0. /\ Types /\ Types' /\ Acceptor \in Threads /\ c \in Slots
      /\ pc[Acceptor] = "Join" /\ pc'[Acceptor] = "RecvInc"
      /\ \A u \in Threads \ {Acceptor} : pc'[u] = pc[u]
      /\ UNCHANGED <<id, flag, useable, left, cur, arg>>
      /\ joined' = joined \cup {id[c]}
  BY DEF IInv, Types, Threads, Roles, Join, At, Goto, slotVars, serverVars
<1>1. Live(c) /\ id[c] \in IDs /\ id[c][2] = c
  BY <1>0 DEF IInv, HolderSafe, HolderLabels
<1>2. id[c] \notin joined
  <2>1. \A j \in joined : j[1] < uniqueID - 1
    BY <1>0 DEF Serial
  <2>2. id[c][1] = uniqueID - 1 /\ uniqueID \in Int
    BY <1>0 DEF Serial, IInv, Types
  <2> QED
    BY <2>1, <2>2
<1>3. LiveIDs' = LiveIDs \cup {id[c]}
  BY <1>0, <1>2 DEF LiveIDs, Announced
<1>4. \A s : Live(s)' <=> Live(s)
  <2> TAKE s
  <2>1. {u \in Threads : pc'[u] \in SetupLabels /\ cur'[u] = s}
          = {u \in Threads : pc[u] \in SetupLabels /\ cur[u] = s}
    BY <1>0 DEF SetupLabels
  <2> QED
    BY <1>0, <2>1 DEF Live, Within
<1>5. \A s : InUse(s)' <=> InUse(s) \/ s = c
  BY <1>0, <1>1, <1>4 DEF InUse
<1>6. /\ left' \subseteq joined'
      /\ \A s \in Slots : InUse(s)' => id'[s] \in LiveIDs'
      /\ \A u \in Threads : pc'[u] = "RelClose" => id'[cur'[u]] \in LiveIDs'
      /\ \A u \in Threads : pc'[u] \in {"RelInc", "RelLeave"} => arg'[u] \in LiveIDs'
  BY <1>0, <1>3, <1>5 DEF Announced
<1>7. ASSUME NEW j \in LiveIDs'
      PROVE  \/ InUse(j[2])' /\ id'[j[2]] = j
             \/ \E u \in Threads : pc'[u] = "RelClose" /\ cur'[u] = j[2] /\ id'[j[2]] = j
             \/ \E u \in Threads : pc'[u] \in {"RelInc", "RelLeave"} /\ arg'[u] = j
  <2>1. CASE j = id[c]
    BY <1>0, <1>1, <1>5, <2>1
  <2>2. CASE j \in LiveIDs
    <3>1. CASE InUse(j[2]) /\ id[j[2]] = j
      BY <1>0, <1>5, <3>1
    <3>2. ASSUME NEW u \in Threads, pc[u] = "RelClose", cur[u] = j[2], id[j[2]] = j
          PROVE  pc'[u] = "RelClose" /\ cur'[u] = j[2] /\ id'[j[2]] = j
      BY <1>0, <3>2
    <3>3. ASSUME NEW u \in Threads, pc[u] \in {"RelInc", "RelLeave"}, arg[u] = j
          PROVE  pc'[u] \in {"RelInc", "RelLeave"} /\ arg'[u] = j
      BY <1>0, <3>3
    <3> QED
      BY <2>2, <3>1, <3>2, <3>3 DEF Announced
  <2> QED
    BY <1>3, <2>1, <2>2
<1> QED
  BY <1>6, <1>7 DEF Announced

\* The exchange succeeds: the slot passes from use to release.
LEMMA AnnouncedRelease ==
    ASSUME IInv, IInv', Announced, NEW t \in Threads, Release(t),
           flag[cur[t]] = 0, ioCount[cur[t]] = 0
    PROVE  Announced'
<1> DEFINE c == cur[t]
<1>0. /\ Types /\ c \in Slots
      /\ pc[t] = "Release" /\ pc'[t] = "RelClose"
      /\ \A u \in Threads \ {t} : pc'[u] = pc[u]
      /\ flag' = [flag EXCEPT ![c] = 1]
      /\ UNCHANGED <<id, useable, joined, left, cur, arg>>
  BY DEF IInv, Types, Roles, Release, At, Goto, serverVars, eventVars
<1>1. InUse(c)
  <2>1. c \notin useable /\ \A u \in Threads : pc[u] \in OwnerLabels => cur[u] # c
    <3>1. ~ (ioCount[c] > 0)
      OBVIOUS
    <3> QED
      BY <1>0, <3>1, Counted DEF IInv
  <2>2. Within(SetupLabels, c) = {}
    BY <2>1, LabelFacts DEF Within
  <2>3. ~ (pc[Acceptor] \in {"Count", "Join"} /\ cur[Acceptor] = c)
    BY <2>1 DEF OwnerLabels, Threads
  <2> QED
    BY <2>1, <2>2, <2>3 DEF InUse, Live
<1>2. ~ InUse(c)' /\ LiveIDs' = LiveIDs
  BY <1>0 DEF InUse, Live, LiveIDs, Types
<1>3. ASSUME NEW s \in Slots \ {c} PROVE InUse(s)' <=> InUse(s)
  <2>1. flag'[s] = flag[s]
    BY <1>0 DEF Types
  <2> QED
    BY <1>0, <2>1, InUseSame DEF SetupLabels
<1>4. id[c] \in LiveIDs
  BY <1>0, <1>1 DEF Announced
<1>5. /\ left' \subseteq joined'
      /\ \A s \in Slots : InUse(s)' => id'[s] \in LiveIDs'
      /\ \A u \in Threads : pc'[u] = "RelClose" => id'[cur'[u]] \in LiveIDs'
      /\ \A u \in Threads : pc'[u] \in {"RelInc", "RelLeave"} => arg'[u] \in LiveIDs'
  BY <1>0, <1>2, <1>3, <1>4 DEF Announced
<1>6. ASSUME NEW j \in LiveIDs
      PROVE  \/ InUse(j[2])' /\ id'[j[2]] = j
             \/ \E u \in Threads : pc'[u] = "RelClose" /\ cur'[u] = j[2] /\ id'[j[2]] = j
             \/ \E u \in Threads : pc'[u] \in {"RelInc", "RelLeave"} /\ arg'[u] = j
  <2>0. j[2] \in Slots
    BY <1>0 DEF LiveIDs, Types, IDs
  <2>1. CASE InUse(j[2]) /\ id[j[2]] = j
    BY <1>0, <1>3, <2>0, <2>1
  <2>2. ASSUME NEW u \in Threads, pc[u] = "RelClose", cur[u] = j[2], id[j[2]] = j
        PROVE  pc'[u] = "RelClose" /\ cur'[u] = j[2] /\ id'[j[2]] = j
    BY <1>0, <2>2
  <2>3. ASSUME NEW u \in Threads, pc[u] \in {"RelInc", "RelLeave"}, arg[u] = j
        PROVE  pc'[u] \in {"RelInc", "RelLeave"} /\ arg'[u] = j
    BY <1>0, <2>3
  <2> QED
    BY <2>1, <2>2, <2>3 DEF Announced
<1> QED
  BY <1>2, <1>5, <1>6 DEF Announced

\* releaseSession clears the ID, keeping it for OnClientLeave.
LEMMA AnnouncedClose ==
    ASSUME IInv, IInv', Announced, NEW t \in Threads, RelClose(t)
    PROVE  Announced'
<1> DEFINE c == cur[t]
<1>0. /\ Types /\ c \in Slots
      /\ pc[t] = "RelClose" /\ pc'[t] = "RelInc"
      /\ \A u \in Threads \ {t} : pc'[u] = pc[u] /\ arg'[u] = arg[u]
      /\ arg'[t] = id[c] /\ id[c] \in LiveIDs
      /\ \A s \in Slots \ {c} : id'[s] = id[s]
      /\ UNCHANGED <<flag, useable, joined, left, cur>>
      /\ LiveIDs' = LiveIDs
  BY DEF IInv, Types, Roles, RelClose, At, serverVars, eventVars, Announced, LiveIDs
<1>1. \A s : InUse(s)' <=> InUse(s)
  BY <1>0, InUseSame DEF SetupLabels
<1>2. ~ InUse(c) /\ \A u \in Threads \ {t} : pc[u] = "RelClose" => cur[u] # c
  BY <1>0, NotInUse DEF InUse, IInv, Exclusive, ReleaseLabels
<1>3. /\ left' \subseteq joined'
      /\ \A s \in Slots : InUse(s)' => id'[s] \in LiveIDs'
      /\ \A u \in Threads : pc'[u] \in {"RelInc", "RelLeave"} => arg'[u] \in LiveIDs'
  BY <1>0, <1>1, <1>2 DEF Announced
<1>4. \A u \in Threads : pc'[u] = "RelClose" => id'[cur'[u]] \in LiveIDs'
  <2> SUFFICES ASSUME NEW u \in Threads, pc'[u] = "RelClose" PROVE id'[cur'[u]] \in LiveIDs'
    OBVIOUS
  <2>1. u # t /\ pc[u] = "RelClose" /\ cur[u] \in Slots \ {c}
    BY <1>0, <1>2 DEF IInv, Roles
  <2> QED
    BY <1>0, <2>1 DEF Announced
<1>5. ASSUME NEW j \in LiveIDs
      PROVE  \/ InUse(j[2])' /\ id'[j[2]] = j
             \/ \E u \in Threads : pc'[u] = "RelClose" /\ cur'[u] = j[2] /\ id'[j[2]] = j
             \/ \E u \in Threads : pc'[u] \in {"RelInc", "RelLeave"} /\ arg'[u] = j
  <2>0. j[2] \in Slots
    BY <1>0 DEF LiveIDs, Types, IDs
  <2>1. CASE InUse(j[2]) /\ id[j[2]] = j
    BY <1>0, <1>1, <1>2, <2>0, <2>1
  <2>2. ASSUME NEW u \in Threads, pc[u] = "RelClose", cur[u] = j[2], id[j[2]] = j
        PROVE  \/ pc'[u] = "RelClose" /\ cur'[u] = j[2] /\ id'[j[2]] = j
               \/ pc'[u] \in {"RelInc", "RelLeave"} /\ arg'[u] = j
    BY <1>0, <1>2, <2>0, <2>2
  <2>3. ASSUME NEW u \in Threads, pc[u] \in {"RelInc", "RelLeave"}, arg[u] = j
        PROVE  pc'[u] \in {"RelInc", "RelLeave"} /\ arg'[u] = j
    BY <1>0, <2>3
  <2> QED
    BY <2>1, <2>2, <2>3 DEF Announced
<1> QED
  BY <1>0, <1>3, <1>4, <1>5 DEF Announced

LEMMA AnnouncedLeave ==
    ASSUME IInv, IInv', Announced, NEW t \in Threads, RelLeave(t)
    PROVE  Announced'
<1> DEFINE c == cur[t]
<1>0. /\ Types /\ c \in Slots
      /\ pc[t] = "RelLeave" /\ pc'[t] = "RelPush"
      /\ \A u \in Threads \ {t} : pc'[u] = pc[u]
      /\ UNCHANGED <<id, flag, useable, joined, cur, arg>>
      /\ left' = left \cup {arg[t]} /\ arg[t] \in LiveIDs /\ arg[t][2] = c
      /\ LiveIDs' = LiveIDs \ {arg[t]}
  BY DEF IInv, Types, Roles, RelLeave, At, Goto, slotVars, serverVars, Announced, LiveIDs
<1>1. \A s : InUse(s)' <=> InUse(s)
  BY <1>0, InUseSame DEF SetupLabels
<1>2. \A s \in Slots : InUse(s) => id[s][2] = s /\ s # c
  BY <1>0, NotInUse DEF InUse, IInv, HolderSafe, ReleaseLabels
<1>3. \A u \in Threads \ {t} : pc[u] \in {"RelClose", "RelInc", "RelLeave"} => cur[u] # c
  BY <1>0 DEF IInv, Exclusive, ReleaseLabels
<1>4. \A u \in Threads \ {t} : pc[u] = "RelClose" => id[cur[u]][2] = cur[u]
  BY DEF IInv, Roles
<1>5. \A u \in Threads \ {t} : pc[u] \in {"RelInc", "RelLeave"} => arg[u][2] = cur[u]
  BY DEF IInv, Roles
<1>6. /\ left' \subseteq joined'
      /\ \A s \in Slots : InUse(s)' => id'[s] \in LiveIDs'
      /\ \A u \in Threads : pc'[u] = "RelClose" => id'[cur'[u]] \in LiveIDs'
      /\ \A u \in Threads : pc'[u] \in {"RelInc", "RelLeave"} => arg'[u] \in LiveIDs'
  <2>1. left' \subseteq joined'
    BY <1>0 DEF Announced, LiveIDs
  <2>2. \A s \in Slots : InUse(s)' => id'[s] \in LiveIDs'
    BY <1>0, <1>1, <1>2 DEF Announced
  <2>3. \A u \in Threads : pc'[u] = "RelClose" => id'[cur'[u]] \in LiveIDs'
    BY <1>0, <1>3, <1>4 DEF Announced
  <2>4. \A u \in Threads : pc'[u] \in {"RelInc", "RelLeave"} => arg'[u] \in LiveIDs'
    BY <1>0, <1>3, <1>5 DEF Announced
  <2> QED
    BY <2>1, <2>2, <2>3, <2>4
<1>7. ASSUME NEW j \in LiveIDs'
      PROVE  \/ InUse(j[2])' /\ id'[j[2]] = j
             \/ \E u \in Threads : pc'[u] = "RelClose" /\ cur'[u] = j[2] /\ id'[j[2]] = j
             \/ \E u \in Threads : pc'[u] \in {"RelInc", "RelLeave"} /\ arg'[u] = j
  <2>0. j \in LiveIDs /\ j # arg[t]
    BY <1>0
  <2>1. CASE InUse(j[2]) /\ id[j[2]] = j
    BY <1>0, <1>1, <2>1
  <2>2. ASSUME NEW u \in Threads, pc[u] = "RelClose", cur[u] = j[2], id[j[2]] = j
        PROVE  pc'[u] = "RelClose" /\ cur'[u] = j[2] /\ id'[j[2]] = j
    BY <1>0, <2>2
  <2>3. ASSUME NEW u \in Threads, pc[u] \in {"RelInc", "RelLeave"}, arg[u] = j
        PROVE  pc'[u] \in {"RelInc", "RelLeave"} /\ arg'[u] = j
    BY <1>0, <2>0, <2>3
  <2> QED
    BY <2>0, <2>1, <2>2, <2>3 DEF Announced
<1> QED
  BY <1>6, <1>7 DEF Announced

\* The acceptor's steps up to OnClientJoin: the slot is in no use before or after.
LEMMA AnnouncedSetup ==
    ASSUME IInv, IInv', Announced, Pop \/ SetID \/ SetSocket \/ ClearFlag \/ Count
    PROVE  Announced'
<1>9. cur'[Acceptor] \in Slots
  BY DEF IInv, Types, Threads, Pop, SetID, SetSocket, ClearFlag, Count, At, Goto,
         Roles
<1> PICK c \in Slots : c = cur'[Acceptor]
  BY <1>9
<1>0. /\ Types /\ Types' /\ Acceptor \in Threads
      /\ pc[Acceptor] \in SetupLabels \cup {"Pop", "Count"}
      /\ pc'[Acceptor] \in SetupLabels \cup {"Count", "Join"}
      /\ \A u \in Threads \ {Acceptor} :
            pc'[u] = pc[u] /\ cur'[u] = cur[u] /\ arg'[u] = arg[u]
      /\ \/ pc[Acceptor] = "Pop" /\ c \in useable /\ c \notin useable'
            /\ pc'[Acceptor] = "SetID"
         \/ pc[Acceptor] \in SetupLabels \cup {"Count"} /\ cur[Acceptor] = c
      /\ \A s \in Slots \ {c} : /\ id'[s] = id[s] /\ flag'[s] = flag[s]
                                /\ s \in useable' <=> s \in useable
      /\ pc[Acceptor] # "SetID" => id' = id
      /\ UNCHANGED <<joined, left>>
  BY DEF IInv, Types, Threads, Pop, SetID, SetSocket, ClearFlag, Count, At, Goto,
         slotVars, serverVars, eventVars, SetupLabels, Roles
<1>1. ~ InUse(c)' /\ ~ InUse(c)
  <2>1. pc'[Acceptor] \in SetupLabels => Acceptor \in Within(SetupLabels, c)'
    BY <1>0 DEF Within
  <2>2. pc[Acceptor] \in SetupLabels => Acceptor \in Within(SetupLabels, c)
    BY <1>0 DEF Within, SetupLabels
  <2> QED
    BY <1>0, <2>1, <2>2 DEF InUse, Live
<1>2. ASSUME NEW s \in Slots \ {c} PROVE InUse(s)' <=> InUse(s)
  <2>1. pc[Acceptor] = "Pop" \/ cur[Acceptor] # s
    BY <1>0
  <2>2. {u \in Threads : pc'[u] \in SetupLabels /\ cur'[u] = s}
          = {u \in Threads : pc[u] \in SetupLabels /\ cur[u] = s}
    BY <1>0, <2>1 DEF SetupLabels
  <2> QED
    BY <1>0, <2>1, <2>2 DEF InUse, Live, Within
<1>3. pc[Acceptor] = "SetID" =>
        /\ \A j \in LiveIDs : j[2] # c
        /\ \A u \in Threads \ {Acceptor} : pc[u] = "RelClose" => cur[u] # c
  BY <1>0, NotInUse DEF IInv, Exclusive, SetupLabels, ReleaseLabels
<1>4. \A j \in LiveIDs : j[2] \in Slots
  BY <1>0 DEF LiveIDs, Types, IDs
<1>5. \A j \in LiveIDs : id'[j[2]] = id[j[2]]
  BY <1>0, <1>3, <1>4
<1>6. \A s \in Slots : (InUse(s)' <=> InUse(s)) /\ (InUse(s) => id'[s] = id[s])
  BY <1>0, <1>1, <1>2
<1>7. \A u \in Threads \ {Acceptor} : pc[u] = "RelClose" => id'[cur[u]] = id[cur[u]]
  BY <1>0, <1>3 DEF IInv, Roles
<1>8. /\ pc'[Acceptor] \notin {"RelClose", "RelInc", "RelLeave"}
      /\ pc[Acceptor] \notin {"RelClose", "RelInc", "RelLeave"}
  BY <1>0 DEF SetupLabels
<1> QED
  BY <1>0, <1>5, <1>6, <1>7, <1>8, AnnouncedKeep

\* releaseSession's steps around OnClientLeave.
LEMMA AnnouncedPush ==
    ASSUME IInv, IInv', Announced, NEW t \in Threads, RelInc(t) \/ RelPush(t)
    PROVE  Announced'
<1>0. /\ Types /\ Types' /\ cur[t] \in Slots
      /\ \A u \in Threads \ {t} : pc'[u] = pc[u]
      /\ UNCHANGED <<id, flag, joined, left, cur, arg>>
      /\ pc[t] \in {"RelInc", "RelPush"}
      /\ pc[t] = "RelInc" => pc'[t] = "RelLeave" /\ useable' = useable
      /\ pc[t] = "RelPush" =>
            pc'[t] = "RelCount" /\ useable' = useable \cup {cur[t]}
  BY DEF IInv, Types, RelInc, RelPush, At, Goto, slotVars, serverVars, eventVars, Roles
<1>1. flag[cur[t]] = 1 /\ pc[t] \notin SetupLabels /\ pc'[t] \notin SetupLabels
  BY <1>0 DEF IInv, Released, ReleaseLabels, SetupLabels
<1>2. \A s \in Slots : InUse(s)' <=> InUse(s)
  <2> SUFFICES ASSUME NEW s \in Slots PROVE InUse(s)' <=> InUse(s)
    OBVIOUS
  <2>1. CASE s = cur[t]
    BY <1>0, <1>1, <2>1 DEF InUse, Live
  <2>2. CASE s # cur[t]
    <3>1. s \in useable' <=> s \in useable
      BY <1>0, <2>2
    <3>2. /\ pc'[t] \notin SetupLabels \cup {"Count", "Join"}
          /\ pc[t] \notin SetupLabels \cup {"Count", "Join"}
      BY <1>0, <1>1
    <3> QED
      BY <1>0, <3>1, <3>2, InUseSame
  <2> QED
    BY <2>1, <2>2
<1>3. CASE pc[t] = "RelPush"
  BY <1>0, <1>2, <1>3, AnnouncedKeep
<1>4. CASE pc[t] = "RelInc"
  <2>1. LiveIDs' = LiveIDs /\ \A j \in LiveIDs : j[2] \in Slots
    BY <1>0 DEF LiveIDs, Types, IDs
  <2>2. \A u \in Threads :
          /\ pc'[u] = "RelClose" <=> pc[u] = "RelClose"
          /\ pc'[u] \in {"RelInc", "RelLeave"} <=> pc[u] \in {"RelInc", "RelLeave"}
    BY <1>0, <1>4
  <2>3. ASSUME NEW j \in LiveIDs
        PROVE  \/ InUse(j[2])' /\ id'[j[2]] = j
               \/ \E u \in Threads : pc'[u] = "RelClose" /\ cur'[u] = j[2] /\ id'[j[2]] = j
               \/ \E u \in Threads : pc'[u] \in {"RelInc", "RelLeave"} /\ arg'[u] = j
    <3>1. CASE InUse(j[2]) /\ id[j[2]] = j
      BY <1>0, <1>2, <2>1, <3>1
    <3>2. ASSUME NEW u \in Threads, pc[u] = "RelClose", cur[u] = j[2], id[j[2]] = j
          PROVE  pc'[u] = "RelClose" /\ cur'[u] = j[2] /\ id'[j[2]] = j
      BY <1>0, <2>2, <3>2
    <3>3. ASSUME NEW u \in Threads, pc[u] \in {"RelInc", "RelLeave"}, arg[u] = j
          PROVE  pc'[u] \in {"RelInc", "RelLeave"} /\ arg'[u] = j
      BY <1>0, <2>2, <3>3
    <3> QED
      BY <3>1, <3>2, <3>3 DEF Announced
  <2>4. /\ left' \subseteq joined'
        /\ \A s \in Slots : InUse(s)' => id'[s] \in LiveIDs'
        /\ \A u \in Threads : pc'[u] = "RelClose" => id'[cur'[u]] \in LiveIDs'
        /\ \A u \in Threads : pc'[u] \in {"RelInc", "RelLeave"} => arg'[u] \in LiveIDs'
    BY <1>0, <1>2, <2>1, <2>2 DEF Announced
  <2> QED
    BY <2>1, <2>3, <2>4 DEF Announced
<1> QED
  BY <1>0, <1>3, <1>4

LEMMA AnnouncedNext ==
    ASSUME IInv, IInv', Serial, Announced, [Next]_vars PROVE Announced'
<1>0. /\ Types /\ Types' /\ Acceptor \in Threads
      /\ Acceptor \notin Workers \cup Callers
  BY ThreadsAssumption DEF IInv, Threads
<1>1. CASE AcceptorStep
  <2>1. CASE Accept
    <3>1. /\ \A u \in Threads \ {Acceptor} :
                pc'[u] = pc[u] /\ cur'[u] = cur[u] /\ arg'[u] = arg[u]
          /\ UNCHANGED <<id, flag, useable, joined, left>>
          /\ pc[Acceptor] = "Idle" /\ pc'[Acceptor] = "Pop"
      BY <1>0, <2>1 DEF Types, Accept, At, Goto, slotVars, serverVars, eventVars
    <3> QED
      BY <1>0, <3>1, AnnouncedSame DEF SetupLabels, ReleaseLabels
  <2> QED
    BY <1>1, <2>1, AnnouncedSetup, AnnouncedJoin DEF AcceptorStep
<1>2. ASSUME NEW w \in Workers, WorkerStep(w) PROVE Announced'
  <2>1. /\ w \in Threads
        /\ \A u \in Threads \ {w} :
              pc'[u] = pc[u] /\ cur'[u] = cur[u] /\ arg'[u] = arg[u]
        /\ UNCHANGED <<id, flag, useable, joined, left>>
        /\ pc[w] \in {"Idle", "Deliver", "SendDone"}
        /\ pc'[w] \in {"Deliver", "SendDone", "Final", "RecvInc", "SendTry"}
    BY <1>0, <1>2 DEF Types, Threads, WorkerStep, GqcsData, GqcsZero, Take, Deliver,
          SendDone, At, Goto, slotVars, serverVars, eventVars
  <2> QED
    BY <1>0, <2>1, AnnouncedSame DEF SetupLabels, ReleaseLabels
<1>3. ASSUME NEW c \in Callers, CallerStep(c) PROVE Announced'
  <2>1. /\ c \in Threads
        /\ \A u \in Threads \ {c} :
              pc'[u] = pc[u] /\ cur'[u] = cur[u] /\ arg'[u] = arg[u]
        /\ UNCHANGED <<id, flag, useable, joined, left>>
        /\ pc[c] \in {"Idle", "AcqInc", "AcqFlag", "AcqID", "AcqUndo", "Use"}
        /\ pc'[c] \in {"AcqInc", "AcqFlag", "AcqID", "AcqUndo", "Use", "Idle",
                       "Release", "SendTry", "Final"}
    BY <1>0, <1>3 DEF Types, Threads, CallerStep, Call, AcqInc, AcqFlag, AcqID, AcqUndo,
          UseSend, UseDisconnect, At, Goto, Return, Dec, slotVars, serverVars, eventVars
  <2> QED
    BY <1>0, <2>1, AnnouncedSame DEF SetupLabels, ReleaseLabels
<1>4. ASSUME NEW t \in Threads, SharedStep(t) PROVE Announced'
  <2>1. CASE RelClose(t) \/ RelInc(t) \/ RelLeave(t) \/ RelPush(t)
    BY <2>1, AnnouncedClose, AnnouncedPush, AnnouncedLeave
  <2>2. CASE Release(t) /\ flag[cur[t]] = 0 /\ ioCount[cur[t]] = 0
    BY <2>2, AnnouncedRelease
  <2>3. CASE \/ RecvInc(t) \/ RecvPost(t) \/ RecvUndo(t) \/ SendTry(t) \/ SendInc(t)
             \/ SendPost(t) \/ SendUndo1(t) \/ SendUndo2(t) \/ Final(t) \/ RelCount(t)
             \/ Release(t) /\ ~ (flag[cur[t]] = 0 /\ ioCount[cur[t]] = 0)
    <3>1. /\ \A u \in Threads \ {t} :
                pc'[u] = pc[u] /\ cur'[u] = cur[u] /\ arg'[u] = arg[u]
          /\ UNCHANGED <<id, flag, useable, joined, left>>
          /\ pc[t] \in {"RecvInc", "RecvPost", "RecvUndo", "SendTry", "SendInc",
                        "SendPost", "SendUndo1", "SendUndo2", "Final", "RelCount",
                        "Release"}
          /\ pc'[t] \in {"RecvPost", "RecvUndo", "SendInc", "SendPost", "SendUndo1",
                         "SendUndo2", "Final", "Idle", "Release"}
      BY <1>0, <2>3 DEF Types, RecvInc, RecvPost, RecvUndo, SendTry, SendInc, SendPost,
            SendUndo1, SendUndo2, Final, RelCount, Release, At, Goto, Return, Dec,
            slotVars, serverVars, eventVars
    <3> QED
      BY <1>0, <3>1, AnnouncedSame DEF SetupLabels, ReleaseLabels
  <2> QED
    BY <1>4, <2>1, <2>2, <2>3 DEF SharedStep
<1>5. CASE (\E s \in Slots : Break(s)) \/ UNCHANGED vars
  <2>1. UNCHANGED <<id, flag, useable, joined, left, pc, cur, arg>>
    BY <1>5 DEF Break, vars, slotVars, serverVars, eventVars, threadVars
  <2> QED
    BY <2>1 DEF Announced, LiveIDs, InUse, Live, Within
<1> QED
  BY <1>1, <1>2, <1>3, <1>4, <1>5 DEF Next

LEMMA AnnouncedHolds == Spec => [](Serial /\ Announced)
<1>1. ASSUME Init PROVE Serial /\ Announced
  <2>1. /\ \A t \in Threads : pc[t] = "Idle"
        /\ Acceptor \in Threads /\ useable = Slots /\ joined = {} /\ left = {}
    BY <1>1 DEF Init, Threads
  <2> QED
    BY <2>1 DEF Serial, Announced, LiveIDs, InUse, Live
<1> QED
  BY Invariant, <1>1, SerialNext, AnnouncedNext, PTL DEF Spec

\* The listener is told of a step exactly by Join and by RelLeave.
LEMMA ToldBySteps ==
    ASSUME IInv, [Next]_vars,
           ~ Join, \A t \in Threads : ~ RelLeave(t)
    PROVE  UNCHANGED <<joined, left>>
<1>1. CASE AcceptorStep
  BY <1>1 DEF AcceptorStep, Accept, Pop, SetID, SetSocket, ClearFlag, Count, eventVars
<1>2. ASSUME NEW w \in Workers, WorkerStep(w) PROVE UNCHANGED <<joined, left>>
  BY <1>2 DEF WorkerStep, GqcsData, GqcsZero, Take, Deliver, SendDone, eventVars
<1>3. ASSUME NEW c \in Callers, CallerStep(c) PROVE UNCHANGED <<joined, left>>
  BY <1>3 DEF CallerStep, Call, AcqInc, AcqFlag, AcqID, AcqUndo, UseSend, UseDisconnect,
              eventVars
<1>4. ASSUME NEW t \in Threads, SharedStep(t) PROVE UNCHANGED <<joined, left>>
  BY <1>4 DEF SharedStep, RecvInc, RecvPost, RecvUndo, SendTry, SendInc, SendPost,
              SendUndo1, SendUndo2, Final, Release, RelClose, RelInc, RelPush, RelCount,
              eventVars
<1>5. CASE (\E s \in Slots : Break(s)) \/ UNCHANGED vars
  BY <1>5 DEF Break, vars, eventVars
<1> QED
  BY <1>1, <1>2, <1>3, <1>4, <1>5 DEF Next

\* No live ID is on a slot that the acceptor is about to announce.
LEMMA JoinFindsFreeSlot ==
    ASSUME IInv, Announced, pc[Acceptor] = "Join", NEW j \in LiveIDs
    PROVE  j[2] # cur[Acceptor]
<1>1. Acceptor \in Threads /\ Live(cur[Acceptor])
  BY DEF Threads, IInv, HolderSafe, HolderLabels
<1>2. \A u \in Threads : pc[u] \in ReleaseLabels => cur[u] # cur[Acceptor]
  BY <1>1, NotInUse
<1>3. \A u \in Threads : pc[u] \in {"RelInc", "RelLeave"} => arg[u][2] = cur[u]
  BY DEF IInv, Roles
<1> QED
  BY <1>2, <1>3 DEF Announced, InUse, ReleaseLabels

\* WanServer keeps its promise to the listener: OnClientJoin with an ID never
\* used before, on a slot whose last session has left; then at most one
\* OnClientLeave, with the ID the join announced.
THEOREM ListenerContract == Spec => RefinesContract
<1> USE DEF Contract!IDs, IDs
<1>1. Init => Contract!Init
  BY DEF Init, Contract!Init
<1>2. ASSUME IInv, IInv', Serial, Announced, [Next]_vars
      PROVE  [Contract!Next]_<<joined, left>>
  <2>1. CASE Join
    <3> DEFINE i == id[cur[Acceptor]]
    <3>1. /\ pc[Acceptor] = "Join" /\ Acceptor \in Threads
          /\ joined' = joined \cup {i} /\ left' = left
      BY <2>1 DEF Join, At, Threads
    <3>2. i \in IDs /\ i[2] = cur[Acceptor]
      BY <1>2, <3>1 DEF IInv, Roles, HolderSafe, HolderLabels
    <3>3. \A j \in joined : j[1] < i[1]
      BY <1>2, <3>1 DEF Serial
    <3>4. \A j \in joined \ left : j[2] # i[2]
      BY <1>2, <3>1, <3>2, JoinFindsFreeSlot DEF LiveIDs
    <3>5. Contract!OnClientJoin(i)
      BY <3>1, <3>3, <3>4 DEF Contract!OnClientJoin, Contract!live
    <3> QED
      BY <3>2, <3>5 DEF Contract!Next
  <2>2. ASSUME NEW t \in Threads, RelLeave(t) PROVE [Contract!Next]_<<joined, left>>
    <3>1. arg[t] \in LiveIDs /\ left' = left \cup {arg[t]} /\ joined' = joined
      BY <1>2, <2>2 DEF Announced, RelLeave, At
    <3>2. arg[t] \in IDs
      BY <1>2, <3>1 DEF LiveIDs, IInv, Types
    <3>3. Contract!OnClientLeave(arg[t])
      BY <3>1 DEF Contract!OnClientLeave, Contract!live, LiveIDs
    <3> QED
      BY <3>2, <3>3 DEF Contract!Next
  <2> QED
    BY <1>2, <2>1, <2>2, ToldBySteps
<1> QED
  BY Invariant, AnnouncedHolds, <1>1, <1>2, PTL DEF Spec, RefinesContract, Contract!Spec
================================================================================
