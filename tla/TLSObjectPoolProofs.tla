-------------------------- MODULE TLSObjectPoolProofs --------------------------
(***************************************************************************)
(* TLSObjectPool for any threads, any chunks and any CHUNK_SIZE: a chunk   *)
(* is in one place, and so is an object, and memory is bounded.            *)
(***************************************************************************)
EXTENDS TLSObjectPool, SequenceTheorems, FiniteSetTheorems, TLAPS

Labels == {"New", "FirstFill", "Idle", "Fill", "Take", "Pop", "Swap", "Push", "Exited"}

Types ==
    /\ values \in [Chunks -> Seq(Nat)]
    /\ FilledChunkPool \subseteq Chunks /\ EmptyChunkPool \subseteq Chunks
    /\ unmade \subseteq Chunks
    /\ mChunk \in [Threads -> Chunks \cup {NoChunk}]
    /\ made \in Nat /\ held \subseteq Nat
    /\ obj \in [Threads -> Nat]
    /\ pc \in [Threads -> Labels]

\* what is anywhere was allocated, and an object is carried only to be released
Numbered ==
    /\ \A c \in Chunks : \A i \in DOMAIN values[c] : values[c][i] \in 1 .. made
    /\ held \subseteq 1 .. made
    /\ \A t \in Threads : obj[t] <= made
    /\ \A t \in Threads : obj[t] # 0 <=> pc[t] \in {"Swap", "Push"}

LEMMA AppendFacts ==
    ASSUME NEW s \in Seq(Nat), NEW o \in Nat
    PROVE  /\ Append(s, o) \in Seq(Nat)
           /\ DOMAIN s = 1 .. Len(s) /\ Len(s) \in Nat
           /\ DOMAIN Append(s, o) = 1 .. Len(s) + 1
           /\ Len(Append(s, o)) = Len(s) + 1
           /\ \A i \in 1 .. Len(s) : Append(s, o)[i] = s[i]
           /\ Append(s, o)[Len(s) + 1] = o
  OBVIOUS

LEMMA SubSeqFacts ==
    ASSUME NEW s \in Seq(Nat), s # <<>>
    PROVE  /\ SubSeq(s, 1, Len(s) - 1) \in Seq(Nat)
           /\ DOMAIN s = 1 .. Len(s) /\ Len(s) \in Nat \ {0} /\ s[Len(s)] \in Nat
           /\ DOMAIN SubSeq(s, 1, Len(s) - 1) = 1 .. Len(s) - 1
           /\ Len(SubSeq(s, 1, Len(s) - 1)) = Len(s) - 1
           /\ \A i \in 1 .. Len(s) - 1 : SubSeq(s, 1, Len(s) - 1)[i] = s[i]
  <1>1. Len(s) \in Nat \ {0} /\ DOMAIN s = 1 .. Len(s)
    OBVIOUS
  <1>2. s[Len(s)] \in Nat
    BY <1>1
  <1>3. /\ SubSeq(s, 1, Len(s) - 1) \in Seq(Nat)
        /\ Len(SubSeq(s, 1, Len(s) - 1)) = Len(s) - 1
        /\ \A i \in 1 .. Len(s) - 1 : SubSeq(s, 1, Len(s) - 1)[i] = s[1 + i - 1]
    BY <1>1, SubSeqProperties
  <1>4. QED
    BY <1>1, <1>2, <1>3

LEMMA EmptyFacts ==
    ASSUME NEW s \in Seq(Nat)
    PROVE  s = <<>> <=> Len(s) = 0
  OBVIOUS

\* The two calls that take a chunk from a pool.
LEMMA TakenFromFilled ==
    ASSUME Types, ChunksOwned, NEW t \in Threads, FromFilled(t)
    PROVE  \E c \in (FilledChunkPool \cup unmade) :
              /\ mChunk' = [mChunk EXCEPT ![t] = c]
              /\ unmade' = unmade \ {c} /\ FilledChunkPool' = FilledChunkPool \ {c}
              /\ EmptyChunkPool' = EmptyChunkPool
  <1>1. PICK c \in FilledChunkPool \cup unmade :
            mChunk' = [mChunk EXCEPT ![t] = c] /\ unmade' = unmade \ {c}
    BY DEF FromFilled, Receive
  <1>2. mChunk'[t] = c
    BY <1>1 DEF Types
  <1>3. QED
    BY <1>1, <1>2 DEF FromFilled

LEMMA TakenFromEmpty ==
    ASSUME Types, ChunksOwned, NEW t \in Threads, FromEmpty(t)
    PROVE  \E c \in (EmptyChunkPool \cup unmade) :
              /\ mChunk' = [mChunk EXCEPT ![t] = c]
              /\ unmade' = unmade \ {c} /\ EmptyChunkPool' = EmptyChunkPool \ {c}
              /\ FilledChunkPool' = FilledChunkPool
              /\ IsEmpty(c)
  <1>1. PICK c \in EmptyChunkPool \cup unmade :
            mChunk' = [mChunk EXCEPT ![t] = c] /\ unmade' = unmade \ {c}
    BY DEF FromEmpty, Receive
  <1>2. mChunk'[t] = c /\ IsEmpty(c)
    BY <1>1 DEF Types, ChunksOwned
  <1>3. QED
    BY <1>1, <1>2 DEF FromEmpty

\* The types are kept.
LEMMA TypesStep ==
    ASSUME Types, ChunksOwned, Next
    PROVE  Types'
  <1>1. ASSUME NEW t \in Threads, Construct(t) PROVE Types'
    <2>1. FromEmpty(t)
      BY <1>1 DEF Construct
    <2>2. PICK c \in EmptyChunkPool \cup unmade :
              /\ mChunk' = [mChunk EXCEPT ![t] = c]
              /\ unmade' = unmade \ {c} /\ EmptyChunkPool' = EmptyChunkPool \ {c}
              /\ FilledChunkPool' = FilledChunkPool
      BY <2>1, TakenFromEmpty
    <2>3. QED
      BY <1>1, <2>2 DEF Construct, Types, Goto, Labels
  <1>2. ASSUME NEW t \in Threads, Exit(t) PROVE Types'
    <2>1. t \in Owners
      BY <1>2 DEF Exit, Owners
    <2>2. QED
      BY <1>2, <2>1 DEF Exit, Types, ChunksOwned, Goto, Labels
  <1>3. ASSUME NEW t \in Threads, Fill(t) PROVE Types'
    <2>1. t \in Owners /\ mChunk[t] \in Chunks
      BY <1>3 DEF Fill, Owners, ChunksOwned
    <2>2. Append(values[mChunk[t]], made + 1) \in Seq(Nat)
      BY <2>1, AppendFacts DEF Types
    <2>3. values' \in [Chunks -> Seq(Nat)]
      BY <1>3, <2>1, <2>2 DEF Fill, Types
    <2>4. made' \in Nat
      BY <1>3 DEF Fill, Types
    <2>5. pc' \in [Threads -> Labels]
      BY <1>3 DEF Fill, Types, Goto, Labels
    <2>6. QED
      BY <1>3, <2>3, <2>4, <2>5 DEF Fill, Types
  <1>4. ASSUME NEW t \in Threads, GetObject(t) PROVE Types'
    <2>1. t \in Owners
      BY <1>4 DEF GetObject, Owners
    <2>2. QED
      BY SMTT(30), <1>4, <2>1 DEF GetObject, Types, ChunksOwned, Goto, Labels
  <1>5. ASSUME NEW t \in Threads, Take(t) PROVE Types'
    <2>1. FromFilled(t)
      BY <1>5 DEF Take
    <2>2. PICK c \in FilledChunkPool \cup unmade :
              /\ mChunk' = [mChunk EXCEPT ![t] = c]
              /\ unmade' = unmade \ {c} /\ FilledChunkPool' = FilledChunkPool \ {c}
              /\ EmptyChunkPool' = EmptyChunkPool
      BY <2>1, TakenFromFilled
    <2>3. QED
      BY <1>5, <2>2 DEF Take, Types, Goto, Labels
  <1>6. ASSUME NEW t \in Threads, Pop(t) PROVE Types'
    <2> DEFINE v == values[mChunk[t]]
    <2>1. t \in Owners
      BY <1>6 DEF Pop, Owners
    <2>2. mChunk[t] \in Chunks /\ v # <<>>
      BY <1>6, <2>1 DEF Pop, ChunksOwned, IsEmpty
    <2>3. v \in Seq(Nat)
      BY <2>2 DEF Types
    <2>4. SubSeq(v, 1, Len(v) - 1) \in Seq(Nat) /\ v[Len(v)] \in Nat
      BY <2>2, <2>3, SubSeqFacts, Zenon
    <2>5. values' = [values EXCEPT ![mChunk[t]] = SubSeq(v, 1, Len(v) - 1)]
          /\ held' = held \cup {v[Len(v)]}
      BY <1>6 DEF Pop
    <2> HIDE DEF v
    <2>6. QED
      BY <1>6, <2>2, <2>4, <2>5 DEF Pop, Types, Goto, Labels
  <1>7. ASSUME NEW t \in Threads, ReleaseObject(t) PROVE Types'
    <2>1. t \in Owners
      BY <1>7 DEF ReleaseObject, Owners
    <2>2. mChunk[t] \in Chunks
      BY <2>1 DEF ChunksOwned
    <2>3. FilledChunkPool' \subseteq Chunks
      BY <1>7, <2>2 DEF ReleaseObject, Types
    <2>4. pc' \in [Threads -> Labels]
      BY <1>7 DEF ReleaseObject, Types, Goto, Labels
    <2>5. held' \subseteq Nat /\ obj' \in [Threads -> Nat]
      BY <1>7 DEF ReleaseObject, Types
    <2>6. QED
      BY <1>7, <2>3, <2>4, <2>5 DEF ReleaseObject, Types
  <1>8. ASSUME NEW t \in Threads, Swap(t) PROVE Types'
    <2>1. FromEmpty(t)
      BY <1>8 DEF Swap
    <2>2. PICK c \in EmptyChunkPool \cup unmade :
              /\ mChunk' = [mChunk EXCEPT ![t] = c]
              /\ unmade' = unmade \ {c} /\ EmptyChunkPool' = EmptyChunkPool \ {c}
              /\ FilledChunkPool' = FilledChunkPool
      BY <2>1, TakenFromEmpty
    <2>3. QED
      BY <1>8, <2>2 DEF Swap, Types, Goto, Labels
  <1>9. ASSUME NEW t \in Threads, Push(t) PROVE Types'
    <2>1. t \in Owners /\ mChunk[t] \in Chunks
      BY <1>9 DEF Push, Owners, ChunksOwned
    <2>2. Append(values[mChunk[t]], obj[t]) \in Seq(Nat)
      BY <2>1, AppendFacts DEF Types
    <2>3. QED
      BY <1>9, <2>1, <2>2 DEF Push, Types, Goto, Labels
  <1>10. QED
    BY <1>1, <1>2, <1>3, <1>4, <1>5, <1>6, <1>7, <1>8, <1>9 DEF Next

--------------------------------------------------------------------------------
(* A chunk is in one place.  Whatever a thread does, it takes a chunk from *)
(* a pool, gives its own to a pool, or works on its own.                   *)

OwnerLabels == {"FirstFill", "Idle", "Fill", "Pop", "Push"}

LEMMA Takes ==
    ASSUME Types, ChunksOwned, TLSAssumption, NEW t \in Threads, t \notin Owners,
           NEW c \in Pools, NEW l \in OwnerLabels \ {"Pop"}, l = "Push" => IsEmpty(c),
           mChunk' = [mChunk EXCEPT ![t] = c], pc' = [pc EXCEPT ![t] = l],
           FilledChunkPool' = FilledChunkPool \ {c},
           EmptyChunkPool' = EmptyChunkPool \ {c}, unmade' = unmade \ {c},
           values' = values
    PROVE  ChunksOwned'
  <1>1. /\ Owners' = Owners \cup {t} /\ c \in Chunks
        /\ Pools' = Pools \ {c}
        /\ mChunk'[t] = c /\ pc'[t] = l
        /\ \A u \in Owners : u \in Threads /\ mChunk'[u] = mChunk[u] /\ pc'[u] = pc[u]
    BY DEF Owners, OwnerLabels, Types, Pools
  <1>2. \A u \in Owners : mChunk[u] # c
    BY DEF ChunksOwned, Pools
  <1>3. \A u, w \in Owners' : u # w => mChunk'[u] # mChunk'[w]
    BY <1>1, <1>2 DEF ChunksOwned
  <1>4. \A u \in Owners' : mChunk'[u] \in Chunks \ Pools'
    BY <1>1, <1>2 DEF ChunksOwned
  <1>5. /\ FilledChunkPool' \cap EmptyChunkPool' = {}
        /\ (FilledChunkPool' \cup EmptyChunkPool') \cap unmade' = {}
        /\ \A d \in EmptyChunkPool' \cup unmade' : IsEmpty(d)'
        /\ \A d \in Chunks : Len(values'[d]) <= CHUNK_SIZE
    BY DEF ChunksOwned, IsEmpty
  <1>6. \A u \in Owners' : /\ pc'[u] = "Pop" => ~IsEmpty(mChunk'[u])
                           /\ pc'[u] = "Push" => ~IsFull(mChunk'[u])
    <2>1. l = "Push" => ~IsFull(c)
      <3>1. values[c] \in Seq(Nat)
        BY <1>1 DEF Types
      <3>2. QED
        BY <3>1, EmptyFacts DEF TLSAssumption, IsFull, IsEmpty
    <2>2. QED
      BY <1>1, <2>1 DEF ChunksOwned, IsEmpty, IsFull
  <1>7. \A u \in Owners' : /\ pc'[u] = "Pop" => ~IsEmpty(mChunk[u])'
                           /\ pc'[u] = "Push" => ~IsFull(mChunk[u])'
    BY <1>6 DEF IsEmpty, IsFull
  <1>8. QED
    BY <1>3, <1>4, <1>5, <1>7 DEF ChunksOwned

LEMMA Gives ==
    ASSUME Types, ChunksOwned, NEW t \in Threads, t \in Owners,
           NEW l \in Labels \ OwnerLabels,
           pc' = [pc EXCEPT ![t] = l],
           UNCHANGED <<mChunk, values, unmade>>,
           \/ /\ FilledChunkPool' = FilledChunkPool \cup {mChunk[t]}
              /\ UNCHANGED EmptyChunkPool
           \/ /\ EmptyChunkPool' = EmptyChunkPool \cup {mChunk[t]}
              /\ UNCHANGED FilledChunkPool
              /\ IsEmpty(mChunk[t])
    PROVE  ChunksOwned'
  <1>1. /\ Owners' = Owners \ {t}
        /\ Pools' = Pools \cup {mChunk[t]}
        /\ \A u \in Owners' : u \in Threads /\ pc'[u] = pc[u]
    BY DEF Owners, OwnerLabels, Types, Pools
  <1>2. \A u, w \in Owners' : u # w => mChunk'[u] # mChunk'[w]
    BY <1>1 DEF ChunksOwned
  <1>3. \A u \in Owners' : mChunk'[u] \in Chunks \ Pools'
    BY <1>1 DEF ChunksOwned
  <1>4. mChunk[t] \in Chunks \ Pools
    BY DEF ChunksOwned
  <1>5. /\ FilledChunkPool' \cap EmptyChunkPool' = {}
        /\ (FilledChunkPool' \cup EmptyChunkPool') \cap unmade' = {}
    BY <1>4 DEF ChunksOwned, Pools
  <1>6. /\ \A d \in EmptyChunkPool' \cup unmade' : IsEmpty(d)'
        /\ \A d \in Chunks : Len(values'[d]) <= CHUNK_SIZE
    BY DEF ChunksOwned, IsEmpty
  <1>7. \A u \in Owners' : /\ pc'[u] = "Pop" => ~IsEmpty(mChunk[u])'
                           /\ pc'[u] = "Push" => ~IsFull(mChunk[u])'
    BY <1>1 DEF ChunksOwned, IsEmpty, IsFull
  <1>8. QED
    BY <1>2, <1>3, <1>5, <1>6, <1>7 DEF ChunksOwned

LEMMA Works ==
    ASSUME Types, ChunksOwned, NEW t \in Threads, t \in Owners,
           NEW l \in OwnerLabels, NEW v \in Seq(Nat),
           Len(v) <= CHUNK_SIZE, l = "Pop" => v # <<>>, l = "Push" => Len(v) # CHUNK_SIZE,
           pc' = [pc EXCEPT ![t] = l],
           values' = [values EXCEPT ![mChunk[t]] = v],
           UNCHANGED <<mChunk, unmade, FilledChunkPool, EmptyChunkPool>>
    PROVE  ChunksOwned'
  <1>1. /\ Owners' = Owners /\ Pools' = Pools
        /\ pc'[t] = l /\ \A u \in Owners \ {t} : u \in Threads /\ pc'[u] = pc[u]
    BY DEF Owners, OwnerLabels, Types, Pools
  <1>2. /\ mChunk[t] \in Chunks \ Pools
        /\ values'[mChunk[t]] = v
        /\ \A d \in Chunks \ {mChunk[t]} : values'[d] = values[d]
    BY DEF ChunksOwned, Types
  <1>3. \A u, w \in Owners' : u # w => mChunk'[u] # mChunk'[w]
    BY <1>1 DEF ChunksOwned
  <1>4. \A u \in Owners' : mChunk'[u] \in Chunks \ Pools'
    BY <1>1 DEF ChunksOwned
  <1>5. /\ FilledChunkPool' \cap EmptyChunkPool' = {}
        /\ (FilledChunkPool' \cup EmptyChunkPool') \cap unmade' = {}
    BY DEF ChunksOwned
  <1>6. \A d \in EmptyChunkPool' \cup unmade' : IsEmpty(d)'
    BY <1>2 DEF ChunksOwned, IsEmpty, Pools, Types
  <1>7. \A d \in Chunks : Len(values'[d]) <= CHUNK_SIZE
    BY <1>2 DEF ChunksOwned
  <1>8. \A u \in Owners' : /\ pc'[u] = "Pop" => ~IsEmpty(mChunk[u])'
                           /\ pc'[u] = "Push" => ~IsFull(mChunk[u])'
    <2>1. TAKE u \in Owners'
    <2>2. CASE u = t
      BY <1>1, <1>2, <2>2 DEF IsEmpty, IsFull
    <2>3. CASE u # t
      BY <1>1, <1>2, <2>3 DEF ChunksOwned, IsEmpty, IsFull
    <2>4. QED
      BY <2>2, <2>3
  <1>9. QED
    BY <1>3, <1>4, <1>5, <1>6, <1>7, <1>8 DEF ChunksOwned

LEMMA OwnedStep ==
    ASSUME Types, ChunksOwned, TLSAssumption, [Next]_vars
    PROVE  ChunksOwned'
  <1> USE DEF Labels, OwnerLabels
  <1>1. ASSUME NEW t \in Threads, Construct(t) PROVE ChunksOwned'
    <2>1. PICK c \in EmptyChunkPool \cup unmade :
              /\ mChunk' = [mChunk EXCEPT ![t] = c]
              /\ unmade' = unmade \ {c} /\ EmptyChunkPool' = EmptyChunkPool \ {c}
              /\ FilledChunkPool' = FilledChunkPool /\ IsEmpty(c)
      BY <1>1, TakenFromEmpty DEF Construct
    <2>2. c \in Pools /\ FilledChunkPool' = FilledChunkPool \ {c} /\ t \notin Owners
      BY <1>1, <2>1 DEF Construct, Owners, Pools, ChunksOwned
    <2>3. pc' = [pc EXCEPT ![t] = "FirstFill"] /\ values' = values
      BY <1>1 DEF Construct, Goto
    <2>4. QED
      BY <2>1, <2>2, <2>3, Takes
  <1>2. ASSUME NEW t \in Threads, Exit(t) PROVE ChunksOwned'
    <2>1. t \in Owners /\ pc' = [pc EXCEPT ![t] = "Exited"]
      BY <1>2 DEF Exit, Owners, Goto
    <2>2. /\ FilledChunkPool' = FilledChunkPool \cup {mChunk[t]}
          /\ UNCHANGED <<mChunk, values, unmade, EmptyChunkPool>>
      BY <1>2 DEF Exit
    <2>3. QED
      BY <2>1, <2>2, Gives
  <1>3. ASSUME NEW t \in Threads, Fill(t) PROVE ChunksOwned'
    <2> DEFINE v == values[mChunk[t]]
    <2>1. t \in Owners /\ mChunk[t] \in Chunks /\ v \in Seq(Nat) /\ Len(v) <= CHUNK_SIZE
      BY <1>3 DEF Fill, Owners, ChunksOwned, Types
    <2>2. UNCHANGED <<mChunk, unmade, FilledChunkPool, EmptyChunkPool>>
      BY <1>3 DEF Fill
    <2>3. CASE ~IsFull(mChunk[t])
      <3>1. /\ Append(v, made + 1) \in Seq(Nat)
            /\ Len(Append(v, made + 1)) <= CHUNK_SIZE
        <4>1. Len(v) # CHUNK_SIZE /\ made + 1 \in Nat
          BY <2>3 DEF IsFull, Types
        <4> HIDE DEF v
        <4>2. QED
          BY <2>1, <4>1, AppendFacts DEF TLSAssumption
      <3>2. /\ values' = [values EXCEPT ![mChunk[t]] = Append(v, made + 1)]
            /\ pc' = [pc EXCEPT ![t] = pc[t]]
        BY <1>3, <2>3 DEF Fill, Types
      <3>3. pc[t] \in {"FirstFill", "Fill"}
        BY <1>3 DEF Fill
      <3> HIDE DEF v
      <3>4. QED
        BY <2>1, <2>2, <3>1, <3>2, <3>3, Works
    <2>4. CASE IsFull(mChunk[t])
      <3>1. Len(v) = CHUNK_SIZE /\ v # <<>>
        BY <2>1, <2>4, EmptyFacts DEF IsFull, TLSAssumption
      <3>2. values' = [values EXCEPT ![mChunk[t]] = v]
        BY <1>3, <2>4 DEF Fill, Types
      <3>3. PICK l \in {"Pop", "Idle"} : pc' = [pc EXCEPT ![t] = l]
        BY <1>3, <2>4 DEF Fill, Goto
      <3> HIDE DEF v
      <3>4. QED
        BY <2>1, <2>2, <3>1, <3>2, <3>3, Works
    <2>5. QED
      BY <2>3, <2>4
  <1>4. ASSUME NEW t \in Threads, GetObject(t) PROVE ChunksOwned'
    <2> DEFINE v == values[mChunk[t]]
    <2>1. t \in Owners /\ mChunk[t] \in Chunks /\ v \in Seq(Nat) /\ Len(v) <= CHUNK_SIZE
      BY <1>4 DEF GetObject, Owners, ChunksOwned, Types
    <2>2. UNCHANGED <<values, FilledChunkPool, unmade, mChunk>>
      BY <1>4 DEF GetObject
    <2>3. CASE IsEmpty(mChunk[t])
      <3>1. /\ EmptyChunkPool' = EmptyChunkPool \cup {mChunk[t]}
            /\ pc' = [pc EXCEPT ![t] = "Take"]
        BY <1>4, <2>3 DEF GetObject, Goto
      <3>2. QED
        BY <2>1, <2>2, <2>3, <3>1, Gives
    <2>4. CASE ~IsEmpty(mChunk[t])
      <3>1. /\ EmptyChunkPool' = EmptyChunkPool
            /\ pc' = [pc EXCEPT ![t] = "Pop"]
        BY <1>4, <2>4 DEF GetObject, Goto
      <3>2. values' = [values EXCEPT ![mChunk[t]] = v] /\ v # <<>>
        BY <2>2, <2>4 DEF Types, IsEmpty
      <3> HIDE DEF v
      <3>3. QED
        BY <2>1, <2>2, <3>1, <3>2, Works
    <2>5. QED
      BY <2>3, <2>4
  <1>5. ASSUME NEW t \in Threads, Take(t) PROVE ChunksOwned'
    <2>1. PICK c \in FilledChunkPool \cup unmade :
              /\ mChunk' = [mChunk EXCEPT ![t] = c]
              /\ unmade' = unmade \ {c} /\ FilledChunkPool' = FilledChunkPool \ {c}
              /\ EmptyChunkPool' = EmptyChunkPool
      BY <1>5, TakenFromFilled DEF Take
    <2>2. c \in Pools /\ EmptyChunkPool' = EmptyChunkPool \ {c} /\ t \notin Owners
      BY <1>5, <2>1 DEF Take, Owners, Pools, ChunksOwned
    <2>3. pc' = [pc EXCEPT ![t] = "Fill"] /\ values' = values
      BY <1>5 DEF Take, Goto
    <2>4. QED
      BY <2>1, <2>2, <2>3, Takes
  <1>6. ASSUME NEW t \in Threads, Pop(t) PROVE ChunksOwned'
    <2> DEFINE v == values[mChunk[t]]
    <2>1. t \in Owners /\ mChunk[t] \in Chunks /\ v # <<>>
      BY <1>6 DEF Pop, Owners, ChunksOwned, IsEmpty
    <2>2. v \in Seq(Nat) /\ Len(v) <= CHUNK_SIZE
      BY <2>1 DEF Types, ChunksOwned
    <2>3. /\ values' = [values EXCEPT ![mChunk[t]] = SubSeq(v, 1, Len(v) - 1)]
          /\ pc' = [pc EXCEPT ![t] = "Idle"]
          /\ UNCHANGED <<mChunk, unmade, FilledChunkPool, EmptyChunkPool>>
      BY <1>6 DEF Pop, Goto
    <2> HIDE DEF v
    <2>4. /\ SubSeq(v, 1, Len(v) - 1) \in Seq(Nat)
          /\ Len(SubSeq(v, 1, Len(v) - 1)) <= CHUNK_SIZE
      BY <2>1, <2>2, SubSeqFacts DEF TLSAssumption
    <2>5. QED
      BY <2>1, <2>3, <2>4, Works
  <1>7. ASSUME NEW t \in Threads, ReleaseObject(t) PROVE ChunksOwned'
    <2> DEFINE v == values[mChunk[t]]
    <2>1. t \in Owners /\ mChunk[t] \in Chunks /\ v \in Seq(Nat) /\ Len(v) <= CHUNK_SIZE
      BY <1>7 DEF ReleaseObject, Owners, ChunksOwned, Types
    <2>2. UNCHANGED <<values, EmptyChunkPool, unmade, mChunk>>
      BY <1>7 DEF ReleaseObject
    <2>3. CASE IsFull(mChunk[t])
      <3>1. /\ FilledChunkPool' = FilledChunkPool \cup {mChunk[t]}
            /\ pc' = [pc EXCEPT ![t] = "Swap"]
        BY <1>7, <2>3 DEF ReleaseObject, Goto
      <3>2. QED
        BY <2>1, <2>2, <3>1, Gives
    <2>4. CASE ~IsFull(mChunk[t])
      <3>1. /\ FilledChunkPool' = FilledChunkPool
            /\ pc' = [pc EXCEPT ![t] = "Push"]
        BY <1>7, <2>4 DEF ReleaseObject, Goto
      <3>2. values' = [values EXCEPT ![mChunk[t]] = v] /\ Len(v) # CHUNK_SIZE
        BY <2>2, <2>4 DEF Types, IsFull
      <3> HIDE DEF v
      <3>3. QED
        BY <2>1, <2>2, <3>1, <3>2, Works
    <2>5. QED
      BY <2>3, <2>4
  <1>8. ASSUME NEW t \in Threads, Swap(t) PROVE ChunksOwned'
    <2>1. PICK c \in EmptyChunkPool \cup unmade :
              /\ mChunk' = [mChunk EXCEPT ![t] = c]
              /\ unmade' = unmade \ {c} /\ EmptyChunkPool' = EmptyChunkPool \ {c}
              /\ FilledChunkPool' = FilledChunkPool /\ IsEmpty(c)
      BY <1>8, TakenFromEmpty DEF Swap
    <2>2. c \in Pools /\ FilledChunkPool' = FilledChunkPool \ {c} /\ t \notin Owners
      BY <1>8, <2>1 DEF Swap, Owners, Pools, ChunksOwned
    <2>3. pc' = [pc EXCEPT ![t] = "Push"] /\ values' = values
      BY <1>8 DEF Swap, Goto
    <2>4. QED
      BY <2>1, <2>2, <2>3, Takes
  <1>9. ASSUME NEW t \in Threads, Push(t) PROVE ChunksOwned'
    <2> DEFINE v == values[mChunk[t]]
    <2>1. t \in Owners /\ mChunk[t] \in Chunks /\ Len(v) # CHUNK_SIZE
      BY <1>9 DEF Push, Owners, ChunksOwned, IsFull
    <2>2. v \in Seq(Nat) /\ Len(v) <= CHUNK_SIZE /\ obj[t] \in Nat
      BY <2>1 DEF Types, ChunksOwned
    <2>3. /\ values' = [values EXCEPT ![mChunk[t]] = Append(v, obj[t])]
          /\ pc' = [pc EXCEPT ![t] = "Idle"]
          /\ UNCHANGED <<mChunk, unmade, FilledChunkPool, EmptyChunkPool>>
      BY <1>9 DEF Push, Goto
    <2> HIDE DEF v
    <2>4. /\ Append(v, obj[t]) \in Seq(Nat)
          /\ Len(Append(v, obj[t])) <= CHUNK_SIZE
      BY <2>1, <2>2, AppendFacts DEF TLSAssumption
    <2>5. QED
      BY <2>1, <2>3, <2>4, Works
  <1>10. CASE UNCHANGED vars
    BY <1>10 DEF vars, ChunksOwned, Owners, Pools, IsEmpty, IsFull
  <1>11. QED
    BY <1>1, <1>2, <1>3, <1>4, <1>5, <1>6, <1>7, <1>8, <1>9, <1>10 DEF Next

--------------------------------------------------------------------------------
(* An object is in one place.  A chunk gets an object on top, or loses the *)
(* one on top.                                                             *)

InChunk(o, c) == \E i \in DOMAIN values[c] : values[c][i] = o

LEMMA Puts ==
    ASSUME Types, Types', NEW k \in Chunks, NEW o \in Nat,
           values' = [values EXCEPT ![k] = Append(values[k], o)]
    PROVE  /\ \A c \in Chunks : \A i \in DOMAIN values[c] :
                 i \in DOMAIN values'[c] /\ values'[c][i] = values[c][i]
           /\ \A c \in Chunks : \A i \in DOMAIN values'[c] :
                 i \in DOMAIN values[c]
                 \/ (c = k /\ i = Len(values[k]) + 1 /\ values'[c][i] = o)
           /\ Len(values[k]) + 1 \in DOMAIN values'[k]
           /\ values'[k][Len(values[k]) + 1] = o
  <1> DEFINE v == values[k]
  <1>1. v \in Seq(Nat) /\ values'[k] = Append(v, o)
    BY DEF Types
  <1>2. \A c \in Chunks \ {k} : values'[c] = values[c]
    BY DEF Types
  <1> HIDE DEF v
  <1>3. /\ DOMAIN v = 1 .. Len(v) /\ Len(v) \in Nat
        /\ DOMAIN Append(v, o) = 1 .. Len(v) + 1
        /\ \A i \in 1 .. Len(v) : Append(v, o)[i] = v[i]
        /\ Append(v, o)[Len(v) + 1] = o
    BY <1>1, AppendFacts
  <1>4. /\ \A i \in DOMAIN v : i \in DOMAIN values'[k] /\ values'[k][i] = v[i]
        /\ \A i \in DOMAIN values'[k] :
              i \in DOMAIN v \/ (i = Len(v) + 1 /\ values'[k][i] = o)
        /\ Len(v) + 1 \in DOMAIN values'[k] /\ values'[k][Len(v) + 1] = o
    BY <1>1, <1>3
  <1>5. QED
    BY <1>2, <1>4 DEF v

\* the first conjunct of ObjectsAccounted, after an object came on top that was
\* in no chunk
LEMMA PutsOnce ==
    ASSUME Types, Types', ObjectsAccounted, NEW k \in Chunks, NEW o \in Nat,
           \A c \in Chunks : ~InChunk(o, c),
           values' = [values EXCEPT ![k] = Append(values[k], o)]
    PROVE  \A c, d \in Chunks : \A i \in DOMAIN values'[c], j \in DOMAIN values'[d] :
              values'[c][i] = values'[d][j] => c = d /\ i = j
  <1> SUFFICES ASSUME NEW c \in Chunks, NEW d \in Chunks,
                      NEW i \in DOMAIN values'[c], NEW j \in DOMAIN values'[d],
                      values'[c][i] = values'[d][j]
               PROVE  c = d /\ i = j
    OBVIOUS
  <1>1. /\ \A e \in Chunks : \A n \in DOMAIN values[e] :
              n \in DOMAIN values'[e] /\ values'[e][n] = values[e][n]
        /\ \A e \in Chunks : \A n \in DOMAIN values'[e] :
              n \in DOMAIN values[e]
              \/ (e = k /\ n = Len(values[k]) + 1 /\ values'[e][n] = o)
    BY Puts
  <1>2. CASE i \in DOMAIN values[c] /\ j \in DOMAIN values[d]
    BY <1>1, <1>2 DEF ObjectsAccounted
  <1>3. CASE i \in DOMAIN values[c] /\ j \notin DOMAIN values[d]
    BY <1>1, <1>3 DEF InChunk
  <1>4. CASE i \notin DOMAIN values[c] /\ j \in DOMAIN values[d]
    BY <1>1, <1>4 DEF InChunk
  <1>5. CASE i \notin DOMAIN values[c] /\ j \notin DOMAIN values[d]
    BY <1>1, <1>5
  <1>6. QED
    BY <1>2, <1>3, <1>4, <1>5

\* The inductive invariant: a chunk has one owner because a thread works on its own
\* chunk only between two exchanges; an object is in one place because a chunk has
\* one owner, and because what is allocated next is nowhere yet (Numbered).
IInv == Types /\ ChunksOwned /\ Numbered /\ ObjectsAccounted

LEMMA FillKeeps ==
    ASSUME IInv, Types', NEW t \in Threads, Fill(t)
    PROVE  Numbered' /\ ObjectsAccounted'
  <1> USE DEF IInv
  <1> DEFINE k == mChunk[t]
  <1>1. t \in Owners /\ k \in Chunks
    BY DEF Fill, Owners, ChunksOwned
  <1>2. held' = held /\ obj' = obj
    BY DEF Fill
  <1>3. \A u \in Threads : pc'[u] \in {"Swap", "Push"} <=> pc[u] \in {"Swap", "Push"}
    BY DEF Fill, Goto, Types, Labels
  <1>4. CASE UNCHANGED <<made, values>>
    BY <1>2, <1>3, <1>4 DEF Numbered, ObjectsAccounted
  <1>5. CASE made' = made + 1 /\ values' = [values EXCEPT ![k] = Append(values[k], made + 1)]
    <2>1. made + 1 \in Nat /\ \A c \in Chunks : ~InChunk(made + 1, c)
      BY DEF Types, Numbered, InChunk
    <2> HIDE DEF k
    <2>2. /\ \A c \in Chunks : \A i \in DOMAIN values[c] :
                i \in DOMAIN values'[c] /\ values'[c][i] = values[c][i]
          /\ \A c \in Chunks : \A i \in DOMAIN values'[c] :
                i \in DOMAIN values[c]
                \/ (c = k /\ i = Len(values[k]) + 1 /\ values'[c][i] = made + 1)
          /\ Len(values[k]) + 1 \in DOMAIN values'[k]
          /\ values'[k][Len(values[k]) + 1] = made + 1
      BY <1>1, <1>5, <2>1, Puts
    <2>3. \A c, d \in Chunks : \A i \in DOMAIN values'[c], j \in DOMAIN values'[d] :
              values'[c][i] = values'[d][j] => c = d /\ i = j
      BY <1>1, <1>5, <2>1, PutsOnce
    <2>4. \A c \in Chunks : \A i \in DOMAIN values'[c] : values'[c][i] \in 1 .. made'
      BY <1>5, <2>2 DEF Numbered, Types
    <2>5. Numbered'
      BY <1>2, <1>3, <1>5, <2>4 DEF Numbered, Types
    <2>6. \A c \in Chunks : \A i \in DOMAIN values'[c] :
              values'[c][i] \notin held' /\ \A u \in Threads : obj'[u] # values'[c][i]
      <3>1. made + 1 \notin held /\ \A u \in Threads : obj[u] # made + 1
        BY DEF Numbered, Types
      <3>2. QED
        BY <1>2, <2>2, <3>1 DEF ObjectsAccounted
    <2>7. \A o \in 1 .. made' :
              \/ o \in held' \/ \E u \in Threads : obj'[u] = o
              \/ \E c \in Chunks : \E i \in DOMAIN values'[c] : values'[c][i] = o
      <3>1. \A o \in 1 .. made' : o \in 1 .. made \/ o = made + 1
        BY <1>5 DEF Types
      <3>2. QED
        BY <1>1, <1>2, <2>2, <3>1 DEF ObjectsAccounted
    <2>8. QED
      BY <1>2, <2>3, <2>5, <2>6, <2>7 DEF ObjectsAccounted
  <1>6. QED
    BY <1>4, <1>5 DEF Fill

LEMMA PushKeeps ==
    ASSUME IInv, Types', NEW t \in Threads, Push(t)
    PROVE  Numbered' /\ ObjectsAccounted'
  <1> USE DEF IInv
  <1> DEFINE k == mChunk[t]
  <1>1. t \in Owners /\ k \in Chunks
    BY DEF Push, Owners, ChunksOwned
  <1>2. /\ held' = held /\ made' = made
        /\ values' = [values EXCEPT ![k] = Append(values[k], obj[t])]
        /\ obj' = [obj EXCEPT ![t] = 0] /\ pc' = [pc EXCEPT ![t] = "Idle"]
    BY DEF Push, Goto
  <1>3. /\ obj[t] \in Nat /\ obj[t] # 0 /\ obj[t] \in 1 .. made /\ obj[t] \notin held
        /\ \A c \in Chunks : ~InChunk(obj[t], c)
        /\ \A u \in Threads \ {t} : obj[u] # obj[t]
    BY DEF Push, Numbered, Types, ObjectsAccounted, InChunk
  <1>4. /\ obj'[t] = 0 /\ pc'[t] = "Idle"
        /\ \A u \in Threads \ {t} : obj'[u] = obj[u] /\ pc'[u] = pc[u]
    BY <1>2 DEF Types
  <1> HIDE DEF k
  <1>5. /\ \A c \in Chunks : \A i \in DOMAIN values[c] :
              i \in DOMAIN values'[c] /\ values'[c][i] = values[c][i]
        /\ \A c \in Chunks : \A i \in DOMAIN values'[c] :
              i \in DOMAIN values[c]
              \/ (c = k /\ i = Len(values[k]) + 1 /\ values'[c][i] = obj[t])
        /\ Len(values[k]) + 1 \in DOMAIN values'[k]
        /\ values'[k][Len(values[k]) + 1] = obj[t]
    BY <1>1, <1>2, <1>3, Puts
  <1>6. \A c, d \in Chunks : \A i \in DOMAIN values'[c], j \in DOMAIN values'[d] :
            values'[c][i] = values'[d][j] => c = d /\ i = j
    BY <1>1, <1>2, <1>3, PutsOnce
  <1>7. Numbered'
    <2>1. \A c \in Chunks : \A i \in DOMAIN values'[c] : values'[c][i] \in 1 .. made'
      BY <1>2, <1>3, <1>5 DEF Numbered
    <2>2. \A u \in Threads : /\ obj'[u] <= made'
                             /\ obj'[u] # 0 <=> pc'[u] \in {"Swap", "Push"}
      BY <1>2, <1>4 DEF Numbered, Types
    <2>3. QED
      BY <1>2, <2>1, <2>2 DEF Numbered
  <1>8. \A c \in Chunks : \A i \in DOMAIN values'[c] :
            values'[c][i] \notin held' /\ \A u \in Threads : obj'[u] # values'[c][i]
    <2>1. \A c \in Chunks : \A i \in DOMAIN values[c] : values[c][i] # 0
      BY DEF Numbered, Types
    <2>2. QED
      BY <1>2, <1>3, <1>4, <1>5, <2>1 DEF ObjectsAccounted
  <1>9. \A u, w \in Threads : obj'[u] # 0 => obj'[u] \notin held' /\ (u # w => obj'[u] # obj'[w])
    BY <1>2, <1>4 DEF ObjectsAccounted
  <1>10. \A o \in 1 .. made' :
            \/ o \in held' \/ \E u \in Threads : obj'[u] = o
            \/ \E c \in Chunks : \E i \in DOMAIN values'[c] : values'[c][i] = o
    <2> TAKE o \in 1 .. made'
    <2>1. CASE o = obj[t]
      BY <1>1, <1>5, <2>1
    <2>2. CASE o # obj[t]
      BY <1>2, <1>4, <1>5, <2>2 DEF ObjectsAccounted
    <2>3. QED
      BY <2>1, <2>2
  <1>11. QED
    BY <1>6, <1>7, <1>8, <1>9, <1>10 DEF ObjectsAccounted

LEMMA PopKeeps ==
    ASSUME IInv, Types', NEW t \in Threads, Pop(t)
    PROVE  Numbered' /\ ObjectsAccounted'
  <1> USE DEF IInv
  <1> DEFINE k == mChunk[t]
             v == values[k]
             o == v[Len(v)]
  <1>1. k \in Chunks /\ v \in Seq(Nat) /\ v # <<>>
    BY DEF Pop, Owners, ChunksOwned, IsEmpty, Types
  <1>2. /\ held' = held \cup {o} /\ made' = made /\ obj' = obj
        /\ values' = [values EXCEPT ![k] = SubSeq(v, 1, Len(v) - 1)]
        /\ pc' = [pc EXCEPT ![t] = "Idle"] /\ pc[t] = "Pop"
    BY DEF Pop, Goto
  <1>3. /\ values'[k] = SubSeq(v, 1, Len(v) - 1)
        /\ \A c \in Chunks \ {k} : values'[c] = values[c]
    BY <1>1, <1>2 DEF Types
  <1> HIDE DEF v
  <1>4. /\ DOMAIN v = 1 .. Len(v) /\ Len(v) \in Nat \ {0}
        /\ DOMAIN values'[k] = 1 .. Len(v) - 1
        /\ \A i \in 1 .. Len(v) - 1 : values'[k][i] = v[i]
    BY <1>1, <1>3, SubSeqFacts
  <1>5. /\ \A i \in DOMAIN values'[k] :
              i \in DOMAIN v /\ values'[k][i] = v[i] /\ i # Len(v)
        /\ \A i \in DOMAIN v : i = Len(v) \/ (i \in DOMAIN values'[k] /\ values'[k][i] = v[i])
        /\ Len(v) \in DOMAIN v
    BY <1>4
  <1>6. /\ \A c \in Chunks : \A i \in DOMAIN values'[c] :
              i \in DOMAIN values[c] /\ values'[c][i] = values[c][i] /\ ~(c = k /\ i = Len(v))
        /\ \A c \in Chunks : \A i \in DOMAIN values[c] :
              \/ c = k /\ i = Len(v)
              \/ i \in DOMAIN values'[c] /\ values'[c][i] = values[c][i]
        /\ Len(v) \in DOMAIN values[k] /\ values[k][Len(v)] = o
    BY <1>3, <1>5 DEF v
  <1>7. o \in 1 .. made /\ \A u \in Threads : obj[u] # o
    BY <1>1, <1>6 DEF Numbered, ObjectsAccounted
  <1> HIDE DEF k, o
  <1>8. Numbered'
    <2>1. \A c \in Chunks : \A i \in DOMAIN values'[c] : values'[c][i] \in 1 .. made'
      BY <1>2, <1>6 DEF Numbered
    <2>2. \A u \in Threads : pc'[u] \in {"Swap", "Push"} <=> pc[u] \in {"Swap", "Push"}
      BY <1>2 DEF Types
    <2>3. QED
      BY <1>2, <1>7, <2>1, <2>2 DEF Numbered
  <1>9. \A c, d \in Chunks : \A i \in DOMAIN values'[c], j \in DOMAIN values'[d] :
            values'[c][i] = values'[d][j] => c = d /\ i = j
    BY <1>6 DEF ObjectsAccounted
  <1>10. \A c \in Chunks : \A i \in DOMAIN values'[c] :
            values'[c][i] \notin held' /\ \A u \in Threads : obj'[u] # values'[c][i]
    BY <1>1, <1>2, <1>6 DEF ObjectsAccounted
  <1>11. \A u, w \in Threads : obj'[u] # 0 => obj'[u] \notin held' /\ (u # w => obj'[u] # obj'[w])
    BY <1>2, <1>7 DEF ObjectsAccounted
  <1>12. \A x \in 1 .. made' :
            \/ x \in held' \/ \E u \in Threads : obj'[u] = x
            \/ \E c \in Chunks : \E i \in DOMAIN values'[c] : values'[c][i] = x
    <2> SUFFICES ASSUME NEW x \in 1 .. made, x \notin held', \A u \in Threads : obj'[u] # x
                 PROVE  \E c \in Chunks : \E i \in DOMAIN values'[c] : values'[c][i] = x
      BY <1>2
    <2>1. PICK c \in Chunks : \E i \in DOMAIN values[c] : values[c][i] = x
      BY <1>2 DEF ObjectsAccounted
    <2>2. PICK i \in DOMAIN values[c] : values[c][i] = x
      BY <2>1
    <2>3. ~(c = k /\ i = Len(v))
      BY <1>2, <1>6, <2>2
    <2>4. QED
      BY <1>6, <2>2, <2>3
  <1>13. QED
    BY <1>8, <1>9, <1>10, <1>11, <1>12 DEF ObjectsAccounted

LEMMA ReleaseKeeps ==
    ASSUME IInv, Types', NEW t \in Threads, ReleaseObject(t)
    PROVE  Numbered' /\ ObjectsAccounted'
  <1> USE DEF IInv
  <1>1. PICK o \in held : held' = held \ {o} /\ obj' = [obj EXCEPT ![t] = o]
    BY DEF ReleaseObject
  <1>2. made' = made /\ values' = values
    BY DEF ReleaseObject
  <1>3. PICK l \in {"Swap", "Push"} : pc' = [pc EXCEPT ![t] = l] /\ pc[t] = "Idle"
    BY DEF ReleaseObject, Goto
  <1>4. /\ obj'[t] = o /\ pc'[t] = l /\ o \in 1 .. made /\ o # 0
        /\ \A u \in Threads \ {t} : obj'[u] = obj[u] /\ pc'[u] = pc[u]
    BY <1>1, <1>3 DEF Types, Numbered
  <1>5. obj[t] = 0 /\ \A u \in Threads : obj[u] # o
    BY <1>1, <1>3, <1>4 DEF Numbered, ObjectsAccounted
  <1>6. Numbered'
    <2>1. \A u \in Threads : obj'[u] <= made' /\ (obj'[u] # 0 <=> pc'[u] \in {"Swap", "Push"})
      BY <1>2, <1>3, <1>4 DEF Numbered
    <2>2. QED
      BY <1>1, <1>2, <2>1 DEF Numbered
  <1>7. /\ \A c, d \in Chunks : \A i \in DOMAIN values'[c], j \in DOMAIN values'[d] :
              values'[c][i] = values'[d][j] => c = d /\ i = j
        /\ \A c \in Chunks : \A i \in DOMAIN values'[c] :
              values'[c][i] \notin held' /\ \A u \in Threads : obj'[u] # values'[c][i]
    BY <1>1, <1>2, <1>4 DEF ObjectsAccounted
  <1>8. \A u, w \in Threads : obj'[u] # 0 => obj'[u] \notin held' /\ (u # w => obj'[u] # obj'[w])
    BY <1>1, <1>4, <1>5 DEF ObjectsAccounted
  <1>9. \A x \in 1 .. made' :
            \/ x \in held' \/ \E u \in Threads : obj'[u] = x
            \/ \E c \in Chunks : \E i \in DOMAIN values'[c] : values'[c][i] = x
    <2> SUFFICES ASSUME NEW x \in 1 .. made, x \notin held', \A u \in Threads : obj'[u] # x
                 PROVE  \E c \in Chunks : \E i \in DOMAIN values[c] : values[c][i] = x
      BY <1>2
    <2>1. x \notin held /\ \A u \in Threads : obj[u] # x
      BY <1>1, <1>4, <1>5
    <2>2. QED
      BY <2>1 DEF ObjectsAccounted
  <1>10. QED
    BY <1>6, <1>7, <1>8, <1>9 DEF ObjectsAccounted

\* the steps that move chunks only
LEMMA QuietKeeps ==
    ASSUME IInv, NEW t \in Threads,
           Construct(t) \/ Exit(t) \/ GetObject(t) \/ Take(t) \/ Swap(t)
    PROVE  Numbered' /\ ObjectsAccounted'
  <1> USE DEF IInv
  <1>1. UNCHANGED <<values, made, held, obj>>
    BY DEF Construct, Exit, GetObject, Take, Swap
  <1>2. \A u \in Threads : pc'[u] \in {"Swap", "Push"} <=> pc[u] \in {"Swap", "Push"}
    BY DEF Construct, Exit, GetObject, Take, Swap, Goto, Types
  <1>3. QED
    BY <1>1, <1>2 DEF Numbered, ObjectsAccounted

LEMMA ObjectsStep ==
    ASSUME IInv, Types', [Next]_vars
    PROVE  Numbered' /\ ObjectsAccounted'
  <1>1. CASE UNCHANGED vars
    BY <1>1 DEF vars, IInv, Numbered, ObjectsAccounted
  <1>2. CASE Next
    BY <1>2, FillKeeps, PushKeeps, PopKeeps, ReleaseKeeps, QuietKeeps DEF Next
  <1>3. QED
    BY <1>1, <1>2

LEMMA IInvInit ==
    ASSUME TLSAssumption, Init
    PROVE  IInv
  <1>1. Types
    BY DEF Init, Types, Labels
  <1>2. ChunksOwned
    BY DEF Init, ChunksOwned, Owners, Pools, IsEmpty, TLSAssumption
  <1>3. Numbered /\ ObjectsAccounted
    BY DEF Init, Numbered, ObjectsAccounted
  <1>4. QED
    BY <1>1, <1>2, <1>3 DEF IInv

LEMMA IInvStep ==
    ASSUME TLSAssumption, IInv, [Next]_vars
    PROVE  IInv'
  <1>1. Types'
    <2>1. CASE UNCHANGED vars
      BY <2>1 DEF vars, IInv, Types
    <2>2. CASE Next
      BY <2>2, TypesStep DEF IInv
    <2>3. QED
      BY <2>1, <2>2
  <1>2. ChunksOwned'
    BY OwnedStep DEF IInv
  <1>3. Numbered' /\ ObjectsAccounted'
    BY <1>1, ObjectsStep
  <1>4. QED
    BY <1>1, <1>2, <1>3 DEF IInv

\* What the two theorems rest on holds of every reachable state of TLSObjectPool.
THEOREM Invariant == Spec => []IInv
  <1>1. Init => IInv
    BY IInvInit, TLSAssumption
  <1>2. IInv /\ [Next]_vars => IInv'
    BY IInvStep, TLSAssumption
  <1>3. QED
    BY <1>1, <1>2, PTL DEF Spec

\* However many threads fill, empty and exchange chunks: a chunk is in one pool
\* or one thread's, a thread never pops an empty one and never pushes into a full
\* one, although TLSObjectPoolMiddleware takes no lock and Chunk looks at no bound.
THEOREM ChunksHaveOneOwner == Spec => []ChunksOwned
  <1>1. IInv => ChunksOwned
    BY DEF IInv
  <1>2. QED
    BY <1>1, Invariant, PTL

\* However many threads get and release objects, each of which may be released by
\* another thread than got it: no object is given out twice, put back twice or lost.
THEOREM ObjectsHaveOnePlace == Spec => []ObjectsAccounted
  <1>1. IInv => ObjectsAccounted
    BY DEF IInv
  <1>2. QED
    BY <1>1, Invariant, PTL

--------------------------------------------------------------------------------
(* Memory is bounded.  Cardinalities stand for sums: a chunk that is to be *)
(* filled up owes the allocations that its holes count.                    *)

Filling == {t \in Threads : pc[t] \in {"FirstFill", "Fill"}}

\* the chunks that are filled up, and those that Take fills up when it gets them
ToFill == FilledChunkPool \cup {mChunk[t] : t \in Filling}

Holes == {h \in Chunks \X (1 .. CHUNK_SIZE) :
             h[1] \in ToFill /\ h[2] > Len(values[h[1]])}

Started == {t \in Threads : pc[t] # "New"}
Exited == {t \in Threads : pc[t] = "Exited"}

\* no chunk is out of everyone's reach, except one that Take or Swap let go of
Placed == \A c \in Chunks : c \in Pools \/ \E t \in Owners : mChunk[t] = c

HeldBounded == Cardinality(held) + Cardinality(Getting) <= MaxHeld

\* MemoryBounded with the allocations that are owed
Reserved ==
    /\ IsFiniteSet(Holes)
    /\ made + Cardinality(Holes)
         <= MaxHeld + CHUNK_SIZE * (Cardinality(Started) + Cardinality(Exited))

MInv == Placed /\ HeldBounded /\ Reserved

LEMMA Finite ==
    ASSUME TLSAssumption, IInv
    PROVE  /\ IsFiniteSet(held) /\ Cardinality(held) \in Nat
           /\ IsFiniteSet(Getting) /\ Cardinality(Getting) \in Nat
           /\ IsFiniteSet(Started) /\ Cardinality(Started) \in Nat
           /\ IsFiniteSet(Exited) /\ Cardinality(Exited) \in Nat
  <1>1. IsFiniteSet(1 .. made) /\ held \in SUBSET (1 .. made)
    BY FS_Interval DEF IInv, Types, Numbered
  <1>2. IsFiniteSet(held)
    BY <1>1, FS_Subset
  <1>3. IsFiniteSet(Threads)
    BY DEF TLSAssumption
  <1>4. IsFiniteSet(Getting) /\ IsFiniteSet(Started) /\ IsFiniteSet(Exited)
    <2>1. /\ Getting \in SUBSET Threads /\ Started \in SUBSET Threads
          /\ Exited \in SUBSET Threads
      BY DEF Getting, Started, Exited
    <2>2. QED
      BY <1>3, <2>1, FS_Subset
  <1>5. QED
    BY <1>2, <1>4, FS_CardinalityType

LEMMA OneMore ==
    ASSUME NEW S, IsFiniteSet(S), NEW x
    PROVE  Cardinality(S \cup {x}) \in Nat /\ Cardinality(S \cup {x}) <= Cardinality(S) + 1
  <1>1. Cardinality(S) \in Nat /\ Cardinality(S \cup {x}) \in Nat
    BY FS_AddElement, FS_CardinalityType
  <1>2. CASE x \in S
    BY <1>1, <1>2, FS_AddElement
  <1>3. CASE x \notin S
    <2>1. Cardinality(S \cup {x}) = Cardinality(S) + 1
      BY <1>3, FS_AddElement
    <2>2. QED
      BY <1>1, <2>1
  <1>4. QED
    BY <1>1, <1>2, <1>3

LEMMA MInvInit ==
    ASSUME TLSAssumption, Init
    PROVE  MInv
  <1>1. Placed
    BY DEF Init, Placed, Pools
  <1>2. held = {} /\ Getting = {} /\ Holes = {} /\ Started = {} /\ Exited = {} /\ made = 0
    BY DEF Init, Getting, Holes, ToFill, Filling, Started, Exited
  <1>3. Cardinality({}) = 0 /\ IsFiniteSet({})
    BY FS_EmptySet
  <1>4. QED
    BY <1>1, <1>2, <1>3 DEF MInv, HeldBounded, Reserved, TLSAssumption

\* A chunk that leaves a pool goes to a thread that had none, and one that leaves
\* a thread goes to a pool.
LEMMA PlacedStep ==
    ASSUME IInv, Placed, Types', [Next]_vars
    PROVE  Placed'
  <1> USE DEF IInv
  <1>1. ASSUME NEW t \in Threads, NEW c \in Chunks, t \notin Owners, NEW l \in OwnerLabels,
               mChunk' = [mChunk EXCEPT ![t] = c], pc' = [pc EXCEPT ![t] = l],
               Pools \ {c} \subseteq Pools'
        PROVE  Placed'
    <2>1. /\ Owners' = Owners \cup {t} /\ mChunk'[t] = c
          /\ \A u \in Owners : mChunk'[u] = mChunk[u]
      BY <1>1 DEF Owners, OwnerLabels, Types
    <2>2. QED
      BY <1>1, <2>1 DEF Placed
  <1>2. ASSUME NEW t \in Threads, NEW l \in Labels,
               mChunk' = mChunk, pc' = [pc EXCEPT ![t] = l],
               Pools \subseteq Pools', l \in OwnerLabels \/ mChunk[t] \in Pools'
        PROVE  Placed'
    <2>1. \A u \in Owners : u \in Owners' \/ mChunk[u] \in Pools'
      BY <1>2 DEF Owners, OwnerLabels, Types
    <2>2. QED
      BY <1>2, <2>1 DEF Placed
  <1>3. ASSUME NEW t \in Threads, Construct(t) \/ Swap(t) PROVE Placed'
    <2>1. PICK c \in EmptyChunkPool \cup unmade :
              /\ mChunk' = [mChunk EXCEPT ![t] = c]
              /\ unmade' = unmade \ {c} /\ EmptyChunkPool' = EmptyChunkPool \ {c}
              /\ FilledChunkPool' = FilledChunkPool
      BY <1>3, TakenFromEmpty DEF Construct, Swap
    <2>2. PICK l \in {"FirstFill", "Push"} : pc' = [pc EXCEPT ![t] = l] /\ t \notin Owners
      BY <1>3 DEF Construct, Swap, Goto, Owners
    <2>3. c \in Chunks /\ Pools \ {c} \subseteq Pools'
      BY <2>1 DEF Pools, Types
    <2>4. QED
      BY <1>1, <2>1, <2>2, <2>3 DEF OwnerLabels
  <1>4. ASSUME NEW t \in Threads, Take(t) PROVE Placed'
    <2>1. PICK c \in FilledChunkPool \cup unmade :
              /\ mChunk' = [mChunk EXCEPT ![t] = c]
              /\ unmade' = unmade \ {c} /\ FilledChunkPool' = FilledChunkPool \ {c}
              /\ EmptyChunkPool' = EmptyChunkPool
      BY <1>4, TakenFromFilled DEF Take
    <2>2. pc' = [pc EXCEPT ![t] = "Fill"] /\ t \notin Owners
      BY <1>4 DEF Take, Goto, Owners
    <2>3. c \in Chunks /\ Pools \ {c} \subseteq Pools'
      BY <2>1 DEF Pools, Types
    <2>4. QED
      BY <1>1, <2>1, <2>2, <2>3 DEF OwnerLabels
  <1>5. ASSUME NEW t \in Threads, Exit(t) \/ GetObject(t) \/ ReleaseObject(t) PROVE Placed'
    <2>1. mChunk' = mChunk /\ Pools \subseteq Pools'
      BY <1>5 DEF Exit, GetObject, ReleaseObject, Pools
    <2>2. PICK l \in Labels : /\ pc' = [pc EXCEPT ![t] = l]
                              /\ l \in OwnerLabels \/ mChunk[t] \in Pools'
      BY <1>5 DEF Exit, GetObject, ReleaseObject, Goto, Labels, OwnerLabels, Pools
    <2>3. QED
      BY <1>2, <2>1, <2>2
  <1>6. ASSUME NEW t \in Threads, Fill(t) \/ Pop(t) \/ Push(t) PROVE Placed'
    <2>1. mChunk' = mChunk /\ Pools' = Pools
      BY <1>6 DEF Fill, Pop, Push, Pools
    <2>2. PICK l \in OwnerLabels : pc' = [pc EXCEPT ![t] = l]
      <3>1. pc' = [pc EXCEPT ![t] = pc'[t]] /\ pc'[t] \in OwnerLabels
        BY <1>6 DEF Fill, Pop, Push, Goto, OwnerLabels, Types
      <3>2. QED
        BY <3>1
    <2>3. QED
      BY <1>2, <2>1, <2>2 DEF OwnerLabels, Labels
  <1>7. CASE UNCHANGED vars
    BY <1>7 DEF vars, Placed, Pools, Owners
  <1>8. QED
    BY <1>3, <1>4, <1>5, <1>6, <1>7 DEF Next

\* GetObject waits until there is room for one more; only Pop gives it out.
LEMMA HeldStep ==
    ASSUME TLSAssumption, IInv, HeldBounded, IInv', [Next]_vars
    PROVE  HeldBounded'
  <1>1. /\ IsFiniteSet(held) /\ Cardinality(held) \in Nat
        /\ IsFiniteSet(Getting) /\ Cardinality(Getting) \in Nat
    BY Finite
  <1>2. CASE held' = held /\ Getting' = Getting
    BY <1>2 DEF HeldBounded
  <1>3. ASSUME NEW t \in Threads, GetObject(t) PROVE HeldBounded'
    <2>1. Getting' = Getting \cup {t} /\ held' = held
      BY <1>3 DEF GetObject, Getting, Goto, IInv, Types
    <2>2. /\ Cardinality(Getting') <= Cardinality(Getting) + 1
          /\ Cardinality(Getting') \in Nat
      BY <1>1, <2>1, OneMore
    <2>3. Cardinality(held) + Cardinality(Getting) < MaxHeld
      BY <1>3 DEF GetObject
    <2>4. QED
      BY <1>1, <2>1, <2>2, <2>3 DEF HeldBounded, TLSAssumption
  <1>4. ASSUME NEW t \in Threads, Pop(t) PROVE HeldBounded'
    <2>1. Getting' = Getting \ {t} /\ t \in Getting
      BY <1>4 DEF Pop, Getting, Goto, IInv, Types
    <2>2. PICK o : held' = held \cup {o}
      BY <1>4 DEF Pop
    <2>3. Cardinality(Getting') = Cardinality(Getting) - 1
      BY <1>1, <2>1, FS_RemoveElement
    <2>4. /\ Cardinality(held \cup {o}) <= Cardinality(held) + 1
          /\ Cardinality(held \cup {o}) \in Nat
      BY <1>1, OneMore
    <2>5. QED
      BY <1>1, <2>2, <2>3, <2>4 DEF HeldBounded, TLSAssumption
  <1>5. ASSUME NEW t \in Threads, ReleaseObject(t) PROVE HeldBounded'
    <2>1. Getting' = Getting
      BY <1>5 DEF ReleaseObject, Getting, Goto, IInv, Types
    <2>2. PICK o \in held : held' = held \ {o}
      BY <1>5 DEF ReleaseObject
    <2>3. Cardinality(held') = Cardinality(held) - 1
      BY <1>1, <2>2, FS_RemoveElement
    <2>4. QED
      BY <1>1, <2>1, <2>3 DEF HeldBounded, TLSAssumption
  <1>6. ASSUME NEW t \in Threads,
               \/ Construct(t) \/ Exit(t) \/ Fill(t) \/ Take(t) \/ Swap(t) \/ Push(t)
        PROVE  HeldBounded'
    <2>1. held' = held
      BY <1>6 DEF Construct, Exit, Fill, Take, Swap, Push
    <2>2. Getting' = Getting
      BY <1>6 DEF Construct, Exit, Fill, Take, Swap, Push, Getting, Goto, IInv, Types
    <2>3. QED
      BY <1>2, <2>1, <2>2
  <1>7. CASE UNCHANGED vars
    BY <1>2, <1>7 DEF vars, Getting
  <1>8. QED
    BY <1>3, <1>4, <1>5, <1>6, <1>7 DEF Next

\* places for objects: as many as fit a chunk, for each thread
Active == {t \in Threads : pc[t] \notin {"New", "Exited"}}
Places == Active \X (1 .. CHUNK_SIZE)

\* where an object is that is in a chunk of a thread or carried by one
At(p, o) ==
    \/ /\ p[1] \in Owners /\ p[2] \in DOMAIN values[mChunk[p[1]]]
       /\ values[mChunk[p[1]]][p[2]] = o
    \/ /\ pc[p[1]] \in {"Swap", "Push"} /\ obj[p[1]] = o /\ p[2] = CHUNK_SIZE

Used == {p \in Places : \E o \in 1 .. made : At(p, o)}

LEMMA ChunkFacts ==
    ASSUME Types, ChunksOwned, TLSAssumption, NEW c \in Chunks
    PROVE  /\ Len(values[c]) \in Nat /\ DOMAIN values[c] = 1 .. Len(values[c])
           /\ DOMAIN values[c] \subseteq 1 .. CHUNK_SIZE
  <1>1. values[c] \in Seq(Nat)
    BY DEF Types
  <1>2. Len(values[c]) \in Nat /\ DOMAIN values[c] = 1 .. Len(values[c])
    BY <1>1
  <1>3. Len(values[c]) <= CHUNK_SIZE
    BY DEF ChunksOwned
  <1>4. QED
    BY <1>2, <1>3 DEF TLSAssumption

\* With no chunk in the filled pool, what is not in use is at threads that run,
\* each object at a place of its own.
LEMMA ObjectsFit ==
    ASSUME TLSAssumption, IInv, Placed, FilledChunkPool = {}
    PROVE  /\ IsFiniteSet(Used) /\ Cardinality(Used) \in Nat
           /\ made <= Cardinality(held) + Cardinality(Used)
  <1> USE DEF IInv
  <1> DEFINE Rest == (1 .. made) \ held
  <1>1. \A o \in Rest : \E p \in Used : At(p, o)
    <2> SUFFICES ASSUME NEW o \in Rest PROVE \E p \in Places : At(p, o)
      BY DEF Used
    <2>1. CASE \E t \in Threads : obj[t] = o
      <3>1. PICK t \in Threads : obj[t] = o
        BY <2>1
      <3>2. pc[t] \in {"Swap", "Push"} /\ CHUNK_SIZE \in 1 .. CHUNK_SIZE
        BY <3>1 DEF Numbered, TLSAssumption
      <3>3. <<t, CHUNK_SIZE>> \in Places
        BY <3>2 DEF Places, Active
      <3>4. At(<<t, CHUNK_SIZE>>, o)
        BY <3>1, <3>2 DEF At
      <3>5. QED
        BY <3>3, <3>4
    <2>2. CASE \E c \in Chunks : \E i \in DOMAIN values[c] : values[c][i] = o
      <3>1. PICK c \in Chunks : \E i \in DOMAIN values[c] : values[c][i] = o
        BY <2>2
      <3>2. PICK i \in DOMAIN values[c] : values[c][i] = o
        BY <3>1
      <3>3. i \in 1 .. CHUNK_SIZE /\ values[c] # <<>>
        BY <3>1, ChunkFacts, <3>2
      <3>4. c \notin Pools
        BY <3>3 DEF ChunksOwned, IsEmpty, Pools
      <3>5. PICK t \in Owners : mChunk[t] = c
        BY <3>4 DEF Placed
      <3>6. <<t, i>> \in Places
        BY <3>3, <3>5 DEF Places, Active, Owners
      <3>7. At(<<t, i>>, o)
        BY <3>2, <3>5 DEF At
      <3>8. QED
        BY <3>6, <3>7
    <2>3. QED
      BY <2>1, <2>2 DEF ObjectsAccounted
  <1>2. \A p \in Used : \A o, q \in Rest : At(p, o) /\ At(p, q) => o = q
    <2> SUFFICES ASSUME NEW p \in Used, NEW o \in Rest, NEW q \in Rest, At(p, o), At(p, q)
                 PROVE  o = q
      OBVIOUS
    <2>1. CASE p[1] \in Owners /\ p[2] \in DOMAIN values[mChunk[p[1]]]
      <3>1. ~(pc[p[1]] \in {"Swap", "Push"} /\ p[2] = CHUNK_SIZE)
        <4> SUFFICES ASSUME pc[p[1]] \in {"Swap", "Push"}, p[2] = CHUNK_SIZE PROVE FALSE
          OBVIOUS
        <4>1. pc[p[1]] = "Push" /\ mChunk[p[1]] \in Chunks
          BY <2>1 DEF Owners, ChunksOwned
        <4>2. Len(values[mChunk[p[1]]]) # CHUNK_SIZE /\ Len(values[mChunk[p[1]]]) <= CHUNK_SIZE
          BY <2>1, <4>1 DEF ChunksOwned, IsFull
        <4>3. QED
          BY <2>1, <4>1, <4>2, ChunkFacts DEF TLSAssumption
      <3>2. QED
        BY <3>1 DEF At
    <2>2. CASE ~(p[1] \in Owners /\ p[2] \in DOMAIN values[mChunk[p[1]]])
      BY <2>2 DEF At
    <2>3. QED
      BY <2>1, <2>2
  <1> DEFINE place == [o \in Rest |-> CHOOSE p \in Used : At(p, o)]
  <1>3. \A o \in Rest : place[o] \in Used /\ At(place[o], o)
    BY <1>1
  <1> HIDE DEF place
  <1>4. place \in [Rest -> Used]
    BY <1>3 DEF place
  <1>5. place \in Injection(Rest, Used)
    BY <1>2, <1>3, <1>4, Zenon DEF Injection, IsInjective
  <1>6. IsFiniteSet(Used)
    <2>1. Active \in SUBSET Threads
      BY DEF Active
    <2>2. IsFiniteSet(Active) /\ IsFiniteSet(1 .. CHUNK_SIZE)
      BY <2>1, FS_Subset, FS_Interval DEF TLSAssumption
    <2>3. IsFiniteSet(Places) /\ Used \in SUBSET Places
      BY <2>2, FS_Product DEF Places, Used
    <2>4. QED
      BY <2>3, FS_Subset
  <1>7. Cardinality(Rest) <= Cardinality(Used)
    BY <1>5, <1>6, FS_Injection
  <1>8. /\ IsFiniteSet(1 .. made) /\ Cardinality(1 .. made) = made
        /\ made \in Nat
    BY FS_Interval DEF Types
  <1>9. Cardinality(Rest) = made - Cardinality((1 .. made) \cap held)
    BY <1>8, FS_Difference
  <1>10. (1 .. made) \cap held = held
    BY DEF Numbered
  <1>11. Cardinality(held) \in Nat /\ Cardinality(Used) \in Nat
    BY <1>6, Finite, FS_CardinalityType
  <1>12. Cardinality(Rest) = made - Cardinality(held)
    BY <1>9, <1>10
  <1>13. made <= Cardinality(held) + Cardinality(Used)
    BY <1>7, <1>8, <1>11, <1>12
  <1>14. QED
    BY <1>6, <1>11, <1>13

\* The holes of the chunks that are filled up, a new one for t included, are at the
\* places that are not used.
LEMMA HolesFit ==
    ASSUME TLSAssumption, IInv, FilledChunkPool = {},
           NEW t \in Threads, pc[t] = "Take", NEW c \in unmade
    PROVE  LET all == Holes \cup ({c} \X (1 .. CHUNK_SIZE)) IN
           IsFiniteSet(all) /\ Cardinality(all) <= Cardinality(Places \ Used)
  <1> USE DEF IInv
  <1> DEFINE all == Holes \cup ({c} \X (1 .. CHUNK_SIZE))
             By(h, p) == /\ p[2] = h[2]
                         /\ \/ h[1] = c /\ p[1] = t
                            \/ h[1] # c /\ p[1] \in Filling /\ mChunk[p[1]] = h[1]
  <1>1. t \notin Filling /\ t \notin Owners /\ t \in Active /\ c \in Chunks
    BY DEF Filling, Owners, Active, Types
  <1>2. \A h \in all : \E p \in Places \ Used : By(h, p)
    <2> SUFFICES ASSUME NEW h \in all PROVE \E p \in Places : p \notin Used /\ By(h, p)
      OBVIOUS
    <2>1. h[2] \in 1 .. CHUNK_SIZE
      BY DEF Holes
    <2>2. CASE h[1] = c
      <3>1. <<t, h[2]>> \in Places /\ By(h, <<t, h[2]>>)
        BY <1>1, <2>1, <2>2 DEF Places
      <3>2. <<t, h[2]>> \notin Used
        BY <1>1 DEF Used, At
      <3>3. QED
        BY <3>1, <3>2
    <2>3. CASE h[1] # c
      <3>1. h \in Holes
        BY <2>3
      <3>2. PICK u \in Filling : mChunk[u] = h[1]
        BY <3>1 DEF Holes, ToFill
      <3>3. h[1] \in Chunks /\ h[2] > Len(values[h[1]])
        BY <3>1 DEF Holes
      <3>4. <<u, h[2]>> \in Places /\ By(h, <<u, h[2]>>)
        BY <2>1, <2>3, <3>2 DEF Places, Filling, Active
      <3>5. <<u, h[2]>> \notin Used
        <4>1. h[2] \notin DOMAIN values[h[1]]
          BY <2>1, <3>3, ChunkFacts
        <4>2. pc[u] \notin {"Swap", "Push"}
          BY <3>2 DEF Filling
        <4>3. QED
          BY <3>2, <4>1, <4>2 DEF Used, At
      <3>6. QED
        BY <3>4, <3>5
    <2>4. QED
      BY <2>2, <2>3
  <1>3. ASSUME NEW h \in all, NEW g \in all, NEW p \in Places \ Used, By(h, p), By(g, p)
        PROVE  h = g
    <2>1. h \in Chunks \X (1 .. CHUNK_SIZE) /\ g \in Chunks \X (1 .. CHUNK_SIZE)
      BY <1>1 DEF Holes
    <2>2. h[1] = g[1] /\ h[2] = g[2]
      BY <1>1, <1>3
    <2>3. QED
      BY <2>1, <2>2
  <1> DEFINE place == [h \in all |-> CHOOSE p \in Places \ Used : By(h, p)]
  <1> HIDE DEF By, all
  <1>4. \A h \in all : place[h] \in Places \ Used /\ By(h, place[h])
    BY <1>2
  <1> HIDE DEF place
  <1>5. place \in [all -> Places \ Used]
    BY <1>4 DEF place
  <1>6. place \in Injection(all, Places \ Used)
    BY <1>3, <1>4, <1>5, Zenon DEF Injection, IsInjective
  <1>7. IsFiniteSet(Places \ Used)
    <2>1. Active \in SUBSET Threads
      BY DEF Active
    <2>2. IsFiniteSet(Active) /\ IsFiniteSet(1 .. CHUNK_SIZE)
      BY <2>1, FS_Subset, FS_Interval DEF TLSAssumption
    <2>3. IsFiniteSet(Places)
      BY <2>2, FS_Product DEF Places
    <2>4. QED
      BY <2>3, FS_Difference
  <1>8. QED
    BY <1>6, <1>7, FS_Injection DEF all

\* So a chunk is allocated to be filled only when all there is, and what is owed,
\* fits what is in use and one chunk for each thread that runs.
LEMMA NewChunkFits ==
    ASSUME TLSAssumption, IInv, MInv, FilledChunkPool = {},
           NEW t \in Threads, pc[t] = "Take", NEW c \in unmade
    PROVE  LET all == Holes \cup ({c} \X (1 .. CHUNK_SIZE)) IN
           /\ IsFiniteSet(all) /\ Cardinality(all) \in Nat
           /\ made + Cardinality(all) <= MaxHeld + CHUNK_SIZE * Cardinality(Started)
  <1> DEFINE all == Holes \cup ({c} \X (1 .. CHUNK_SIZE))
  <1>1. IsFiniteSet(all) /\ Cardinality(all) <= Cardinality(Places \ Used)
    BY HolesFit
  <1>2. /\ IsFiniteSet(Used) /\ Cardinality(Used) \in Nat
        /\ made <= Cardinality(held) + Cardinality(Used)
    BY ObjectsFit DEF MInv
  <1>3. /\ IsFiniteSet(Active) /\ Cardinality(Active) \in Nat
        /\ Cardinality(Active) <= Cardinality(Started)
    <2>1. Active \in SUBSET Started
      BY DEF Active, Started
    <2>2. QED
      BY <2>1, Finite, FS_Subset, FS_CardinalityType
  <1>4. /\ IsFiniteSet(Places)
        /\ Cardinality(Places) = Cardinality(Active) * CHUNK_SIZE
    <2>1. IsFiniteSet(1 .. CHUNK_SIZE) /\ Cardinality(1 .. CHUNK_SIZE) = CHUNK_SIZE
      BY FS_Interval DEF TLSAssumption
    <2>2. QED
      BY <1>3, <2>1, FS_Product DEF Places
  <1>5. /\ Cardinality(Places \ Used) = Cardinality(Places) - Cardinality(Used)
        /\ Cardinality(Places) \in Nat
    <2>1. Places \cap Used = Used
      BY DEF Used
    <2>2. Cardinality(Places \ Used) = Cardinality(Places) - Cardinality(Places \cap Used)
      BY <1>4, FS_Difference
    <2>3. Cardinality(Places) \in Nat
      BY <1>4, FS_CardinalityType
    <2>4. QED
      BY <2>1, <2>2, <2>3
  <1>6. Cardinality(all) \in Nat
    BY <1>1, FS_CardinalityType
  <1>7. Cardinality(held) <= MaxHeld
    BY Finite DEF MInv, HeldBounded, TLSAssumption
  <1>8. Cardinality(Active) * CHUNK_SIZE <= CHUNK_SIZE * Cardinality(Started)
    <2>1. \A a, b, k \in Nat : a <= b => a * k <= k * b
      BY SMT
    <2>2. QED
      BY <1>3, <2>1, Finite DEF TLSAssumption
  <1>9. /\ made \in Nat /\ Cardinality(held) \in Nat /\ MaxHeld \in Nat
        /\ CHUNK_SIZE * Cardinality(Started) \in Nat
    BY Finite DEF TLSAssumption, IInv, Types
  <1> HIDE DEF all
  <1>10. made + Cardinality(all) <= MaxHeld + CHUNK_SIZE * Cardinality(Started)
    BY <1>1, <1>2, <1>4, <1>5, <1>6, <1>7, <1>8, <1>9
  <1>11. QED
    BY <1>1, <1>6, <1>10 DEF all

\* A chunk that joins the ones to be filled up owes CHUNK_SIZE allocations at most.
LEMMA OneChunkMore ==
    ASSUME TLSAssumption, IsFiniteSet(Holes), NEW c,
           Holes' \subseteq Holes \cup ({c} \X (1 .. CHUNK_SIZE))
    PROVE  /\ IsFiniteSet(Holes') /\ Cardinality(Holes') \in Nat
           /\ Cardinality(Holes') <= Cardinality(Holes) + CHUNK_SIZE
  <1> DEFINE more == {c} \X (1 .. CHUNK_SIZE)
  <1>1. IsFiniteSet(more) /\ Cardinality(more) = CHUNK_SIZE
    <2>1. IsFiniteSet(1 .. CHUNK_SIZE) /\ Cardinality(1 .. CHUNK_SIZE) = CHUNK_SIZE
      BY FS_Interval DEF TLSAssumption
    <2>2. IsFiniteSet({c}) /\ Cardinality({c}) = 1
      BY FS_Singleton
    <2>3. /\ IsFiniteSet(more)
          /\ Cardinality(more) = Cardinality({c}) * Cardinality(1 .. CHUNK_SIZE)
      BY <2>1, <2>2, FS_Product
    <2> HIDE DEF more
    <2>4. QED
      BY <2>1, <2>2, <2>3 DEF TLSAssumption
  <1> HIDE DEF more
  <1>2. /\ IsFiniteSet(Holes \cup more)
        /\ Cardinality(Holes \cup more)
             = Cardinality(Holes) + CHUNK_SIZE - Cardinality(Holes \cap more)
    BY <1>1, FS_Union
  <1>3. Cardinality(Holes \cap more) \in Nat /\ Cardinality(Holes) \in Nat
    BY FS_Intersection, FS_CardinalityType
  <1>4. Holes' \in SUBSET (Holes \cup more)
    BY DEF more
  <1>5. /\ IsFiniteSet(Holes') /\ Cardinality(Holes') \in Nat
        /\ Cardinality(Holes') <= Cardinality(Holes \cup more)
    BY <1>2, <1>4, FS_Subset, FS_CardinalityType
  <1>6. QED
    BY <1>2, <1>3, <1>5 DEF TLSAssumption

\* What starts or exits a thread pays for the chunk it brings.
LEMMA Pays ==
    ASSUME TLSAssumption, IInv, Reserved, made' = made, NEW c, NEW u,
           Holes' \subseteq Holes \cup ({c} \X (1 .. CHUNK_SIZE)),
           \/ Started' = Started \cup {u} /\ u \notin Started /\ Exited' = Exited
           \/ Exited' = Exited \cup {u} /\ u \notin Exited /\ Started' = Started
    PROVE  Reserved'
  <1> DEFINE before == Cardinality(Started) + Cardinality(Exited)
             after == Cardinality(Started') + Cardinality(Exited')
  <1>1. before \in Nat /\ after = before + 1
    <2>1. \A S : IsFiniteSet(S) /\ u \notin S => Cardinality(S \cup {u}) = Cardinality(S) + 1
      BY FS_AddElement
    <2>2. QED
      BY <2>1, Finite
  <1>2. CHUNK_SIZE * after = CHUNK_SIZE * before + CHUNK_SIZE
    <2>1. \A k, n \in Nat : k * (n + 1) = k * n + k
      BY SMT
    <2> HIDE DEF before, after
    <2>2. QED
      BY <1>1, <2>1 DEF TLSAssumption
  <1>3. /\ IsFiniteSet(Holes') /\ Cardinality(Holes') \in Nat
        /\ Cardinality(Holes') <= Cardinality(Holes) + CHUNK_SIZE
    BY OneChunkMore DEF Reserved
  <1>4. Cardinality(Holes) \in Nat /\ made \in Nat /\ CHUNK_SIZE * before \in Nat
    BY <1>1, FS_CardinalityType DEF Reserved, IInv, Types, TLSAssumption
  <1>5. made + Cardinality(Holes) <= MaxHeld + CHUNK_SIZE * before
    BY DEF Reserved
  <1> HIDE DEF before, after
  <1>6. made' + Cardinality(Holes') <= MaxHeld + CHUNK_SIZE * after
    BY <1>2, <1>3, <1>4, <1>5 DEF TLSAssumption
  <1>7. QED
    BY <1>3, <1>6 DEF Reserved, after

\* the steps that neither fill a chunk nor bring one to be filled
LEMMA HolesStay ==
    ASSUME IInv, Types', NEW t \in Threads,
           GetObject(t) \/ Pop(t) \/ ReleaseObject(t) \/ Swap(t) \/ Push(t)
    PROVE  Holes' = Holes /\ Started' = Started /\ Exited' = Exited
  <1> USE DEF IInv
  <1>1. Started' = Started /\ Exited' = Exited /\ Filling' = Filling /\ t \notin Filling
    BY DEF GetObject, Pop, ReleaseObject, Swap, Push, Goto, Started, Exited, Filling, Types
  <1>2. \A u \in Filling : mChunk'[u] = mChunk[u]
    <2>1. CASE Swap(t)
      <3>1. PICK c : mChunk' = [mChunk EXCEPT ![t] = c]
        BY <2>1, TakenFromEmpty DEF Swap
      <3>2. QED
        BY <1>1, <3>1 DEF Types, Filling
    <2>2. CASE GetObject(t) \/ Pop(t) \/ ReleaseObject(t) \/ Push(t)
      BY <2>2 DEF GetObject, Pop, ReleaseObject, Push
    <2>3. QED
      BY <2>1, <2>2
  <1>3. CASE FilledChunkPool' = FilledChunkPool
    <2>1. ToFill' = ToFill
      BY <1>1, <1>2, <1>3 DEF ToFill
    <2>2. \A c \in Chunks : c \in ToFill => values'[c] = values[c]
      <3>1. CASE Pop(t) \/ Push(t)
        <4>1. t \in Owners /\ \A c \in Chunks \ {mChunk[t]} : values'[c] = values[c]
          BY <3>1 DEF Pop, Push, Owners, Types
        <4>2. mChunk[t] \notin ToFill
          <5>1. mChunk[t] \notin FilledChunkPool
            BY <4>1 DEF ChunksOwned, Pools
          <5>2. \A u \in Filling : u \in Owners /\ u # t
            BY <1>1 DEF Filling, Owners
          <5>3. QED
            BY <4>1, <5>1, <5>2 DEF ChunksOwned, ToFill
        <4>3. QED
          BY <4>1, <4>2
      <3>2. CASE GetObject(t) \/ ReleaseObject(t) \/ Swap(t)
        BY <3>2 DEF GetObject, ReleaseObject, Swap
      <3>3. QED
        BY <3>1, <3>2
    <2>3. Holes' = Holes
      BY <2>1, <2>2 DEF Holes
    <2>4. QED
      BY <1>1, <2>3
  <1>4. CASE FilledChunkPool' # FilledChunkPool
    <2>1. /\ ReleaseObject(t) /\ IsFull(mChunk[t])
          /\ FilledChunkPool' = FilledChunkPool \cup {mChunk[t]}
      <3>1. ~(GetObject(t) \/ Pop(t) \/ Push(t))
        BY <1>4 DEF GetObject, Pop, Push
      <3>2. ~Swap(t)
        BY <1>4, TakenFromEmpty DEF Swap
      <3>3. QED
        BY <1>4, <3>1, <3>2 DEF ReleaseObject
    <2>2. ToFill' = ToFill \cup {mChunk[t]} /\ values' = values
      BY <1>1, <1>2, <2>1 DEF ToFill, ReleaseObject
    <2>3. \A i \in 1 .. CHUNK_SIZE : ~(i > Len(values[mChunk[t]]))
      BY <2>1 DEF IsFull
    <2>4. Holes' = Holes
      BY <2>2, <2>3 DEF Holes
    <2>5. QED
      BY <1>1, <2>4
  <1>5. QED
    BY <1>3, <1>4

\* What Fill allocates was owed.
LEMMA FillReserved ==
    ASSUME TLSAssumption, IInv, Reserved, Types', NEW t \in Threads, Fill(t)
    PROVE  Reserved'
  <1> USE DEF IInv
  <1> DEFINE k == mChunk[t]
             v == values[k]
  <1>1. /\ t \in Owners /\ t \in Filling /\ k \in Chunks /\ k \in ToFill
        /\ v \in Seq(Nat) /\ Len(v) \in Nat /\ Len(v) <= CHUNK_SIZE
    BY DEF Fill, Owners, Filling, ToFill, ChunksOwned, Types
  <1>2. UNCHANGED <<FilledChunkPool, mChunk>> /\ Started' = Started /\ Exited' = Exited
    BY DEF Fill, Goto, Types, Started, Exited
  <1>3. /\ Cardinality(Holes) \in Nat /\ made \in Nat
        /\ CHUNK_SIZE * (Cardinality(Started) + Cardinality(Exited)) \in Nat
    <2>1. Cardinality(Holes) \in Nat
      BY FS_CardinalityType DEF Reserved
    <2>2. Cardinality(Started) \in Nat /\ Cardinality(Exited) \in Nat
      BY Finite
    <2>3. QED
      BY <2>1, <2>2 DEF Types, TLSAssumption
  <1>4. CASE ~IsFull(k)
    <2>1. /\ made' = made + 1 /\ Filling' = Filling
          /\ values' = [values EXCEPT ![k] = Append(v, made + 1)]
      BY <1>4 DEF Fill, Filling
    <2>2. /\ Len(values'[k]) = Len(v) + 1
          /\ \A c \in Chunks \ {k} : values'[c] = values[c]
      BY <1>1, <2>1, AppendFacts DEF Types
    <2>3. ToFill' = ToFill
      BY <1>2, <2>1 DEF ToFill
    <2>4. <<k, Len(v) + 1>> \in Holes
      BY <1>1, <1>4 DEF Holes, IsFull, TLSAssumption
    <2> HIDE DEF v, k
    <2>5. Holes' = Holes \ {<<k, Len(v) + 1>>}
      <3>1. ASSUME NEW c \in Chunks, NEW i \in 1 .. CHUNK_SIZE, c \in ToFill
            PROVE  i > Len(values'[c]) <=> i > Len(values[c]) /\ <<c, i>> # <<k, Len(v) + 1>>
        <4>1. CASE c = k
          BY <1>1, <2>2, <4>1 DEF v, TLSAssumption
        <4>2. CASE c # k
          BY <2>2, <4>2
        <4>3. QED
          BY <4>1, <4>2
      <3>2. QED
        BY <2>3, <3>1 DEF Holes
    <2>6. /\ IsFiniteSet(Holes') /\ Cardinality(Holes') = Cardinality(Holes) - 1
      BY <2>4, <2>5, FS_RemoveElement DEF Reserved
    <2>7. QED
      BY <1>2, <1>3, <2>1, <2>6 DEF Reserved, TLSAssumption
  <1>5. CASE IsFull(k)
    <2>1. /\ made' = made /\ values' = values /\ Filling' = Filling \ {t}
      BY <1>5 DEF Fill, Filling, Goto, Types
    <2>2. \A i \in 1 .. CHUNK_SIZE : ~(i > Len(v))
      BY <1>5 DEF IsFull
    <2>3. ToFill = ToFill' \cup {k}
      BY <1>1, <1>2, <2>1 DEF ToFill
    <2>4. Holes' = Holes
      BY <2>1, <2>2, <2>3 DEF Holes
    <2>5. QED
      BY <1>2, <2>1, <2>4 DEF Reserved
  <1>6. QED
    BY <1>4, <1>5

LEMMA ReservedStep ==
    ASSUME TLSAssumption, IInv, MInv, Types', [Next]_vars
    PROVE  Reserved'
  <1> USE DEF IInv, MInv
  <1>1. ASSUME NEW t \in Threads, Construct(t) PROVE Reserved'
    <2>1. PICK c \in EmptyChunkPool \cup unmade :
              mChunk' = [mChunk EXCEPT ![t] = c] /\ FilledChunkPool' = FilledChunkPool
      BY <1>1, TakenFromEmpty DEF Construct
    <2>2. /\ Filling' = Filling \cup {t} /\ t \notin Filling
          /\ Started' = Started \cup {t} /\ t \notin Started /\ Exited' = Exited
      BY <1>1 DEF Construct, Goto, Types, Filling, Started, Exited
    <2>3. made' = made /\ values' = values
      BY <1>1 DEF Construct
    <2>4. ToFill' \subseteq ToFill \cup {c}
      BY <2>1, <2>2 DEF ToFill, Types, Filling
    <2>5. Holes' \subseteq Holes \cup ({c} \X (1 .. CHUNK_SIZE))
      BY <2>3, <2>4 DEF Holes
    <2>6. QED
      BY <2>2, <2>3, <2>5, Pays
  <1>2. ASSUME NEW t \in Threads, Exit(t) PROVE Reserved'
    <2>1. /\ Filling' = Filling /\ mChunk' = mChunk
          /\ Exited' = Exited \cup {t} /\ t \notin Exited /\ Started' = Started
      BY <1>2 DEF Exit, Goto, Types, Filling, Started, Exited
    <2>2. /\ made' = made /\ values' = values
          /\ FilledChunkPool' = FilledChunkPool \cup {mChunk[t]}
      BY <1>2 DEF Exit
    <2>3. Holes' \subseteq Holes \cup ({mChunk[t]} \X (1 .. CHUNK_SIZE))
      BY <2>1, <2>2 DEF Holes, ToFill
    <2>4. QED
      BY <2>1, <2>2, <2>3, Pays
  <1>3. ASSUME NEW t \in Threads, Take(t) PROVE Reserved'
    <2>1. PICK c \in FilledChunkPool \cup unmade :
              /\ mChunk' = [mChunk EXCEPT ![t] = c]
              /\ FilledChunkPool' = FilledChunkPool \ {c}
              /\ c \in FilledChunkPool \/ (FilledChunkPool = {} /\ c \in unmade)
      <3>1. PICK c \in IF FilledChunkPool = {} THEN unmade ELSE FilledChunkPool :
                mChunk' = [mChunk EXCEPT ![t] = c]
        BY <1>3 DEF Take, FromFilled, Receive
      <3>2. mChunk'[t] = c /\ FilledChunkPool' = FilledChunkPool \ {mChunk'[t]}
        BY <1>3, <3>1 DEF Take, FromFilled, Types
      <3>3. QED
        BY <3>1, <3>2
    <2>2. /\ Filling' = Filling \cup {t} /\ t \notin Filling /\ pc[t] = "Take"
          /\ Started' = Started /\ Exited' = Exited
      BY <1>3 DEF Take, Goto, Types, Filling, Started, Exited
    <2>3. made' = made /\ values' = values
      BY <1>3 DEF Take
    <2>4. ToFill' = ToFill \cup {c}
      <3>1. mChunk'[t] = c /\ \A u \in Filling : mChunk'[u] = mChunk[u]
        BY <2>1, <2>2 DEF Types, Filling
      <3>2. {mChunk'[u] : u \in Filling'} = {mChunk[u] : u \in Filling} \cup {c}
        BY <2>2, <3>1
      <3>3. QED
        BY <2>1, <3>2 DEF ToFill
    <2>5. CASE c \in FilledChunkPool
      <3>1. ToFill' = ToFill
        BY <2>4, <2>5 DEF ToFill
      <3>2. Holes' = Holes
        BY <2>3, <3>1 DEF Holes
      <3>3. QED
        BY <2>2, <2>3, <3>2 DEF Reserved
    <2>6. CASE FilledChunkPool = {} /\ c \in unmade
      <3> DEFINE all == Holes \cup ({c} \X (1 .. CHUNK_SIZE))
      <3>1. /\ IsFiniteSet(all) /\ Cardinality(all) \in Nat
            /\ made + Cardinality(all) <= MaxHeld + CHUNK_SIZE * Cardinality(Started)
        BY <2>2, <2>6, NewChunkFits
      <3>2. Holes' \in SUBSET all
        BY <2>3, <2>4 DEF Holes
      <3> HIDE DEF all
      <3>3. /\ IsFiniteSet(Holes') /\ Cardinality(Holes') \in Nat
            /\ Cardinality(Holes') <= Cardinality(all)
        BY <3>1, <3>2, FS_Subset, FS_CardinalityType
      <3>4. /\ CHUNK_SIZE * Cardinality(Started)
                 <= CHUNK_SIZE * (Cardinality(Started) + Cardinality(Exited))
            /\ CHUNK_SIZE * Cardinality(Started) \in Nat
            /\ CHUNK_SIZE * (Cardinality(Started) + Cardinality(Exited)) \in Nat
        <4>1. \A k, a, b \in Nat : k * a <= k * (a + b) /\ k * a \in Nat /\ k * (a + b) \in Nat
          BY SMT
        <4>2. QED
          BY <4>1, Finite DEF TLSAssumption
      <3>5. made \in Nat
        BY DEF Types
      <3>6. made + Cardinality(Holes')
              <= MaxHeld + CHUNK_SIZE * (Cardinality(Started) + Cardinality(Exited))
        BY <3>1, <3>3, <3>4, <3>5 DEF TLSAssumption
      <3>7. QED
        BY <2>2, <2>3, <3>3, <3>6 DEF Reserved
    <2>7. QED
      BY <2>1, <2>5, <2>6
  <1>4. ASSUME NEW t \in Threads,
               GetObject(t) \/ Pop(t) \/ ReleaseObject(t) \/ Swap(t) \/ Push(t)
        PROVE  Reserved'
    <2>1. made' = made
      BY <1>4 DEF GetObject, Pop, ReleaseObject, Swap, Push
    <2>2. QED
      BY <1>4, <2>1, HolesStay DEF Reserved
  <1>5. ASSUME NEW t \in Threads, Fill(t) PROVE Reserved'
    BY <1>5, FillReserved
  <1>6. CASE UNCHANGED vars
    BY <1>6 DEF vars, Reserved, Holes, ToFill, Filling, Started, Exited
  <1>7. QED
    BY <1>1, <1>2, <1>3, <1>4, <1>5, <1>6 DEF Next

LEMMA BoundInvariant == Spec => [](IInv /\ MInv)
  <1>1. Init => IInv /\ MInv
    BY IInvInit, MInvInit, TLSAssumption
  <1>2. IInv /\ MInv /\ [Next]_vars => (IInv /\ MInv)'
    <2> SUFFICES ASSUME IInv, MInv, [Next]_vars PROVE IInv' /\ MInv'
      OBVIOUS
    <2>1. IInv'
      BY IInvStep, TLSAssumption
    <2>2. Placed' /\ HeldBounded' /\ Reserved'
      BY <2>1, PlacedStep, HeldStep, ReservedStep, TLSAssumption DEF MInv, IInv
    <2>3. QED
      BY <2>1, <2>2 DEF MInv
  <1>3. QED
    BY <1>1, <1>2, PTL DEF Spec

\* However many threads there are and however objects drift between them: what is
\* allocated is bounded by what is in use at most, one chunk for each thread and one
\* more for each that has exited.  GetObject takes a chunk to fill that is not full
\* only from those an exiting thread left, and a new one only when no other is
\* there, so that each allocation is of the bound.
THEOREM MemoryStaysBounded == Spec => []MemoryBounded
  <1>1. IInv /\ MInv => MemoryBounded
    <2> SUFFICES ASSUME IInv, MInv PROVE MemoryBounded
      OBVIOUS
    <2>1. Cardinality(Holes) \in Nat
      BY FS_CardinalityType DEF MInv, Reserved
    <2>2. /\ made \in Nat
          /\ CHUNK_SIZE * (Cardinality(Started) + Cardinality(Exited)) \in Nat
      BY Finite, TLSAssumption DEF IInv, Types, TLSAssumption
    <2>3. made <= MaxHeld + CHUNK_SIZE * (Cardinality(Started) + Cardinality(Exited))
      BY <2>1, <2>2, TLSAssumption DEF MInv, Reserved, TLSAssumption
    <2>4. QED
      BY <2>3 DEF MemoryBounded, Started, Exited
  <1>2. QED
    BY <1>1, BoundInvariant, PTL
================================================================================
