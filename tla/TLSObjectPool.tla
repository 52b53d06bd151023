----------------------------- MODULE TLSObjectPool -----------------------------
(***************************************************************************)
(* TLSObjectPool: every thread has a chunk of free objects of its own and  *)
(* turns to two shared pools of chunks only when that is empty or full.    *)
(* Objects go from thread to thread: a message is got by one thread and    *)
(* released by whichever drops the last reference.                         *)
(*                                                                         *)
(* The shared pools are ObjectPools, whose operations take effect at one   *)
(* access (ObjectPool, LockFreeStack); a step here is one operation on a   *)
(* shared pool, or what a thread does to its own chunk in between.  Which  *)
(* of its chunks a pool gives out does not matter, so a pool is a set.     *)
(***************************************************************************)
EXTENDS Integers, FiniteSets, Sequences

CONSTANTS
    Threads,
    Chunks,     \* bound: the chunks there can ever be
    CHUNK_SIZE,
    MaxHeld,    \* bound: objects in use at once
    NoChunk

ASSUME TLSAssumption ==
    /\ IsFiniteSet(Threads) /\ NoChunk \notin Chunks
    /\ CHUNK_SIZE \in Nat \ {0} /\ MaxHeld \in Nat

VARIABLES
    values,         \* mValues[0 .. mTop - 1] of each chunk
    FilledChunkPool, EmptyChunkPool,
    unmade,         \* chunks not allocated yet
    mChunk,         \* of each thread; once it is in a pool the pointer is stale
    made,           \* objects allocated so far, which are 1 .. made
    held,           \* objects in use
    obj,            \* the object a thread is about to release, or 0
    pc

vars == <<values, FilledChunkPool, EmptyChunkPool, unmade, mChunk, made, held, obj, pc>>

Objects == Nat \ {0}

Goto(t, l) == pc' = [pc EXCEPT ![t] = l]

IsEmpty(c) == values[c] = <<>>

\* mutant: one too many fits
IsFullByOne(c) == Len(values[c]) = CHUNK_SIZE + 1

IsFull(c) == Len(values[c]) = CHUNK_SIZE

Init ==
    /\ values = [c \in Chunks |-> <<>>]
    /\ FilledChunkPool = {} /\ EmptyChunkPool = {} /\ unmade = Chunks
    /\ mChunk = [t \in Threads |-> NoChunk]
    /\ made = 0 /\ held = {}
    /\ obj = [t \in Threads |-> 0]
    /\ pc = [t \in Threads |-> "New"]

\* mChunk = pool.GetObject(): one of its chunks, or a new one when it has none
Receive(t, pool) ==
    /\ \E c \in (IF pool = {} THEN unmade ELSE pool) :
        /\ mChunk' = [mChunk EXCEPT ![t] = c]
        /\ unmade' = unmade \ {c}

FromFilled(t) ==
    /\ Receive(t, FilledChunkPool)
    /\ FilledChunkPool' = FilledChunkPool \ {mChunk'[t]}
    /\ UNCHANGED EmptyChunkPool

FromEmpty(t) ==
    /\ Receive(t, EmptyChunkPool)
    /\ EmptyChunkPool' = EmptyChunkPool \ {mChunk'[t]}
    /\ UNCHANGED FilledChunkPool

--------------------------------------------------------------------------------
(* The thread's own part, which lives as long as the thread                *)

Construct(t) ==
    /\ pc[t] = "New"
    /\ FromEmpty(t)
    /\ Goto(t, "FirstFill")
    /\ UNCHANGED <<values, made, held, obj>>

Exit(t) ==
    /\ pc[t] = "Idle"
    /\ FilledChunkPool' = FilledChunkPool \cup {mChunk[t]}
    /\ Goto(t, "Exited")
    /\ UNCHANGED <<values, EmptyChunkPool, unmade, mChunk, made, held, obj>>

\* one round of the loop
Fill(t) ==
    /\ pc[t] \in {"FirstFill", "Fill"}
    /\ IF ~IsFull(mChunk[t])
       THEN /\ made' = made + 1
            /\ values' = [values EXCEPT ![mChunk[t]] = Append(values[mChunk[t]], made + 1)]
            /\ UNCHANGED pc
       ELSE /\ Goto(t, IF pc[t] = "Fill" THEN "Pop" ELSE "Idle")
            /\ UNCHANGED <<made, values>>
    /\ UNCHANGED <<FilledChunkPool, EmptyChunkPool, unmade, mChunk, held, obj>>

--------------------------------------------------------------------------------
(* GetObject                                                               *)

\* threads with an object to come
Getting == {t \in Threads : pc[t] \in {"Take", "Fill", "Pop"}}

GetObject(t) ==
    /\ pc[t] = "Idle"
    /\ Cardinality(held) + Cardinality(Getting) < MaxHeld
    /\ IF IsEmpty(mChunk[t])
       THEN EmptyChunkPool' = EmptyChunkPool \cup {mChunk[t]} /\ Goto(t, "Take")
       ELSE UNCHANGED EmptyChunkPool /\ Goto(t, "Pop")
    /\ UNCHANGED <<values, FilledChunkPool, unmade, mChunk, made, held, obj>>

\* mutant: the chunk to fill is an empty one, as in the constructor
TakeEmpty(t) ==
    /\ pc[t] = "Take"
    /\ FromEmpty(t)
    /\ Goto(t, "Fill")
    /\ UNCHANGED <<values, made, held, obj>>

Take(t) ==
    /\ pc[t] = "Take"
    /\ FromFilled(t)
    /\ Goto(t, "Fill")
    /\ UNCHANGED <<values, made, held, obj>>

\* mutant: mTop stays
PopKeep(t) ==
    /\ pc[t] = "Pop"
    /\ LET v == values[mChunk[t]] IN held' = held \cup {v[Len(v)]}
    /\ Goto(t, "Idle")
    /\ UNCHANGED <<values, FilledChunkPool, EmptyChunkPool, unmade, mChunk, made, obj>>

Pop(t) ==
    /\ pc[t] = "Pop"
    /\ LET v == values[mChunk[t]] IN
        /\ held' = held \cup {v[Len(v)]}
        /\ values' = [values EXCEPT ![mChunk[t]] = SubSeq(v, 1, Len(v) - 1)]
    /\ Goto(t, "Idle")
    /\ UNCHANGED <<FilledChunkPool, EmptyChunkPool, unmade, mChunk, made, obj>>

--------------------------------------------------------------------------------
(* ReleaseObject, of an object any thread may have got                     *)

ReleaseObject(t) ==
    /\ pc[t] = "Idle"
    /\ \E o \in held :
        /\ held' = held \ {o}
        /\ obj' = [obj EXCEPT ![t] = o]
    /\ IF IsFull(mChunk[t])
       THEN FilledChunkPool' = FilledChunkPool \cup {mChunk[t]} /\ Goto(t, "Swap")
       ELSE UNCHANGED FilledChunkPool /\ Goto(t, "Push")
    /\ UNCHANGED <<values, EmptyChunkPool, unmade, mChunk, made>>

Swap(t) ==
    /\ pc[t] = "Swap"
    /\ FromEmpty(t)
    /\ Goto(t, "Push")
    /\ UNCHANGED <<values, made, held, obj>>

Push(t) ==
    /\ pc[t] = "Push"
    /\ values' = [values EXCEPT ![mChunk[t]] = Append(values[mChunk[t]], obj[t])]
    /\ obj' = [obj EXCEPT ![t] = 0]
    /\ Goto(t, "Idle")
    /\ UNCHANGED <<FilledChunkPool, EmptyChunkPool, unmade, mChunk, made, held>>

Next == \E t \in Threads :
    \/ Construct(t) \/ Exit(t) \/ Fill(t) \/ GetObject(t) \/ Take(t) \/ Pop(t)
    \/ ReleaseObject(t) \/ Swap(t) \/ Push(t)

Spec == Init /\ [][Next]_vars

--------------------------------------------------------------------------------
(* Properties                                                              *)

\* threads whose mChunk is theirs
Owners == {t \in Threads : pc[t] \in {"FirstFill", "Idle", "Fill", "Pop", "Push"}}

Pools == FilledChunkPool \cup EmptyChunkPool \cup unmade

\* A chunk is in one pool or one thread's, and nobody else's; so a thread may
\* work on its own without a lock, pop without looking whether there is
\* something, and push without looking whether there is room.  It has to hold
\* between the two calls on the pools of Take and of Swap too.
ChunksOwned ==
    /\ \A t, u \in Owners : t # u => mChunk[t] # mChunk[u]
    /\ \A t \in Owners : mChunk[t] \in Chunks \ Pools
    /\ FilledChunkPool \cap EmptyChunkPool = {}
    /\ (FilledChunkPool \cup EmptyChunkPool) \cap unmade = {}
    /\ \A c \in EmptyChunkPool \cup unmade : IsEmpty(c)
    /\ \A c \in Chunks : Len(values[c]) <= CHUNK_SIZE
    /\ \A t \in Owners : /\ pc[t] = "Pop" => ~IsEmpty(mChunk[t])
                         /\ pc[t] = "Push" => ~IsFull(mChunk[t])

\* An object that was allocated is in one place, once: in a chunk, in use, or
\* about to be put into a chunk.  No two threads get the same one, and none is
\* lost when a thread exits with a chunk that is partly filled.
ObjectsAccounted ==
    /\ \A c, d \in Chunks : \A i \in DOMAIN values[c], j \in DOMAIN values[d] :
          values[c][i] = values[d][j] => c = d /\ i = j
    /\ \A c \in Chunks : \A i \in DOMAIN values[c] :
          values[c][i] \notin held /\ \A t \in Threads : obj[t] # values[c][i]
    /\ \A t, u \in Threads : obj[t] # 0 => obj[t] \notin held /\ (t # u => obj[t] # obj[u])
    /\ \A o \in 1 .. made :
          \/ o \in held \/ \E t \in Threads : obj[t] = o
          \/ \E c \in Chunks : \E i \in DOMAIN values[c] : values[c][i] = o

\* Memory grows with what is in use at most, not with time, although nothing is
\* ever given back to the heap and chunks drift from threads that release to
\* threads that get: beyond MaxHeld there is a chunk for each thread, and one
\* more for each that has exited, whose chunk the next one fills up.
MemoryBounded ==
    LET started == {t \in Threads : pc[t] # "New"}
        exited == {t \in Threads : pc[t] = "Exited"}
    IN made <= MaxHeld + CHUNK_SIZE * (Cardinality(started) + Cardinality(exited))
================================================================================
