---------------------------- MODULE SendPathProofs ----------------------------
(***************************************************************************)
(* Proofs about SendPath for any number of sessions, messages and threads: *)
(* SentMessages has one user at a time, no message is left in the queue of *)
(* a session that nobody works on, the reference counts are exact, and     *)
(* what the sessions send is what SendContract promises.                   *)
(***************************************************************************)
EXTENDS SendPath, FiniteSetTheorems, FunctionTheorems, SequenceTheorems, TLAPS

--------------------------------------------------------------------------------
(* The inductive invariant.                                                *)

Labels == {"Idle", "Call", "Link", "Count", "IsEmpty", "Exchange", "Take", "Restore",
           "Store", "Post", "Undo", "Leave", "Reclaim"}

SessionTypes ==
    /\ open \in [Sessions -> BOOLEAN]
    /\ queue \in [Sessions -> Seq(Messages)]
    /\ size \in [Sessions -> Int]
    /\ sending \in [Sessions -> BOOLEAN]
    /\ sent \in [Sessions -> [Indexes -> Messages \cup {NoMessage}]]
    /\ numSent \in [Sessions -> Nat]
    /\ posted \in [Sessions -> BOOLEAN]
    /\ buffers = [s \in Sessions |-> buffers[s]]
    /\ failed \in [Sessions -> BOOLEAN]
    /\ cut \in [Sessions -> BOOLEAN]
ThreadTypes ==
    /\ pc \in [Threads -> Labels]
    /\ at \in [Threads -> Sessions \cup {NoSession}]
    /\ msg \in [Threads -> Messages \cup {NoMessage}]
    /\ todo \in [Threads -> SUBSET Sessions]
    /\ n \in [Threads -> Nat]
Types == SessionTypes /\ ThreadTypes

\* where a thread can be, and what it has there
Places ==
    \A t \in Threads :
        /\ pc[t] \in {"Idle", "Call"} <=> at[t] = NoSession
        /\ pc[t] \in {"Call", "Link", "Count"} => t \in Senders
        /\ pc[t] = "Reclaim" => t \in Workers
        /\ t \in Senders => (msg[t] \in Messages <=> pc[t] # "Idle")
        /\ pc[t] \in {"Idle", "Call", "Link", "Count", "IsEmpty", "Exchange"} => n[t] = 0
        /\ at[t] \in Sessions => open[at[t]]
        /\ pc[t] = "Undo" => failed[at[t]]
        /\ pc[t] = "Store" => queue[at[t]] # <<>>

\* Who drains the queue, or reclaims what was sent, has set bIsSending and is
\* alone; so is a WSASend, whose buffers are the messages SentMessages owns.
Ownership ==
    /\ \A t \in Threads : pc[t] \in OwnerLabels =>
          /\ sending[at[t]] /\ ~ posted[at[t]]
          /\ \A u \in Threads : pc[u] \in OwnerLabels /\ at[u] = at[t] => u = t
    /\ \A s \in Sessions : posted[s] => sending[s] /\ open[s] /\ buffers[s] = Owned(s)

\* mSize lags behind the links by the threads between the two.
Uncounted(s) == {t \in Threads : at[t] = s /\ pc[t] \in {"Count", "Store", "Restore"}}
SizeExact == \A s \in Sessions : size[s] = Len(queue[s]) - Cardinality(Uncounted(s))

\* bIsSending is set for somebody, and a queue that is not empty is somebody's
\* concern: of who has just put a message in, or of who may still look.
ActiveLabels ==
    {"Count", "IsEmpty", "Exchange", "Take", "Restore", "Store", "Post", "Reclaim"}
Attended ==
    \A s \in Sessions :
        /\ ~ open[s] => queue[s] = <<>>
        /\ open[s] /\ sending[s] =>
              \/ posted[s] \/ cut[s]
              \/ \E t \in Threads : at[t] = s /\ pc[t] \in OwnerLabels
        /\ queue[s] # <<>> =>
              \/ failed[s] \/ (cut[s] /\ sending[s]) \/ posted[s]
              \/ \E t \in Threads : at[t] = s /\ pc[t] \in ActiveLabels

IInv == Types /\ Places /\ Ownership /\ SizeExact /\ Attended

LEMMA Steps ==
    ASSUME Next
    PROVE  \/ \E t \in Senders, m \in Messages, targets \in SUBSET Sessions :
                 Create(t, m, targets)
           \/ \E t \in Senders : Drop(t) \/ Link(t) \/ Count(t)
           \/ \E t \in Senders, s \in Sessions : Acquire(t, s)
           \/ \E w \in Workers, s \in Sessions : CompleteData(w, s) \/ CompleteZero(w, s)
           \/ \E w \in Workers : Reclaim(w) \/ Clear(w)
           \/ \E t \in Threads : SendPost(t)
           \/ \E s \in Sessions : Cut(s) \/ ReleaseSession(s) \/ AcceptSession(s)
BY DEF Next, SenderStep, WorkerStep

\* r holds the cells of s, with e put in at i.
Inserts(r, s, i, e) ==
    \A j \in 1 .. Len(s) + 1 : r[j] = IF j < i THEN s[j] ELSE IF j = i THEN e ELSE s[j - 1]

\* What InsertAt gives.
LEMMA Inserted ==
    ASSUME NEW S, NEW s \in Seq(S), NEW i \in 1 .. Len(s) + 1, NEW e \in S
    PROVE  /\ InsertAt(s, i, e) \in Seq(S) /\ Len(InsertAt(s, i, e)) = Len(s) + 1
           /\ Inserts(InsertAt(s, i, e), s, i, e)
<1> DEFINE front == SubSeq(s, 1, i - 1)
           back == SubSeq(s, i, Len(s))
           most == front \o <<e>>
<1>0. Len(s) \in Nat /\ i \in Int /\ i - 1 \in Int /\ i - 1 <= Len(s) /\ i >= 1
  BY LenProperties
<1>1. \A j \in 1 .. Len(s) : s[j] \in S
  BY ElementOfSeq
<1>2. /\ front \in Seq(S) /\ Len(front) = i - 1
      /\ \A j \in 1 .. i - 1 : front[j] = s[j]
  <2>1. \A j \in 1 .. i - 1 : s[j] \in S
    BY <1>0, <1>1
  <2>2. /\ front \in Seq(S)
        /\ Len(front) = IF 1 <= i - 1 THEN i - 1 - 1 + 1 ELSE 0
        /\ \A j \in 1 .. i - 1 - 1 + 1 : front[j] = s[1 + j - 1]
    BY <1>0, <2>1, SubSeqProperties
  <2> HIDE DEF front
  <2> QED BY <1>0, <2>2
<1>3. /\ back \in Seq(S) /\ Len(back) = Len(s) - i + 1
      /\ \A j \in 1 .. Len(s) - i + 1 : back[j] = s[i + j - 1]
  <2>1. \A j \in i .. Len(s) : s[j] \in S
    BY <1>0, <1>1
  <2>2. /\ back \in Seq(S)
        /\ Len(back) = IF i <= Len(s) THEN Len(s) - i + 1 ELSE 0
        /\ \A j \in 1 .. Len(s) - i + 1 : back[j] = s[i + j - 1]
    BY <1>0, <2>1, SubSeqProperties
  <2> HIDE DEF back
  <2> QED BY <1>0, <2>2
<1>4. <<e>> \in Seq(S) /\ Len(<<e>>) = 1 /\ <<e>>[1] = e
  OBVIOUS
<1> HIDE DEF front, back
<1>5. /\ most \in Seq(S) /\ Len(most) = i
      /\ \A j \in 1 .. i : most[j] = IF j < i THEN s[j] ELSE e
  <2>1. /\ most \in Seq(S) /\ Len(most) = Len(front) + Len(<<e>>)
        /\ \A j \in 1 .. Len(front) + Len(<<e>>) :
              most[j] = IF j <= Len(front) THEN front[j] ELSE <<e>>[j - Len(front)]
    BY <1>2, <1>4, ConcatProperties
  <2> HIDE DEF most
  <2>2. Len(most) = i
    BY <1>0, <1>2, <1>4, <2>1
  <2>3. ASSUME NEW j \in 1 .. i PROVE most[j] = IF j < i THEN s[j] ELSE e
    <3>1. CASE j < i
      <4>1. j \in 1 .. i - 1 /\ j \in 1 .. Len(front) + Len(<<e>>) /\ j <= Len(front)
        BY <1>0, <1>2, <1>4, <3>1
      <4> QED BY <1>2, <2>1, <3>1, <4>1
    <3>2. CASE j = i
      <4>1. /\ j \in 1 .. Len(front) + Len(<<e>>) /\ ~ (j <= Len(front))
            /\ j - Len(front) = 1
        BY <1>0, <1>2, <1>4, <3>2
      <4> QED BY <1>4, <2>1, <3>2, <4>1
    <3> QED BY <1>0, <3>1, <3>2
  <2> QED BY <2>1, <2>2, <2>3
<1> HIDE DEF most
<1> DEFINE whole == most \o back
<1>6. /\ whole \in Seq(S) /\ Len(whole) = Len(most) + Len(back)
      /\ \A j \in 1 .. Len(most) + Len(back) :
            whole[j] = IF j <= Len(most) THEN most[j] ELSE back[j - Len(most)]
  BY <1>3, <1>5, ConcatProperties
<1> HIDE DEF whole
<1>7. InsertAt(s, i, e) = whole
  BY DEF InsertAt, whole, most, front, back
<1>8. ASSUME NEW j \in 1 .. Len(s) + 1
      PROVE  whole[j] = IF j < i THEN s[j] ELSE IF j = i THEN e ELSE s[j - 1]
  <2>1. CASE j <= i
    BY <1>0, <1>3, <1>5, <1>6, <2>1
  <2>2. CASE j > i
    <3>1. j - i \in 1 .. Len(s) - i + 1 /\ i + (j - i) - 1 = j - 1
      BY <1>0, <2>2
    <3>2. back[j - i] = s[j - 1]
      BY <1>3, <3>1
    <3>3. j \in 1 .. Len(most) + Len(back) /\ ~ (j <= Len(most)) /\ Len(most) = i
      BY <1>0, <1>3, <1>5, <2>2
    <3>4. whole[j] = back[j - i]
      BY <1>6, <3>3
    <3>5. ~ (j < i) /\ j # i
      BY <1>0, <2>2
    <3> QED BY <3>2, <3>4, <3>5
  <2> QED BY <1>0, <2>1, <2>2
<1>9. Len(whole) = Len(s) + 1
  BY <1>0, <1>3, <1>5, <1>6
<1>10. Inserts(whole, s, i, e)
  BY <1>8 DEF Inserts
<1> QED BY <1>6, <1>7, <1>9, <1>10

\* How a link changes a queue: one message more, at some place, and at the end
\* when there is one sender only.
LinksAt(t, a, m, i) ==
    /\ at[t] = a /\ msg[t] = m /\ i \in 1 .. Len(queue[a]) + 1
    /\ OneSender => i = Len(queue[a]) + 1
    /\ queue' = [queue EXCEPT ![a] = InsertAt(queue[a], i, m)]
    /\ queue'[a] = InsertAt(queue[a], i, m)
    /\ queue'[a] \in Seq(Messages)
    /\ Len(queue'[a]) = Len(queue[a]) + 1
    /\ \A j \in 1 .. Len(queue[a]) + 1 :
          queue'[a][j] = IF j < i THEN queue[a][j] ELSE IF j = i THEN m ELSE queue[a][j - 1]
    /\ \A s \in Sessions \ {a} : queue'[s] = queue[s]

LEMMA LinkedSomewhere ==
    ASSUME Types, Places, NEW t \in Threads, Link(t)
    PROVE  \E a \in Sessions, m \in Messages, i \in Nat : LinksAt(t, a, m, i)
<1>0. pc[t] = "Link" /\ at \in [Threads -> Sessions \cup {NoSession}]
  BY DEF Link, Types, ThreadTypes
<1>1. PICK a \in Sessions : a = at[t]
  BY <1>0 DEF Places
<1>2. PICK m \in Messages : m = msg[t]
  BY <1>0 DEF Places
<1>3. queue \in [Sessions -> Seq(Messages)]
  BY DEF Types, SessionTypes
<1>4. PICK i \in 1 .. Len(queue[a]) + 1 :
        /\ OneSender => i = Len(queue[a]) + 1
        /\ queue' = [queue EXCEPT ![a] = InsertAt(queue[a], i, m)]
  BY <1>1, <1>2 DEF Link
<1>5. PICK old \in Seq(Messages) : old = queue[a]
  BY <1>3
<1>11. PICK k \in 1 .. Len(old) + 1 : k = i
  BY <1>4, <1>5
<1> DEFINE q == InsertAt(old, k, m)
<1>6. q \in Seq(Messages) /\ Len(q) = Len(old) + 1 /\ Inserts(q, old, k, m)
  BY <1>2, <1>5, <1>11, Inserted
<1>8. queue'[a] = q /\ \A s \in Sessions \ {a} : queue'[s] = queue[s]
  BY <1>3, <1>4, <1>5, <1>11
<1>9. i \in Nat
  BY <1>4, <1>5, LenProperties
<1>12. q = InsertAt(queue[a], i, m)
  BY <1>5, <1>11
<1> HIDE DEF q
<1>7. \A j \in 1 .. Len(old) + 1 :
         q[j] = IF j < k THEN old[j] ELSE IF j = k THEN m ELSE old[j - 1]
  BY <1>6 DEF Inserts
<1>10. LinksAt(t, a, m, i)
  BY <1>1, <1>2, <1>4, <1>5, <1>6, <1>7, <1>8, <1>11, <1>12 DEF LinksAt
<1> QED
  BY <1>9, <1>10

LEMMA TypesNext == Types /\ Places /\ [Next]_vars => Types'
<1> SUFFICES ASSUME Types, Places, [Next]_vars PROVE Types'
  OBVIOUS
<1> USE DEF Goto, Set
<1>0. /\ NoSession \notin Sessions /\ NoMessage \notin Messages
      /\ Threads = Senders \cup Workers
      /\ \A t \in Threads : pc[t] \notin {"Idle", "Call"} => at[t] \in Sessions
  BY SendAssumption DEF Threads, Places, Types, ThreadTypes
<1>1. ASSUME NEW t \in Senders, NEW m \in Messages, NEW targets \in SUBSET Sessions,
             Create(t, m, targets)
      PROVE Types'
  <2>1. SessionTypes'
    BY <1>0, <1>1 DEF Types, SessionTypes, Create,
       sessionVars, queueVars, sendVars, threadVars, historyVars
  <2>2. ThreadTypes'
    BY <1>0, <1>1 DEF Types, ThreadTypes, Labels, Create,
       sessionVars, queueVars, sendVars, threadVars, historyVars
  <2> QED
    BY <2>1, <2>2 DEF Types
<1>2. ASSUME NEW t \in Senders, Drop(t) PROVE Types'
  <2>1. SessionTypes'
    BY <1>0, <1>2 DEF Types, SessionTypes, Drop,
       sessionVars, queueVars, sendVars, threadVars, historyVars
  <2>2. ThreadTypes'
    BY <1>0, <1>2 DEF Types, ThreadTypes, Labels, Drop,
       sessionVars, queueVars, sendVars, threadVars, historyVars
  <2> QED
    BY <2>1, <2>2 DEF Types
<1>3. ASSUME NEW t \in Senders, Link(t) PROVE Types'
  <2>0. msg[t] \in Messages /\ at[t] \in Sessions
    BY <1>0, <1>3 DEF Link, Places, Types, ThreadTypes
  <2>3. queue' \in [Sessions -> Seq(Messages)]
    <3>1. PICK a \in Sessions, m \in Messages, i \in Nat : LinksAt(t, a, m, i)
      BY <1>0, <1>3, LinkedSomewhere
    <3> QED
      BY <3>1 DEF LinksAt, Types, SessionTypes
  <2>4. UNCHANGED <<open, size, sending, sent, numSent, posted, buffers, failed, cut>>
    BY <1>3 DEF Link, sendVars, historyVars
  <2>1. SessionTypes'
    BY <2>3, <2>4 DEF Types, SessionTypes
  <2>2. ThreadTypes'
    BY <1>0, <1>3, <2>0, <2>3 DEF Types, ThreadTypes, Labels, Link,
       sessionVars, queueVars, sendVars, threadVars, historyVars
  <2> QED
    BY <2>1, <2>2 DEF Types
<1>4. ASSUME NEW t \in Senders, Count(t) PROVE Types'
  <2>4. at[t] \in Sessions
    BY <1>0, <1>4 DEF Count
  <2>0. at[t] \in Sessions /\ size[at[t]] + 1 \in Int
    BY <2>4 DEF Types, SessionTypes
  <2>3. size' \in [Sessions -> Int]
    BY <1>4, <2>0 DEF Count, Types, SessionTypes
  <2>1. SessionTypes'
    BY <1>0, <1>4, <2>3 DEF Types, SessionTypes, Count,
       sessionVars, queueVars, sendVars, threadVars, historyVars
  <2>2. ThreadTypes'
    BY <1>0, <1>4 DEF Types, ThreadTypes, Labels, Count,
       sessionVars, queueVars, sendVars, threadVars, historyVars
  <2> QED
    BY <2>1, <2>2 DEF Types
<1>5. ASSUME NEW t \in Senders, NEW s \in Sessions, Acquire(t, s) PROVE Types'
  <2>1. SessionTypes'
    BY <1>0, <1>5 DEF Types, SessionTypes, Acquire,
       sessionVars, queueVars, sendVars, threadVars, historyVars
  <2>2. ThreadTypes'
    BY <1>0, <1>5 DEF Types, ThreadTypes, Labels, Acquire,
       sessionVars, queueVars, sendVars, threadVars, historyVars
  <2> QED
    BY <2>1, <2>2 DEF Types
<1>6. ASSUME NEW w \in Workers, NEW s \in Sessions, CompleteData(w, s) PROVE Types'
  <2>1. SessionTypes'
    BY <1>0, <1>6 DEF Types, SessionTypes, CompleteData, Finish,
       sessionVars, queueVars, sendVars, threadVars, historyVars
  <2>2. ThreadTypes'
    BY <1>0, <1>6 DEF Types, ThreadTypes, Labels, CompleteData, Finish,
       sessionVars, queueVars, sendVars, threadVars, historyVars
  <2> QED
    BY <2>1, <2>2 DEF Types
<1>7. ASSUME NEW w \in Workers, NEW s \in Sessions, CompleteZero(w, s) PROVE Types'
  <2>1. SessionTypes'
    BY <1>0, <1>7 DEF Types, SessionTypes, CompleteZero, Finish,
       sessionVars, queueVars, sendVars, threadVars, historyVars
  <2>2. ThreadTypes'
    BY <1>0, <1>7 DEF Types, ThreadTypes, Labels, CompleteZero, Finish,
       sessionVars, queueVars, sendVars, threadVars, historyVars
  <2> QED
    BY <2>1, <2>2 DEF Types
<1>8. ASSUME NEW w \in Workers, Reclaim(w) PROVE Types'
  <2>1. SessionTypes'
    BY <1>0, <1>8 DEF Types, SessionTypes, Reclaim,
       sessionVars, queueVars, sendVars, threadVars, historyVars
  <2>2. ThreadTypes'
    BY <1>0, <1>8 DEF Types, ThreadTypes, Labels, Reclaim,
       sessionVars, queueVars, sendVars, threadVars, historyVars
  <2> QED
    BY <2>1, <2>2 DEF Types
<1>9. ASSUME NEW w \in Workers, Clear(w) PROVE Types'
  <2>1. SessionTypes'
    BY <1>0, <1>9 DEF Types, SessionTypes, Clear,
       sessionVars, queueVars, sendVars, threadVars, historyVars
  <2>2. ThreadTypes'
    BY <1>0, <1>9 DEF Types, ThreadTypes, Labels, Clear,
       sessionVars, queueVars, sendVars, threadVars, historyVars
  <2> QED
    BY <2>1, <2>2 DEF Types
<1>10. ASSUME NEW t \in Threads, IsEmpty(t) \/ Leave(t) PROVE Types'
  <2>1. SessionTypes'
    BY <1>0, <1>10 DEF Types, SessionTypes, IsEmpty, Leave,
       sessionVars, queueVars, sendVars, threadVars, historyVars
  <2>2. ThreadTypes'
    BY <1>0, <1>10 DEF Types, ThreadTypes, Labels, IsEmpty, Leave,
       sessionVars, queueVars, sendVars, threadVars, historyVars
  <2> QED
    BY <2>1, <2>2 DEF Types
<1>11. ASSUME NEW t \in Threads, Exchange(t) \/ Undo(t) PROVE Types'
  <2>1. SessionTypes'
    BY <1>0, <1>11 DEF Types, SessionTypes, Exchange, Undo,
       sessionVars, queueVars, sendVars, threadVars, historyVars
  <2>2. ThreadTypes'
    BY <1>0, <1>11 DEF Types, ThreadTypes, Labels, Exchange, Undo,
       sessionVars, queueVars, sendVars, threadVars, historyVars
  <2> QED
    BY <2>1, <2>2 DEF Types
<1>12. ASSUME NEW t \in Threads, Lower(t) \/ Restore(t) PROVE Types'
  <2>1. SessionTypes'
    BY <1>0, <1>12 DEF Types, SessionTypes, Lower, Restore,
       sessionVars, queueVars, sendVars, threadVars, historyVars
  <2>2. ThreadTypes'
    BY <1>0, <1>12 DEF Types, ThreadTypes, Labels, Lower, Restore,
       sessionVars, queueVars, sendVars, threadVars, historyVars
  <2> QED
    BY <2>1, <2>2 DEF Types
<1>13. ASSUME NEW t \in Threads, Store(t) PROVE Types'
  <2>0. /\ at[t] \in Sessions /\ Head(queue[at[t]]) \in Messages
        /\ Tail(queue[at[t]]) \in Seq(Messages)
    <3>1. at[t] \in Sessions
      BY <1>0, <1>13 DEF Store
    <3>2. queue[at[t]] \in Seq(Messages) /\ queue[at[t]] # <<>>
      BY <1>13, <3>1 DEF Store, Places, Types, SessionTypes
    <3> QED
      BY <3>1, <3>2, HeadTailProperties
  <2>3. queue' \in [Sessions -> Seq(Messages)]
    BY <1>13, <2>0 DEF Store, Types, SessionTypes
  <2>4. sent' \in [Sessions -> [Indexes -> Messages \cup {NoMessage}]]
    BY <1>13, <2>0 DEF Store, Types, SessionTypes
  <2>1. SessionTypes'
    BY <1>13, <2>3, <2>4 DEF Types, SessionTypes, Store,
       sessionVars, queueVars, sendVars, threadVars, historyVars
  <2>2. ThreadTypes'
    BY <1>0, <1>13 DEF Types, ThreadTypes, Labels, Store,
       sessionVars, queueVars, sendVars, threadVars, historyVars
  <2> QED
    BY <2>1, <2>2 DEF Types
<1>14. ASSUME NEW t \in Threads, Post(t) PROVE Types'
  <2>0. at[t] \in Sessions /\ n[t] \in Nat
    BY <1>0, <1>14 DEF Post, Types, ThreadTypes
  <2>1. SessionTypes'
    BY <1>0, <1>14, <2>0 DEF Types, SessionTypes, Post,
       sessionVars, queueVars, sendVars, threadVars, historyVars
  <2>2. ThreadTypes'
    BY <1>0, <1>14 DEF Types, ThreadTypes, Labels, Post,
       sessionVars, queueVars, sendVars, threadVars, historyVars
  <2> QED
    BY <2>1, <2>2 DEF Types
<1>15. ASSUME NEW s \in Sessions, Cut(s) PROVE Types'
  <2>1. SessionTypes'
    BY <1>0, <1>15 DEF Types, SessionTypes, Cut,
       sessionVars, queueVars, sendVars, threadVars, historyVars
  <2>2. ThreadTypes'
    BY <1>0, <1>15 DEF Types, ThreadTypes, Labels, Cut,
       sessionVars, queueVars, sendVars, threadVars, historyVars
  <2> QED
    BY <2>1, <2>2 DEF Types
<1>16. ASSUME NEW s \in Sessions, ReleaseSession(s) PROVE Types'
  <2>1. SessionTypes'
    BY <1>0, <1>16 DEF Types, SessionTypes, ReleaseSession,
       sessionVars, queueVars, sendVars, threadVars, historyVars
  <2>2. ThreadTypes'
    BY <1>0, <1>16 DEF Types, ThreadTypes, Labels, ReleaseSession,
       sessionVars, queueVars, sendVars, threadVars, historyVars
  <2> QED
    BY <2>1, <2>2 DEF Types
<1>17. ASSUME NEW s \in Sessions, AcceptSession(s) PROVE Types'
  <2>1. SessionTypes'
    BY <1>0, <1>17 DEF Types, SessionTypes, AcceptSession,
       sessionVars, queueVars, sendVars, threadVars, historyVars
  <2>2. ThreadTypes'
    BY <1>0, <1>17 DEF Types, ThreadTypes, Labels, AcceptSession,
       sessionVars, queueVars, sendVars, threadVars, historyVars
  <2> QED
    BY <2>1, <2>2 DEF Types
<1>18. CASE UNCHANGED vars
  BY <1>18 DEF Types, SessionTypes, ThreadTypes, vars, sessionVars, queueVars, sendVars,
               threadVars, historyVars
<1> QED
  BY Steps, <1>1, <1>2, <1>3, <1>4, <1>5, <1>6, <1>7, <1>8, <1>9, <1>10, <1>11, <1>12,
     <1>13, <1>14, <1>15, <1>16, <1>17, <1>18 DEF SendPost
LEMMA UncountedFinite == \A s : IsFiniteSet(Uncounted(s))
<1>1. IsFiniteSet(Threads)
  BY SendAssumption, FS_Union DEF Threads
<1> QED
  BY <1>1, FS_Subset DEF Uncounted

LEMMA PlacesNext ==
    ASSUME Types, Types', Places, Ownership, SizeExact, [Next]_vars
    PROVE  Places'
<1> USE DEF Goto, Set
<1>0. /\ NoSession \notin Sessions /\ NoMessage \notin Messages
      /\ Threads = Senders \cup Workers /\ Senders \cap Workers = {}
      /\ \A t \in Threads : pc[t] \notin {"Idle", "Call"} => at[t] \in Sessions
  BY SendAssumption DEF Threads, Places, Types, ThreadTypes
<1>1. ASSUME NEW t \in Senders, NEW m \in Messages, NEW targets \in SUBSET Sessions,
             Create(t, m, targets)
      PROVE Places'
  BY <1>0, <1>1 DEF Places, OwnerLabels, DrainLabels, Create, Types, SessionTypes, ThreadTypes,
     Labels,
     sessionVars, queueVars, sendVars, threadVars, historyVars
<1>2. ASSUME NEW t \in Senders, Drop(t) PROVE Places'
  BY <1>0, <1>2 DEF Places, OwnerLabels, DrainLabels, Drop, Types, SessionTypes, ThreadTypes,
     Labels,
     sessionVars, queueVars, sendVars, threadVars, historyVars
<1>3. ASSUME NEW t \in Senders, Link(t) PROVE Places'
  <2>1. PICK a \in Sessions, m \in Messages, i \in Nat : LinksAt(t, a, m, i)
    BY <1>0, <1>3, LinkedSomewhere
  <2>2. \A s \in Sessions : queue[s] # <<>> => queue'[s] # <<>>
    <3>1. queue'[a] # <<>>
      <4>1. Len(queue[a]) \in Nat /\ Len(queue'[a]) = Len(queue[a]) + 1
        BY <2>1 DEF LinksAt, Types, SessionTypes
      <4>2. Len(<<>>) = 0
        OBVIOUS
      <4> QED
        BY <4>1, <4>2
    <3> QED
      BY <2>1, <3>1 DEF LinksAt
  <2>3. /\ UNCHANGED <<open, at, msg, n, failed>>
        /\ pc[t] = "Link" /\ pc'[t] = "Count"
        /\ \A u \in Threads \ {t} : pc'[u] = pc[u]
    BY <1>0, <1>3 DEF Link, historyVars, Types, ThreadTypes
  <2> QED
    BY <1>0, <2>2, <2>3 DEF Places, Types, ThreadTypes
<1>4. ASSUME NEW t \in Senders, Count(t) PROVE Places'
  BY <1>0, <1>4 DEF Places, OwnerLabels, DrainLabels, Count, Types, SessionTypes, ThreadTypes,
     Labels,
     sessionVars, queueVars, sendVars, threadVars, historyVars
<1>5. ASSUME NEW t \in Senders, NEW s \in Sessions, Acquire(t, s) PROVE Places'
  BY <1>0, <1>5 DEF Places, OwnerLabels, DrainLabels, Acquire, Types, SessionTypes, ThreadTypes,
     Labels,
     sessionVars, queueVars, sendVars, threadVars, historyVars
<1>6. ASSUME NEW t \in Workers, NEW s \in Sessions, CompleteData(t, s) PROVE Places'
  BY <1>0, <1>6 DEF Places, OwnerLabels, DrainLabels, CompleteData, Finish, Ownership, Types,
     SessionTypes, ThreadTypes, Labels,
     sessionVars, queueVars, sendVars, threadVars, historyVars
<1>7. ASSUME NEW t \in Workers, NEW s \in Sessions, CompleteZero(t, s) PROVE Places'
  BY <1>0, <1>7 DEF Places, OwnerLabels, DrainLabels, CompleteZero, Finish, Types, SessionTypes,
     ThreadTypes, Labels,
     sessionVars, queueVars, sendVars, threadVars, historyVars
<1>8. ASSUME NEW t \in Workers, Reclaim(t) PROVE Places'
  BY <1>0, <1>8 DEF Places, OwnerLabels, DrainLabels, Reclaim, Types, SessionTypes, ThreadTypes,
     Labels,
     sessionVars, queueVars, sendVars, threadVars, historyVars
<1>9. ASSUME NEW t \in Workers, Clear(t) PROVE Places'
  BY <1>0, <1>9 DEF Places, OwnerLabels, DrainLabels, Clear, Types, SessionTypes, ThreadTypes,
     Labels,
     sessionVars, queueVars, sendVars, threadVars, historyVars
<1>10. ASSUME NEW t \in Threads, IsEmpty(t) PROVE Places'
  BY <1>0, <1>10 DEF Places, OwnerLabels, DrainLabels, IsEmpty, Types, SessionTypes,
     ThreadTypes, Labels,
     sessionVars, queueVars, sendVars, threadVars, historyVars
<1>11. ASSUME NEW t \in Threads, Leave(t) PROVE Places'
  BY <1>0, <1>11 DEF Places, OwnerLabels, DrainLabels, Leave, Types, SessionTypes, ThreadTypes,
     Labels,
     sessionVars, queueVars, sendVars, threadVars, historyVars
<1>12. ASSUME NEW t \in Threads, Exchange(t) PROVE Places'
  BY <1>0, <1>12 DEF Places, OwnerLabels, DrainLabels, Exchange, Types, SessionTypes,
     ThreadTypes, Labels,
     sessionVars, queueVars, sendVars, threadVars, historyVars
<1>13. ASSUME NEW t \in Threads, Undo(t) PROVE Places'
  BY <1>0, <1>13 DEF Places, OwnerLabels, DrainLabels, Undo, Types, SessionTypes, ThreadTypes,
     Labels,
     sessionVars, queueVars, sendVars, threadVars, historyVars
<1>14. ASSUME NEW t \in Threads, Lower(t) PROVE Places'
  <2>1. at[t] \in Sessions
    BY <1>0, <1>14 DEF Lower
  <2>2. size[at[t]] > 0 => queue[at[t]] # <<>>
    <3>1. Cardinality(Uncounted(at[t])) \in Nat
      BY UncountedFinite, FS_CardinalityType
    <3>2. size[at[t]] = Len(queue[at[t]]) - Cardinality(Uncounted(at[t]))
      BY <2>1 DEF SizeExact
    <3>3. queue[at[t]] = <<>> => Len(queue[at[t]]) = 0
      OBVIOUS
    <3> QED
      BY <3>1, <3>2, <3>3
  <2>3. size[at[t]] \in Int
    <3>1. size \in [Sessions -> Int]
      BY DEF Types, SessionTypes
    <3> QED
      BY <2>1, <3>1
  <2>4. /\ pc[t] = "Take"
        /\ \A u \in Threads \ {t} : pc'[u] = pc[u]
        /\ UNCHANGED <<at, msg, n, open, failed, queue>>
    BY <1>14 DEF Lower, Types, ThreadTypes, sendVars, historyVars
  <2>5. /\ pc'[t] \in {"Restore", "Store"}
        /\ pc'[t] = "Store" => size[at[t]] > 0
    BY <1>14, <2>3 DEF Lower, Types, ThreadTypes
  <2> QED
    BY <2>1, <2>2, <2>4, <2>5 DEF Places
<1>15. ASSUME NEW t \in Threads, Restore(t) PROVE Places'
  BY <1>0, <1>15 DEF Places, OwnerLabels, DrainLabels, Restore, Types, SessionTypes,
     ThreadTypes, Labels,
     sessionVars, queueVars, sendVars, threadVars, historyVars
<1>16. ASSUME NEW t \in Threads, Store(t) PROVE Places'
  BY <1>0, <1>16 DEF Places, OwnerLabels, DrainLabels, Store, Ownership, Types, SessionTypes,
     ThreadTypes, Labels,
     sessionVars, queueVars, sendVars, threadVars, historyVars
<1>17. ASSUME NEW t \in Threads, Post(t) PROVE Places'
  BY <1>0, <1>17 DEF Places, OwnerLabels, DrainLabels, Post, Types, SessionTypes, ThreadTypes,
     Labels,
     sessionVars, queueVars, sendVars, threadVars, historyVars
<1>18. ASSUME NEW s \in Sessions, Cut(s) PROVE Places'
  BY <1>0, <1>18 DEF Places, OwnerLabels, DrainLabels, Cut, Types, SessionTypes, ThreadTypes,
     Labels,
     sessionVars, queueVars, sendVars, threadVars, historyVars
<1>19. ASSUME NEW s \in Sessions, ReleaseSession(s) PROVE Places'
  BY <1>0, <1>19 DEF Places, OwnerLabels, DrainLabels, ReleaseSession, Inside, Types,
     SessionTypes, ThreadTypes, Labels,
     sessionVars, queueVars, sendVars, threadVars, historyVars
<1>20. ASSUME NEW s \in Sessions, AcceptSession(s) PROVE Places'
  BY <1>0, <1>20 DEF Places, OwnerLabels, DrainLabels, AcceptSession, Types, SessionTypes,
     ThreadTypes, Labels,
     sessionVars, queueVars, sendVars, threadVars, historyVars
<1>21. CASE UNCHANGED vars
  BY <1>21 DEF Places, OwnerLabels, DrainLabels, vars, sessionVars, queueVars, sendVars,
     threadVars, historyVars
<1> QED
  BY Steps, <1>1, <1>2, <1>3, <1>4, <1>5, <1>6, <1>7, <1>8, <1>9, <1>10, <1>11, <1>12, <1>13,
     <1>14, <1>15, <1>16, <1>17, <1>18, <1>19, <1>20, <1>21 DEF SendPost

LEMMA OwnershipNext ==
    ASSUME Types, Types', Places, Ownership, [Next]_vars
    PROVE  Ownership'
<1> USE DEF Goto, Set
<1>0. /\ NoSession \notin Sessions /\ NoMessage \notin Messages
      /\ Threads = Senders \cup Workers /\ Senders \cap Workers = {}
      /\ \A t \in Threads : pc[t] \notin {"Idle", "Call"} => at[t] \in Sessions
  BY SendAssumption DEF Threads, Places, Types, ThreadTypes
<1>1. ASSUME NEW t \in Senders, NEW m \in Messages, NEW targets \in SUBSET Sessions,
             Create(t, m, targets)
      PROVE Ownership'
  BY <1>0, <1>1 DEF Ownership, OwnerLabels, DrainLabels, Owned, Create, Types, SessionTypes,
     ThreadTypes, Labels,
     sessionVars, queueVars, sendVars, threadVars, historyVars
<1>2. ASSUME NEW t \in Senders, Drop(t) PROVE Ownership'
  BY <1>0, <1>2 DEF Ownership, OwnerLabels, DrainLabels, Owned, Drop, Types, SessionTypes,
     ThreadTypes, Labels,
     sessionVars, queueVars, sendVars, threadVars, historyVars
<1>3. ASSUME NEW t \in Senders, Link(t) PROVE Ownership'
  BY <1>0, <1>3 DEF Ownership, OwnerLabels, DrainLabels, Owned, Link, Types, SessionTypes,
     ThreadTypes, Labels,
     sessionVars, queueVars, sendVars, threadVars, historyVars
<1>4. ASSUME NEW t \in Senders, Count(t) PROVE Ownership'
  BY <1>0, <1>4 DEF Ownership, OwnerLabels, DrainLabels, Owned, Count, Types, SessionTypes,
     ThreadTypes, Labels,
     sessionVars, queueVars, sendVars, threadVars, historyVars
<1>5. ASSUME NEW t \in Senders, NEW s \in Sessions, Acquire(t, s) PROVE Ownership'
  <2>1. /\ UNCHANGED <<sending, posted, open, buffers, sent, numSent>>
        /\ \A u \in Threads \ {t} : pc'[u] = pc[u] /\ at'[u] = at[u]
        /\ pc'[t] \in {"Call", "Link"}
    BY <1>0, <1>5 DEF Acquire, Types, ThreadTypes, sessionVars, queueVars, sendVars
  <2> QED
    BY <2>1 DEF Ownership, OwnerLabels, DrainLabels, Owned
<1>6. ASSUME NEW t \in Workers, NEW s \in Sessions, CompleteData(t, s) PROVE Ownership'
  BY <1>0, <1>6 DEF Ownership, OwnerLabels, DrainLabels, Owned, CompleteData, Finish, Types,
     SessionTypes, ThreadTypes, Labels,
     sessionVars, queueVars, sendVars, threadVars, historyVars
<1>7. ASSUME NEW t \in Workers, NEW s \in Sessions, CompleteZero(t, s) PROVE Ownership'
  BY <1>0, <1>7 DEF Ownership, OwnerLabels, DrainLabels, Owned, CompleteZero, Finish, Types,
     SessionTypes, ThreadTypes, Labels,
     sessionVars, queueVars, sendVars, threadVars, historyVars
<1>8. ASSUME NEW t \in Workers, Reclaim(t) PROVE Ownership'
  BY <1>0, <1>8 DEF Ownership, OwnerLabels, DrainLabels, Owned, Reclaim, Types, SessionTypes,
     ThreadTypes, Labels,
     sessionVars, queueVars, sendVars, threadVars, historyVars
<1>9. ASSUME NEW t \in Workers, Clear(t) PROVE Ownership'
  BY <1>0, <1>9 DEF Ownership, OwnerLabels, DrainLabels, Owned, Clear, Types, SessionTypes,
     ThreadTypes, Labels,
     sessionVars, queueVars, sendVars, threadVars, historyVars
<1>10. ASSUME NEW t \in Threads, IsEmpty(t) PROVE Ownership'
  BY <1>0, <1>10 DEF Ownership, OwnerLabels, DrainLabels, Owned, IsEmpty, Types, SessionTypes,
     ThreadTypes, Labels,
     sessionVars, queueVars, sendVars, threadVars, historyVars
<1>11. ASSUME NEW t \in Threads, Leave(t) PROVE Ownership'
  BY <1>0, <1>11 DEF Ownership, OwnerLabels, DrainLabels, Owned, Leave, Types, SessionTypes,
     ThreadTypes, Labels,
     sessionVars, queueVars, sendVars, threadVars, historyVars
<1>12. ASSUME NEW t \in Threads, Exchange(t) PROVE Ownership'
  BY <1>0, <1>12 DEF Ownership, OwnerLabels, DrainLabels, Owned, Exchange, Types, SessionTypes,
     ThreadTypes, Labels,
     sessionVars, queueVars, sendVars, threadVars, historyVars
<1>13. ASSUME NEW t \in Threads, Undo(t) PROVE Ownership'
  BY <1>0, <1>13 DEF Ownership, OwnerLabels, DrainLabels, Owned, Undo, Types, SessionTypes,
     ThreadTypes, Labels,
     sessionVars, queueVars, sendVars, threadVars, historyVars
<1>14. ASSUME NEW t \in Threads, Lower(t) PROVE Ownership'
  BY <1>0, <1>14 DEF Ownership, OwnerLabels, DrainLabels, Owned, Lower, Types, SessionTypes,
     ThreadTypes, Labels,
     sessionVars, queueVars, sendVars, threadVars, historyVars
<1>15. ASSUME NEW t \in Threads, Restore(t) PROVE Ownership'
  BY <1>0, <1>15 DEF Ownership, OwnerLabels, DrainLabels, Owned, Restore, Types, SessionTypes,
     ThreadTypes, Labels,
     sessionVars, queueVars, sendVars, threadVars, historyVars
<1>16. ASSUME NEW t \in Threads, Store(t) PROVE Ownership'
  BY <1>0, <1>16 DEF Ownership, OwnerLabels, DrainLabels, Owned, Store, Types, SessionTypes,
     ThreadTypes, Labels,
     sessionVars, queueVars, sendVars, threadVars, historyVars
<1>17. ASSUME NEW t \in Threads, Post(t) PROVE Ownership'
  <2>0. /\ t \in Threads /\ pc[t] = "Post" /\ at[t] \in Sessions
        /\ \A u \in Threads \ {t} : pc'[u] = pc[u]
        /\ UNCHANGED <<at, open, sending, sent>>
        /\ \A s \in Sessions \ {at[t]} : numSent'[s] = numSent[s]
        /\ numSent'[at[t]] = n[t]
    BY <1>0, <1>17 DEF Post, Types, SessionTypes, ThreadTypes, queueVars
  <2>1. /\ sending[at[t]] /\ ~ posted[at[t]] /\ open[at[t]]
        /\ \A u \in Threads : pc[u] \in OwnerLabels /\ at[u] = at[t] => u = t
    BY <2>0 DEF Ownership, OwnerLabels, DrainLabels, Places
  <2>2. CASE /\ posted' = Set(posted, at[t], TRUE)
             /\ buffers' = Set(buffers, at[t], SubSeq(sent[at[t]], 1, n[t]))
             /\ pc'[t] = "Leave"
    <3>1. ASSUME NEW u \in Threads, pc'[u] \in OwnerLabels
          PROVE  /\ sending'[at'[u]] /\ ~ posted'[at'[u]]
                 /\ \A v \in Threads : pc'[v] \in OwnerLabels /\ at'[v] = at'[u] => v = u
      <4>1. u # t /\ pc[u] \in OwnerLabels /\ at[u] # at[t]
        BY <2>0, <2>1, <2>2, <3>1 DEF OwnerLabels, DrainLabels
      <4>2. at[u] \in Sessions
        BY <1>0, <4>1 DEF OwnerLabels, DrainLabels
      <4> QED
        <5>1. posted'[at[u]] = posted[at[u]]
          BY <2>0, <2>2, <4>1, <4>2 DEF Types, SessionTypes
        <5>2. \A v \in Threads : pc'[v] \in OwnerLabels => pc[v] \in OwnerLabels
          BY <2>0 DEF OwnerLabels, DrainLabels
        <5> QED
          BY <2>0, <4>1, <5>1, <5>2 DEF Ownership
    <3>2. ASSUME NEW s \in Sessions, posted'[s]
          PROVE  sending'[s] /\ open'[s] /\ buffers'[s] = Owned(s)'
      <4>1. CASE s = at[t]
        <5>1. buffers'[s] = SubSeq(sent[s], 1, n[t])
          BY <2>0, <2>2, <4>1 DEF Types, SessionTypes
        <5> QED
          BY <2>0, <2>1, <4>1, <5>1 DEF Owned
      <4>2. CASE s # at[t]
        <5>1. posted[s] /\ buffers'[s] = buffers[s]
          BY <2>0, <2>2, <3>2, <4>2 DEF Types, SessionTypes
        <5> QED
          BY <2>0, <4>2, <5>1 DEF Ownership, Owned
      <4> QED
        BY <4>1, <4>2
    <3> QED
      BY <3>1, <3>2 DEF Ownership
  <2>3. CASE pc'[t] = "Undo" /\ UNCHANGED <<posted, buffers>>
    <3>1. ASSUME NEW u \in Threads, pc'[u] \in OwnerLabels
          PROVE  /\ sending'[at'[u]] /\ ~ posted'[at'[u]]
                 /\ \A v \in Threads : pc'[v] \in OwnerLabels /\ at'[v] = at'[u] => v = u
      BY <2>0, <2>1, <2>3, <3>1 DEF Ownership, OwnerLabels, DrainLabels
    <3>2. ASSUME NEW s \in Sessions, posted'[s]
          PROVE  sending'[s] /\ open'[s] /\ buffers'[s] = Owned(s)'
      BY <2>0, <2>1, <2>3, <3>2 DEF Ownership, Owned
    <3> QED
      BY <3>1, <3>2 DEF Ownership
  <2> QED
    BY <1>17, <2>2, <2>3 DEF Post, Types, ThreadTypes
<1>18. ASSUME NEW s \in Sessions, Cut(s) PROVE Ownership'
  BY <1>0, <1>18 DEF Ownership, OwnerLabels, DrainLabels, Owned, Cut, Types, SessionTypes,
     ThreadTypes, Labels,
     sessionVars, queueVars, sendVars, threadVars, historyVars
<1>19. ASSUME NEW s \in Sessions, ReleaseSession(s) PROVE Ownership'
  BY <1>0, <1>19 DEF Ownership, OwnerLabels, DrainLabels, Owned, ReleaseSession, Inside, Types,
     SessionTypes, ThreadTypes, Labels,
     sessionVars, queueVars, sendVars, threadVars, historyVars
<1>20. ASSUME NEW s \in Sessions, AcceptSession(s) PROVE Ownership'
  BY <1>0, <1>20 DEF Ownership, OwnerLabels, DrainLabels, Owned, AcceptSession, Places, Types,
     SessionTypes, ThreadTypes, Labels,
     sessionVars, queueVars, sendVars, threadVars, historyVars
<1>21. CASE UNCHANGED vars
  BY <1>21 DEF Ownership, OwnerLabels, DrainLabels, Owned, vars, sessionVars, queueVars,
     sendVars, threadVars, historyVars
<1> QED
  BY Steps, <1>1, <1>2, <1>3, <1>4, <1>5, <1>6, <1>7, <1>8, <1>9, <1>10, <1>11, <1>12, <1>13,
     <1>14, <1>15, <1>16, <1>17, <1>18, <1>19, <1>20, <1>21 DEF SendPost

LEMMA DifferByOne ==
    ASSUME NEW A, NEW B, NEW t, IsFiniteSet(A), A \ {t} = B \ {t}
    PROVE  Cardinality(B) = Cardinality(A) + (IF t \in B THEN 1 ELSE 0)
                                           - (IF t \in A THEN 1 ELSE 0)
<1>1. Cardinality(A) \in Nat
  BY FS_CardinalityType
<1>2. CASE t \in A <=> t \in B
  <2>1. A = B
    BY <1>2
  <2> QED
    BY <1>1, <1>2, <2>1
<1>3. CASE t \in A /\ t \notin B
  <2>1. B = A \ {t}
    BY <1>3
  <2>2. Cardinality(B) = Cardinality(A) - 1
    BY <1>3, <2>1, FS_RemoveElement
  <2> QED
    BY <1>1, <1>3, <2>2
<1>4. CASE t \notin A /\ t \in B
  <2>1. B = A \cup {t}
    BY <1>4
  <2>2. Cardinality(B) = Cardinality(A) + 1
    BY <1>4, <2>1, FS_AddElement
  <2> QED
    BY <1>1, <1>4, <2>2
<1> QED
  BY <1>2, <1>3, <1>4

\* what a thread at label l of session a counts for session s
Here(l, a, s) == IF a = s /\ l \in {"Count", "Store", "Restore"} THEN 1 ELSE 0

LEMMA SizeMove ==
    ASSUME Types, Types', SizeExact, NEW t \in Threads,
           \A u \in Threads \ {t} : pc'[u] = pc[u] /\ at'[u] = at[u],
           \A s \in Sessions :
              Len(queue'[s]) - size'[s] - Here(pc'[t], at'[t], s)
                = Len(queue[s]) - size[s] - Here(pc[t], at[t], s)
    PROVE  SizeExact'
<1> SUFFICES ASSUME NEW s \in Sessions
             PROVE  size'[s] = Len(queue'[s]) - Cardinality(Uncounted(s)')
  BY DEF SizeExact
<1> DEFINE A == Uncounted(s)
           B == Uncounted(s)'
<1>1. IsFiniteSet(A)
  BY UncountedFinite
<1>2. A \ {t} = B \ {t}
  BY DEF Uncounted
<1>3. /\ Here(pc[t], at[t], s) = IF t \in A THEN 1 ELSE 0
      /\ Here(pc'[t], at'[t], s) = IF t \in B THEN 1 ELSE 0
  BY DEF Uncounted, Here
<1>4. Cardinality(A) \in Nat
  BY <1>1, FS_CardinalityType
<1>5. size[s] = Len(queue[s]) - Cardinality(A)
  BY DEF SizeExact
<1>6. /\ size[s] \in Int /\ size'[s] \in Int
      /\ Len(queue[s]) \in Nat /\ Len(queue'[s]) \in Nat
  BY DEF Types, SessionTypes
<1> HIDE DEF A, B
<1>7. Cardinality(B) = Cardinality(A) + Here(pc'[t], at'[t], s) - Here(pc[t], at[t], s)
  BY <1>1, <1>2, <1>3, DifferByOne
<1>8. Here(pc'[t], at'[t], s) \in Int /\ Here(pc[t], at[t], s) \in Int
  BY DEF Here
<1>10. Len(queue'[s]) - size'[s] - Here(pc'[t], at'[t], s)
         = Len(queue[s]) - size[s] - Here(pc[t], at[t], s)
  OBVIOUS
<1>9. size'[s] = Len(queue'[s]) - Cardinality(B)
  <2>1. Cardinality(B) \in Int
    BY <1>4, <1>7, <1>8
  <2>2. Len(queue[s]) - size[s] = Cardinality(A)
    BY <1>4, <1>5, <1>6
  <2>3. Len(queue'[s]) - size'[s]
           = Len(queue[s]) - size[s] + Here(pc'[t], at'[t], s) - Here(pc[t], at[t], s)
    <3> DEFINE l == Len(queue[s])
               m == Len(queue'[s])
               z == size[s]
               y == size'[s]
               h == Here(pc[t], at[t], s)
               k == Here(pc'[t], at'[t], s)
    <3>1. l \in Int /\ m \in Int /\ z \in Int /\ y \in Int /\ h \in Int /\ k \in Int
      BY <1>6, <1>8
    <3>2. m - y - k = l - z - h
      BY <1>10
    <3> HIDE DEF l, m, z, y, h, k
    <3>3. m - y = l - z + k - h
      BY <3>1, <3>2
    <3> QED
      BY <3>3 DEF l, m, z, y, h, k
  <2>4. Len(queue'[s]) - size'[s] = Cardinality(B)
    BY <1>7, <2>2, <2>3
  <2> QED
    BY <1>6, <2>1, <2>4
<1> QED
  BY <1>9 DEF B

LEMMA SizeExactNext ==
    ASSUME Types, Types', Places, SizeExact, [Next]_vars
    PROVE  SizeExact'
<1> USE DEF Goto, Set
<1>0. /\ NoSession \notin Sessions /\ NoMessage \notin Messages
      /\ Threads = Senders \cup Workers /\ Senders \cap Workers = {}
      /\ \A t \in Threads : pc[t] \notin {"Idle", "Call"} => at[t] \in Sessions
  BY SendAssumption DEF Threads, Places, Types, ThreadTypes
<1>1. ASSUME NEW t \in Senders, NEW m \in Messages, NEW targets \in SUBSET Sessions,
             Create(t, m, targets)
      PROVE SizeExact'
  <2>1. /\ t \in Threads
        /\ \A u \in Threads \ {t} : pc'[u] = pc[u] /\ at'[u] = at[u]
    BY <1>0, <1>1 DEF Create, Types, ThreadTypes, historyVars, sessionVars
  <2>2. \A s \in Sessions :
          Len(queue'[s]) - size'[s] - Here(pc'[t], at'[t], s)
            = Len(queue[s]) - size[s] - Here(pc[t], at[t], s)
    BY <1>0, <1>1 DEF Create, Here, Types, SessionTypes, ThreadTypes,
       sessionVars, queueVars, sendVars, threadVars, historyVars
  <2> QED
    BY <2>1, <2>2, SizeMove
<1>2. ASSUME NEW t \in Senders, Drop(t) PROVE SizeExact'
  <2>1. /\ t \in Threads
        /\ \A u \in Threads \ {t} : pc'[u] = pc[u] /\ at'[u] = at[u]
    BY <1>0, <1>2 DEF Drop, Types, ThreadTypes, historyVars, sessionVars
  <2>2. \A s \in Sessions :
          Len(queue'[s]) - size'[s] - Here(pc'[t], at'[t], s)
            = Len(queue[s]) - size[s] - Here(pc[t], at[t], s)
    BY <1>0, <1>2 DEF Drop, Here, Types, SessionTypes, ThreadTypes,
       sessionVars, queueVars, sendVars, threadVars, historyVars
  <2> QED
    BY <2>1, <2>2, SizeMove
<1>3. ASSUME NEW t \in Senders, Link(t) PROVE SizeExact'
  <2>1. /\ t \in Threads
        /\ \A u \in Threads \ {t} : pc'[u] = pc[u] /\ at'[u] = at[u]
    BY <1>0, <1>3 DEF Link, Types, ThreadTypes, historyVars, sessionVars
  <2>3. at[t] \in Sessions /\ Len(queue'[at[t]]) = Len(queue[at[t]]) + 1
    <3>1. PICK a \in Sessions, m \in Messages, i \in Nat : LinksAt(t, a, m, i)
      BY <1>0, <1>3, <2>1, LinkedSomewhere
    <3> QED
      BY <3>1 DEF LinksAt
  <2>4. \A s \in Sessions \ {at[t]} : queue'[s] = queue[s]
    BY <1>3 DEF Link, Types, SessionTypes
  <2>5. size' = size /\ at' = at /\ pc[t] = "Link" /\ pc'[t] = "Count"
    BY <1>3, <2>1 DEF Link, Types, ThreadTypes
  <2>6. \A s \in Sessions : Len(queue[s]) \in Nat /\ Len(queue'[s]) \in Nat /\ size[s] \in Int
    BY DEF Types, SessionTypes
  <2>2. \A s \in Sessions :
          Len(queue'[s]) - size'[s] - Here(pc'[t], at'[t], s)
            = Len(queue[s]) - size[s] - Here(pc[t], at[t], s)
    BY SMTT(20), <2>3, <2>4, <2>5, <2>6 DEF Here
  <2> QED
    BY <2>1, <2>2, SizeMove
<1>4. ASSUME NEW t \in Senders, Count(t) PROVE SizeExact'
  <2>1. /\ t \in Threads
        /\ \A u \in Threads \ {t} : pc'[u] = pc[u] /\ at'[u] = at[u]
    BY <1>0, <1>4 DEF Count, Types, ThreadTypes, historyVars, sessionVars
  <2>2. \A s \in Sessions :
          Len(queue'[s]) - size'[s] - Here(pc'[t], at'[t], s)
            = Len(queue[s]) - size[s] - Here(pc[t], at[t], s)
    BY <1>0, <1>4 DEF Count, Here, Types, SessionTypes, ThreadTypes,
       sessionVars, queueVars, sendVars, threadVars, historyVars
  <2> QED
    BY <2>1, <2>2, SizeMove
<1>5. ASSUME NEW t \in Senders, NEW s \in Sessions, Acquire(t, s) PROVE SizeExact'
  <2>1. /\ t \in Threads
        /\ \A u \in Threads \ {t} : pc'[u] = pc[u] /\ at'[u] = at[u]
    BY <1>0, <1>5 DEF Acquire, Types, ThreadTypes, historyVars, sessionVars
  <2>2. \A r \in Sessions :
          Len(queue'[r]) - size'[r] - Here(pc'[t], at'[t], r)
            = Len(queue[r]) - size[r] - Here(pc[t], at[t], r)
    BY <1>0, <1>5 DEF Acquire, Here, Types, SessionTypes, ThreadTypes,
       sessionVars, queueVars, sendVars, threadVars, historyVars
  <2> QED
    BY <2>1, <2>2, SizeMove
<1>6. ASSUME NEW t \in Workers, NEW s \in Sessions, CompleteData(t, s) PROVE SizeExact'
  <2>1. /\ t \in Threads
        /\ \A u \in Threads \ {t} : pc'[u] = pc[u] /\ at'[u] = at[u]
    BY <1>0, <1>6 DEF CompleteData, Finish, Types, ThreadTypes, historyVars, sessionVars
  <2>2. \A r \in Sessions :
          Len(queue'[r]) - size'[r] - Here(pc'[t], at'[t], r)
            = Len(queue[r]) - size[r] - Here(pc[t], at[t], r)
    BY <1>0, <1>6 DEF CompleteData, Finish, Here, Types, SessionTypes, ThreadTypes,
       sessionVars, queueVars, sendVars, threadVars, historyVars
  <2> QED
    BY <2>1, <2>2, SizeMove
<1>7. ASSUME NEW t \in Workers, NEW s \in Sessions, CompleteZero(t, s) PROVE SizeExact'
  BY <1>0, <1>7 DEF SizeExact, Uncounted, CompleteZero, Finish,
     sessionVars, queueVars, sendVars, threadVars, historyVars
<1>8. ASSUME NEW t \in Workers, Reclaim(t) PROVE SizeExact'
  <2>1. /\ t \in Threads
        /\ \A u \in Threads \ {t} : pc'[u] = pc[u] /\ at'[u] = at[u]
    BY <1>0, <1>8 DEF Reclaim, Types, ThreadTypes, historyVars, sessionVars
  <2>2. \A s \in Sessions :
          Len(queue'[s]) - size'[s] - Here(pc'[t], at'[t], s)
            = Len(queue[s]) - size[s] - Here(pc[t], at[t], s)
    BY <1>0, <1>8 DEF Reclaim, Here, Types, SessionTypes, ThreadTypes,
       sessionVars, queueVars, sendVars, threadVars, historyVars
  <2> QED
    BY <2>1, <2>2, SizeMove
<1>9. ASSUME NEW t \in Workers, Clear(t) PROVE SizeExact'
  <2>1. /\ t \in Threads
        /\ \A u \in Threads \ {t} : pc'[u] = pc[u] /\ at'[u] = at[u]
    BY <1>0, <1>9 DEF Clear, Types, ThreadTypes, historyVars, sessionVars
  <2>2. \A s \in Sessions :
          Len(queue'[s]) - size'[s] - Here(pc'[t], at'[t], s)
            = Len(queue[s]) - size[s] - Here(pc[t], at[t], s)
    BY <1>0, <1>9 DEF Clear, Here, Types, SessionTypes, ThreadTypes,
       sessionVars, queueVars, sendVars, threadVars, historyVars
  <2> QED
    BY <2>1, <2>2, SizeMove
<1>10. ASSUME NEW t \in Threads, IsEmpty(t) PROVE SizeExact'
  <2>1. /\ t \in Threads
        /\ \A u \in Threads \ {t} : pc'[u] = pc[u] /\ at'[u] = at[u]
    BY <1>0, <1>10 DEF IsEmpty, Types, ThreadTypes, historyVars, sessionVars
  <2>2. \A s \in Sessions :
          Len(queue'[s]) - size'[s] - Here(pc'[t], at'[t], s)
            = Len(queue[s]) - size[s] - Here(pc[t], at[t], s)
    BY <1>0, <1>10 DEF IsEmpty, Here, Types, SessionTypes, ThreadTypes,
       sessionVars, queueVars, sendVars, threadVars, historyVars
  <2> QED
    BY <2>1, <2>2, SizeMove
<1>11. ASSUME NEW t \in Threads, Leave(t) PROVE SizeExact'
  <2>1. /\ t \in Threads
        /\ \A u \in Threads \ {t} : pc'[u] = pc[u] /\ at'[u] = at[u]
    BY <1>0, <1>11 DEF Leave, Types, ThreadTypes, historyVars, sessionVars
  <2>2. \A s \in Sessions :
          Len(queue'[s]) - size'[s] - Here(pc'[t], at'[t], s)
            = Len(queue[s]) - size[s] - Here(pc[t], at[t], s)
    BY <1>0, <1>11 DEF Leave, Here, Types, SessionTypes, ThreadTypes,
       sessionVars, queueVars, sendVars, threadVars, historyVars
  <2> QED
    BY <2>1, <2>2, SizeMove
<1>12. ASSUME NEW t \in Threads, Exchange(t) PROVE SizeExact'
  <2>1. /\ t \in Threads
        /\ \A u \in Threads \ {t} : pc'[u] = pc[u] /\ at'[u] = at[u]
    BY <1>0, <1>12 DEF Exchange, Types, ThreadTypes, historyVars, sessionVars
  <2>2. \A s \in Sessions :
          Len(queue'[s]) - size'[s] - Here(pc'[t], at'[t], s)
            = Len(queue[s]) - size[s] - Here(pc[t], at[t], s)
    BY <1>0, <1>12 DEF Exchange, Here, Types, SessionTypes, ThreadTypes,
       sessionVars, queueVars, sendVars, threadVars, historyVars
  <2> QED
    BY <2>1, <2>2, SizeMove
<1>13. ASSUME NEW t \in Threads, Undo(t) PROVE SizeExact'
  <2>1. /\ t \in Threads
        /\ \A u \in Threads \ {t} : pc'[u] = pc[u] /\ at'[u] = at[u]
    BY <1>0, <1>13 DEF Undo, Types, ThreadTypes, historyVars, sessionVars
  <2>2. \A s \in Sessions :
          Len(queue'[s]) - size'[s] - Here(pc'[t], at'[t], s)
            = Len(queue[s]) - size[s] - Here(pc[t], at[t], s)
    BY <1>0, <1>13 DEF Undo, Here, Types, SessionTypes, ThreadTypes,
       sessionVars, queueVars, sendVars, threadVars, historyVars
  <2> QED
    BY <2>1, <2>2, SizeMove
<1>14. ASSUME NEW t \in Threads, Lower(t) PROVE SizeExact'
  <2>1. /\ t \in Threads
        /\ \A u \in Threads \ {t} : pc'[u] = pc[u] /\ at'[u] = at[u]
    BY <1>0, <1>14 DEF Lower, Types, ThreadTypes, historyVars, sessionVars
  <2>2. \A s \in Sessions :
          Len(queue'[s]) - size'[s] - Here(pc'[t], at'[t], s)
            = Len(queue[s]) - size[s] - Here(pc[t], at[t], s)
    BY <1>0, <1>14 DEF Lower, Here, Types, SessionTypes, ThreadTypes,
       sessionVars, queueVars, sendVars, threadVars, historyVars
  <2> QED
    BY <2>1, <2>2, SizeMove
<1>15. ASSUME NEW t \in Threads, Restore(t) PROVE SizeExact'
  <2>1. /\ t \in Threads
        /\ \A u \in Threads \ {t} : pc'[u] = pc[u] /\ at'[u] = at[u]
    BY <1>0, <1>15 DEF Restore, Types, ThreadTypes, historyVars, sessionVars
  <2>2. \A s \in Sessions :
          Len(queue'[s]) - size'[s] - Here(pc'[t], at'[t], s)
            = Len(queue[s]) - size[s] - Here(pc[t], at[t], s)
    BY <1>0, <1>15 DEF Restore, Here, Types, SessionTypes, ThreadTypes,
       sessionVars, queueVars, sendVars, threadVars, historyVars
  <2> QED
    BY <2>1, <2>2, SizeMove
<1>16. ASSUME NEW t \in Threads, Store(t) PROVE SizeExact'
  <2>1. /\ t \in Threads
        /\ \A u \in Threads \ {t} : pc'[u] = pc[u] /\ at'[u] = at[u]
    BY <1>0, <1>16 DEF Store, Types, ThreadTypes, historyVars, sessionVars
  <2>3. /\ at[t] \in Sessions /\ Len(queue[at[t]]) \in Nat
        /\ Len(queue'[at[t]]) = Len(queue[at[t]]) - 1
    <3>1. at[t] \in Sessions /\ queue[at[t]] # <<>>
      BY <1>0, <1>16 DEF Store, Places
    <3> QED
      BY <1>16, <3>1, HeadTailProperties DEF Store, Types, SessionTypes
  <2>2. \A s \in Sessions :
          Len(queue'[s]) - size'[s] - Here(pc'[t], at'[t], s)
            = Len(queue[s]) - size[s] - Here(pc[t], at[t], s)
    BY <1>0, <1>16, <2>3 DEF Store, Here, Types, SessionTypes, ThreadTypes,
       sessionVars, queueVars, sendVars, threadVars, historyVars
  <2> QED
    BY <2>1, <2>2, SizeMove
<1>17. ASSUME NEW t \in Threads, Post(t) PROVE SizeExact'
  <2>1. /\ t \in Threads
        /\ \A u \in Threads \ {t} : pc'[u] = pc[u] /\ at'[u] = at[u]
    BY <1>0, <1>17 DEF Post, Types, ThreadTypes, historyVars, sessionVars
  <2>2. \A s \in Sessions :
          Len(queue'[s]) - size'[s] - Here(pc'[t], at'[t], s)
            = Len(queue[s]) - size[s] - Here(pc[t], at[t], s)
    BY <1>0, <1>17 DEF Post, Here, Types, SessionTypes, ThreadTypes,
       sessionVars, queueVars, sendVars, threadVars, historyVars
  <2> QED
    BY <2>1, <2>2, SizeMove
<1>18. ASSUME NEW s \in Sessions, Cut(s) PROVE SizeExact'
  BY <1>0, <1>18 DEF SizeExact, Uncounted, Cut,
     sessionVars, queueVars, sendVars, threadVars, historyVars
<1>19. ASSUME NEW s \in Sessions, ReleaseSession(s) PROVE SizeExact'
  <2>1. UNCHANGED <<pc, at>>
    BY <1>19 DEF ReleaseSession, threadVars
  <2>2. Uncounted(s)' = {}
    BY <1>19, <2>1 DEF ReleaseSession, Inside, Uncounted
  <2>3. size'[s] = 0 /\ queue'[s] = <<>>
    BY <1>19 DEF ReleaseSession, Types, SessionTypes
  <2>4. size'[s] = Len(queue'[s]) - Cardinality(Uncounted(s)')
    BY <2>2, <2>3, FS_EmptySet
  <2>5. ASSUME NEW r \in Sessions \ {s}
        PROVE  size'[r] = Len(queue'[r]) - Cardinality(Uncounted(r)')
    BY <1>19, <2>1 DEF SizeExact, ReleaseSession, Uncounted, Types, SessionTypes
  <2> QED
    BY <2>4, <2>5 DEF SizeExact
<1>20. ASSUME NEW s \in Sessions, AcceptSession(s) PROVE SizeExact'
  BY <1>0, <1>20 DEF SizeExact, Uncounted, AcceptSession,
     sessionVars, queueVars, sendVars, threadVars, historyVars
<1>21. CASE UNCHANGED vars
  BY <1>21 DEF SizeExact, Uncounted, vars, sessionVars, queueVars, sendVars, threadVars,
     historyVars
<1> QED
  BY Steps, <1>1, <1>2, <1>3, <1>4, <1>5, <1>6, <1>7, <1>8, <1>9, <1>10, <1>11, <1>12, <1>13,
     <1>14, <1>15, <1>16, <1>17, <1>18, <1>19, <1>20, <1>21 DEF SendPost

LEMMA AttendedNext ==
    ASSUME Types, Types', Places, Ownership, SizeExact, Attended, [Next]_vars
    PROVE  Attended'
<1> USE DEF Goto, Set
<1>0. /\ NoSession \notin Sessions /\ NoMessage \notin Messages
      /\ Threads = Senders \cup Workers /\ Senders \cap Workers = {}
      /\ \A t \in Threads : pc[t] \notin {"Idle", "Call"} => at[t] \in Sessions
  BY SendAssumption DEF Threads, Places, Types, ThreadTypes
<1>1. ASSUME NEW t \in Senders, NEW m \in Messages, NEW targets \in SUBSET Sessions,
             Create(t, m, targets)
      PROVE Attended'
  BY <1>0, <1>1 DEF Attended, OwnerLabels, DrainLabels, ActiveLabels, Create, Types,
     SessionTypes, ThreadTypes, Labels,
     sessionVars, queueVars, sendVars, threadVars, historyVars
<1>2. ASSUME NEW t \in Senders, Drop(t) PROVE Attended'
  BY <1>0, <1>2 DEF Attended, OwnerLabels, DrainLabels, ActiveLabels, Drop, Types, SessionTypes,
     ThreadTypes, Labels,
     sessionVars, queueVars, sendVars, threadVars, historyVars
<1>3. ASSUME NEW t \in Senders, Link(t) PROVE Attended'
  <2>1. /\ t \in Threads
        /\ \A u \in Threads \ {t} : pc'[u] = pc[u] /\ at'[u] = at[u]
        /\ pc'[t] = "Count" /\ at'[t] = at[t] /\ pc[t] = "Link"
        /\ at[t] \in Sessions
        /\ \A s \in Sessions \ {at[t]} : queue'[s] = queue[s]
        /\ UNCHANGED <<open, sending, posted, cut, failed>>
    BY <1>0, <1>3 DEF Link, Types, SessionTypes, ThreadTypes, sessionVars, queueVars, sendVars,
       threadVars, historyVars
  <2>2. open[at[t]]
    BY <2>1 DEF Places
  <2> QED
    BY <2>1, <2>2 DEF Attended, OwnerLabels, DrainLabels, ActiveLabels
<1>4. ASSUME NEW t \in Senders, Count(t) PROVE Attended'
  BY <1>0, <1>4 DEF Attended, OwnerLabels, DrainLabels, ActiveLabels, Count, Types,
     SessionTypes, ThreadTypes, Labels,
     sessionVars, queueVars, sendVars, threadVars, historyVars
<1>5. ASSUME NEW t \in Senders, NEW s \in Sessions, Acquire(t, s) PROVE Attended'
  <2>1. /\ t \in Threads
        /\ \A u \in Threads \ {t} : pc'[u] = pc[u] /\ at'[u] = at[u]
        /\ pc'[t] \in {"Call", "Link"} /\ pc[t] = "Call"
        /\ UNCHANGED <<open, queue, sending, posted, cut, failed>>
    BY <1>0, <1>5 DEF Acquire, Types, SessionTypes, ThreadTypes, sessionVars, queueVars,
       sendVars, threadVars, historyVars
  <2> QED
    BY <2>1 DEF Attended, OwnerLabels, DrainLabels, ActiveLabels
<1>6. ASSUME NEW t \in Workers, NEW s \in Sessions, CompleteData(t, s) PROVE Attended'
  BY <1>0, <1>6 DEF Attended, OwnerLabels, DrainLabels, ActiveLabels, CompleteData, Finish,
     Types, SessionTypes, ThreadTypes, Labels,
     sessionVars, queueVars, sendVars, threadVars, historyVars
<1>7. ASSUME NEW t \in Workers, NEW s \in Sessions, CompleteZero(t, s) PROVE Attended'
  <2>1. /\ UNCHANGED <<open, queue, sending, failed, pc, at>>
        /\ posted[s] /\ cut'[s]
        /\ \A r \in Sessions \ {s} : posted'[r] = posted[r] /\ cut'[r] = cut[r]
    BY <1>7 DEF CompleteZero, Finish, Types, SessionTypes, queueVars, threadVars
  <2>2. sending[s]
    BY <2>1 DEF Ownership
  <2> QED
    BY <2>1, <2>2 DEF Attended, OwnerLabels, DrainLabels, ActiveLabels
<1>8. ASSUME NEW t \in Workers, Reclaim(t) PROVE Attended'
  BY <1>0, <1>8 DEF Attended, OwnerLabels, DrainLabels, ActiveLabels, Reclaim, Types,
     SessionTypes, ThreadTypes, Labels,
     sessionVars, queueVars, sendVars, threadVars, historyVars
<1>9. ASSUME NEW t \in Workers, Clear(t) PROVE Attended'
  BY <1>0, <1>9 DEF Attended, OwnerLabels, DrainLabels, ActiveLabels, Clear, Types,
     SessionTypes, ThreadTypes, Labels,
     sessionVars, queueVars, sendVars, threadVars, historyVars
<1>10. ASSUME NEW t \in Threads, IsEmpty(t) PROVE Attended'
  <2>1. /\ t \in Threads
        /\ \A u \in Threads \ {t} : pc'[u] = pc[u] /\ at'[u] = at[u]
        /\ pc[t] = "IsEmpty" /\ pc'[t] \in {"Leave", "Exchange"} /\ at[t] \in Sessions
        /\ at'[t] = at[t]
        /\ UNCHANGED <<open, queue, sending, posted, cut, failed>>
    BY <1>0, <1>10 DEF IsEmpty, Types, SessionTypes, ThreadTypes, sessionVars, queueVars,
       sendVars, threadVars, historyVars
  <2>2. pc'[t] = "Leave" /\ queue[at[t]] # <<>> =>
           \E u \in Threads \ {t} : at[u] = at[t] /\ pc[u] \in ActiveLabels
    <3> SUFFICES ASSUME pc'[t] = "Leave", queue[at[t]] # <<>>
                 PROVE  \E u \in Threads \ {t} : at[u] = at[t] /\ pc[u] \in ActiveLabels
      OBVIOUS
    <3>1. size[at[t]] <= 0
      BY <1>10, <2>1 DEF IsEmpty, Types, ThreadTypes
    <3>2. size[at[t]] = Len(queue[at[t]]) - Cardinality(Uncounted(at[t]))
      BY <2>1 DEF SizeExact
    <3>3. Len(queue[at[t]]) \in Nat /\ Len(queue[at[t]]) # 0
      BY <2>1, EmptySeq DEF Types, SessionTypes
    <3>4. Uncounted(at[t]) # {}
      <4>1. Cardinality(Uncounted(at[t])) \in Nat
        BY UncountedFinite, FS_CardinalityType
      <4>2. Cardinality(Uncounted(at[t])) # 0
        BY <3>1, <3>2, <3>3, <4>1
      <4> QED
        BY <4>2, FS_EmptySet
    <3> QED
      BY <2>1, <3>4 DEF Uncounted, ActiveLabels
  <2> QED
    BY <2>1, <2>2 DEF Attended, OwnerLabels, DrainLabels, ActiveLabels
<1>11. ASSUME NEW t \in Threads, Leave(t) PROVE Attended'
  BY <1>0, <1>11 DEF Attended, OwnerLabels, DrainLabels, ActiveLabels, Leave, Types,
     SessionTypes, ThreadTypes, Labels,
     sessionVars, queueVars, sendVars, threadVars, historyVars
<1>12. ASSUME NEW t \in Threads, Exchange(t) PROVE Attended'
  <2>1. /\ t \in Threads
        /\ \A u \in Threads \ {t} : pc'[u] = pc[u] /\ at'[u] = at[u]
        /\ pc[t] = "Exchange" /\ at[t] \in Sessions /\ at'[t] = at[t]
        /\ \A s \in Sessions \ {at[t]} : sending'[s] = sending[s]
        /\ sending'[at[t]]
        /\ UNCHANGED <<open, queue, posted, cut, failed>>
    BY <1>0, <1>12 DEF Exchange, Types, SessionTypes, ThreadTypes, sessionVars, queueVars,
       sendVars, threadVars, historyVars
  <2>2. \/ sending[at[t]] /\ pc'[t] = "Leave"
        \/ pc'[t] = "Take"
    BY <1>12, <2>1 DEF Exchange, Types, ThreadTypes
  <2>3. CASE pc'[t] = "Take"
    BY <2>1, <2>3 DEF Attended, OwnerLabels, DrainLabels, ActiveLabels
  <2>4. CASE sending[at[t]] /\ pc'[t] = "Leave"
    <3>1. \/ posted[at[t]] \/ cut[at[t]] \/ failed[at[t]]
          \/ \E u \in Threads \ {t} : at[u] = at[t] /\ pc[u] \in ActiveLabels
      BY <2>1, <2>4 DEF Places, Attended, OwnerLabels, DrainLabels, ActiveLabels
    <3>2. \/ posted[at[t]] \/ cut[at[t]]
          \/ \E u \in Threads \ {t} : at[u] = at[t] /\ pc[u] \in OwnerLabels
      BY <2>1, <2>4 DEF Places, Attended, OwnerLabels, DrainLabels, ActiveLabels
    <3> QED
      BY <2>1, <2>4, <3>1, <3>2 DEF Attended, OwnerLabels, DrainLabels
  <2> QED
    BY <2>2, <2>3, <2>4
<1>13. ASSUME NEW t \in Threads, Undo(t) PROVE Attended'
  <2>1. /\ t \in Threads
        /\ \A u \in Threads \ {t} : pc'[u] = pc[u] /\ at'[u] = at[u]
        /\ pc[t] = "Undo" /\ at[t] \in Sessions /\ at'[t] = at[t]
        /\ \A s \in Sessions \ {at[t]} : sending'[s] = sending[s]
        /\ ~ sending'[at[t]]
        /\ UNCHANGED <<open, queue, posted, cut, failed>>
    BY <1>0, <1>13 DEF Undo, Types, SessionTypes, ThreadTypes, sessionVars, queueVars, sendVars,
       threadVars, historyVars
  <2>2. failed[at[t]]
    BY <2>1 DEF Places
  <2> QED
    BY <2>1, <2>2 DEF Attended, OwnerLabels, DrainLabels, ActiveLabels
<1>14. ASSUME NEW t \in Threads, Lower(t) PROVE Attended'
  BY <1>0, <1>14 DEF Attended, OwnerLabels, DrainLabels, ActiveLabels, Lower, Types,
     SessionTypes, ThreadTypes, Labels,
     sessionVars, queueVars, sendVars, threadVars, historyVars
<1>15. ASSUME NEW t \in Threads, Restore(t) PROVE Attended'
  BY <1>0, <1>15 DEF Attended, OwnerLabels, DrainLabels, ActiveLabels, Restore, Types,
     SessionTypes, ThreadTypes, Labels,
     sessionVars, queueVars, sendVars, threadVars, historyVars
<1>16. ASSUME NEW t \in Threads, Store(t) PROVE Attended'
  BY <1>0, <1>16 DEF Attended, OwnerLabels, DrainLabels, ActiveLabels, Store, Types,
     SessionTypes, ThreadTypes, Labels,
     sessionVars, queueVars, sendVars, threadVars, historyVars
<1>17. ASSUME NEW t \in Threads, Post(t) PROVE Attended'
  <2>1. /\ t \in Threads
        /\ \A u \in Threads \ {t} : pc'[u] = pc[u] /\ at'[u] = at[u]
        /\ pc[t] = "Post" /\ at[t] \in Sessions /\ at'[t] = at[t]
        /\ UNCHANGED <<open, queue, sending, cut>>
    BY <1>0, <1>17 DEF Post, Types, SessionTypes, ThreadTypes, sessionVars, queueVars, sendVars,
       threadVars, historyVars
  <2>2. /\ \A s \in Sessions \ {at[t]} : posted'[s] = posted[s] /\ failed'[s] = failed[s]
        /\ failed[at[t]] => failed'[at[t]]
        /\ posted[at[t]] => posted'[at[t]]
    BY <1>17, <2>1 DEF Post, Types, SessionTypes
  <2>3. posted'[at[t]] \/ (failed'[at[t]] /\ pc'[t] = "Undo")
    BY <1>17, <2>1 DEF Post, Types, SessionTypes, ThreadTypes
  <2> QED
    BY <2>1, <2>2, <2>3 DEF Attended, OwnerLabels, DrainLabels, ActiveLabels
<1>18. ASSUME NEW s \in Sessions, Cut(s) PROVE Attended'
  BY <1>0, <1>18 DEF Attended, OwnerLabels, DrainLabels, ActiveLabels, Cut, Types, SessionTypes,
     ThreadTypes, Labels,
     sessionVars, queueVars, sendVars, threadVars, historyVars
<1>19. ASSUME NEW s \in Sessions, ReleaseSession(s) PROVE Attended'
  BY <1>0, <1>19 DEF Attended, OwnerLabels, DrainLabels, ActiveLabels, ReleaseSession, Inside,
     Types, SessionTypes, ThreadTypes, Labels,
     sessionVars, queueVars, sendVars, threadVars, historyVars
<1>20. ASSUME NEW s \in Sessions, AcceptSession(s) PROVE Attended'
  BY <1>0, <1>20 DEF Attended, OwnerLabels, DrainLabels, ActiveLabels, AcceptSession, Types,
     SessionTypes, ThreadTypes, Labels,
     sessionVars, queueVars, sendVars, threadVars, historyVars
<1>21. CASE UNCHANGED vars
  BY <1>21 DEF Attended, OwnerLabels, DrainLabels, ActiveLabels, vars, sessionVars, queueVars,
     sendVars, threadVars, historyVars
<1> QED
  BY Steps, <1>1, <1>2, <1>3, <1>4, <1>5, <1>6, <1>7, <1>8, <1>9, <1>10, <1>11, <1>12, <1>13,
     <1>14, <1>15, <1>16, <1>17, <1>18, <1>19, <1>20, <1>21 DEF SendPost

LEMMA InitIInv == Init => IInv
<1> SUFFICES ASSUME Init PROVE IInv
  OBVIOUS
<1>0. NoSession \notin Sessions /\ NoMessage \notin Messages
  BY SendAssumption
<1>1. SessionTypes
  BY DEF Init, SessionTypes
<1>2. ThreadTypes
  BY DEF Init, ThreadTypes, Labels
<1>3. Places
  BY <1>0 DEF Init, Places
<1>4. Ownership
  BY DEF Init, Ownership, OwnerLabels, DrainLabels
<1>5. SizeExact
  <2> SUFFICES ASSUME NEW s \in Sessions
               PROVE  size[s] = Len(queue[s]) - Cardinality(Uncounted(s))
    BY DEF SizeExact
  <2>1. Uncounted(s) = {}
    BY DEF Init, Uncounted
  <2>2. size[s] = 0 /\ queue[s] = <<>>
    BY DEF Init
  <2> QED
    BY <2>1, <2>2, FS_EmptySet
<1>6. Attended
  BY DEF Init, Attended
<1> QED
  BY <1>1, <1>2, <1>3, <1>4, <1>5, <1>6 DEF IInv, Types

LEMMA NextIInv == IInv /\ [Next]_vars => IInv'
<1> SUFFICES ASSUME IInv, [Next]_vars PROVE IInv'
  OBVIOUS
<1>1. Types'
  BY TypesNext DEF IInv
<1>2. Places'
  BY <1>1, PlacesNext DEF IInv
<1>3. Ownership' /\ SizeExact' /\ Attended'
  BY <1>1, OwnershipNext, SizeExactNext, AttendedNext DEF IInv
<1> QED
  BY <1>1, <1>2, <1>3 DEF IInv

LEMMA Invariant == Spec => []IInv
BY InitIInv, NextIInv, PTL DEF Spec

\* SentMessages, NumSent and SendOverlapped have one user at a time: the thread
\* whose exchange found bIsSending clear, then the WSASend it posts, then the
\* worker that takes its completion; and what the send was given stays in place.
THEOREM SingleSender == Spec => []OneSend
<1>1. ASSUME IInv, NEW s \in Sessions
      PROVE  /\ Cardinality(Owners(s)) + (IF posted[s] THEN 1 ELSE 0) <= 1
             /\ Owners(s) # {} \/ posted[s] => sending[s] /\ open[s]
             /\ posted[s] => buffers[s] = Owned(s)
  <2>1. \A t \in Owners(s) : t \in Threads /\ at[t] = s /\ pc[t] \in OwnerLabels
    BY DEF Owners, Inside
  <2>2. \A t \in Owners(s) : sending[s] /\ ~ posted[s] /\ open[s]
    BY <1>1, <2>1 DEF IInv, Ownership, Places
  <2>3. Cardinality(Owners(s)) <= 1 /\ Cardinality(Owners(s)) \in Nat
    <3>1. CASE Owners(s) = {}
      BY <3>1, FS_EmptySet
    <3>2. CASE Owners(s) # {}
      <4>1. PICK t \in Owners(s) : TRUE
        BY <3>2
      <4>2. Owners(s) = {t}
        BY <1>1, <2>1, <4>1 DEF IInv, Ownership
      <4>3. Cardinality({t}) = 1
        BY FS_Singleton
      <4> QED
        BY <4>2, <4>3
    <3> QED
      BY <3>1, <3>2
  <2>4. posted[s] => Owners(s) = {}
    BY <2>2
  <2>5. Cardinality(Owners(s)) + (IF posted[s] THEN 1 ELSE 0) <= 1
    BY <2>3, <2>4, FS_EmptySet
  <2> QED
    BY <1>1, <2>2, <2>5 DEF IInv, Ownership
<1>2. IInv => OneSend
  BY <1>1 DEF OneSend
<1> QED
  BY Invariant, <1>2, PTL

\* Nobody leaves a message behind: whoever finds the queue empty, or bIsSending
\* set, leaves somebody in the session who will look again, or a send that failed
\* or completed with no bytes.
THEOREM NobodyStranded == Spec => []NoneStranded
<1>1. IInv => NoneStranded
  BY DEF IInv, Attended, NoneStranded, Inside
<1> QED
  BY Invariant, <1>1, PTL


--------------------------------------------------------------------------------
(* References of messages.                                                 *)

\* The places of SentMessages whose messages the session must still release:
\* what was drained so far, or what the last send has left to be reclaimed.
Holds(s, i) ==
    /\ open[s]
    /\ \/ \E t \in Threads : at[t] = s /\ pc[t] \in DrainLabels /\ i \in 1 .. n[t]
       \/ /\ \A t \in Threads : at[t] = s =>
                pc[t] \notin DrainLabels /\ (pc[t] = "Reclaim" => n[t] < i)
          /\ i \in 1 .. numSent[s]

\* the messages of a session
InArray(s, m) == \E i \in Nat : Holds(s, i) /\ sent[s][i] = m
InQueue(s, m) == \E j \in 1 .. Len(queue[s]) : queue[s][j] = m
Contents(s) == {m \in Messages : InArray(s, m) \/ InQueue(s, m)}

\* No message is twice in a session.
Distinct ==
    \A s \in Sessions :
        /\ \A i \in Nat : Holds(s, i) => i \in Indexes /\ sent[s][i] \in Messages
        /\ \A i, j \in Nat :
              Holds(s, i) /\ Holds(s, j) /\ sent[s][i] = sent[s][j] => i = j
        /\ \A i, j \in 1 .. Len(queue[s]) : queue[s][i] = queue[s][j] => i = j
        /\ \A i \in Nat, j \in 1 .. Len(queue[s]) :
              Holds(s, i) => sent[s][i] # queue[s][j]

\* A message has one creator, who has not sent it yet where it still is to go.
Fresh ==
    \A t \in Senders : msg[t] # NoMessage =>
        /\ \A u \in Senders : msg[u] = msg[t] => u = t
        /\ \A s \in todo[t] : msg[t] \notin Contents(s)
        /\ pc[t] = "Link" => msg[t] \notin Contents(at[t]) /\ at[t] \notin todo[t]

\* the references a message should have
Creators(m) == {t \in Senders : msg[t] = m}
Linkers(m) == {t \in Senders : msg[t] = m /\ pc[t] = "Link"}
Keepers(m) == {s \in Sessions : m \in Contents(s)}
References(m) ==
    Cardinality(Creators(m)) + Cardinality(Linkers(m)) + Cardinality(Keepers(m))

Counted ==
    /\ refs \in [Messages -> Int]
    /\ \A m \in Messages :
          /\ refs[m] >= References(m)
          /\ m \notin lost => refs[m] = References(m)

\* What NumSent still shows of a send that failed at once is lost.
Forgotten ==
    \A s \in Sessions :
        \/ open[s] /\ ~ sending[s]
        \/ \E t \in Threads : pc[t] = "Undo" /\ at[t] = s
        => \A i \in 1 .. numSent[s] : sent[s][i] \in lost

RInv == IInv /\ Distinct /\ Fresh /\ Counted /\ Forgotten

--------------------------------------------------------------------------------
\* a step of thread t
Moves(t) == \A u \in Threads \ {t} :
    pc'[u] = pc[u] /\ at'[u] = at[u] /\ n'[u] = n[u]
Held == \A s \in Sessions, i \in Nat : Holds(s, i)' <=> Holds(s, i)

\* Outside of the draining and reclaiming, and within the draining.
LEMMA HeldOutside ==
    ASSUME NEW t \in Threads, Moves(t), UNCHANGED <<open, numSent>>,
           pc[t] \notin DrainLabels \cup {"Reclaim"},
           pc'[t] \notin DrainLabels \cup {"Reclaim"}
    PROVE  Held
BY DEF Held, Holds, Moves

LEMMA HeldWithin ==
    ASSUME NEW t \in Threads, Moves(t), UNCHANGED <<open, numSent>>,
           at'[t] = at[t], n'[t] = n[t],
           pc[t] \in DrainLabels, pc'[t] \in DrainLabels
    PROVE  Held
BY DEF Held, Holds, Moves, DrainLabels

\* Post hands the drained messages over to NumSent.
LEMMA HeldPost ==
    ASSUME IInv, NEW t \in Threads, Moves(t), UNCHANGED open,
           pc[t] = "Post", pc'[t] \in {"Leave", "Undo"},
           at'[t] = at[t], n'[t] = n[t], at[t] \in Sessions,
           numSent'[at[t]] = n[t],
           \A s \in Sessions \ {at[t]} : numSent'[s] = numSent[s]
    PROVE  Held
<1>1. \A u \in Threads \ {t} : at[u] = at[t] => pc[u] \notin OwnerLabels
  BY DEF IInv, Ownership, OwnerLabels, DrainLabels
<1>2. ASSUME NEW i \in Nat PROVE Holds(at[t], i)' <=> Holds(at[t], i)
  <2>1. Holds(at[t], i) <=> open[at[t]] /\ i \in 1 .. n[t]
    BY <1>1 DEF Holds, OwnerLabels, DrainLabels
  <2>2. Holds(at[t], i)' <=> open[at[t]] /\ i \in 1 .. n[t]
    BY <1>1 DEF Holds, OwnerLabels, DrainLabels, Moves
  <2> QED
    BY <2>1, <2>2
<1>3. ASSUME NEW s \in Sessions \ {at[t]}, NEW i \in Nat PROVE Holds(s, i)' <=> Holds(s, i)
  BY DEF Holds, Moves
<1> QED
  BY <1>2, <1>3 DEF Held

\* A worker takes the completion of a send.
LEMMA HeldComplete ==
    ASSUME IInv, NEW t \in Threads, Moves(t), UNCHANGED <<open, numSent>>,
           pc[t] = "Idle", pc'[t] = "Reclaim", n'[t] = 0,
           posted[at'[t]], at'[t] \in Sessions
    PROVE  Held
<1>1. \A u \in Threads : at[u] = at'[t] => pc[u] \notin OwnerLabels
  BY DEF IInv, Ownership
<1>2. at[t] = NoSession /\ NoSession \notin Sessions
  BY SendAssumption DEF IInv, Places
<1>3. ASSUME NEW s \in Sessions, NEW i \in Nat PROVE Holds(s, i)' <=> Holds(s, i)
  BY <1>1, <1>2 DEF Holds, OwnerLabels, DrainLabels, Moves
<1> QED
  BY <1>3 DEF Held

\* Everything is reclaimed.
LEMMA HeldClear ==
    ASSUME IInv, NEW t \in Threads, Moves(t), UNCHANGED open,
           pc[t] = "Reclaim", pc'[t] = "IsEmpty", at'[t] = at[t], at[t] \in Sessions,
           n[t] = numSent[at[t]], numSent'[at[t]] = 0,
           \A s \in Sessions \ {at[t]} : numSent'[s] = numSent[s]
    PROVE  Held
<1>1. \A u \in Threads \ {t} : at[u] = at[t] => pc[u] \notin OwnerLabels
  BY DEF IInv, Ownership, OwnerLabels, DrainLabels
<1>2. ASSUME NEW i \in Nat PROVE ~ Holds(at[t], i)' /\ ~ Holds(at[t], i)
  <2>1. \A u \in Threads : at[u] = at[t] => pc[u] \notin DrainLabels
    BY <1>1 DEF OwnerLabels, DrainLabels
  <2>2. \A u \in Threads : at'[u] = at[t] => pc'[u] \notin DrainLabels
    BY <2>1 DEF Moves, DrainLabels
  <2>3. numSent[at[t]] \in Nat
    BY DEF IInv, Types, SessionTypes
  <2>4. ~ Holds(at[t], i)
    BY <2>1, <2>3 DEF Holds
  <2>5. i \notin 1 .. numSent'[at[t]]
    OBVIOUS
  <2> QED
    BY <2>2, <2>4, <2>5 DEF Holds
<1>3. ASSUME NEW s \in Sessions \ {at[t]}, NEW i \in Nat PROVE Holds(s, i)' <=> Holds(s, i)
  BY DEF Holds, Moves, DrainLabels
<1> QED
  BY <1>2, <1>3 DEF Held

\* What the session's owner holds, and what a session without one holds.
LEMMA HeldByDrainer ==
    ASSUME IInv, NEW t \in Threads, pc[t] \in DrainLabels, NEW i \in Nat
    PROVE  Holds(at[t], i) <=> i \in 1 .. n[t]
<1>1. at[t] \in Sessions /\ open[at[t]]
  BY DEF IInv, Places, Types, ThreadTypes, DrainLabels
<1>2. \A u \in Threads : at[u] = at[t] /\ pc[u] \in OwnerLabels => u = t
  BY DEF IInv, Ownership, OwnerLabels
<1> QED
  BY <1>1, <1>2 DEF Holds, OwnerLabels

LEMMA HeldByReclaimer ==
    ASSUME IInv, NEW t \in Threads, pc[t] = "Reclaim", NEW i \in Nat
    PROVE  Holds(at[t], i) <=> i \in n[t] + 1 .. numSent[at[t]]
<1>1. at[t] \in Sessions /\ open[at[t]]
  BY DEF IInv, Places, Types, ThreadTypes
<1>2. \A u \in Threads : at[u] = at[t] /\ pc[u] \in OwnerLabels => u = t
  BY DEF IInv, Ownership, OwnerLabels
<1>3. n[t] \in Nat /\ numSent[at[t]] \in Nat
  BY <1>1 DEF IInv, Types, SessionTypes, ThreadTypes
<1> QED
  BY <1>1, <1>2, <1>3 DEF Holds, OwnerLabels, DrainLabels

LEMMA HeldByNobody ==
    ASSUME NEW s \in Sessions, NEW i \in Nat,
           \A t \in Threads : at[t] = s => pc[t] \notin DrainLabels \cup {"Reclaim"}
    PROVE  Holds(s, i) <=> open[s] /\ i \in 1 .. numSent[s]
BY DEF Holds


LEMMA QueueType == ASSUME IInv, NEW s \in Sessions PROVE queue[s] \in Seq(Messages)
BY DEF IInv, Types, SessionTypes

\* What only loses messages has none twice.
LEMMA DistinctShrink ==
    ASSUME Distinct,
           \A s \in Sessions, i \in Nat :
              Holds(s, i)' => Holds(s, i) /\ sent'[s][i] = sent[s][i],
           \A s \in Sessions : queue'[s] = queue[s] \/ queue'[s] = <<>>
    PROVE  Distinct' /\ \A s \in Sessions : Contents(s)' \subseteq Contents(s)
<1>1. \A s \in Sessions : \A j \in 1 .. Len(queue'[s]) :
         j \in 1 .. Len(queue[s]) /\ queue'[s][j] = queue[s][j]
  <2> SUFFICES ASSUME NEW s \in Sessions, NEW j \in 1 .. Len(queue'[s])
               PROVE  j \in 1 .. Len(queue[s]) /\ queue'[s][j] = queue[s][j]
    OBVIOUS
  <2>1. queue'[s] # <<>>
    <3> SUFFICES ASSUME queue'[s] = <<>> PROVE FALSE
      OBVIOUS
    <3>1. Len(queue'[s]) = 0
      BY Zenon, EmptySeq
    <3> QED
      BY <3>1
  <2> QED
    BY <2>1
<1>2. \A s \in Sessions : \A m : InQueue(s, m)' => InQueue(s, m)
  BY <1>1 DEF InQueue
<1>3. \A s \in Sessions : \A m : InArray(s, m)' => InArray(s, m)
  BY DEF InArray
<1>4. \A s \in Sessions : Contents(s)' \subseteq Contents(s)
  BY <1>2, <1>3 DEF Contents
<1>5. Distinct'
  <2> SUFFICES ASSUME NEW s \in Sessions
               PROVE  /\ \A i \in Nat : Holds(s, i)' => i \in Indexes /\ sent'[s][i] \in Messages
                      /\ \A i, j \in Nat :
                            Holds(s, i)' /\ Holds(s, j)' /\ sent'[s][i] = sent'[s][j] => i = j
                      /\ \A i, j \in 1 .. Len(queue'[s]) :
                            queue'[s][i] = queue'[s][j] => i = j
                      /\ \A i \in Nat, j \in 1 .. Len(queue'[s]) :
                            Holds(s, i)' => sent'[s][i] # queue'[s][j]
    BY DEF Distinct, Indexes
  <2>1. \A i \in Nat : Holds(s, i)' => i \in Indexes /\ sent'[s][i] \in Messages
    BY DEF Distinct
  <2>2. \A i, j \in Nat :
           Holds(s, i)' /\ Holds(s, j)' /\ sent'[s][i] = sent'[s][j] => i = j
    BY DEF Distinct
  <2>3. \A i, j \in 1 .. Len(queue'[s]) : queue'[s][i] = queue'[s][j] => i = j
    BY <1>1 DEF Distinct
  <2>4. \A i \in Nat, j \in 1 .. Len(queue'[s]) : Holds(s, i)' => sent'[s][i] # queue'[s][j]
    BY <1>1 DEF Distinct
  <2> QED
    BY <2>1, <2>2, <2>3, <2>4
<1> QED
  BY <1>4, <1>5

LEMMA ContentsKept ==
    ASSUME Held, UNCHANGED <<queue, sent>>
    PROVE  \A s \in Sessions : Contents(s)' = Contents(s)
<1>1. \A s \in Sessions : \A m : InQueue(s, m)' <=> InQueue(s, m)
  BY DEF InQueue
<1>2. \A s \in Sessions : \A m : InArray(s, m)' <=> InArray(s, m)
  BY DEF InArray, Held
<1> QED
  BY <1>1, <1>2 DEF Contents

\* A message that was in no place of the session is linked.
LEMMA DistinctLink ==
    ASSUME IInv, Distinct, Held, sent' = sent, NEW a \in Sessions, NEW m \in Messages,
           NEW i \in Nat, i \in 1 .. Len(queue[a]) + 1,
           Len(queue'[a]) = Len(queue[a]) + 1,
           \A j \in 1 .. Len(queue[a]) + 1 :
              queue'[a][j] = IF j < i THEN queue[a][j] ELSE IF j = i THEN m ELSE queue[a][j - 1],
           m \notin Contents(a),
           \A s \in Sessions \ {a} : queue'[s] = queue[s]
    PROVE  /\ Distinct'
           /\ Contents(a)' = Contents(a) \cup {m}
           /\ \A s \in Sessions \ {a} : Contents(s)' = Contents(s)
<1> DEFINE k == Len(queue[a])
           Old(j) == IF j < i THEN j ELSE j - 1
           New(j) == IF j < i THEN j ELSE j + 1
<1>1. k \in Nat /\ i \in 1 .. k + 1 /\ Len(queue'[a]) = k + 1 /\ queue'[a][i] = m
  BY QueueType
<1>2. ~ InQueue(a, m) /\ ~ InArray(a, m)
  BY DEF Contents
<1>10. \A j \in 1 .. k + 1 :
         queue'[a][j] = IF j < i THEN queue[a][j] ELSE IF j = i THEN m ELSE queue[a][j - 1]
  OBVIOUS
<1> HIDE DEF k
<1>3. \A j \in 1 .. k + 1 : j # i => Old(j) \in 1 .. k /\ queue'[a][j] = queue[a][Old(j)]
  BY <1>1, <1>10
<1>4. \A j \in 1 .. k : New(j) \in 1 .. k + 1 /\ queue'[a][New(j)] = queue[a][j]
  <2> TAKE j \in 1 .. k
  <2>1. CASE j < i
    BY <1>1, <1>10, <2>1
  <2>2. CASE ~ (j < i)
    <3>1. j + 1 \in 1 .. k + 1 /\ ~ (j + 1 < i) /\ j + 1 # i /\ j + 1 - 1 = j
      BY <1>1, <2>2
    <3> QED
      BY <1>10, <2>2, <3>1
  <2> QED
    BY <2>1, <2>2
<1>11. \A j, l \in 1 .. k + 1 : j # i /\ l # i /\ Old(j) = Old(l) => j = l
  BY <1>1
<1> HIDE DEF Old, New
<1>5. \A x : InQueue(a, x)' <=> InQueue(a, x) \/ x = m
  <2> TAKE x
  <2>1. InQueue(a, x)' <=> \E j \in 1 .. k + 1 : queue'[a][j] = x
    BY <1>1 DEF InQueue
  <2>2. InQueue(a, x) <=> \E j \in 1 .. k : queue[a][j] = x
    BY DEF InQueue, k
  <2> QED
    BY <1>1, <1>3, <1>4, <2>1, <2>2
<1>6. \A s \in Sessions : \A x : InArray(s, x)' <=> InArray(s, x)
  BY DEF InArray, Held
<1>7. Contents(a)' = Contents(a) \cup {m}
  BY <1>5, <1>6 DEF Contents
<1>8. ASSUME NEW s \in Sessions \ {a} PROVE Contents(s)' = Contents(s)
  BY <1>6 DEF Contents, InQueue
<1>9. Distinct'
  <2> SUFFICES ASSUME NEW s \in Sessions
               PROVE  /\ \A l \in Nat : Holds(s, l)' => l \in Indexes /\ sent'[s][l] \in Messages
                      /\ \A l, j \in Nat :
                            Holds(s, l)' /\ Holds(s, j)' /\ sent'[s][l] = sent'[s][j] => l = j
                      /\ \A l, j \in 1 .. Len(queue'[s]) :
                            queue'[s][l] = queue'[s][j] => l = j
                      /\ \A l \in Nat, j \in 1 .. Len(queue'[s]) :
                            Holds(s, l)' => sent'[s][l] # queue'[s][j]
    BY DEF Distinct, Indexes
  <2>1. \A l \in Nat : Holds(s, l)' => l \in Indexes /\ sent'[s][l] \in Messages
    BY DEF Distinct, Held
  <2>2. \A l, j \in Nat :
           Holds(s, l)' /\ Holds(s, j)' /\ sent'[s][l] = sent'[s][j] => l = j
    BY DEF Distinct, Held
  <2>3. \A l, j \in 1 .. Len(queue'[s]) : queue'[s][l] = queue'[s][j] => l = j
    <3>1. CASE s = a
      <4>1. \A j \in 1 .. k : queue[a][j] # m
        BY <1>2 DEF InQueue, k
      <4>2. \A l, j \in 1 .. k : queue[a][l] = queue[a][j] => l = j
        BY DEF Distinct, k
      <4>3. ASSUME NEW l \in 1 .. k + 1, NEW j \in 1 .. k + 1, queue'[a][l] = queue'[a][j]
            PROVE  l = j
        <5>1. CASE l # i /\ j # i
          <6>1. /\ Old(l) \in 1 .. k /\ queue'[a][l] = queue[a][Old(l)]
                /\ Old(j) \in 1 .. k /\ queue'[a][j] = queue[a][Old(j)]
            BY <1>3, <5>1
          <6>2. Old(l) = Old(j)
            BY <4>2, <4>3, <6>1
          <6> QED
            BY <1>11, <5>1, <6>2
        <5>2. CASE l = i /\ j # i
          BY <1>1, <1>3, <4>1, <4>3, <5>2
        <5>3. CASE l # i /\ j = i
          BY <1>1, <1>3, <4>1, <4>3, <5>3
        <5> QED
          BY <5>1, <5>2, <5>3
      <4> QED
        BY <1>1, <3>1, <4>3
    <3>2. CASE s # a
      BY <3>2 DEF Distinct
    <3> QED
      BY <3>1, <3>2
  <2>4. \A l \in Nat, j \in 1 .. Len(queue'[s]) : Holds(s, l)' => sent'[s][l] # queue'[s][j]
    <3>1. CASE s = a
      <4>1. \A l \in Nat : Holds(a, l) => sent[a][l] # m
        BY <1>2 DEF InArray
      <4>2. \A l \in Nat, j \in 1 .. k : Holds(a, l) => sent[a][l] # queue[a][j]
        BY DEF Distinct, k
      <4>3. \A l \in Nat, j \in 1 .. k + 1 : Holds(a, l) => sent[a][l] # queue'[a][j]
        BY <1>1, <1>3, <4>1, <4>2
      <4> QED
        BY <1>1, <3>1, <4>3 DEF Held
    <3>2. CASE s # a
      BY <3>2 DEF Distinct, Held
    <3> QED
      BY <3>1, <3>2
  <2> QED
    BY <2>1, <2>2, <2>3, <2>4
<1> QED
  BY <1>7, <1>8, <1>9


\* SentMessages has room: what is drained is as many different messages.
LEMMA RoomToStore ==
    ASSUME IInv, Distinct, NEW t \in Threads, pc[t] = "Store"
    PROVE  n[t] + 1 \in Indexes
<1> DEFINE a == at[t]
           k == n[t]
           h == Head(queue[a])
           f == [i \in 1 .. k + 1 |-> IF i \in 1 .. k THEN sent[a][i] ELSE h]
<1>1. a \in Sessions /\ k \in Nat /\ queue[a] \in Seq(Messages) /\ queue[a] # <<>>
  BY QueueType DEF IInv, Places, Types, ThreadTypes
<1>2. h = queue[a][1] /\ 1 \in 1 .. Len(queue[a]) /\ h \in Messages
  BY <1>1, HeadTailProperties
<1>3. \A i \in 1 .. k : Holds(a, i)
  BY HeldByDrainer DEF DrainLabels
<1>4. /\ \A i \in 1 .. k : sent[a][i] \in Messages /\ sent[a][i] # h
      /\ \A i, j \in 1 .. k : sent[a][i] = sent[a][j] => i = j
  BY <1>1, <1>2, <1>3 DEF Distinct
<1> HIDE DEF a, k, h
<1>5. f \in [1 .. k + 1 -> Messages] /\ \A i \in 1 .. k : f[i] = sent[a][i]
  BY <1>1, <1>2, <1>4
<1>6. f[k + 1] = h
  BY <1>1
<1>7. \A i \in 1 .. k + 1 : i \in 1 .. k \/ i = k + 1
  BY <1>1
<1> HIDE DEF f
<1>8. \A i, j \in 1 .. k + 1 : f[i] = f[j] => i = j
  BY <1>4, <1>5, <1>6, <1>7
<1>9. f \in Injection(1 .. k + 1, Messages)
  BY <1>5, <1>8 DEF Injection, IsInjective
<1>10. /\ IsFiniteSet(1 .. k + 1) /\ Cardinality(1 .. k + 1) = k + 1
  BY <1>1, FS_Interval
<1>11. IsFiniteSet(Messages) /\ Cardinality(Messages) \in Nat
  BY SendAssumption, FS_CardinalityType
<1>12. k + 1 <= Cardinality(Messages)
  BY <1>9, <1>10, <1>11, FS_Injection
<1> QED
  BY <1>1, <1>11, <1>12 DEF Indexes, k

\* A message moves from the queue to SentMessages.
LEMMA DistinctStore ==
    ASSUME IInv, IInv', Distinct, NEW t \in Threads, Store(t), NEW a \in Sessions, a = at[t]
    PROVE  Distinct' /\ \A s \in Sessions : Contents(s)' = Contents(s)
<1> DEFINE k == n[t]
           h == Head(queue[a])
           z == Len(queue[a])
<1>1. a \in Sessions /\ k \in Nat /\ queue[a] \in Seq(Messages) /\ queue[a] # <<>>
  BY QueueType DEF IInv, Places, Types, ThreadTypes, Store
<1>2. /\ z \in Nat /\ z >= 1 /\ h = queue[a][1] /\ h \in Messages
      /\ Len(Tail(queue[a])) = z - 1
      /\ \A j \in 1 .. z - 1 : Tail(queue[a])[j] = queue[a][j + 1]
  BY <1>1, HeadTailProperties
<1>3. k + 1 \in Indexes
  BY RoomToStore DEF Store
<1>4. /\ sent[a] \in [Indexes -> Messages \cup {NoMessage}]
      /\ sent'[a] = [sent[a] EXCEPT ![k + 1] = h]
      /\ queue'[a] = Tail(queue[a])
      /\ \A s \in Sessions \ {a} : sent'[s] = sent[s] /\ queue'[s] = queue[s]
  BY <1>1 DEF Store, IInv, Types, SessionTypes
<1>5. sent'[a][k + 1] = h /\ \A i \in 1 .. k : sent'[a][i] = sent[a][i]
  <2>0. Cardinality(Messages) \in Nat
    BY SendAssumption, FS_CardinalityType
  <2>1. \A i \in 1 .. k : i \in Indexes /\ i # k + 1
    BY <1>1, <1>3, <2>0 DEF Indexes
  <2> QED
    BY <1>1, <1>3, <1>4, <2>1
<1>6. pc[t] \in DrainLabels /\ pc'[t] \in DrainLabels /\ at'[t] = a /\ n'[t] = k + 1 /\ open' = open
      /\ numSent' = numSent /\ Moves(t)
  BY DEF Store, Goto, Set, DrainLabels, IInv, Types, ThreadTypes, Moves
<1>7. \A i \in Nat : Holds(a, i) <=> i \in 1 .. k
  BY <1>6, HeldByDrainer
<1>8. \A i \in Nat : Holds(a, i)' <=> i \in 1 .. k + 1
  <2> SUFFICES ASSUME NEW i \in Nat PROVE Holds(a, i)' <=> i \in 1 .. k + 1
    OBVIOUS
  <2>1. open'[a]
    BY <1>1, <1>6 DEF IInv, Places
  <2>2. \A u \in Threads : at'[u] = a /\ pc'[u] \in OwnerLabels => u = t
    BY <1>6 DEF IInv, Ownership, OwnerLabels
  <2> QED
    BY <1>6, <2>1, <2>2 DEF Holds, OwnerLabels
<1>9. \A s \in Sessions \ {a}, i \in Nat : Holds(s, i)' <=> Holds(s, i)
  BY <1>1, <1>6 DEF Holds, Moves
<1>10. /\ \A i \in 1 .. k : i \in Indexes /\ sent[a][i] \in Messages
       /\ \A i, j \in 1 .. k : sent[a][i] = sent[a][j] => i = j
       /\ \A i, j \in 1 .. z : queue[a][i] = queue[a][j] => i = j
       /\ \A i \in 1 .. k, j \in 1 .. z : sent[a][i] # queue[a][j]
  BY <1>1, <1>7 DEF Distinct
<1> HIDE DEF k, h, z
<1>11. \A i \in 1 .. k + 1 : i \in Nat /\ (i \in 1 .. k \/ i = k + 1)
  BY <1>1
<1>12. k + 1 \in 1 .. k + 1 /\ \A i \in 1 .. k : i \in 1 .. k + 1 /\ i \in Nat
  BY <1>1
<1>13. Len(queue'[a]) = z - 1 /\ \A j \in 1 .. z - 1 : queue'[a][j] = queue[a][j + 1]
  BY <1>2, <1>4 DEF h, z
<1>14. \A j \in 1 .. z - 1 : j + 1 \in 1 .. z /\ j + 1 # 1
  BY <1>2
<1>15. 1 \in 1 .. z /\ \A j \in 1 .. z : j # 1 => j - 1 \in 1 .. z - 1 /\ (j - 1) + 1 = j
  BY <1>2
<1>16. \A x : InArray(a, x)' <=> InArray(a, x) \/ x = h
  <2> TAKE x
  <2>1. InArray(a, x)' <=> \E i \in 1 .. k + 1 : sent'[a][i] = x
    BY <1>8, <1>11 DEF InArray
  <2>2. InArray(a, x) <=> \E i \in 1 .. k : sent[a][i] = x
    BY <1>7, <1>12 DEF InArray
  <2> QED
    BY <1>5, <1>11, <1>12, <2>1, <2>2
<1>17. \A x : InQueue(a, x) <=> InQueue(a, x)' \/ x = h
  <2> TAKE x
  <2>1. InQueue(a, x)' <=> \E j \in 1 .. z - 1 : queue'[a][j] = x
    BY <1>13 DEF InQueue
  <2>2. InQueue(a, x) <=> \E j \in 1 .. z : queue[a][j] = x
    BY DEF InQueue, z
  <2>3. ASSUME InQueue(a, x) PROVE InQueue(a, x)' \/ x = h
    <3>1. PICK j \in 1 .. z : queue[a][j] = x
      BY <2>2, <2>3
    <3>2. CASE j = 1
      BY <1>2, <3>1, <3>2
    <3>3. CASE j # 1
      BY <1>13, <1>15, <2>1, <3>1, <3>3
    <3> QED
      BY <3>2, <3>3
  <2>4. ASSUME InQueue(a, x)' \/ x = h PROVE InQueue(a, x)
    BY <1>2, <1>13, <1>14, <1>15, <2>1, <2>2, <2>4
  <2> QED
    BY <2>3, <2>4
<1>18. Contents(a)' = Contents(a)
  BY <1>16, <1>17 DEF Contents
<1>19. ASSUME NEW s \in Sessions \ {a} PROVE Contents(s)' = Contents(s)
  BY <1>4, <1>9 DEF Contents, InArray, InQueue
<1>20. Distinct'
  <2> SUFFICES ASSUME NEW s \in Sessions
               PROVE  /\ \A i \in Nat : Holds(s, i)' => i \in Indexes /\ sent'[s][i] \in Messages
                      /\ \A i, j \in Nat :
                            Holds(s, i)' /\ Holds(s, j)' /\ sent'[s][i] = sent'[s][j] => i = j
                      /\ \A i, j \in 1 .. Len(queue'[s]) :
                            queue'[s][i] = queue'[s][j] => i = j
                      /\ \A i \in Nat, j \in 1 .. Len(queue'[s]) :
                            Holds(s, i)' => sent'[s][i] # queue'[s][j]
    BY DEF Distinct, Indexes
  <2>1. CASE s # a
    BY <1>4, <1>9, <2>1 DEF Distinct
  <2>2. CASE s = a
    <3>1. \A i \in 1 .. k : sent[a][i] # h
      BY <1>2, <1>10, <1>15
    <3>2. \A i \in 1 .. k + 1 : i \in Indexes /\ sent'[a][i] \in Messages
      BY <1>2, <1>3, <1>5, <1>10, <1>11
    <3>3. \A i, j \in 1 .. k + 1 : sent'[a][i] = sent'[a][j] => i = j
      BY <1>5, <1>10, <1>11, <3>1
    <3>4. \A i, j \in 1 .. z - 1 : queue'[a][i] = queue'[a][j] => i = j
      <4> SUFFICES ASSUME NEW i \in 1 .. z - 1, NEW j \in 1 .. z - 1, queue'[a][i] = queue'[a][j]
                   PROVE  i = j
        OBVIOUS
      <4>1. i + 1 = j + 1
        BY <1>10, <1>13, <1>14
      <4> QED
        BY <1>2, <4>1
    <3>5. \A j \in 1 .. z - 1 : queue'[a][j] # h
      BY <1>2, <1>10, <1>13, <1>14, <1>15
    <3>6. \A i \in 1 .. k + 1, j \in 1 .. z - 1 : sent'[a][i] # queue'[a][j]
      BY <1>5, <1>10, <1>11, <1>13, <1>14, <3>5
    <3> QED
      BY <1>8, <1>13, <2>2, <3>2, <3>3, <3>4, <3>6
  <2> QED
    BY <2>1, <2>2
<1> QED
  BY <1>18, <1>19, <1>20


LEMMA HoldersFinite ==
    ASSUME NEW m
    PROVE  /\ IsFiniteSet(Creators(m)) /\ Cardinality(Creators(m)) \in Nat
           /\ IsFiniteSet(Linkers(m)) /\ Cardinality(Linkers(m)) \in Nat
           /\ IsFiniteSet(Keepers(m)) /\ Cardinality(Keepers(m)) \in Nat
<1>1. Creators(m) \subseteq Senders /\ Linkers(m) \subseteq Senders /\ Keepers(m) \subseteq Sessions
  BY DEF Creators, Linkers, Keepers
<1> QED
  BY <1>1, SendAssumption, FS_Subset, FS_CardinalityType

\* A step that moves no reference, and loses only messages that are lost.
LEMMA Quiet ==
    ASSUME Fresh, Counted, refs' = refs, msg' = msg, lost \subseteq lost',
           \A t \in Senders : /\ pc'[t] = "Link" <=> pc[t] = "Link"
                              /\ pc[t] = "Link" => at'[t] = at[t]
                              /\ todo'[t] \subseteq todo[t],
           \A s \in Sessions : Contents(s)' \subseteq Contents(s),
           \A s \in Sessions : \A m \in Contents(s) : m \in lost' \/ m \in Contents(s)',
           \A t \in Senders : /\ pc[t] = "Link" => at[t] \in Sessions
                              /\ todo[t] \subseteq Sessions
    PROVE  Fresh' /\ Counted'
<1>1. Fresh'
  BY DEF Fresh
<1>2. ASSUME NEW m \in Messages
      PROVE  /\ refs'[m] >= References(m)'
             /\ m \notin lost' => refs'[m] = References(m)'
  <2>1. Creators(m)' = Creators(m) /\ Linkers(m)' = Linkers(m)
    BY DEF Creators, Linkers
  <2>2. Keepers(m)' \subseteq Keepers(m)
    BY DEF Keepers
  <2>3. m \notin lost' => Keepers(m)' = Keepers(m)
    BY DEF Keepers
  <2> DEFINE A == Cardinality(Creators(m))
             B == Cardinality(Linkers(m))
             C == Cardinality(Keepers(m))
             D == Cardinality(Keepers(m)')
  <2>4. A \in Nat /\ B \in Nat /\ C \in Nat /\ D \in Nat /\ D <= C
    <3>1. D <= C /\ IsFiniteSet(Keepers(m)')
      BY <2>2, HoldersFinite, FS_Subset
    <3> QED
      BY <3>1, HoldersFinite, FS_CardinalityType
  <2>5. /\ refs[m] \in Int
        /\ refs[m] >= A + B + C
        /\ m \notin lost => refs[m] = A + B + C
    BY DEF Counted, References
  <2>6. References(m)' = A + B + D
    BY <2>1 DEF References
  <2>7. m \notin lost' => D = C
    BY <2>3
  <2>8. m \notin lost' => m \notin lost
    OBVIOUS
  <2> HIDE DEF A, B, C, D
  <2> QED
    BY <2>4, <2>5, <2>6, <2>7, <2>8
<1> QED
  BY <1>1, <1>2 DEF Counted

\* A step after which the sets of holders differ by one thread or session each.
LEMMA Balance ==
    ASSUME Counted, NEW t, NEW s, NEW m \in Messages, NEW d \in Int,
           refs'[m] = refs[m] + d,
           m \notin lost' => m \notin lost,
           Creators(m)' \ {t} = Creators(m) \ {t},
           Linkers(m)' \ {t} = Linkers(m) \ {t},
           Keepers(m)' \ {s} = Keepers(m) \ {s},
           d = (IF t \in Creators(m)' THEN 1 ELSE 0) - (IF t \in Creators(m) THEN 1 ELSE 0)
             + (IF t \in Linkers(m)' THEN 1 ELSE 0) - (IF t \in Linkers(m) THEN 1 ELSE 0)
             + (IF s \in Keepers(m)' THEN 1 ELSE 0) - (IF s \in Keepers(m) THEN 1 ELSE 0)
    PROVE  /\ refs'[m] >= References(m)'
           /\ m \notin lost' => refs'[m] = References(m)'
<1> DEFINE A == Cardinality(Creators(m))
           B == Cardinality(Linkers(m))
           C == Cardinality(Keepers(m))
           P == (IF t \in Creators(m)' THEN 1 ELSE 0) - (IF t \in Creators(m) THEN 1 ELSE 0)
           Q == (IF t \in Linkers(m)' THEN 1 ELSE 0) - (IF t \in Linkers(m) THEN 1 ELSE 0)
           R == (IF s \in Keepers(m)' THEN 1 ELSE 0) - (IF s \in Keepers(m) THEN 1 ELSE 0)
<1>1. A \in Nat /\ B \in Nat /\ C \in Nat
  BY HoldersFinite
<1>2. P \in Int /\ Q \in Int /\ R \in Int /\ d = P + Q + R
  OBVIOUS
<1>3. /\ refs[m] \in Int
      /\ refs[m] >= A + B + C
      /\ m \notin lost => refs[m] = A + B + C
  BY DEF Counted, References
<1>4. Cardinality(Creators(m)') = A + P
  <2>1. Cardinality(Creators(m)') = A + (IF t \in Creators(m)' THEN 1 ELSE 0)
                                      - (IF t \in Creators(m) THEN 1 ELSE 0)
    BY HoldersFinite, DifferByOne
  <2> QED
    BY <1>1, <2>1
<1>5. Cardinality(Linkers(m)') = B + Q
  <2>1. Cardinality(Linkers(m)') = B + (IF t \in Linkers(m)' THEN 1 ELSE 0)
                                      - (IF t \in Linkers(m) THEN 1 ELSE 0)
    BY HoldersFinite, DifferByOne
  <2> QED
    BY <1>1, <2>1
<1>6. Cardinality(Keepers(m)') = C + R
  <2>1. Cardinality(Keepers(m)') = C + (IF s \in Keepers(m)' THEN 1 ELSE 0)
                                      - (IF s \in Keepers(m) THEN 1 ELSE 0)
    BY HoldersFinite, DifferByOne
  <2> QED
    BY <1>1, <2>1
<1>7. References(m)' = (A + P) + (B + Q) + (C + R)
  BY <1>4, <1>5, <1>6 DEF References
<1> HIDE DEF A, B, C, P, Q, R
<1>8. refs'[m] \in Int /\ refs'[m] = refs[m] + (P + Q + R)
  BY <1>2, <1>3
<1>9. m \notin lost' => refs[m] = A + B + C
  BY <1>3
<1> QED
  BY <1>1, <1>2, <1>3, <1>7, <1>8, <1>9


LEMMA HeldQuiet ==
    ASSUME RInv, Held, UNCHANGED <<queue, sent, refs, msg>>, lost \subseteq lost',
           \A t \in Senders : /\ pc'[t] = "Link" <=> pc[t] = "Link"
                              /\ pc[t] = "Link" => at'[t] = at[t]
                              /\ todo'[t] \subseteq todo[t]
    PROVE  Distinct' /\ Fresh' /\ Counted'
<1>1. Distinct'
  BY DistinctShrink DEF RInv, Held
<1>2. \A s \in Sessions : Contents(s)' = Contents(s)
  BY ContentsKept
<1>3. \A t \in Senders : /\ pc[t] = "Link" => at[t] \in Sessions
                         /\ todo[t] \subseteq Sessions
  BY DEF RInv, IInv, Places, Types, ThreadTypes, Threads
<1>4. Fresh /\ Counted
  BY DEF RInv
<1>5. Fresh' /\ Counted'
  BY <1>2, <1>3, <1>4, Quiet
<1> QED
  BY <1>1, <1>5

\* The steps that move no message.
LEMMA QuietSteps ==
    ASSUME RInv, IInv',
           \/ \E t \in Senders : Count(t)
           \/ \E t \in Threads : \/ IsEmpty(t) \/ Leave(t) \/ (Exchange(t) /\ sending[at[t]])
                                 \/ Undo(t) \/ Lower(t) \/ Restore(t) \/ Post(t)
           \/ \E w \in Workers : Clear(w)
           \/ \E w \in Workers, s \in Sessions : CompleteData(w, s) \/ CompleteZero(w, s)
           \/ \E s \in Sessions : Cut(s) \/ AcceptSession(s)
    PROVE  Distinct' /\ Fresh' /\ Counted'
<1> USE DEF Goto, Set
<1>0. /\ IInv /\ Types /\ Places
      /\ Threads = Senders \cup Workers /\ NoSession \notin Sessions
      /\ pc \in [Threads -> Labels] /\ n \in [Threads -> Nat]
      /\ at \in [Threads -> Sessions \cup {NoSession}]
      /\ numSent \in [Sessions -> Nat]
      /\ \A t \in Threads : pc[t] \notin {"Idle", "Call"} => at[t] \in Sessions
  BY SendAssumption DEF Threads, RInv, IInv, Places, Types, ThreadTypes, SessionTypes
<1>1. ASSUME NEW t \in Threads,
             \/ (Count(t) /\ t \in Senders) \/ IsEmpty(t) \/ Leave(t)
             \/ (Exchange(t) /\ sending[at[t]]) \/ Undo(t)
      PROVE Distinct' /\ Fresh' /\ Counted'
  <2>1. Moves(t)
    BY <1>0, <1>1 DEF Moves, Count, IsEmpty, Leave, Exchange, Undo
  <2>2. /\ UNCHANGED <<open, numSent>>
        /\ pc[t] \notin DrainLabels \cup {"Reclaim"} /\ pc'[t] \notin DrainLabels \cup {"Reclaim"}
    BY <1>0, <1>1 DEF Count, IsEmpty, Leave, Exchange, Undo, DrainLabels, sessionVars, sendVars
  <2>3. Held
    BY <2>1, <2>2, HeldOutside
  <2>4. /\ UNCHANGED <<queue, sent, refs, msg, lost, todo>>
        /\ pc[t] # "Link" /\ pc'[t] # "Link"
    BY <1>0, <1>1 DEF Count, IsEmpty, Leave, Exchange, Undo, sessionVars, sendVars, queueVars,
       historyVars
  <2> QED
    BY <1>0, <2>1, <2>3, <2>4, HeldQuiet DEF Moves
<1>2. ASSUME NEW t \in Threads, Lower(t) \/ Restore(t)
      PROVE Distinct' /\ Fresh' /\ Counted'
  <2>1. Moves(t)
    BY <1>0, <1>2 DEF Moves, Lower, Restore
  <2>2. /\ UNCHANGED <<open, numSent>> /\ at'[t] = at[t] /\ n'[t] = n[t]
        /\ pc[t] \in DrainLabels /\ pc'[t] \in DrainLabels
    BY <1>0, <1>2 DEF Lower, Restore, DrainLabels, sessionVars, sendVars
  <2>3. Held
    BY <2>1, <2>2, HeldWithin
  <2>4. /\ UNCHANGED <<queue, sent, refs, msg, lost, todo>>
        /\ pc[t] # "Link" /\ pc'[t] # "Link"
    BY <1>0, <1>2 DEF Lower, Restore, sessionVars, sendVars, queueVars, historyVars
  <2> QED
    BY <1>0, <2>1, <2>3, <2>4, HeldQuiet DEF Moves
<1>3. ASSUME NEW t \in Threads, Post(t)
      PROVE Distinct' /\ Fresh' /\ Counted'
  <2>1. Moves(t)
    BY <1>0, <1>3 DEF Moves, Post
  <2>2. /\ UNCHANGED open /\ at'[t] = at[t] /\ n'[t] = n[t] /\ at[t] \in Sessions
        /\ pc[t] = "Post" /\ pc'[t] \in {"Leave", "Undo"}
        /\ numSent'[at[t]] = n[t]
        /\ \A s \in Sessions \ {at[t]} : numSent'[s] = numSent[s]
    BY <1>0, <1>3 DEF Post
  <2>3. Held
    BY <1>0, <2>1, <2>2, HeldPost
  <2>4. /\ UNCHANGED <<queue, sent, refs, msg, todo>>
        /\ lost \subseteq lost'
        /\ pc[t] # "Link" /\ pc'[t] # "Link"
    BY <1>0, <1>3 DEF Post, queueVars
  <2> QED
    BY <1>0, <2>1, <2>3, <2>4, HeldQuiet DEF Moves
<1>4. ASSUME NEW t \in Workers, Clear(t)
      PROVE Distinct' /\ Fresh' /\ Counted'
  <2>1. Moves(t) /\ t \in Threads
    BY <1>0, <1>4 DEF Moves, Clear
  <2>2. /\ UNCHANGED open /\ at'[t] = at[t] /\ at[t] \in Sessions
        /\ pc[t] = "Reclaim" /\ pc'[t] = "IsEmpty" /\ n[t] = numSent[at[t]]
        /\ numSent'[at[t]] = 0
        /\ \A s \in Sessions \ {at[t]} : numSent'[s] = numSent[s]
    BY <1>0, <1>4 DEF Clear
  <2>3. Held
    BY <1>0, <2>1, <2>2, HeldClear
  <2>4. /\ UNCHANGED <<queue, sent, refs, msg, todo, lost>>
        /\ pc[t] # "Link" /\ pc'[t] # "Link"
    BY <1>0, <1>4, <2>2 DEF Clear, queueVars, historyVars
  <2> QED
    BY <1>0, <2>1, <2>3, <2>4, HeldQuiet DEF Moves
<1>5. ASSUME NEW t \in Workers, NEW s \in Sessions, CompleteData(t, s)
      PROVE Distinct' /\ Fresh' /\ Counted'
  <2>1. Moves(t) /\ t \in Threads
    BY <1>0, <1>5 DEF Moves, CompleteData
  <2>2. /\ UNCHANGED <<open, numSent>> /\ at'[t] = s /\ n'[t] = 0
        /\ pc[t] = "Idle" /\ pc'[t] = "Reclaim" /\ posted[s]
    BY <1>0, <1>5 DEF CompleteData, Finish, Places
  <2>3. Held
    BY <1>0, <2>1, <2>2, HeldComplete
  <2>4. /\ UNCHANGED <<queue, sent, refs, msg, todo, lost>>
        /\ pc[t] # "Link" /\ pc'[t] # "Link"
    BY <1>0, <1>5, <2>2 DEF CompleteData, queueVars
  <2> QED
    BY <1>0, <2>1, <2>3, <2>4, HeldQuiet DEF Moves
<1>6. ASSUME NEW w \in Workers, NEW s \in Sessions, CompleteZero(w, s)
      PROVE Distinct' /\ Fresh' /\ Counted'
  <2>1. UNCHANGED <<open, numSent, pc, at, n, queue, sent, refs, msg, todo, lost>>
    BY <1>6 DEF CompleteZero, threadVars, queueVars
  <2>2. Held
    BY <2>1 DEF Held, Holds
  <2> QED
    BY <2>1, <2>2, HeldQuiet
<1>7. ASSUME NEW s \in Sessions, Cut(s)
      PROVE Distinct' /\ Fresh' /\ Counted'
  <2>1. UNCHANGED <<open, numSent, pc, at, n, queue, sent, refs, msg, todo, lost>>
    BY <1>7 DEF Cut, threadVars, queueVars, historyVars
  <2>2. Held
    BY <2>1 DEF Held, Holds
  <2> QED
    BY <2>1, <2>2, HeldQuiet
<1>8. ASSUME NEW s \in Sessions, AcceptSession(s)
      PROVE Distinct' /\ Fresh' /\ Counted'
  <2>1. /\ UNCHANGED <<pc, at, n, queue, sent, refs, msg, todo, lost>>
        /\ ~ open[s] /\ numSent'[s] = 0
        /\ \A r \in Sessions \ {s} : open'[r] = open[r] /\ numSent'[r] = numSent[r]
    BY <1>0, <1>8 DEF AcceptSession, threadVars, queueVars, Types, SessionTypes
  <2>2. \A t \in Threads : at[t] # s
    BY <1>0, <2>1 DEF Places
  <2>3. ASSUME NEW i \in Nat PROVE ~ Holds(s, i) /\ ~ Holds(s, i)'
    <3>1. i \notin 1 .. numSent'[s]
      BY <2>1
    <3>2. \A t \in Threads : at'[t] # s
      BY <2>1, <2>2
    <3> QED
      BY <2>1, <3>1, <3>2 DEF Holds
  <2>4. ASSUME NEW r \in Sessions \ {s}, NEW i \in Nat PROVE Holds(r, i)' <=> Holds(r, i)
    BY <2>1 DEF Holds
  <2>5. Held
    BY <2>3, <2>4 DEF Held
  <2> QED
    BY <2>1, <2>5, HeldQuiet
<1> QED
  BY <1>0, <1>1, <1>2, <1>3, <1>4, <1>5, <1>6, <1>7, <1>8


\* Who takes bIsSending over forgets what a failed send left behind.
LEMMA ExchangeStep ==
    ASSUME RInv, IInv', NEW t \in Threads, Exchange(t), ~ sending[at[t]]
    PROVE  Distinct' /\ Fresh' /\ Counted'
<1> USE DEF Goto, Set
<1>0. /\ IInv /\ Types /\ Places /\ Threads = Senders \cup Workers
      /\ pc \in [Threads -> Labels] /\ at[t] \in Sessions /\ n[t] = 0
      /\ open[at[t]]
  BY DEF Threads, RInv, IInv, Places, Types, ThreadTypes, Exchange
<1>1. PICK a \in Sessions : a = at[t]
  BY <1>0
<1>2. /\ UNCHANGED <<open, numSent, at, n, queue, sent, refs, msg, todo, lost>>
      /\ pc[t] = "Exchange" /\ pc'[t] = "Take" /\ \A u \in Threads \ {t} : pc'[u] = pc[u]
  BY <1>0, <1>1 DEF Exchange, queueVars, historyVars
<1>3. \A u \in Threads : at[u] = a => pc[u] \notin OwnerLabels
  BY <1>0, <1>1 DEF IInv, Ownership
<1>4. \A i \in Nat : Holds(a, i) => i \in 1 .. numSent[a]
  BY <1>3, HeldByNobody DEF OwnerLabels
<1>5. \A i \in Nat : ~ Holds(a, i)'
  <2> SUFFICES ASSUME NEW i \in Nat PROVE ~ Holds(a, i)'
    OBVIOUS
  <2>1. at'[t] = a /\ pc'[t] \in DrainLabels
    BY <1>1, <1>2 DEF DrainLabels
  <2>2. \A u \in Threads : at'[u] = a /\ pc'[u] \in DrainLabels => u = t
    BY <1>2, <1>3 DEF OwnerLabels
  <2>3. i \notin 1 .. n'[t]
    BY <1>0, <1>2
  <2> QED
    BY <2>1, <2>2, <2>3 DEF Holds
<1>6. \A r \in Sessions \ {a}, i \in Nat : Holds(r, i)' <=> Holds(r, i)
  BY <1>1, <1>2 DEF Holds
<1>7. \A s \in Sessions, i \in Nat : Holds(s, i)' => Holds(s, i) /\ sent'[s][i] = sent[s][i]
  BY <1>2, <1>5, <1>6
<1>8. Distinct' /\ \A s \in Sessions : Contents(s)' \subseteq Contents(s)
  BY <1>2, <1>7, DistinctShrink DEF RInv
<1>9. \A i \in Nat : Holds(a, i) => sent[a][i] \in lost
  BY <1>0, <1>1, <1>4 DEF RInv, Forgotten
<1>10. \A s \in Sessions : \A m \in Contents(s) : m \in lost' \/ m \in Contents(s)'
  BY <1>2, <1>6, <1>9 DEF Contents, InArray, InQueue
<1>11. \A u \in Senders : /\ pc'[u] = "Link" <=> pc[u] = "Link"
                          /\ pc[u] = "Link" => at'[u] = at[u]
                          /\ todo'[u] \subseteq todo[u]
  BY <1>0, <1>2
<1>12. \A u \in Senders : /\ pc[u] = "Link" => at[u] \in Sessions
                          /\ todo[u] \subseteq Sessions
  BY <1>0 DEF Places, Types, ThreadTypes
<1>13. Fresh' /\ Counted'
  BY <1>2, <1>8, <1>10, <1>11, <1>12, Quiet DEF RInv
<1> QED
  BY <1>8, <1>13

\* A message moves from the queue to SentMessages.
LEMMA StoreStep ==
    ASSUME RInv, IInv', NEW t \in Threads, Store(t)
    PROVE  Distinct' /\ Fresh' /\ Counted'
<1> USE DEF Goto, Set
<1>0. /\ IInv /\ Types /\ Places /\ Threads = Senders \cup Workers
      /\ pc \in [Threads -> Labels] /\ at[t] \in Sessions
  BY DEF Threads, RInv, IInv, Places, Types, ThreadTypes, Store
<1>1. Distinct' /\ \A s \in Sessions : Contents(s)' = Contents(s)
  BY <1>0, DistinctStore DEF RInv
<1>2. /\ UNCHANGED <<at, refs, msg, todo, lost>>
      /\ pc[t] # "Link" /\ pc'[t] # "Link" /\ \A u \in Threads \ {t} : pc'[u] = pc[u]
  BY <1>0 DEF Store, historyVars
<1>3. \A u \in Senders : /\ pc'[u] = "Link" <=> pc[u] = "Link"
                         /\ pc[u] = "Link" => at'[u] = at[u]
                         /\ todo'[u] \subseteq todo[u]
  BY <1>0, <1>2
<1>4. \A u \in Senders : /\ pc[u] = "Link" => at[u] \in Sessions
                         /\ todo[u] \subseteq Sessions
  BY <1>0 DEF Places, Types, ThreadTypes
<1>5. Fresh' /\ Counted'
  BY <1>1, <1>2, <1>3, <1>4, Quiet DEF RInv
<1> QED
  BY <1>1, <1>5

\* A message comes out of the pool: nothing refers to it.
LEMMA Unreferenced ==
    ASSUME Counted, NEW m \in Messages, refs[m] = 0
    PROVE  Creators(m) = {} /\ Linkers(m) = {} /\ Keepers(m) = {}
<1>1. References(m) <= 0
  BY DEF Counted
<1>2. /\ Cardinality(Creators(m)) = 0 /\ Cardinality(Linkers(m)) = 0
      /\ Cardinality(Keepers(m)) = 0
  BY <1>1, HoldersFinite DEF References
<1> QED
  BY <1>2, HoldersFinite, FS_EmptySet

LEMMA CreateStep ==
    ASSUME RInv, IInv', NEW t \in Senders, NEW m \in Messages,
           NEW targets \in SUBSET Sessions, Create(t, m, targets)
    PROVE  Distinct' /\ Fresh' /\ Counted'
<1> USE DEF Goto, Set
<1>0. /\ IInv /\ Types /\ Places /\ Threads = Senders \cup Workers
      /\ pc \in [Threads -> Labels] /\ t \in Threads
      /\ msg \in [Threads -> Messages \cup {NoMessage}] /\ todo \in [Threads -> SUBSET Sessions]
      /\ NoMessage \notin Messages
  BY SendAssumption DEF Threads, RInv, IInv, Types, ThreadTypes
<1>1. /\ pc[t] = "Idle" /\ pc'[t] = "Call" /\ \A u \in Threads \ {t} : pc'[u] = pc[u]
      /\ msg[t] \notin Messages
      /\ msg'[t] = m /\ \A u \in Threads \ {t} : msg'[u] = msg[u] /\ todo'[u] = todo[u]
      /\ UNCHANGED <<open, numSent, at, n, queue, sent>>
      /\ refs[m] = 0 /\ lost' = lost \ {m}
      /\ refs' \in [Messages -> Int] /\ refs'[m] = 1
      /\ \A x \in Messages \ {m} : refs'[x] = refs[x]
  BY <1>0 DEF Create, Places, RInv, Counted, sessionVars, queueVars, sendVars
<1>2. Moves(t) /\ Held
  <2>1. Moves(t)
    BY <1>1 DEF Moves
  <2>2. Held
    <3>1. /\ UNCHANGED <<open, numSent>>
          /\ pc[t] \notin DrainLabels \cup {"Reclaim"} /\ pc'[t] \notin DrainLabels \cup {"Reclaim"}
      BY <1>1 DEF DrainLabels
    <3> QED
      BY <1>0, <2>1, <3>1, HeldOutside
  <2> QED
    BY <2>1, <2>2
<1>3. Distinct'
  BY <1>1, <1>2, DistinctShrink DEF RInv, Held
<1>4. \A s \in Sessions : Contents(s)' = Contents(s)
  BY <1>1, <1>2, ContentsKept
<1>5. Creators(m) = {} /\ Linkers(m) = {} /\ Keepers(m) = {}
  BY <1>1, Unreferenced DEF RInv
<1>6. Fresh'
  <2> SUFFICES ASSUME NEW u \in Senders, msg'[u] # NoMessage
               PROVE  /\ \A v \in Senders : msg'[v] = msg'[u] => v = u
                      /\ \A s \in todo'[u] : msg'[u] \notin Contents(s)'
                      /\ pc'[u] = "Link" => msg'[u] \notin Contents(at[u])' /\ at[u] \notin todo'[u]
    BY <1>1 DEF Fresh
  <2>1. \A v \in Senders : msg[v] # m
    BY <1>5 DEF Creators
  <2>2. CASE u = t
    <3>1. \A s \in Sessions : m \notin Contents(s)'
      BY <1>4, <1>5 DEF Keepers
    <3>2. todo'[t] \subseteq Sessions
      BY <1>0 DEF IInv, Types, ThreadTypes
    <3> QED
      BY <1>0, <1>1, <2>1, <2>2, <3>1, <3>2
  <2>3. CASE u # t
    <3>0. u \in Threads \ {t} /\ msg'[u] = msg[u] /\ todo'[u] = todo[u] /\ pc'[u] = pc[u]
      BY <1>0, <1>1, <2>3
    <3>1. /\ \A v \in Senders : msg[v] = msg[u] => v = u
          /\ \A s \in todo[u] : msg[u] \notin Contents(s)
          /\ pc[u] = "Link" => msg[u] \notin Contents(at[u]) /\ at[u] \notin todo[u]
      BY <3>0 DEF RInv, Fresh
    <3>2. todo[u] \subseteq Sessions /\ (pc[u] = "Link" => at[u] \in Sessions)
      BY <1>0, <3>0 DEF Places, Types, ThreadTypes
    <3>3. \A v \in Senders : msg'[v] = msg'[u] => v = u
      BY <1>0, <1>1, <2>1, <3>0, <3>1
    <3>4. /\ \A s \in todo'[u] : msg'[u] \notin Contents(s)'
          /\ pc'[u] = "Link" => msg'[u] \notin Contents(at[u])' /\ at[u] \notin todo'[u]
      BY <1>1, <1>4, <3>0, <3>1, <3>2
    <3> QED
      BY <3>3, <3>4
  <2> QED
    BY <2>2, <2>3
<1>7. ASSUME NEW x \in Messages
      PROVE  /\ refs'[x] >= References(x)'
             /\ x \notin lost' => refs'[x] = References(x)'
  <2>1. Keepers(x)' = Keepers(x)
    BY <1>4 DEF Keepers
  <2>2. CASE x # m
    <3>1. Creators(x)' = Creators(x) /\ Linkers(x)' = Linkers(x)
      BY <1>0, <1>1, <2>2 DEF Creators, Linkers
    <3> QED
      BY <1>1, <2>1, <2>2, <3>1 DEF RInv, Counted, References
  <2>3. CASE x = m
    <3>1. Creators(m)' = {t}
      BY <1>0, <1>1, <1>5 DEF Creators
    <3>2. Linkers(m)' = {}
      BY <1>0, <1>1, <1>5 DEF Creators, Linkers
    <3>3. References(m)' = 1
      <4>1. Keepers(m)' = {}
        BY <1>5, <2>1, <2>3
      <4>2. Cardinality({t}) = 1 /\ Cardinality({}) = 0
        BY FS_EmptySet, FS_Singleton
      <4> QED
        BY <3>1, <3>2, <4>1, <4>2 DEF References
    <3> QED
      BY <1>1, <2>3, <3>3
  <2> QED
    BY <2>2, <2>3
<1> QED
  BY <1>1, <1>3, <1>6, <1>7 DEF Counted


\* A sender takes a reference for the session it found, or drops its own.
LEMMA AcquireStep ==
    ASSUME RInv, IInv', NEW t \in Senders, NEW a \in Sessions, Acquire(t, a)
    PROVE  Distinct' /\ Fresh' /\ Counted'
<1> USE DEF Goto, Set
<1>0. /\ IInv /\ Types /\ Places /\ Threads = Senders \cup Workers
      /\ pc \in [Threads -> Labels] /\ t \in Threads
      /\ at \in [Threads -> Sessions \cup {NoSession}] /\ NoSession \notin Sessions
      /\ msg \in [Threads -> Messages \cup {NoMessage}] /\ todo \in [Threads -> SUBSET Sessions]
      /\ NoMessage \notin Messages
  BY SendAssumption DEF Threads, RInv, IInv, Types, ThreadTypes
<1>1. /\ pc[t] = "Call" /\ a \in todo[t] /\ todo'[t] = todo[t] \ {a}
      /\ UNCHANGED <<open, numSent, n, queue, sent, msg, lost>>
      /\ msg[t] \in Messages
      /\ \A u \in Threads \ {t} : pc'[u] = pc[u] /\ at'[u] = at[u] /\ todo'[u] = todo[u]
  BY <1>0 DEF Acquire, Places, sessionVars, queueVars, sendVars, historyVars
<1>2. CASE ~ open[a]
  <2>1. UNCHANGED <<refs, at, pc>>
    BY <1>2 DEF Acquire
  <2>2. Held
    BY <1>1, <2>1 DEF Held, Holds
  <2>3. \A u \in Senders : todo'[u] \subseteq todo[u]
    BY <1>0, <1>1
  <2> QED
    BY <1>1, <2>1, <2>2, <2>3, HeldQuiet
<1>3. CASE open[a]
  <2>1. /\ pc'[t] = "Link" /\ at'[t] = a
        /\ refs' = [refs EXCEPT ![msg[t]] = @ + 1]
    BY <1>0, <1>3 DEF Acquire
  <2>2. Held
    <3>1. Moves(t)
      BY <1>1 DEF Moves
    <3>2. /\ UNCHANGED <<open, numSent>>
          /\ pc[t] \notin DrainLabels \cup {"Reclaim"} /\ pc'[t] \notin DrainLabels \cup {"Reclaim"}
      BY <1>1, <2>1 DEF DrainLabels
    <3> QED
      BY <1>0, <3>1, <3>2, HeldOutside
  <2>3. Distinct'
    BY <1>1, <2>2, DistinctShrink DEF RInv, Held
  <2>4. \A s \in Sessions : Contents(s)' = Contents(s)
    BY <1>1, <2>2, ContentsKept
  <2>5. Fresh'
    <3> SUFFICES ASSUME NEW u \in Senders, msg[u] # NoMessage
                 PROVE  /\ \A v \in Senders : msg[v] = msg[u] => v = u
                        /\ \A s \in todo'[u] : msg[u] \notin Contents(s)'
                        /\ pc'[u] = "Link" => msg[u] \notin Contents(at[u])' /\ at'[u] \notin todo'[u]
      BY <1>1 DEF Fresh
    <3>1. /\ \A v \in Senders : msg[v] = msg[u] => v = u
          /\ \A s \in todo[u] : msg[u] \notin Contents(s)
          /\ pc[u] = "Link" => msg[u] \notin Contents(at[u]) /\ at[u] \notin todo[u]
      BY DEF RInv, Fresh
    <3>2. todo[u] \subseteq Sessions /\ (pc[u] = "Link" => at[u] \in Sessions)
      BY <1>0 DEF Places
    <3>3. CASE u = t
      BY <1>1, <2>1, <2>4, <3>1, <3>2, <3>3
    <3>4. CASE u # t
      <4>1. pc'[u] = pc[u] /\ at'[u] = at[u] /\ todo'[u] = todo[u]
        BY <1>0, <1>1, <3>4
      <4> QED
        BY <2>4, <3>1, <3>2, <4>1
    <3> QED
      BY <3>3, <3>4
  <2>6. refs' \in [Messages -> Int]
    BY <1>1, <2>1 DEF RInv, Counted
  <2>7. ASSUME NEW x \in Messages
        PROVE  /\ refs'[x] >= References(x)'
               /\ x \notin lost' => refs'[x] = References(x)'
    <3>1. Keepers(x)' = Keepers(x) /\ Creators(x)' = Creators(x)
      BY <1>1, <2>4 DEF Keepers, Creators
    <3>2. CASE x # msg[t]
      <4>1. Linkers(x)' = Linkers(x)
        BY <1>0, <1>1, <3>2 DEF Linkers
      <4>2. refs'[x] = refs[x]
        BY <1>1, <2>1, <3>2 DEF RInv, Counted
      <4> QED
        BY <1>1, <3>1, <4>1, <4>2 DEF RInv, Counted, References
    <3>3. CASE x = msg[t]
      <4>1. Linkers(x)' = Linkers(x) \cup {t} /\ t \notin Linkers(x)
        BY <1>0, <1>1, <2>1, <3>3 DEF Linkers
      <4>2. Linkers(x)' \ {t} = Linkers(x) \ {t} /\ t \in Linkers(x)'
        BY <4>1
      <4>3. refs'[x] = refs[x] + 1
        BY <1>1, <2>1, <3>3 DEF RInv, Counted
      <4>4. Counted
        BY DEF RInv
      <4> QED
        BY <1>1, <3>1, <4>1, <4>2, <4>3, <4>4, Balance
    <3> QED
      BY <3>2, <3>3
  <2> QED
    BY <2>3, <2>5, <2>6, <2>7 DEF Counted
<1> QED
  BY <1>2, <1>3

LEMMA DropStep ==
    ASSUME RInv, IInv', NEW t \in Senders, Drop(t)
    PROVE  Distinct' /\ Fresh' /\ Counted'
<1> USE DEF Goto, Set
<1>0. /\ IInv /\ Types /\ Places /\ Threads = Senders \cup Workers
      /\ pc \in [Threads -> Labels] /\ t \in Threads
      /\ msg \in [Threads -> Messages \cup {NoMessage}] /\ todo \in [Threads -> SUBSET Sessions]
      /\ NoMessage \notin Messages
  BY SendAssumption DEF Threads, RInv, IInv, Types, ThreadTypes
<1>1. /\ pc[t] = "Call" /\ pc'[t] = "Idle" /\ msg'[t] = NoMessage /\ msg[t] \in Messages
      /\ UNCHANGED <<open, numSent, at, n, queue, sent, todo, lost>>
      /\ refs' = [refs EXCEPT ![msg[t]] = @ - 1]
      /\ \A u \in Threads \ {t} : pc'[u] = pc[u] /\ msg'[u] = msg[u]
  BY <1>0 DEF Drop, Places, sessionVars, queueVars, sendVars, historyVars
<1>2. Held
  <2>1. Moves(t)
    BY <1>1 DEF Moves
  <2>2. /\ UNCHANGED <<open, numSent>>
        /\ pc[t] \notin DrainLabels \cup {"Reclaim"} /\ pc'[t] \notin DrainLabels \cup {"Reclaim"}
    BY <1>1 DEF DrainLabels
  <2> QED
    BY <1>0, <2>1, <2>2, HeldOutside
<1>3. Distinct'
  BY <1>1, <1>2, DistinctShrink DEF RInv, Held
<1>4. \A s \in Sessions : Contents(s)' = Contents(s)
  BY <1>1, <1>2, ContentsKept
<1>5. Fresh'
  <2> SUFFICES ASSUME NEW u \in Senders, msg'[u] # NoMessage
               PROVE  /\ \A v \in Senders : msg'[v] = msg'[u] => v = u
                      /\ \A s \in todo[u] : msg'[u] \notin Contents(s)'
                      /\ pc'[u] = "Link" => msg'[u] \notin Contents(at[u])' /\ at[u] \notin todo[u]
    BY <1>1 DEF Fresh
  <2>1. u # t /\ pc'[u] = pc[u] /\ msg'[u] = msg[u]
    BY <1>0, <1>1
  <2>2. /\ \A v \in Senders : msg[v] = msg[u] => v = u
        /\ \A s \in todo[u] : msg[u] \notin Contents(s)
        /\ pc[u] = "Link" => msg[u] \notin Contents(at[u]) /\ at[u] \notin todo[u]
    BY <2>1 DEF RInv, Fresh
  <2>3. todo[u] \subseteq Sessions /\ (pc[u] = "Link" => at[u] \in Sessions)
    BY <1>0 DEF Places, Types, ThreadTypes
  <2>4. \A v \in Senders : msg'[v] = msg'[u] => v = u
    BY <1>0, <1>1, <2>1, <2>2
  <2> QED
    BY <1>1, <1>4, <2>1, <2>2, <2>3, <2>4
<1>6. refs' \in [Messages -> Int]
  BY <1>1 DEF RInv, Counted
<1>7. ASSUME NEW x \in Messages
      PROVE  /\ refs'[x] >= References(x)'
             /\ x \notin lost' => refs'[x] = References(x)'
  <2>1. Keepers(x)' = Keepers(x) /\ Linkers(x)' = Linkers(x)
    BY <1>0, <1>1, <1>4 DEF Keepers, Linkers
  <2>2. CASE x # msg[t]
    <3>1. Creators(x)' = Creators(x)
      BY <1>0, <1>1, <2>2 DEF Creators
    <3>2. refs'[x] = refs[x]
      BY <1>1, <2>2 DEF RInv, Counted
    <3> QED
      BY <1>1, <2>1, <3>1, <3>2 DEF RInv, Counted, References
  <2>3. CASE x = msg[t]
    <3>1. Creators(x)' = Creators(x) \ {t} /\ t \in Creators(x)
      BY <1>0, <1>1, <2>3 DEF Creators
    <3>2. Creators(x)' \ {t} = Creators(x) \ {t} /\ t \notin Creators(x)'
      BY <3>1
    <3>3. refs'[x] = refs[x] + (-1)
      BY <1>1, <2>3 DEF RInv, Counted
    <3>4. Counted /\ t \in Creators(x) /\ -1 \in Int
      BY <3>1 DEF RInv
    <3>5. /\ Keepers(x)' \ {t} = Keepers(x) \ {t}
          /\ -1 = (IF t \in Creators(x)' THEN 1 ELSE 0) - (IF t \in Creators(x) THEN 1 ELSE 0)
                + (IF t \in Linkers(x)' THEN 1 ELSE 0) - (IF t \in Linkers(x) THEN 1 ELSE 0)
                + (IF t \in Keepers(x)' THEN 1 ELSE 0) - (IF t \in Keepers(x) THEN 1 ELSE 0)
      BY <2>1, <3>2, <3>4
    <3> QED
      BY <1>1, <2>1, <3>2, <3>3, <3>4, <3>5, Balance
  <2> QED
    BY <2>2, <2>3
<1> QED
  BY <1>3, <1>5, <1>6, <1>7 DEF Counted

\* The reference of the sender becomes that of the queue.
LEMMA LinkStep ==
    ASSUME RInv, IInv', NEW t \in Senders, Link(t)
    PROVE  Distinct' /\ Fresh' /\ Counted'
<1> USE DEF Goto, Set
<1>0. /\ IInv /\ Types /\ Places /\ Threads = Senders \cup Workers
      /\ pc \in [Threads -> Labels] /\ t \in Threads
      /\ at \in [Threads -> Sessions \cup {NoSession}]
      /\ msg \in [Threads -> Messages \cup {NoMessage}] /\ todo \in [Threads -> SUBSET Sessions]
      /\ NoMessage \notin Messages
  BY SendAssumption DEF Threads, RInv, IInv, Types, ThreadTypes
<1>1. PICK a \in Sessions : a = at[t]
  BY <1>0 DEF Link, Places
<1>2. /\ pc[t] = "Link" /\ pc'[t] = "Count" /\ msg[t] \in Messages
      /\ UNCHANGED <<open, numSent, at, n, sent, msg, todo, lost, refs>>
      /\ \A u \in Threads \ {t} : pc'[u] = pc[u]
  BY <1>0, <1>1 DEF Link, Places, Types, SessionTypes, sendVars, historyVars
<1>10. PICK i \in Nat : LinksAt(t, a, msg[t], i)
  <2>1. PICK b \in Sessions, m \in Messages, i \in Nat : LinksAt(t, b, m, i)
    BY <1>0, LinkedSomewhere
  <2>2. b = a /\ m = msg[t]
    BY <1>1, <2>1 DEF LinksAt
  <2> QED
    BY <2>1, <2>2
<1>3. Held
  <2>1. Moves(t)
    BY <1>2 DEF Moves
  <2>2. /\ UNCHANGED <<open, numSent>>
        /\ pc[t] \notin DrainLabels \cup {"Reclaim"} /\ pc'[t] \notin DrainLabels \cup {"Reclaim"}
    BY <1>2 DEF DrainLabels
  <2> QED
    BY <1>0, <2>1, <2>2, HeldOutside
<1>4. /\ \A v \in Senders : msg[v] = msg[t] => v = t
      /\ \A s \in todo[t] : msg[t] \notin Contents(s)
      /\ msg[t] \notin Contents(a) /\ a \notin todo[t]
  BY <1>0, <1>1, <1>2 DEF RInv, Fresh
<1>5. PICK m \in Messages : m = msg[t]
  BY <1>2
<1>6. /\ Distinct'
      /\ Contents(a)' = Contents(a) \cup {m}
      /\ \A s \in Sessions \ {a} : Contents(s)' = Contents(s)
  <2>1. Distinct /\ sent' = sent /\ m \notin Contents(a)
    BY <1>2, <1>4, <1>5 DEF RInv
  <2>2. /\ i \in 1 .. Len(queue[a]) + 1 /\ Len(queue'[a]) = Len(queue[a]) + 1
        /\ \A j \in 1 .. Len(queue[a]) + 1 :
              queue'[a][j] = IF j < i THEN queue[a][j] ELSE IF j = i THEN m ELSE queue[a][j - 1]
        /\ \A s \in Sessions \ {a} : queue'[s] = queue[s]
    BY <1>5, <1>10 DEF LinksAt
  <2> QED
    BY <1>0, <1>3, <2>1, <2>2, DistinctLink
<1>7. Fresh'
  <2> SUFFICES ASSUME NEW u \in Senders, msg[u] # NoMessage
               PROVE  /\ \A v \in Senders : msg[v] = msg[u] => v = u
                      /\ \A s \in todo[u] : msg[u] \notin Contents(s)'
                      /\ pc'[u] = "Link" => msg[u] \notin Contents(at[u])' /\ at[u] \notin todo[u]
    BY <1>2 DEF Fresh
  <2>1. /\ \A v \in Senders : msg[v] = msg[u] => v = u
        /\ \A s \in todo[u] : msg[u] \notin Contents(s)
        /\ pc[u] = "Link" => msg[u] \notin Contents(at[u]) /\ at[u] \notin todo[u]
    BY DEF RInv, Fresh
  <2>2. todo[u] \subseteq Sessions /\ (pc[u] = "Link" => at[u] \in Sessions)
    BY <1>0 DEF Places
  <2>3. CASE u = t
    BY <1>2, <1>4, <1>6, <2>1, <2>2, <2>3
  <2>4. CASE u # t
    <3>1. msg[u] # m /\ pc'[u] = pc[u]
      BY <1>0, <1>2, <1>4, <1>5, <2>4
    <3>2. \A s \in Sessions : msg[u] \in Contents(s)' => msg[u] \in Contents(s)
      BY <1>6, <3>1
    <3> QED
      BY <1>2, <2>1, <2>2, <3>1, <3>2
  <2> QED
    BY <2>3, <2>4
<1>8. refs' \in [Messages -> Int]
  BY <1>2 DEF RInv, Counted
<1>9. ASSUME NEW x \in Messages
      PROVE  /\ refs'[x] >= References(x)'
             /\ x \notin lost' => refs'[x] = References(x)'
  <2>1. Creators(x)' = Creators(x)
    BY <1>2 DEF Creators
  <2>2. CASE x # m
    <3>1. Linkers(x)' = Linkers(x) /\ Keepers(x)' = Keepers(x)
      BY <1>0, <1>2, <1>5, <1>6, <2>2 DEF Linkers, Keepers
    <3> QED
      BY <1>2, <2>1, <3>1 DEF RInv, Counted, References
  <2>3. CASE x = m
    <3>1. Linkers(x)' = Linkers(x) \ {t} /\ t \in Linkers(x)
      BY <1>0, <1>2, <1>5, <2>3 DEF Linkers
    <3>2. Linkers(x)' \ {t} = Linkers(x) \ {t} /\ t \notin Linkers(x)'
      BY <3>1
    <3>3. Keepers(x)' = Keepers(x) \cup {a} /\ a \notin Keepers(x)
      BY <1>4, <1>5, <1>6, <2>3 DEF Keepers
    <3>4. Keepers(x)' \ {a} = Keepers(x) \ {a} /\ a \in Keepers(x)'
      BY <3>3
    <3>0. PICK d \in Int : d = 0
      OBVIOUS
    <3>5. Counted /\ refs'[x] = refs[x] + d
      BY <1>2, <3>0 DEF RInv, Counted
    <3>6. d = (IF t \in Creators(x)' THEN 1 ELSE 0) - (IF t \in Creators(x) THEN 1 ELSE 0)
            + (IF t \in Linkers(x)' THEN 1 ELSE 0) - (IF t \in Linkers(x) THEN 1 ELSE 0)
            + (IF a \in Keepers(x)' THEN 1 ELSE 0) - (IF a \in Keepers(x) THEN 1 ELSE 0)
      BY <2>1, <3>0, <3>1, <3>2, <3>3, <3>4
    <3>7. Creators(x)' \ {t} = Creators(x) \ {t} /\ (x \notin lost' => x \notin lost)
      BY <1>2, <2>1
    <3> HIDE <3>0
    <3> QED
      BY <3>2, <3>4, <3>5, <3>6, <3>7, Balance
  <2> QED
    BY <2>2, <2>3
<1> QED
  BY <1>6, <1>7, <1>8, <1>9 DEF Counted


\* A worker gives back a message that was sent.
LEMMA ReclaimStep ==
    ASSUME RInv, IInv', NEW t \in Workers, Reclaim(t)
    PROVE  Distinct' /\ Fresh' /\ Counted'
<1>0. /\ IInv /\ Types /\ Places /\ Threads = Senders \cup Workers
      /\ pc \in [Threads -> Labels] /\ t \in Threads /\ n \in [Threads -> Nat]
      /\ numSent \in [Sessions -> Nat]
      /\ at \in [Threads -> Sessions \cup {NoSession}]
      /\ msg \in [Threads -> Messages \cup {NoMessage}] /\ todo \in [Threads -> SUBSET Sessions]
  BY DEF Threads, RInv, IInv, Types, SessionTypes, ThreadTypes
<1>1. PICK a \in Sessions : a = at[t]
  BY <1>0 DEF Reclaim, Places
<1>2. PICK k \in Nat : k = n[t]
  BY <1>0
<1>3. PICK z \in Nat : z = numSent[a]
  BY <1>0
<1>4. /\ pc[t] = "Reclaim" /\ k < z
      /\ UNCHANGED <<open, numSent, at, pc, sent, queue, msg, todo, lost>>
      /\ n'[t] = k + 1 /\ \A u \in Threads \ {t} : n'[u] = n[u]
      /\ refs' = [refs EXCEPT ![sent[a][k + 1]] = @ - 1]
  BY <1>0, <1>1, <1>2, <1>3 DEF Reclaim, sessionVars, queueVars, sendVars, historyVars
<1>5. \A i \in Nat : Holds(a, i) <=> i \in k + 1 .. z
  BY <1>0, <1>1, <1>2, <1>3, <1>4, HeldByReclaimer
<1>6. \A u \in Threads : at[u] = a /\ pc[u] \in OwnerLabels => u = t
  BY <1>0, <1>1, <1>4 DEF IInv, Ownership, OwnerLabels
<1>7. \A i \in Nat : Holds(a, i)' <=> i \in k + 2 .. z
  <2> SUFFICES ASSUME NEW i \in Nat PROVE Holds(a, i)' <=> i \in k + 2 .. z
    OBVIOUS
  <2>1. open'[a] /\ at'[t] = a /\ pc'[t] = "Reclaim" /\ "Reclaim" \notin DrainLabels
    BY <1>0, <1>1, <1>4 DEF Places, DrainLabels
  <2>2. \A u \in Threads : at'[u] = a /\ pc'[u] \in OwnerLabels => u = t
    BY <1>4, <1>6
  <2>3. Holds(a, i)' <=> n'[t] < i /\ i \in 1 .. numSent'[a]
    BY <1>0, <2>1, <2>2 DEF Holds, OwnerLabels
  <2> QED
    BY <1>3, <1>4, <2>3
<1>8. \A r \in Sessions \ {a}, i \in Nat : Holds(r, i)' <=> Holds(r, i)
  BY <1>1, <1>4 DEF Holds
<1>9. k + 1 \in k + 1 .. z /\ k + 1 \notin k + 2 .. z /\ k + 1 \in Nat
      /\ \A i \in Nat : i \in k + 1 .. z <=> i = k + 1 \/ i \in k + 2 .. z
  BY <1>4
<1>10. PICK m \in Messages : m = sent[a][k + 1]
  BY <1>5, <1>9 DEF RInv, Distinct
<1>11. /\ \A i \in k + 2 .. z : sent[a][i] # m
       /\ \A j \in 1 .. Len(queue[a]) : queue[a][j] # m
  <2>1. \A i \in k + 2 .. z : i \in Nat /\ i # k + 1 /\ Holds(a, i)
    BY <1>5
  <2>2. Holds(a, k + 1)
    BY <1>5, <1>9
  <2> QED
    BY <1>9, <1>10, <2>1, <2>2 DEF RInv, Distinct
<1>12. Distinct' /\ \A s \in Sessions : Contents(s)' \subseteq Contents(s)
  <2>1. \A i \in Nat : Holds(a, i)' => Holds(a, i)
    BY <1>5, <1>7, <1>9
  <2> QED
    BY <1>4, <1>8, <2>1, DistinctShrink DEF RInv
<1>13. Contents(a)' = Contents(a) \ {m} /\ m \in Contents(a)
  <2>1. \A x : InQueue(a, x)' <=> InQueue(a, x)
    BY <1>4 DEF InQueue
  <2>2. ~ InQueue(a, m) /\ InArray(a, m)
    BY <1>5, <1>9, <1>10, <1>11 DEF InQueue, InArray
  <2>3. \A x : InArray(a, x)' <=> InArray(a, x) /\ x # m
    <3> TAKE x
    <3>1. InArray(a, x)' <=> \E i \in Nat : i \in k + 2 .. z /\ sent[a][i] = x
      BY <1>4, <1>7 DEF InArray
    <3>2. InArray(a, x) <=> \E i \in Nat : i \in k + 1 .. z /\ sent[a][i] = x
      BY <1>5 DEF InArray
    <3> QED
      BY <1>9, <1>10, <1>11, <3>1, <3>2
  <2> QED
    BY <2>1, <2>2, <2>3 DEF Contents
<1>14. \A s \in Sessions \ {a} : Contents(s)' = Contents(s)
  BY <1>4, <1>8 DEF Contents, InArray, InQueue
<1>15. Fresh'
  <2>1. \A u \in Senders : /\ pc[u] = "Link" => at[u] \in Sessions
                           /\ todo[u] \subseteq Sessions
    BY <1>0 DEF Places
  <2> QED
    BY <1>4, <1>12, <2>1 DEF RInv, Fresh
<1>16. refs' \in [Messages -> Int]
  BY <1>4, <1>10 DEF RInv, Counted
<1>17. ASSUME NEW x \in Messages
       PROVE  /\ refs'[x] >= References(x)'
              /\ x \notin lost' => refs'[x] = References(x)'
  <2>1. Creators(x)' = Creators(x) /\ Linkers(x)' = Linkers(x)
    BY <1>4 DEF Creators, Linkers
  <2>2. CASE x # m
    <3>1. Keepers(x)' = Keepers(x)
      BY <1>13, <1>14, <2>2 DEF Keepers
    <3>2. refs'[x] = refs[x]
      BY <1>4, <1>10, <2>2 DEF RInv, Counted
    <3> QED
      BY <1>4, <2>1, <3>1, <3>2 DEF RInv, Counted, References
  <2>3. CASE x = m
    <3>1. Keepers(x)' = Keepers(x) \ {a} /\ a \in Keepers(x)
      BY <1>13, <1>14, <2>3 DEF Keepers
    <3>2. Keepers(x)' \ {a} = Keepers(x) \ {a} /\ a \notin Keepers(x)'
      BY <3>1
    <3>3. refs'[x] = refs[x] + (-1)
      BY <1>4, <1>10, <2>3 DEF RInv, Counted
    <3>4. Counted /\ -1 \in Int
      BY DEF RInv
    <3>5. -1 = (IF a \in Creators(x)' THEN 1 ELSE 0) - (IF a \in Creators(x) THEN 1 ELSE 0)
             + (IF a \in Linkers(x)' THEN 1 ELSE 0) - (IF a \in Linkers(x) THEN 1 ELSE 0)
             + (IF a \in Keepers(x)' THEN 1 ELSE 0) - (IF a \in Keepers(x) THEN 1 ELSE 0)
      BY <2>1, <3>1, <3>2
    <3>6. Creators(x)' \ {a} = Creators(x) \ {a} /\ Linkers(x)' \ {a} = Linkers(x) \ {a}
      BY <2>1
    <3> QED
      BY <1>4, <3>2, <3>3, <3>4, <3>5, <3>6, Balance
  <2> QED
    BY <2>2, <2>3
<1> QED
  BY <1>12, <1>15, <1>16, <1>17 DEF Counted

\* A closed session's queue and SentMessages name each of its messages once.
LEMMA NamedOnce ==
    ASSUME RInv, NEW s \in Sessions, Inside(s) = {}, open[s], NEW m \in Messages
    PROVE  Times(m, queue[s] \o Owned(s)) = IF m \in Contents(s) THEN 1 ELSE 0
<1> DEFINE q == queue[s]
           o == Owned(s)
           k == Len(q)
           z == numSent[s]
           c == q \o o
           P == {i \in DOMAIN c : c[i] = m}
<1>0. /\ q \in Seq(Messages) /\ k \in Nat /\ z \in Nat
      /\ sent[s] \in [Indexes -> Messages \cup {NoMessage}]
  BY QueueType DEF RInv, IInv, Types, SessionTypes
<1>1. \A i \in Nat : Holds(s, i) <=> i \in 1 .. z
  BY HeldByNobody DEF Inside
<1>2. Cardinality(Messages) \in Nat
  BY SendAssumption, FS_CardinalityType
<1>3. z <= Cardinality(Messages)
  <2>1. CASE z = 0
    BY <1>2, <2>1
  <2>2. CASE z # 0
    <3>1. z \in 1 .. z
      BY <1>0, <2>2
    <3>2. z \in Indexes
      BY <1>0, <1>1, <3>1 DEF RInv, Distinct
    <3> QED
      BY <1>2, <3>2 DEF Indexes
  <2> QED
    BY <2>1, <2>2
<1>4. sent[s] \in Seq(Messages \cup {NoMessage}) /\ Len(sent[s]) = Cardinality(Messages)
  BY <1>0, <1>2 DEF Indexes
<1>5. /\ o \in Seq(Messages \cup {NoMessage}) /\ Len(o) = z
      /\ \A i \in 1 .. z : o[i] = sent[s][i]
  BY <1>0, <1>2, <1>3, <1>4 DEF Owned
<1>6. q \in Seq(Messages \cup {NoMessage})
  BY <1>0
<1>7. Len(q) = k /\ c = q \o o
  OBVIOUS
<1>8. /\ \A i, j \in 1 .. z : sent[s][i] = sent[s][j] => i = j
      /\ \A i, j \in 1 .. k : q[i] = q[j] => i = j
      /\ \A i \in 1 .. z, j \in 1 .. k : sent[s][i] # q[j]
  BY <1>0, <1>1 DEF RInv, Distinct
<1>9. m \in Contents(s) <=> (\E i \in 1 .. z : sent[s][i] = m) \/ (\E j \in 1 .. k : q[j] = m)
  BY <1>0, <1>1 DEF Contents, InArray, InQueue
<1> HIDE DEF q, o, k, z, c
<1>17. /\ DOMAIN c = 1 .. k + z
       /\ \A i \in 1 .. k : c[i] = q[i]
       /\ \A i \in 1 .. z : c[k + i] = o[i]
  <2>1. /\ c \in Seq(Messages \cup {NoMessage}) /\ Len(c) = k + z
        /\ \A i \in 1 .. k + z : c[i] = IF i <= k THEN q[i] ELSE o[i - k]
    <3>1. o \in Seq(Messages \cup {NoMessage})
      BY <1>5
    <3>2. /\ q \o o \in Seq(Messages \cup {NoMessage}) /\ Len(q \o o) = Len(q) + Len(o)
          /\ \A i \in 1 .. Len(q) + Len(o) :
                (q \o o)[i] = IF i <= Len(q) THEN q[i] ELSE o[i - Len(q)]
      BY <1>6, <3>1, ConcatProperties
    <3> QED
      BY <1>5, <1>7, <3>2
  <2>2. \A i \in 1 .. k : i \in 1 .. k + z /\ i <= k
    BY <1>0
  <2>3. \A i \in 1 .. z : k + i \in 1 .. k + z /\ ~ (k + i <= k) /\ (k + i) - k = i
    BY <1>0
  <2>4. DOMAIN c = 1 .. Len(c)
    BY <2>1
  <2> QED
    BY <2>1, <2>2, <2>3, <2>4
<1>10. \A i \in 1 .. k + z : i \in 1 .. k \/ \E j \in 1 .. z : i = k + j
  <2> SUFFICES ASSUME NEW i \in 1 .. k + z, i \notin 1 .. k PROVE \E j \in 1 .. z : i = k + j
    OBVIOUS
  <2>1. i - k \in 1 .. z /\ i = k + (i - k)
    BY <1>0
  <2> QED
    BY <2>1
<1>11. (\A i \in 1 .. k : i \in 1 .. k + z) /\ \A i \in 1 .. z : k + i \in 1 .. k + z
  BY <1>0
<1>12. (\E i \in DOMAIN c : c[i] = m) <=> m \in Contents(s)
  BY SMTT(30), <1>5, <1>17, <1>9, <1>10, <1>11
<1>13. \A i, j \in DOMAIN c : c[i] = c[j] => i = j
  <2> SUFFICES ASSUME NEW i \in 1 .. k + z, NEW j \in 1 .. k + z, c[i] = c[j] PROVE i = j
    BY <1>17
  <2> QED
    BY <1>5, <1>17, <1>8, <1>10
<1>14. Times(m, c) = Cardinality(P)
  BY DEF Times
<1>15. CASE m \in Contents(s)
  <2>1. PICK i \in DOMAIN c : c[i] = m
    BY <1>12, <1>15
  <2>2. P = {i}
    BY <1>13, <2>1
  <2> QED
    BY <1>14, <1>15, <2>2, FS_Singleton DEF c, q, o
<1>16. CASE m \notin Contents(s)
  <2>1. P = {}
    BY <1>12, <1>16
  <2> QED
    BY <1>14, <1>16, <2>1, FS_EmptySet DEF c, q, o
<1> QED
  BY <1>15, <1>16

LEMMA ReleaseStep ==
    ASSUME RInv, IInv', NEW a \in Sessions, ReleaseSession(a)
    PROVE  Distinct' /\ Fresh' /\ Counted'
<1>0. /\ IInv /\ Types /\ Places
      /\ todo \in [Threads -> SUBSET Sessions] /\ Threads = Senders \cup Workers
  BY DEF Threads, RInv, IInv, Types, ThreadTypes
<1>1. /\ open[a] /\ ~ open'[a] /\ Inside(a) = {} /\ queue'[a] = <<>>
      /\ UNCHANGED <<numSent, at, pc, n, sent, msg, todo, lost>>
      /\ refs' = [m \in Messages |-> refs[m] - Times(m, queue[a] \o Owned(a))]
      /\ \A s \in Sessions \ {a} : open'[s] = open[s] /\ queue'[s] = queue[s]
  BY <1>0 DEF ReleaseSession, Set, Types, SessionTypes, sendVars, threadVars, historyVars
<1>2. \A i \in Nat : ~ Holds(a, i)'
  BY <1>1 DEF Holds
<1>3. \A r \in Sessions \ {a}, i \in Nat : Holds(r, i)' <=> Holds(r, i)
  BY <1>1 DEF Holds
<1>4. Distinct' /\ \A s \in Sessions : Contents(s)' \subseteq Contents(s)
  <2>1. \A s \in Sessions, i \in Nat : Holds(s, i)' => Holds(s, i) /\ sent'[s][i] = sent[s][i]
    BY <1>1, <1>2, <1>3
  <2>2. \A s \in Sessions : queue'[s] = queue[s] \/ queue'[s] = <<>>
    BY <1>1
  <2> QED
    BY <2>1, <2>2, DistinctShrink DEF RInv
<1>5. \A s \in Sessions \ {a} : Contents(s)' = Contents(s)
  BY <1>1, <1>3 DEF Contents, InArray, InQueue
<1>6. Contents(a)' = {}
  <2>1. Len(queue'[a]) = 0
    BY <1>1, EmptySeq, Zenon
  <2>2. \A x : ~ InQueue(a, x)'
    BY <2>1 DEF InQueue
  <2> QED
    BY <1>2, <2>2 DEF Contents, InArray
<1>7. Fresh'
  <2>1. \A u \in Senders : /\ pc[u] = "Link" => at[u] \in Sessions
                           /\ todo[u] \subseteq Sessions
    BY <1>0 DEF Places, Types, ThreadTypes
  <2> QED
    BY <1>1, <1>4, <2>1 DEF RInv, Fresh
<1>8. ASSUME NEW x \in Messages
      PROVE  refs'[x] = refs[x] - (IF x \in Contents(a) THEN 1 ELSE 0)
  BY <1>1, NamedOnce
<1>9. refs' \in [Messages -> Int]
  <2>1. \A x \in Messages : refs'[x] \in Int
    BY <1>8 DEF RInv, Counted
  <2> QED
    BY <1>1, <2>1
<1>10. ASSUME NEW x \in Messages
       PROVE  /\ refs'[x] >= References(x)'
              /\ x \notin lost' => refs'[x] = References(x)'
  <2>1. Creators(x)' = Creators(x) /\ Linkers(x)' = Linkers(x)
    BY <1>1 DEF Creators, Linkers
  <2>2. CASE x \notin Contents(a)
    <3>1. Keepers(x)' = Keepers(x)
      BY <1>5, <1>6, <2>2 DEF Keepers
    <3>2. refs'[x] = refs[x]
      BY <1>8, <2>2 DEF RInv, Counted
    <3> QED
      BY <1>1, <2>1, <3>1, <3>2 DEF RInv, Counted, References
  <2>3. CASE x \in Contents(a)
    <3>1. Keepers(x)' = Keepers(x) \ {a} /\ a \in Keepers(x)
      BY <1>5, <1>6, <2>3 DEF Keepers
    <3>2. Keepers(x)' \ {a} = Keepers(x) \ {a} /\ a \notin Keepers(x)'
      BY <3>1
    <3>3. refs'[x] = refs[x] + (-1)
      BY <1>8, <2>3 DEF RInv, Counted
    <3>4. Counted /\ -1 \in Int
      BY DEF RInv
    <3>5. -1 = (IF a \in Creators(x)' THEN 1 ELSE 0) - (IF a \in Creators(x) THEN 1 ELSE 0)
             + (IF a \in Linkers(x)' THEN 1 ELSE 0) - (IF a \in Linkers(x) THEN 1 ELSE 0)
             + (IF a \in Keepers(x)' THEN 1 ELSE 0) - (IF a \in Keepers(x) THEN 1 ELSE 0)
      BY <2>1, <3>1, <3>2
    <3>6. Creators(x)' \ {a} = Creators(x) \ {a} /\ Linkers(x)' \ {a} = Linkers(x) \ {a}
      BY <2>1
    <3> QED
      BY <1>1, <3>2, <3>3, <3>4, <3>5, <3>6, Balance
  <2> QED
    BY <2>2, <2>3
<1> QED
  BY <1>4, <1>7, <1>9, <1>10 DEF Counted


LEMMA ForgottenNext ==
    ASSUME RInv, IInv', [Next]_vars
    PROVE  Forgotten'
<1> USE DEF Goto, Set
<1>0. /\ IInv /\ Types /\ Places /\ Ownership /\ Forgotten
      /\ Threads = Senders \cup Workers /\ NoSession \notin Sessions
      /\ pc \in [Threads -> Labels] /\ n \in [Threads -> Nat]
      /\ at \in [Threads -> Sessions \cup {NoSession}]
      /\ numSent \in [Sessions -> Nat] /\ open \in [Sessions -> BOOLEAN]
      /\ sending \in [Sessions -> BOOLEAN]
      /\ \A t \in Threads : pc[t] \notin {"Idle", "Call"} => at[t] \in Sessions
  BY SendAssumption DEF Threads, RInv, IInv, Places, Types, ThreadTypes, SessionTypes
<1> SUFFICES ASSUME NEW s \in Sessions, NEW i \in 1 .. numSent'[s],
                    \/ open'[s] /\ ~ sending'[s]
                    \/ \E t \in Threads : pc'[t] = "Undo" /\ at'[t] = s
             PROVE  sent'[s][i] \in lost'
  BY DEF Forgotten
<1> DEFINE Failed == \/ open[s] /\ ~ sending[s]
                     \/ \E t \in Threads : pc[t] = "Undo" /\ at[t] = s
<1>1. Failed => \A j \in 1 .. numSent[s] : sent[s][j] \in lost
  BY <1>0 DEF Forgotten
<1>2. ASSUME NEW t \in Senders, NEW m \in Messages, NEW targets \in SUBSET Sessions,
             Create(t, m, targets)
      PROVE sent'[s][i] \in lost'
  <2>1. /\ UNCHANGED <<open, sending, sent, numSent, at>> /\ refs[m] = 0
        /\ lost' = lost \ {m} /\ pc'[t] = "Call" /\ \A u \in Threads \ {t} : pc'[u] = pc[u]
    BY <1>0, <1>2 DEF Create, sessionVars, sendVars
  <2>2. Failed
    BY <2>1
  <2>3. \A u \in Threads : at[u] = s => pc[u] \notin DrainLabels \cup {"Reclaim"}
    BY <1>0, <2>2 DEF Ownership, OwnerLabels, DrainLabels
  <2>4. open[s]
    BY <1>0, <2>2 DEF Places
  <2>5. Holds(s, i)
    BY <1>0, <2>1, <2>3, <2>4, HeldByNobody
  <2>6. Keepers(m) = {}
    BY <2>1, Unreferenced DEF RInv
  <2>7. sent[s][i] # m
    BY <2>5, <2>6 DEF Keepers, Contents, InArray
  <2> QED
    BY <1>1, <2>1, <2>2, <2>7
<1>3. ASSUME NEW t \in Senders, NEW a \in Sessions, Acquire(t, a)
      PROVE sent'[s][i] \in lost'
  <2>1. UNCHANGED <<open, sending, sent, numSent, lost>>
    BY <1>3 DEF Acquire, sessionVars, sendVars, historyVars
  <2>2. \A u \in Threads : pc'[u] = "Undo" => pc[u] = "Undo" /\ at'[u] = at[u]
    BY <1>0, <1>3 DEF Acquire
  <2> QED
    BY <1>1, <2>1, <2>2
<1>4. ASSUME NEW t \in Threads, \/ Drop(t) \/ Link(t) \/ Count(t) \/ IsEmpty(t) \/ Leave(t)
                                \/ Lower(t) \/ Restore(t) \/ Reclaim(t)
      PROVE sent'[s][i] \in lost'
  <2>1. UNCHANGED <<open, sending, sent, numSent, lost>>
    BY <1>4 DEF Drop, Link, Count, IsEmpty, Leave, Lower, Restore, Reclaim, sessionVars, sendVars,
       historyVars
  <2>2. \A u \in Threads : pc'[u] = "Undo" => pc[u] = "Undo" /\ at'[u] = at[u]
    BY <1>0, <1>4 DEF Drop, Link, Count, IsEmpty, Leave, Lower, Restore, Reclaim
  <2> QED
    BY <1>1, <2>1, <2>2
<1>5. ASSUME NEW t \in Threads, Exchange(t)
      PROVE sent'[s][i] \in lost'
  <2>1. UNCHANGED <<open, sent, numSent, lost>> /\ (sending[s] => sending'[s])
    BY <1>0, <1>5 DEF Exchange, historyVars
  <2>2. \A u \in Threads : pc'[u] = "Undo" => pc[u] = "Undo" /\ at'[u] = at[u]
    BY <1>0, <1>5 DEF Exchange
  <2> QED
    BY <1>1, <2>1, <2>2
<1>6. ASSUME NEW t \in Threads, Store(t)
      PROVE sent'[s][i] \in lost'
  <2>1. UNCHANGED <<open, sending, numSent, lost, at>> /\ pc[t] = "Store" /\ at[t] \in Sessions
    BY <1>0, <1>6 DEF Store, historyVars
  <2>2. \A u \in Threads : pc'[u] = "Undo" => pc[u] = "Undo"
    BY <1>0, <1>6 DEF Store
  <2>3. Failed
    BY <2>1, <2>2
  <2>4. s # at[t]
    BY <1>0, <2>1, <2>3 DEF Ownership, OwnerLabels, DrainLabels
  <2>5. sent'[s] = sent[s]
    BY <1>6, <2>4 DEF Store
  <2> QED
    BY <1>1, <2>1, <2>3, <2>5
<1>7. ASSUME NEW t \in Threads, Post(t)
      PROVE sent'[s][i] \in lost'
  <2>1. /\ UNCHANGED <<open, sending, sent, at>> /\ lost \subseteq lost'
        /\ pc[t] = "Post" /\ at[t] \in Sessions /\ sending[at[t]]
        /\ numSent'[at[t]] = n[t] /\ \A r \in Sessions \ {at[t]} : numSent'[r] = numSent[r]
        /\ \A u \in Threads \ {t} : pc'[u] = pc[u]
    BY <1>0, <1>7 DEF Post, Ownership, OwnerLabels, DrainLabels
  <2>2. CASE s # at[t]
    <3>1. Failed
      BY <2>1, <2>2
    <3> QED
      BY <1>1, <2>1, <2>2, <3>1
  <2>3. CASE s = at[t]
    <3>1. \A u \in Threads \ {t} : at[u] = s => pc[u] # "Undo"
      BY <1>0, <2>1, <2>3 DEF Ownership, OwnerLabels, DrainLabels
    <3>2. pc'[t] = "Undo"
      BY <2>1, <2>3, <3>1
    <3>3. lost' = lost \cup ToSet(SubSeq(sent[s], 1, n[t]))
      BY <1>0, <1>7, <2>3, <3>2 DEF Post
    <3>4. \A j \in 1 .. n[t] : sent[s][j] \in Messages
      BY <1>0, <2>1, <2>3, HeldByDrainer DEF DrainLabels, RInv, Distinct
    <3>5. n[t] \in Nat
      BY <1>0
    <3>6. /\ SubSeq(sent[s], 1, n[t]) \in Seq(Messages)
          /\ Len(SubSeq(sent[s], 1, n[t])) = n[t]
          /\ \A j \in 1 .. n[t] : SubSeq(sent[s], 1, n[t])[j] = sent[s][j]
      <4>1. /\ SubSeq(sent[s], 1, n[t]) \in Seq(Messages)
            /\ Len(SubSeq(sent[s], 1, n[t])) = IF 1 <= n[t] THEN n[t] - 1 + 1 ELSE 0
            /\ \A j \in 1 .. n[t] - 1 + 1 : SubSeq(sent[s], 1, n[t])[j] = sent[s][1 + j - 1]
        BY <3>4, <3>5, SubSeqProperties
      <4> QED
        BY <3>5, <4>1
    <3>7. i \in 1 .. n[t]
      BY <2>1, <2>3
    <3>8. i \in DOMAIN SubSeq(sent[s], 1, n[t])
      BY <3>6, <3>7
    <3> QED
      BY <2>1, <3>3, <3>6, <3>7, <3>8 DEF ToSet
  <2> QED
    BY <2>2, <2>3
<1>8. ASSUME NEW t \in Threads, Undo(t)
      PROVE sent'[s][i] \in lost'
  <2>1. /\ UNCHANGED <<open, sent, numSent, lost, at>> /\ pc[t] = "Undo" /\ at[t] \in Sessions
        /\ pc'[t] = "Leave" /\ \A r \in Sessions \ {at[t]} : sending'[r] = sending[r]
        /\ \A u \in Threads \ {t} : pc'[u] = pc[u]
    BY <1>0, <1>8 DEF Undo, historyVars
  <2>2. Failed
    BY <2>1
  <2> QED
    BY <1>1, <2>1, <2>2
<1>9. ASSUME NEW t \in Threads, Clear(t)
      PROVE sent'[s][i] \in lost'
  <2>1. /\ UNCHANGED <<open, sent, lost, at>> /\ at[t] \in Sessions
        /\ numSent'[at[t]] = 0 /\ \A r \in Sessions \ {at[t]} : numSent'[r] = numSent[r]
        /\ \A r \in Sessions \ {at[t]} : sending'[r] = sending[r]
        /\ \A u \in Threads : pc'[u] = "Undo" => pc[u] = "Undo"
    BY <1>0, <1>9 DEF Clear, historyVars
  <2>2. s # at[t]
    BY <2>1
  <2> QED
    BY <1>1, <2>1, <2>2
<1>10. ASSUME NEW t \in Threads, NEW a \in Sessions, CompleteData(t, a) \/ CompleteZero(t, a)
      PROVE sent'[s][i] \in lost'
  <2>1. UNCHANGED <<open, sending, sent, numSent, lost>>
    BY <1>10 DEF CompleteData, CompleteZero
  <2>2. \A u \in Threads : pc'[u] = "Undo" => pc[u] = "Undo" /\ at'[u] = at[u]
    BY <1>0, <1>10 DEF CompleteData, CompleteZero, threadVars
  <2> QED
    BY <1>1, <2>1, <2>2
<1>11. ASSUME NEW a \in Sessions, Cut(a)
      PROVE sent'[s][i] \in lost'
  <2>1. UNCHANGED <<open, sending, sent, numSent, lost, pc, at>>
    BY <1>11 DEF Cut, threadVars, historyVars
  <2> QED
    BY <1>1, <2>1
<1>12. ASSUME NEW a \in Sessions, ReleaseSession(a)
      PROVE sent'[s][i] \in lost'
  <2>1. UNCHANGED <<sending, sent, numSent, lost, pc, at>> /\ (open'[s] => open[s])
    BY <1>0, <1>12 DEF ReleaseSession, threadVars, historyVars, sendVars
  <2> QED
    BY <1>1, <2>1
<1>13. ASSUME NEW a \in Sessions, AcceptSession(a)
      PROVE sent'[s][i] \in lost'
  <2>1. /\ UNCHANGED <<sent, lost, pc, at>> /\ numSent'[a] = 0
        /\ \A r \in Sessions \ {a} :
              open'[r] = open[r] /\ sending'[r] = sending[r] /\ numSent'[r] = numSent[r]
    BY <1>0, <1>13 DEF AcceptSession, threadVars
  <2>2. s # a
    BY <2>1
  <2> QED
    BY <1>1, <2>1, <2>2
<1>14. ASSUME UNCHANGED vars
      PROVE sent'[s][i] \in lost'
  BY <1>1, <1>14 DEF vars, sessionVars, sendVars, threadVars, historyVars
<1> QED
  BY Steps, <1>0, <1>2, <1>3, <1>4, <1>5, <1>6, <1>7, <1>8, <1>9, <1>10, <1>11, <1>12, <1>13,
     <1>14 DEF SendPost

LEMMA RInvNext == RInv /\ [Next]_vars => RInv'
<1> SUFFICES ASSUME RInv, [Next]_vars PROVE RInv'
  OBVIOUS
<1>1. IInv'
  BY NextIInv DEF RInv
<1>2. Forgotten'
  BY <1>1, ForgottenNext
<1>3. Distinct' /\ Fresh' /\ Counted'
  <2>1. CASE Next
    BY <1>1, <2>1, Steps, QuietSteps, ExchangeStep, StoreStep, CreateStep, AcquireStep, DropStep,
       LinkStep, ReclaimStep, ReleaseStep DEF SendPost
  <2>2. CASE UNCHANGED vars
    <3>1. UNCHANGED <<open, numSent, pc, at, n, queue, sent, refs, msg, todo, lost>>
      BY <2>2 DEF vars, sessionVars, queueVars, sendVars, threadVars, historyVars
    <3>2. Held
      BY <3>1 DEF Held, Holds
    <3> QED
      BY <3>1, <3>2, HeldQuiet
  <2> QED
    BY <2>1, <2>2
<1> QED
  BY <1>1, <1>2, <1>3 DEF RInv


LEMMA InitRInv == Init => RInv
<1> SUFFICES ASSUME Init PROVE RInv
  OBVIOUS
<1>1. IInv
  BY InitIInv
<1>2. /\ \A s \in Sessions : Len(queue[s]) = 0 /\ numSent[s] = 0 /\ sending[s] = FALSE
      /\ \A t \in Threads : pc[t] = "Idle" /\ msg[t] = NoMessage
      /\ NoMessage \notin Messages /\ Senders \subseteq Threads
      /\ refs = [m \in Messages |-> 0]
  BY SendAssumption DEF Init, Threads
<1>3. \A s \in Sessions, i \in Nat : ~ Holds(s, i)
  <2> SUFFICES ASSUME NEW s \in Sessions, NEW i \in Nat PROVE ~ Holds(s, i)
    OBVIOUS
  <2>1. i \notin 1 .. numSent[s]
    BY <1>2
  <2> QED
    BY <1>2, <2>1 DEF Holds, DrainLabels
<1>4. \A s \in Sessions : \A m : ~ InQueue(s, m)
  BY <1>2 DEF InQueue
<1>5. Distinct
  <2>1. \A s \in Sessions : 1 .. Len(queue[s]) = {}
    BY <1>2
  <2> QED
    BY <1>3, <2>1 DEF Distinct
<1>6. Fresh
  BY <1>2 DEF Fresh
<1>7. Forgotten
  <2>1. \A s \in Sessions : 1 .. numSent[s] = {}
    BY <1>2
  <2> QED
    BY <2>1 DEF Forgotten
<1>8. Counted
  <2> SUFFICES ASSUME NEW m \in Messages PROVE refs[m] = References(m) /\ refs[m] = 0
    BY <1>2 DEF Counted
  <2>1. Creators(m) = {} /\ Linkers(m) = {}
    BY <1>2 DEF Creators, Linkers
  <2>2. Keepers(m) = {}
    BY <1>3, <1>4 DEF Keepers, Contents, InArray
  <2> QED
    BY <1>2, <2>1, <2>2, FS_EmptySet DEF References
<1> QED
  BY <1>1, <1>5, <1>6, <1>7, <1>8 DEF RInv

LEMMA ReferenceInvariant == Spec => []RInv
BY InitRInv, RInvNext, PTL DEF Spec

--------------------------------------------------------------------------------
(* The places of a message are as many as the sessions that keep it.       *)

\* pairs that differ in their first part are as many as their first parts
LEMMA FirstParts ==
    ASSUME NEW X, NEW Y, NEW P \in SUBSET (X \X Y), IsFiniteSet(X),
           \A p, q \in P : p[1] = q[1] => p = q
    PROVE  Cardinality(P) = Cardinality({p[1] : p \in P})
<1> DEFINE K == {p[1] : p \in P}
           f == [p \in P |-> p[1]]
<1>1. f \in Bijection(P, K)
  <2>1. f \in [P -> K] /\ \A p \in P : f[p] = p[1]
    OBVIOUS
  <2>2. \A p, q \in P : f[p] = f[q] => p = q
    BY <2>1
  <2>3. \A k \in K : \E p \in P : f[p] = k
    BY <2>1
  <2> HIDE DEF f, K
  <2> QED
    BY <2>1, <2>2, <2>3, Fun_IsBij
<1>2. K \subseteq X
  OBVIOUS
<1>3. IsFiniteSet(K)
  BY <1>2, FS_Subset
<1>4. ExistsBijection(P, K)
  BY <1>1 DEF ExistsBijection
<1>5. ExistsBijection(K, P)
  BY <1>4, Fun_ExistsBijSymmetric
<1> QED
  BY <1>3, <1>5, FS_Bijection

\* what a session holds is within SentMessages
LEMMA TakenPlaces ==
    ASSUME RInv, NEW s \in Sessions, NEW i \in Nat, NEW m \in Messages
    PROVE  Taken(m, s, i) /\ i # 0 <=> Draining(s) # {} /\ Holds(s, i) /\ sent[s][i] = m
<1>0. IInv
  BY DEF RInv
<1>1. CASE Draining(s) = {}
  <2>1. Drained(s) = <<>>
    BY <1>1 DEF Drained
  <2>2. Len(Drained(s)) = 0
    BY <2>1, EmptySeq, Zenon
  <2> QED
    BY <1>1, <2>2 DEF Taken
<1>2. CASE Draining(s) # {}
  <2>1. PICK t \in Draining(s) : t = CHOOSE u \in Draining(s) : TRUE
    BY <1>2
  <2>2. t \in Threads /\ at[t] = s /\ pc[t] \in DrainLabels
    BY <2>1 DEF Draining, Inside
  <2>3. Drained(s) = SubSeq(sent[s], 1, n[t])
    BY <1>2, <2>1 DEF Drained
  <2>4. \A j \in Nat : Holds(s, j) <=> j \in 1 .. n[t]
    BY <1>0, <2>2, HeldByDrainer
  <2>5. n[t] \in Nat
    BY <1>0, <2>2 DEF IInv, Types, ThreadTypes
  <2>6. \A j \in 1 .. n[t] : sent[s][j] \in Messages
    BY <2>4, <2>5 DEF RInv, Distinct
  <2>7. /\ Len(Drained(s)) = IF 1 <= n[t] THEN n[t] - 1 + 1 ELSE 0
        /\ \A j \in 1 .. n[t] - 1 + 1 : Drained(s)[j] = sent[s][1 + j - 1]
    BY <2>3, <2>5, <2>6, SubSeqProperties
  <2>8. Len(Drained(s)) = n[t] /\ \A j \in 1 .. n[t] : Drained(s)[j] = sent[s][j]
    BY <2>5, <2>7
  <2> QED
    BY <1>2, <2>4, <2>5, <2>8 DEF Taken
<1> QED
  BY <1>1, <1>2

LEMMA UnreleasedPlaces ==
    ASSUME RInv, NEW s \in Sessions, NEW i \in Nat, NEW m \in Messages
    PROVE  Unreleased(m, s, i) <=> Draining(s) = {} /\ Holds(s, i) /\ sent[s][i] = m
<1>0. IInv
  BY DEF RInv
<1>1. CASE Draining(s) # {}
  BY <1>1 DEF Unreleased
<1>2. CASE Draining(s) = {}
  <2>1. \A t \in Threads : at[t] = s => pc[t] \notin DrainLabels
    BY <1>2 DEF Draining, Inside
  <2> DEFINE done == {n[w] : w \in {w \in Inside(s) : pc[w] = "Reclaim"}}
  <2>2. Unreclaimed(s) = IF done = {} THEN 0 ELSE CHOOSE x \in done : TRUE
    BY DEF Unreclaimed
  <2>3. CASE \E t \in Threads : at[t] = s /\ pc[t] = "Reclaim"
    <3>1. PICK t \in Threads : at[t] = s /\ pc[t] = "Reclaim"
      BY <2>3
    <3>2. \A u \in Threads : at[u] = s /\ pc[u] = "Reclaim" => u = t
      BY <1>0, <3>1 DEF IInv, Ownership, OwnerLabels
    <3>3. done = {n[t]}
      BY <3>1, <3>2 DEF Inside
    <3>4. Unreclaimed(s) = n[t]
      BY <2>2, <3>3
    <3>5. Holds(s, i) <=> i \in n[t] + 1 .. numSent[s]
      BY <1>0, <3>1, HeldByReclaimer
    <3>6. open[s]
      BY <1>0, <3>1 DEF IInv, Places
    <3> QED
      BY <1>2, <3>4, <3>5, <3>6 DEF Unreleased
  <2>4. CASE ~ \E t \in Threads : at[t] = s /\ pc[t] = "Reclaim"
    <3>1. done = {}
      BY <2>4 DEF Inside
    <3>2. Unreclaimed(s) = 0
      BY <2>2, <3>1
    <3>3. Holds(s, i) <=> open[s] /\ i \in 1 .. numSent[s]
      BY <2>1, <2>4, HeldByNobody
    <3> QED
      BY <1>2, <3>2, <3>3 DEF Unreleased
  <2> QED
    BY <2>3, <2>4
<1> QED
  BY <1>1, <1>2

\* A queue is no longer than there are messages.
LEMMA QueuedPlaces ==
    ASSUME RInv, NEW s \in Sessions, NEW i \in Indexes, NEW m \in Messages
    PROVE  Queued(m, s, i) <=> i \in 1 .. Len(queue[s]) /\ queue[s][i] = m
<1>1. queue[s] \in Seq(Messages) /\ i \in Nat /\ i >= 1
  <2>1. Cardinality(Messages) \in Nat
    BY SendAssumption, FS_CardinalityType
  <2> QED
    BY <2>1, QueueType DEF RInv, Indexes
<1>2. CASE open[s]
  BY <1>1, <1>2 DEF Queued
<1>3. CASE ~ open[s]
  <2>1. queue[s] = <<>>
    BY <1>3 DEF RInv, IInv, Attended
  <2>2. Len(queue[s]) = 0
    BY <2>1, EmptySeq, Zenon
  <2> QED
    BY <1>1, <1>3, <2>2 DEF Queued
<1> QED
  BY <1>2, <1>3

LEMMA QueueFits ==
    ASSUME RInv, NEW s \in Sessions
    PROVE  1 .. Len(queue[s]) \subseteq Indexes
<1> DEFINE q == queue[s]
           k == Len(q)
<1>1. q \in Seq(Messages) /\ k \in Nat
  BY QueueType DEF RInv
<1>2. q \in [1 .. k -> Messages]
  BY <1>1
<1>3. \A i, j \in 1 .. k : q[i] = q[j] => i = j
  BY DEF RInv, Distinct
<1> HIDE DEF q, k
<1>4. q \in Injection(1 .. k, Messages)
  BY <1>2, <1>3 DEF Injection, IsInjective
<1>5. Cardinality(1 .. k) = k
  BY <1>1, FS_Interval
<1>6. IsFiniteSet(Messages) /\ Cardinality(Messages) \in Nat
  BY SendAssumption, FS_CardinalityType
<1>7. k <= Cardinality(Messages)
  BY <1>4, <1>5, <1>6, FS_Injection
<1> QED
  BY <1>1, <1>6, <1>7 DEF Indexes, k, q

LEMMA SameCount ==
    ASSUME RInv, NEW m \in Messages
    PROVE  Holders(m) = References(m)
<1> DEFINE Q == {p \in Sessions \X Indexes : Queued(m, p[1], p[2])}
           T == {p \in Sessions \X Indexes : Taken(m, p[1], p[2])}
           U == {p \in Sessions \X Indexes : Unreleased(m, p[1], p[2])}
           KQ == {s \in Sessions : InQueue(s, m)}
           KT == {s \in Sessions : Draining(s) # {} /\ InArray(s, m)}
           KU == {s \in Sessions : Draining(s) = {} /\ InArray(s, m)}
<1>0. /\ Distinct
      /\ \A i \in Indexes : i \in Nat /\ i # 0
      /\ IsFiniteSet(Sessions)
  <2>1. Cardinality(Messages) \in Nat
    BY SendAssumption, FS_CardinalityType
  <2> QED
    BY <2>1, SendAssumption DEF RInv, Indexes
<1>1. ASSUME NEW s \in Sessions, NEW i \in Indexes
      PROVE  /\ Queued(m, s, i) <=> i \in 1 .. Len(queue[s]) /\ queue[s][i] = m
             /\ Taken(m, s, i) <=> Draining(s) # {} /\ Holds(s, i) /\ sent[s][i] = m
             /\ Unreleased(m, s, i) <=> Draining(s) = {} /\ Holds(s, i) /\ sent[s][i] = m
  BY <1>0, QueuedPlaces, TakenPlaces, UnreleasedPlaces
<1>2. /\ {p[1] : p \in Q} = KQ
      /\ {p[1] : p \in T} = KT
      /\ {p[1] : p \in U} = KU
  <2>1. {p[1] : p \in Q} = KQ
    <3>1. ASSUME NEW s \in KQ PROVE s \in {p[1] : p \in Q}
      <4>1. PICK i \in 1 .. Len(queue[s]) : queue[s][i] = m
        BY DEF InQueue
      <4>2. i \in Indexes
        BY QueueFits
      <4>3. <<s, i>> \in Q
        BY <1>1, <4>1, <4>2
      <4> QED
        BY <4>3
    <3>2. ASSUME NEW p \in Q PROVE p[1] \in KQ
      BY <1>1 DEF InQueue
    <3> QED
      BY <3>1, <3>2
  <2>2. {p[1] : p \in T} = KT
    <3>1. ASSUME NEW s \in KT PROVE s \in {p[1] : p \in T}
      <4>1. PICK i \in Nat : Holds(s, i) /\ sent[s][i] = m
        BY DEF InArray
      <4>2. i \in Indexes
        BY <1>0, <4>1 DEF Distinct
      <4>3. <<s, i>> \in T
        BY <1>1, <4>1, <4>2
      <4> QED
        BY <4>3
    <3>2. ASSUME NEW p \in T PROVE p[1] \in KT
      BY <1>0, <1>1 DEF InArray
    <3> QED
      BY <3>1, <3>2
  <2>3. {p[1] : p \in U} = KU
    <3>1. ASSUME NEW s \in KU PROVE s \in {p[1] : p \in U}
      <4>1. PICK i \in Nat : Holds(s, i) /\ sent[s][i] = m
        BY DEF InArray
      <4>2. i \in Indexes
        BY <1>0, <4>1 DEF Distinct
      <4>3. <<s, i>> \in U
        BY <1>1, <4>1, <4>2
      <4> QED
        BY <4>3
    <3>2. ASSUME NEW p \in U PROVE p[1] \in KU
      BY <1>0, <1>1 DEF InArray
    <3> QED
      BY <3>1, <3>2
  <2> QED
    BY <2>1, <2>2, <2>3
<1>3. /\ \A p, q \in Q : p[1] = q[1] => p = q
      /\ \A p, q \in T : p[1] = q[1] => p = q
      /\ \A p, q \in U : p[1] = q[1] => p = q
  <2>1. \A p, q \in Q : p[1] = q[1] => p = q
    BY <1>0, <1>1 DEF Distinct
  <2>2. \A p, q \in T : p[1] = q[1] => p = q
    BY <1>0, <1>1 DEF Distinct
  <2>3. \A p, q \in U : p[1] = q[1] => p = q
    BY <1>0, <1>1 DEF Distinct
  <2> QED
    BY <2>1, <2>2, <2>3
<1>4. Q \in SUBSET (Sessions \X Indexes) /\ T \in SUBSET (Sessions \X Indexes)
      /\ U \in SUBSET (Sessions \X Indexes)
  OBVIOUS
<1>5. Keepers(m) = KQ \cup (KT \cup KU)
  BY DEF Keepers, Contents
<1>6. KQ \cap (KT \cup KU) = {} /\ KT \cap KU = {}
  <2>1. ASSUME NEW s \in Sessions PROVE ~ (InQueue(s, m) /\ InArray(s, m))
    BY <1>0 DEF InQueue, InArray, Distinct
  <2> QED
    BY <2>1
<1>7. /\ IsFiniteSet(KQ) /\ Cardinality(KQ) \in Nat
      /\ IsFiniteSet(KT) /\ Cardinality(KT) \in Nat
      /\ IsFiniteSet(KU) /\ Cardinality(KU) \in Nat
  <2>1. KQ \subseteq Sessions /\ KT \subseteq Sessions /\ KU \subseteq Sessions
    OBVIOUS
  <2> HIDE DEF KQ, KT, KU
  <2> QED
    BY <1>0, <2>1, FS_Subset, FS_CardinalityType
<1>8. /\ Holders(m) = Cardinality(Creators(m)) + Cardinality(Linkers(m))
                      + Cardinality(Q) + Cardinality(T) + Cardinality(U)
  BY DEF Holders, Creators, Linkers
<1> HIDE DEF Q, T, U, KQ, KT, KU
<1>9. /\ Cardinality(Q) = Cardinality(KQ) /\ Cardinality(T) = Cardinality(KT)
      /\ Cardinality(U) = Cardinality(KU)
  <2>1. Cardinality(Q) = Cardinality({p[1] : p \in Q})
    BY <1>0, <1>3, <1>4, FirstParts
  <2>2. Cardinality(T) = Cardinality({p[1] : p \in T})
    BY <1>0, <1>3, <1>4, FirstParts
  <2>3. Cardinality(U) = Cardinality({p[1] : p \in U})
    BY <1>0, <1>3, <1>4, FirstParts
  <2> QED
    BY <1>2, <2>1, <2>2, <2>3
<1>10. Cardinality(Keepers(m)) = Cardinality(KQ) + Cardinality(KT) + Cardinality(KU)
  <2>1. IsFiniteSet(KT \cup KU) /\ Cardinality(KT \cup KU) = Cardinality(KT) + Cardinality(KU)
    <3>1. Cardinality(KT \cap KU) = 0
      BY <1>6, FS_EmptySet
    <3>2. IsFiniteSet(KT \cup KU)
          /\ Cardinality(KT \cup KU)
                = Cardinality(KT) + Cardinality(KU) - Cardinality(KT \cap KU)
      BY <1>7, FS_Union
    <3> QED
      BY <1>7, <3>1, <3>2
  <2>2. Cardinality(KQ \cup (KT \cup KU)) = Cardinality(KQ) + Cardinality(KT \cup KU)
    <3>1. Cardinality(KQ \cap (KT \cup KU)) = 0
      BY <1>6, FS_EmptySet
    <3>2. Cardinality(KQ \cup (KT \cup KU))
             = Cardinality(KQ) + Cardinality(KT \cup KU) - Cardinality(KQ \cap (KT \cup KU))
      BY <1>7, <2>1, FS_Union
    <3> QED
      BY <1>7, <2>1, <3>1, <3>2
  <2> QED
    BY <1>5, <1>7, <2>1, <2>2
<1>11. Cardinality(Creators(m)) \in Nat /\ Cardinality(Linkers(m)) \in Nat
  BY HoldersFinite
<1> QED
  BY <1>7, <1>8, <1>9, <1>10, <1>11 DEF References

\* A message goes back to the pool with the last of its references and not
\* before: its creator's, those of senders about to link it, and one for each
\* place in a queue or in SentMessages; but for those a WSASend that failed at
\* once was given, whose references are never given back.
THEOREM ReferencesExact == Spec => []ReferencesKept
<1>1. RInv => ReferencesKept
  <2> SUFFICES ASSUME RInv, NEW m \in Messages
               PROVE  /\ refs[m] >= Holders(m)
                      /\ m \notin lost => refs[m] = Holders(m)
    BY DEF ReferencesKept
  <2> QED
    BY SameCount DEF RInv, Counted
<1> QED
  BY ReferenceInvariant, <1>1, PTL


--------------------------------------------------------------------------------
(* The refinement of SendContract.                                         *)

\* what the owner has taken, or a WSASend is sending
InFront(s) == IF posted[s] THEN buffers[s] ELSE Drained(s)

LEMMA OutboxValue == \A s \in Sessions : Outbox[s] = InFront(s) \o queue[s]
BY DEF Outbox, InFront

OwnersDrain ==
    \A t \in Threads : pc[t] \in DrainLabels =>
        /\ at[t] \in Sessions /\ ~ posted[at[t]]
        /\ Drained(at[t]) = SubSeq(sent[at[t]], 1, n[t])

LEMMA DrainedByOwner == IInv => OwnersDrain
<1> SUFFICES ASSUME IInv, NEW t \in Threads, pc[t] \in DrainLabels
             PROVE  /\ at[t] \in Sessions /\ ~ posted[at[t]]
                    /\ Drained(at[t]) = SubSeq(sent[at[t]], 1, n[t])
  BY DEF OwnersDrain
<1>1. at[t] \in Sessions /\ ~ posted[at[t]]
  BY DEF IInv, Places, Types, ThreadTypes, Ownership, OwnerLabels, DrainLabels
<1>2. \A u \in Threads : at[u] = at[t] /\ pc[u] \in DrainLabels => u = t
  BY DEF IInv, Ownership, OwnerLabels
<1>3. Draining(at[t]) = {t}
  BY <1>2 DEF Draining, Inside
<1> QED
  BY <1>1, <1>3 DEF Drained

NothingTaken ==
    \A s \in Sessions :
        (\A t \in Threads : at[t] = s => pc[t] \notin DrainLabels) => Drained(s) = <<>>

LEMMA DrainedByNobody == NothingTaken
<1> SUFFICES ASSUME NEW s \in Sessions, \A t \in Threads : at[t] = s => pc[t] \notin DrainLabels
             PROVE  Drained(s) = <<>>
  BY DEF NothingTaken
<1>1. Draining(s) = {}
  BY DEF Draining, Inside
<1> QED
  BY <1>1 DEF Drained

\* who takes part in the draining of s, and what SentMessages hold, stay
LEMMA FrontKept ==
    ASSUME NEW s \in Sessions, posted'[s] = posted[s], buffers'[s] = buffers[s],
           sent'[s] = sent[s],
           \A t \in Threads : /\ at'[t] = s /\ pc'[t] \in DrainLabels
                                 <=> at[t] = s /\ pc[t] \in DrainLabels
                              /\ at[t] = s /\ pc[t] \in DrainLabels => n'[t] = n[t]
    PROVE  InFront(s)' = InFront(s)
<1>1. Draining(s)' = Draining(s)
  BY DEF Draining, Inside
<1>2. CASE Draining(s) = {}
  <2>1. Drained(s) = <<>> /\ Drained(s)' = <<>>
    BY <1>1, <1>2 DEF Drained
  <2> QED
    BY <2>1 DEF InFront
<1>3. CASE Draining(s) # {}
  <2>1. PICK t \in Draining(s) : t = CHOOSE u \in Draining(s) : TRUE
    BY <1>3
  <2>2. n'[t] = n[t]
    BY <2>1 DEF Draining, Inside
  <2>3. Drained(s) = SubSeq(sent[s], 1, n[t])
    BY <1>3, <2>1 DEF Drained
  <2>4. Drained(s)' = SubSeq(sent'[s], 1, n'[t])
    BY <1>1, <1>3, <2>1 DEF Drained
  <2>5. Drained(s)' = Drained(s)
    BY <2>2, <2>3, <2>4
  <2> QED
    BY <2>5 DEF InFront
<1> QED
  BY <1>2, <1>3

\* the messages the session owns are messages
LEMMA FrontType ==
    ASSUME RInv, NEW s \in Sessions
    PROVE  InFront(s) \in Seq(Messages) /\ queue[s] \in Seq(Messages)
<1>0. IInv /\ numSent[s] \in Nat
  BY DEF RInv, IInv, Types, SessionTypes
<1>1. CASE posted[s]
  <2>1. buffers[s] = SubSeq(sent[s], 1, numSent[s]) /\ open[s]
    BY <1>0, <1>1 DEF IInv, Ownership, Owned
  <2>2. \A t \in Threads : at[t] = s => pc[t] \notin DrainLabels \cup {"Reclaim"}
    BY <1>0, <1>1 DEF IInv, Ownership, OwnerLabels
  <2>3. \A i \in 1 .. numSent[s] : i \in Nat /\ Holds(s, i)
    BY <1>0, <2>1, <2>2, HeldByNobody
  <2>4. \A i \in 1 .. numSent[s] : sent[s][i] \in Messages
    BY <2>3 DEF RInv, Distinct
  <2>5. buffers[s] \in Seq(Messages)
    BY <1>0, <2>1, <2>4, SubSeqProperties
  <2> QED
    BY <1>0, <1>1, <2>5, QueueType DEF InFront
<1>2. CASE ~ posted[s]
  <2>1. CASE \E t \in Threads : at[t] = s /\ pc[t] \in DrainLabels
    <3>1. PICK t \in Threads : at[t] = s /\ pc[t] \in DrainLabels
      BY <2>1
    <3>2. Drained(s) = SubSeq(sent[s], 1, n[t]) /\ n[t] \in Nat
      BY <1>0, <3>1, DrainedByOwner DEF OwnersDrain, IInv, Types, ThreadTypes
    <3>3. \A i \in 1 .. n[t] : i \in Nat /\ Holds(s, i)
      BY <1>0, <3>1, <3>2, HeldByDrainer
    <3>4. \A i \in 1 .. n[t] : sent[s][i] \in Messages
      BY <3>3 DEF RInv, Distinct
    <3>5. Drained(s) \in Seq(Messages)
      BY <3>2, <3>4, SubSeqProperties
    <3> QED
      BY <1>0, <1>2, <3>5, QueueType DEF InFront
  <2>2. CASE ~ \E t \in Threads : at[t] = s /\ pc[t] \in DrainLabels
    <3>1. Drained(s) = <<>>
      BY <2>2, DrainedByNobody DEF NothingTaken
    <3>2. <<>> \in Seq(Messages)
      BY EmptySeq
    <3> QED
      BY <1>0, <1>2, <3>1, <3>2, QueueType DEF InFront
  <2> QED
    BY <2>1, <2>2
<1> QED
  BY <1>1, <1>2

\* The first message of a queue goes to the end of what was taken.
LEMMA MoveFirst ==
    ASSUME NEW S, NEW b \in Seq(S), NEW q \in Seq(S), q # <<>>
    PROVE  Append(b, Head(q)) \o Tail(q) = b \o q
<1>1. Head(q) \in S /\ Tail(q) \in Seq(S)
  BY HeadTailProperties
<1>2. Len(q) \in Nat /\ Len(q) >= 1
  BY EmptySeq
<1>3. SubSeq(q, 1, Len(q)) = q /\ Tail(q) = SubSeq(q, 2, Len(q)) /\ Head(q) = q[1]
  BY SubSeqFull, TailIsSubSeq
<1>4. SubSeq(q, 1, Len(q)) = <<q[1]>> \o SubSeq(q, 1 + 1, Len(q))
  BY <1>2, SubSeqRecursiveFirst
<1>5. q = <<Head(q)>> \o Tail(q)
  BY <1>3, <1>4
<1>6. Append(b, Head(q)) = b \o <<Head(q)>>
  BY <1>1, AppendIsConcat
<1>7. <<Head(q)>> \in Seq(S)
  BY <1>1
<1>8. (b \o <<Head(q)>>) \o Tail(q) = b \o (<<Head(q)>> \o Tail(q))
  BY <1>1, <1>7, ConcatAssociative
<1> QED
  BY <1>5, <1>6, <1>8

\* To insert into the second part of two is to insert into both.
LEMMA InsertIntoConcat ==
    ASSUME NEW S, NEW b \in Seq(S), NEW q \in Seq(S), NEW m \in S, NEW i \in 1 .. Len(q) + 1
    PROVE  /\ Len(b) + i \in 1 .. Len(b \o q) + 1
           /\ b \o InsertAt(q, i, m) = InsertAt(b \o q, Len(b) + i, m)
<1>11. PICK c \in Seq(S) : c = b \o q
  BY ConcatProperties
<1> DEFINE r == InsertAt(q, i, m)
           x == b \o r
<1>0. Len(b) \in Nat /\ Len(q) \in Nat /\ i \in Int /\ i >= 1 /\ i <= Len(q) + 1
  BY LenProperties
<1>1. /\ c \in Seq(S) /\ Len(c) = Len(b) + Len(q)
      /\ \A j \in 1 .. Len(b) + Len(q) : c[j] = IF j <= Len(b) THEN b[j] ELSE q[j - Len(b)]
  BY <1>11, ConcatProperties
<1>2. r \in Seq(S) /\ Len(r) = Len(q) + 1 /\ Inserts(r, q, i, m)
  BY Inserted
<1> HIDE DEF r
<1>3. \A j \in 1 .. Len(q) + 1 : r[j] = IF j < i THEN q[j] ELSE IF j = i THEN m ELSE q[j - 1]
  BY <1>2 DEF Inserts
<1>4. PICK p \in 1 .. Len(c) + 1 : p = Len(b) + i
  BY <1>0, <1>1
<1> DEFINE y == InsertAt(c, p, m)
<1>5. y \in Seq(S) /\ Len(y) = Len(c) + 1 /\ Inserts(y, c, p, m)
  BY ZenonT(30), <1>4, <1>11, Inserted
<1>7. /\ x \in Seq(S) /\ Len(x) = Len(b) + Len(r)
      /\ \A j \in 1 .. Len(b) + Len(r) : x[j] = IF j <= Len(b) THEN b[j] ELSE r[j - Len(b)]
  BY <1>2, ConcatProperties
<1> HIDE DEF x, y
<1>6. \A j \in 1 .. Len(c) + 1 :
        y[j] = IF j < p THEN c[j] ELSE IF j = p THEN m ELSE c[j - 1]
  BY <1>5 DEF Inserts
<1>8. Len(x) = Len(y) /\ Len(x) = Len(b) + Len(q) + 1
  BY <1>0, <1>1, <1>2, <1>5, <1>7
<1>9. ASSUME NEW j \in 1 .. Len(x) PROVE x[j] = y[j]
  <2>0. /\ j \in 1 .. Len(c) + 1 /\ j \in 1 .. Len(b) + Len(r) /\ j \in Int
        /\ j >= 1 /\ j <= Len(b) + Len(q) + 1
    BY <1>0, <1>1, <1>2, <1>8
  <2>1. CASE j <= Len(b)
    <3>1. x[j] = b[j]
      BY <1>7, <2>0, <2>1
    <3>2. j < Len(b) + i /\ j \in 1 .. Len(b) + Len(q)
      BY <1>0, <2>0, <2>1
    <3>3. y[j] = c[j] /\ c[j] = b[j]
      BY <1>1, <1>4, <1>6, <2>0, <2>1, <3>2
    <3> QED
      BY <3>1, <3>3
  <2>2. CASE j > Len(b)
    <3>0. j - Len(b) \in 1 .. Len(q) + 1 /\ ~ (j <= Len(b))
      BY <1>0, <2>0, <2>2
    <3>1. x[j] = r[j - Len(b)]
      BY <1>7, <2>0, <3>0
    <3>2. CASE j < Len(b) + i
      <4>1. j - Len(b) < i /\ j \in 1 .. Len(b) + Len(q)
        BY <1>0, <2>0, <3>2
      <4>2. r[j - Len(b)] = q[j - Len(b)]
        BY <1>3, <3>0, <4>1
      <4>3. y[j] = c[j] /\ c[j] = q[j - Len(b)]
        BY <1>1, <1>4, <1>6, <2>0, <3>0, <3>2, <4>1
      <4> QED
        BY <3>1, <4>2, <4>3
    <3>3. CASE j = Len(b) + i
      <4>1. ~ (j - Len(b) < i) /\ j - Len(b) = i /\ ~ (j < Len(b) + i)
        BY <1>0, <3>3
      <4>2. r[j - Len(b)] = m
        BY <1>3, <3>0, <4>1
      <4>3. y[j] = m
        BY <1>4, <1>6, <2>0, <3>3, <4>1
      <4> QED
        BY <3>1, <4>2, <4>3
    <3>4. CASE j > Len(b) + i
      <4>1. /\ ~ (j - Len(b) < i) /\ j - Len(b) # i
            /\ ~ (j < Len(b) + i) /\ j # Len(b) + i
            /\ j - 1 \in 1 .. Len(b) + Len(q) /\ ~ (j - 1 <= Len(b))
            /\ j - Len(b) - 1 = j - 1 - Len(b)
        BY <1>0, <2>0, <3>4
      <4>2. r[j - Len(b)] = q[j - 1 - Len(b)]
        BY <1>3, <3>0, <4>1
      <4>3. y[j] = c[j - 1] /\ c[j - 1] = q[j - 1 - Len(b)]
        BY <1>1, <1>4, <1>6, <2>0, <4>1
      <4> QED
        BY <3>1, <4>2, <4>3
    <3>5. j < Len(b) + i \/ j = Len(b) + i \/ j > Len(b) + i
      BY SMTT(20), <1>0, <2>0
    <3> QED
      BY <3>2, <3>3, <3>4, <3>5
  <2> QED
    BY <1>0, <2>0, <2>1, <2>2
<1>10. x = y
  BY <1>5, <1>7, <1>8, <1>9, SeqEqual
<1> QED
  BY <1>4, <1>10, <1>11 DEF r, x, y

\* What remains, and what goes, when the first part of two goes.
LEMMA TakeFront ==
    ASSUME NEW S, NEW b \in Seq(S), NEW q \in Seq(S)
    PROVE  /\ Len(b) \in 0 .. Len(b \o q)
           /\ SubSeq(b \o q, 1, Len(b)) = b
           /\ SubSeq(b \o q, Len(b) + 1, Len(b \o q)) = q
<1> DEFINE c == b \o q
           k == Len(b)
           z == Len(q)
<1>1. /\ k \in Nat /\ z \in Nat
      /\ c \in Seq(S) /\ Len(c) = k + z
      /\ \A i \in 1 .. k + z : c[i] = IF i <= k THEN b[i] ELSE q[i - k]
  BY ConcatProperties
<1>2. /\ \A i \in 1 .. k : b[i] \in S
      /\ \A i \in 1 .. z : q[i] \in S
  OBVIOUS
<1>3. k = Len(b) /\ z = Len(q) /\ c = b \o q
  OBVIOUS
<1> HIDE DEF c, k, z
<1>4. \A i \in 1 .. k + z : c[i] \in S
  <2> SUFFICES ASSUME NEW i \in 1 .. k + z PROVE c[i] \in S
    OBVIOUS
  <2>1. CASE i <= k
    BY <1>1, <1>2, <2>1
  <2>2. CASE ~ (i <= k)
    <3>1. i - k \in 1 .. z
      BY <1>1, <2>2
    <3> QED
      BY <1>1, <1>2, <2>2, <3>1
  <2> QED
    BY <2>1, <2>2
<1>5. SubSeq(c, 1, k) = b
  <2>1. /\ SubSeq(c, 1, k) \in Seq(S)
        /\ Len(SubSeq(c, 1, k)) = IF 1 <= k THEN k - 1 + 1 ELSE 0
        /\ \A i \in 1 .. k - 1 + 1 : SubSeq(c, 1, k)[i] = c[1 + i - 1]
    <3>1. \A i \in 1 .. k : c[i] \in S
      BY <1>1, <1>4
    <3> QED
      BY <1>1, <3>1, SubSeqProperties
  <2>2. Len(SubSeq(c, 1, k)) = k
    BY <1>1, <2>1
  <2>3. \A i \in 1 .. k : SubSeq(c, 1, k)[i] = b[i]
    BY <1>1, <2>1
  <2> QED
    BY <1>3, <2>1, <2>2, <2>3, SeqEqual
<1>6. SubSeq(c, k + 1, k + z) = q
  <2>1. /\ SubSeq(c, k + 1, k + z) \in Seq(S)
        /\ Len(SubSeq(c, k + 1, k + z)) = IF k + 1 <= k + z THEN (k + z) - (k + 1) + 1 ELSE 0
        /\ \A i \in 1 .. (k + z) - (k + 1) + 1 :
              SubSeq(c, k + 1, k + z)[i] = c[(k + 1) + i - 1]
    <3>1. k + 1 \in Int /\ k + z \in Int /\ \A i \in k + 1 .. k + z : c[i] \in S
      BY <1>1, <1>4
    <3> QED
      BY <3>1, SubSeqProperties
  <2>2. Len(SubSeq(c, k + 1, k + z)) = z
    BY <1>1, <2>1
  <2>3. ASSUME NEW i \in 1 .. z PROVE SubSeq(c, k + 1, k + z)[i] = q[i]
    <3>1. i \in 1 .. (k + z) - (k + 1) + 1 /\ (k + 1) + i - 1 = k + i
      BY <1>1
    <3>2. k + i \in 1 .. k + z /\ ~ (k + i <= k) /\ (k + i) - k = i
      BY <1>1
    <3> QED
      BY <1>1, <2>1, <3>1, <3>2
  <2> QED
    BY <1>3, <2>1, <2>2, <2>3, SeqEqual
<1>7. k \in 0 .. Len(c)
  BY <1>1
<1> QED
  BY <1>1, <1>3, <1>5, <1>6, <1>7


\* The outbox from its parts.
LEMMA OutboxKept ==
    ASSUME \A s \in Sessions : InFront(s)' = InFront(s) /\ queue'[s] = queue[s]
    PROVE  Outbox' = Outbox
<1>1. \A s \in Sessions : (InFront(s) \o queue[s])' = InFront(s) \o queue[s]
  OBVIOUS
<1> QED
  BY <1>1 DEF Outbox, InFront

LEMMA FaultyKept ==
    ASSUME UNCHANGED <<failed, cut, open>>
    PROVE  Faulty' = Faulty
BY DEF Faulty

\* One session's outbox changes.
LEMMA OutboxSet ==
    ASSUME NEW a \in Sessions, NEW v, InFront(a)' \o queue'[a] = v,
           \A s \in Sessions \ {a} : InFront(s)' = InFront(s) /\ queue'[s] = queue[s]
    PROVE  Outbox' = [Outbox EXCEPT ![a] = v]
<1>1. \A s \in Sessions : Outbox'[s] = IF s = a THEN v ELSE Outbox[s]
  BY DEF Outbox, InFront
<1>2. Outbox' = [s \in Sessions |-> Outbox'[s]] /\ Outbox = [s \in Sessions |-> Outbox[s]]
  BY DEF Outbox
<1> QED
  BY <1>1, <1>2

LEMMA FaultySet ==
    ASSUME NEW a \in Sessions, failed'[a] \/ cut'[a] \/ ~ open'[a],
           \A s \in Sessions \ {a} :
              failed'[s] = failed[s] /\ cut'[s] = cut[s] /\ open'[s] = open[s]
    PROVE  Faulty' = [Faulty EXCEPT ![a] = TRUE]
<1>1. \A s \in Sessions : Faulty'[s] = IF s = a THEN TRUE ELSE Faulty[s]
  BY DEF Faulty
<1>2. Faulty' = [s \in Sessions |-> Faulty'[s]] /\ Faulty = [s \in Sessions |-> Faulty[s]]
  BY DEF Faulty
<1> QED
  BY <1>1, <1>2

\* Losing what is at the front.
LEMMA LosesFront ==
    ASSUME RInv, NEW a \in Sessions, wire' = wire,
           InFront(a)' \o queue'[a] = queue[a],
           \A s \in Sessions \ {a} : InFront(s)' = InFront(s) /\ queue'[s] = queue[s],
           Faulty' = [Faulty EXCEPT ![a] = TRUE]
    PROVE  Contract!Next
<1> DEFINE k == Len(InFront(a))
<1>1. Outbox' = [Outbox EXCEPT ![a] = queue[a]]
  BY OutboxSet
<1>2. Outbox[a] = InFront(a) \o queue[a]
  BY OutboxValue
<1>3. k \in 0 .. Len(Outbox[a]) /\ SubSeq(Outbox[a], k + 1, Len(Outbox[a])) = queue[a]
  BY <1>2, FrontType, TakeFront
<1>4. Outbox' = [Outbox EXCEPT ![a] = SubSeq(Outbox[a], k + 1, Len(Outbox[a]))]
  BY <1>1, <1>3
<1> HIDE DEF k
<1>5. Contract!Lose(a, k)
  BY <1>4 DEF Contract!Lose, Contract!DropFirst
<1> QED
  BY <1>3, <1>5 DEF Contract!Next

\* The steps that the contract does not see.
LEMMA HiddenSteps ==
    ASSUME RInv, RInv',
           \/ \E t \in Senders, m \in Messages, targets \in SUBSET Sessions :
                 Create(t, m, targets)
           \/ \E t \in Senders, s \in Sessions : Acquire(t, s)
           \/ \E t \in Threads : \/ Drop(t) \/ Count(t) \/ IsEmpty(t) \/ Leave(t)
                                 \/ Exchange(t) \/ Lower(t) \/ Restore(t) \/ Undo(t)
                                 \/ Reclaim(t) \/ Clear(t)
           \/ \E s \in Sessions : Cut(s)
           \/ UNCHANGED vars
    PROVE  UNCHANGED <<Outbox, wire, Faulty>>
<1> USE DEF Goto, Set
<1>0. /\ IInv /\ Types /\ Places
      /\ Threads = Senders \cup Workers /\ NoSession \notin Sessions
      /\ pc \in [Threads -> Labels] /\ n \in [Threads -> Nat]
      /\ at \in [Threads -> Sessions \cup {NoSession}]
  BY SendAssumption DEF Threads, RInv, IInv, Types, ThreadTypes
<1> SUFFICES /\ UNCHANGED <<wire, failed, cut, open, queue>>
             /\ \A s \in Sessions : InFront(s)' = InFront(s)
  BY OutboxKept, FaultyKept
<1> DEFINE Same == UNCHANGED <<wire, failed, cut, open, queue, posted, buffers, sent>>
           Apart(t) == \A u \in Threads \ {t} : pc'[u] = pc[u] /\ at'[u] = at[u] /\ n'[u] = n[u]
<1>1. ASSUME NEW t \in Senders, NEW m \in Messages, NEW targets \in SUBSET Sessions,
             Create(t, m, targets)
      PROVE Same /\ \A s \in Sessions : InFront(s)' = InFront(s)
  <2>1. Same
    BY <1>1 DEF Create, sessionVars, queueVars, sendVars
  <2>2. Apart(t) /\ t \in Threads /\ pc[t] \notin DrainLabels /\ pc'[t] \notin DrainLabels
    BY <1>0, <1>1 DEF Create, DrainLabels
  <2> QED
    BY <2>1, <2>2, FrontKept
<1>2. ASSUME NEW t \in Senders, NEW a \in Sessions, Acquire(t, a)
      PROVE Same /\ \A s \in Sessions : InFront(s)' = InFront(s)
  <2>1. Same
    BY <1>2 DEF Acquire, sessionVars, queueVars, sendVars, historyVars
  <2>2. Apart(t) /\ t \in Threads /\ pc[t] \notin DrainLabels /\ pc'[t] \notin DrainLabels
    BY <1>0, <1>2 DEF Acquire, DrainLabels
  <2> QED
    BY <2>1, <2>2, FrontKept
<1>3. ASSUME NEW t \in Threads, \/ Drop(t) \/ Count(t) \/ IsEmpty(t) \/ Leave(t) \/ Undo(t)
                                \/ Reclaim(t) \/ Clear(t) \/ (Exchange(t) /\ sending[at[t]])
      PROVE Same /\ \A s \in Sessions : InFront(s)' = InFront(s)
  <2>1. Same
    BY <1>3 DEF Drop, Count, IsEmpty, Leave, Undo, Reclaim, Clear, Exchange,
       sessionVars, queueVars, sendVars, historyVars
  <2>2. Apart(t)
    BY <1>0, <1>3 DEF Drop, Count, IsEmpty, Leave, Undo, Reclaim, Clear, Exchange
  <2>3. pc[t] \notin DrainLabels /\ pc'[t] \notin DrainLabels
    BY <1>0, <1>3 DEF Drop, Count, IsEmpty, Leave, Undo, Reclaim, Clear, Exchange, DrainLabels
  <2> QED
    BY <2>1, <2>2, <2>3, FrontKept
<1>4. ASSUME NEW t \in Threads, Lower(t) \/ Restore(t)
      PROVE Same /\ \A s \in Sessions : InFront(s)' = InFront(s)
  <2>1. Same
    BY <1>4 DEF Lower, Restore, sendVars, historyVars
  <2>2. /\ Apart(t) /\ pc[t] \in DrainLabels /\ pc'[t] \in DrainLabels /\ at'[t] = at[t] /\ n'[t] = n[t]
    BY <1>0, <1>4 DEF Lower, Restore, DrainLabels
  <2> QED
    BY <2>1, <2>2, FrontKept
<1>5. ASSUME NEW t \in Threads, Exchange(t), ~ sending[at[t]]
      PROVE Same /\ \A s \in Sessions : InFront(s)' = InFront(s)
  <2>1. Same
    BY <1>5 DEF Exchange, queueVars, historyVars
  <2>2. /\ Apart(t) /\ pc[t] = "Exchange" /\ pc'[t] = "Take" /\ at'[t] = at[t] /\ n'[t] = n[t]
        /\ n[t] = 0 /\ at[t] \in Sessions
    BY <1>0, <1>5 DEF Exchange, Places
  <2>3. PICK a \in Sessions : a = at[t]
    BY <2>2
  <2>4. \A s \in Sessions \ {a} : InFront(s)' = InFront(s)
    BY <2>1, <2>2, <2>3, FrontKept
  <2>5. ~ posted[a] /\ \A u \in Threads : at[u] = a => pc[u] \notin OwnerLabels
    BY <1>0, <1>5, <2>3 DEF IInv, Ownership
  <2>6. Drained(a) = <<>>
    BY <2>5, DrainedByNobody DEF NothingTaken, OwnerLabels
  <2>7. Drained(a)' = <<>>
    <3>1. (IInv => OwnersDrain)'
      BY DrainedByOwner, PTL
    <3>2. Drained(at[t])' = SubSeq(sent'[at'[t]], 1, n'[t])
      BY <2>2, <3>1 DEF RInv, OwnersDrain, DrainLabels
    <3>3. SubSeq(sent'[at'[t]], 1, n'[t]) = <<>>
      BY <2>2, SubSeqEmpty
    <3>4. at'[t] = a
      BY <2>2, <2>3
    <3> QED
      BY <3>2, <3>3, <3>4
  <2>8. InFront(a)' = InFront(a)
    BY <2>1, <2>5, <2>6, <2>7 DEF InFront
  <2> QED
    BY <2>1, <2>4, <2>8
<1>6. ASSUME NEW a \in Sessions, Cut(a)
      PROVE Same /\ \A s \in Sessions : InFront(s)' = InFront(s)
  <2>1. Same /\ UNCHANGED <<pc, at, n>>
    BY <1>6 DEF Cut, queueVars, threadVars, historyVars
  <2> QED
    BY <2>1, FrontKept
<1>7. ASSUME UNCHANGED vars
      PROVE Same /\ \A s \in Sessions : InFront(s)' = InFront(s)
  <2>1. Same /\ UNCHANGED <<pc, at, n>>
    BY <1>7 DEF vars, sessionVars, queueVars, sendVars, threadVars, historyVars
  <2> QED
    BY <2>1, FrontKept
<1> HIDE DEF Apart
<1> QED
  BY <1>1, <1>2, <1>3, <1>4, <1>5, <1>6, <1>7


\* One more message at the end of what was taken.
LEMMA OneMoreTaken ==
    ASSUME NEW S, NEW k \in Nat, NEW f, NEW g, NEW h \in S,
           \A i \in 1 .. k : f[i] \in S /\ g[i] = f[i], g[k + 1] = h
    PROVE  SubSeq(g, 1, k + 1) = Append(SubSeq(f, 1, k), h)
<1> DEFINE b == SubSeq(f, 1, k)
           c == SubSeq(g, 1, k + 1)
           d == Append(b, h)
<1>1. /\ b \in Seq(S) /\ Len(b) = IF 1 <= k THEN k - 1 + 1 ELSE 0
      /\ \A i \in 1 .. k - 1 + 1 : b[i] = f[1 + i - 1]
  BY SubSeqProperties
<1>2. \A i \in 1 .. k + 1 : (i \in 1 .. k \/ i = k + 1) /\ g[i] \in S
  OBVIOUS
<1>3. /\ c \in Seq(S) /\ Len(c) = IF 1 <= k + 1 THEN (k + 1) - 1 + 1 ELSE 0
      /\ \A i \in 1 .. (k + 1) - 1 + 1 : c[i] = g[1 + i - 1]
  <2>1. k + 1 \in Int /\ 1 \in Int
    OBVIOUS
  <2> QED
    BY <1>2, <2>1, SubSeqProperties
<1> HIDE DEF b, c
<1>4. Len(b) = k /\ \A i \in 1 .. k : b[i] = f[i]
  BY <1>1
<1>5. Len(c) = k + 1 /\ \A i \in 1 .. k + 1 : c[i] = g[i]
  BY <1>3
<1>6. d \in Seq(S) /\ Len(d) = k + 1 /\ (\A i \in 1 .. k : d[i] = b[i]) /\ d[k + 1] = h
  BY <1>1, <1>4, AppendProperties
<1> HIDE DEF d
<1>7. \A i \in 1 .. k + 1 : c[i] = d[i]
  BY <1>2, <1>4, <1>5, <1>6
<1> QED
  BY <1>3, <1>5, <1>6, <1>7, SeqEqual DEF b, c, d

LEMMA StoreHidden ==
    ASSUME RInv, RInv', NEW t \in Threads, Store(t)
    PROVE  UNCHANGED <<Outbox, wire, Faulty>>
<1> USE DEF Goto, Set
<1>0. /\ IInv /\ Types /\ Places /\ Distinct
      /\ pc \in [Threads -> Labels] /\ n \in [Threads -> Nat]
      /\ at \in [Threads -> Sessions \cup {NoSession}]
      /\ sent \in [Sessions -> [Indexes -> Messages \cup {NoMessage}]]
  BY DEF RInv, IInv, Types, ThreadTypes, SessionTypes
<1>1. PICK a \in Sessions : a = at[t]
  BY <1>0 DEF Store, Places
<1>2. PICK k \in Nat : k = n[t]
  BY <1>0
<1>3. k + 1 \in Indexes
  BY <1>0, <1>2, RoomToStore DEF Store
<1>4. queue[a] \in Seq(Messages) /\ queue[a] # <<>>
  BY <1>0, <1>1, QueueType DEF Store, Places
<1>5. PICK h \in Messages : h = Head(queue[a])
  BY <1>4, HeadTailProperties
<1>6. /\ UNCHANGED <<wire, failed, cut, open, posted, buffers, at>>
      /\ pc[t] = "Store" /\ pc'[t] = "Take" /\ n'[t] = k + 1
      /\ \A u \in Threads \ {t} : pc'[u] = pc[u] /\ n'[u] = n[u]
      /\ queue'[a] = Tail(queue[a])
      /\ sent'[a] = [sent[a] EXCEPT ![k + 1] = h]
      /\ \A s \in Sessions \ {a} : sent'[s] = sent[s] /\ queue'[s] = queue[s]
  BY <1>0, <1>1, <1>2, <1>5 DEF Store, historyVars, SessionTypes, Types
<1>7. \A s \in Sessions \ {a} : InFront(s)' = InFront(s)
  BY <1>1, <1>6, FrontKept
<1>8. ~ posted[a] /\ InFront(a) = SubSeq(sent[a], 1, k)
  <2>1. OwnersDrain
    BY <1>0, DrainedByOwner
  <2> QED
    BY <1>1, <1>2, <1>6, <2>1 DEF OwnersDrain, DrainLabels, InFront
<1>9. InFront(a)' = SubSeq(sent'[a], 1, k + 1)
  <2>1. (IInv => OwnersDrain)'
    BY DrainedByOwner, PTL
  <2>2. Drained(at[t])' = SubSeq(sent'[at'[t]], 1, n'[t])
    BY <1>6, <2>1 DEF RInv, OwnersDrain, DrainLabels
  <2>3. at'[t] = a /\ ~ posted'[a]
    BY <1>1, <1>6, <1>8
  <2> QED
    BY <1>6, <2>2, <2>3 DEF InFront
<1>10. \A i \in 1 .. k : sent[a][i] \in Messages /\ sent'[a][i] = sent[a][i]
  <2>1. \A i \in 1 .. k : i \in Nat /\ Holds(a, i)
    BY <1>0, <1>1, <1>2, <1>6, HeldByDrainer DEF DrainLabels
  <2>2. \A i \in 1 .. k : i # k + 1
    OBVIOUS
  <2> QED
    BY <1>0, <1>6, <2>1, <2>2 DEF Distinct
<1>11. sent'[a][k + 1] = h
  BY <1>0, <1>3, <1>6
<1>12. InFront(a)' = Append(InFront(a), h)
  BY <1>8, <1>9, <1>10, <1>11, OneMoreTaken
<1>13. InFront(a)' \o queue'[a] = InFront(a) \o queue[a]
  <2>1. InFront(a) \in Seq(Messages)
    BY FrontType
  <2>2. Append(InFront(a), Head(queue[a])) \o Tail(queue[a]) = InFront(a) \o queue[a]
    BY <1>4, <2>1, MoveFirst
  <2> QED
    BY <1>5, <1>6, <1>12, <2>2
<1>14. \A s \in Sessions : InFront(s)' \o queue'[s] = InFront(s) \o queue[s]
  BY <1>6, <1>7, <1>13
<1>15. Outbox' = Outbox
  BY <1>14 DEF Outbox, InFront
<1> QED
  BY <1>6, <1>15, FaultyKept

LEMMA PostRefines ==
    ASSUME RInv, RInv', NEW t \in Threads, Post(t)
    PROVE  [Contract!Next]_<<Outbox, wire, Faulty>>
<1> USE DEF Goto, Set
<1>0. /\ IInv /\ Types /\ Places
      /\ pc \in [Threads -> Labels] /\ n \in [Threads -> Nat]
      /\ at \in [Threads -> Sessions \cup {NoSession}]
      /\ posted \in [Sessions -> BOOLEAN] /\ failed \in [Sessions -> BOOLEAN]
      /\ buffers = [s \in Sessions |-> buffers[s]]
  BY DEF RInv, IInv, Types, ThreadTypes, SessionTypes
<1>1. PICK a \in Sessions : a = at[t]
  BY <1>0 DEF Post, Places
<1>2. /\ UNCHANGED <<wire, cut, open, at, n, queue, sent>>
      /\ pc[t] = "Post" /\ pc'[t] \notin DrainLabels
      /\ \A u \in Threads \ {t} : pc'[u] = pc[u]
      /\ \A s \in Sessions \ {a} : /\ posted'[s] = posted[s] /\ buffers'[s] = buffers[s]
                                   /\ failed'[s] = failed[s]
  BY <1>0, <1>1 DEF Post, DrainLabels, queueVars
<1>3. \A s \in Sessions \ {a} : InFront(s)' = InFront(s)
  BY <1>1, <1>2, FrontKept
<1>4. ~ posted[a] /\ InFront(a) = SubSeq(sent[a], 1, n[t])
  <2>1. OwnersDrain
    BY <1>0, DrainedByOwner
  <2> QED
    BY <1>1, <1>2, <2>1 DEF OwnersDrain, DrainLabels, InFront
<1>5. CASE posted'[a]
  <2>1. buffers'[a] = SubSeq(sent[a], 1, n[t]) /\ failed' = failed
    BY <1>0, <1>1, <1>4, <1>5 DEF Post
  <2>2. InFront(a)' = InFront(a)
    BY <1>4, <1>5, <2>1 DEF InFront
  <2>3. Outbox' = Outbox
    BY <1>2, <1>3, <2>2, OutboxKept
  <2>4. Faulty' = Faulty
    BY <1>2, <2>1, FaultyKept
  <2> QED
    BY <1>2, <2>3, <2>4
<1>6. CASE ~ posted'[a]
  <2>1. failed'[a]
    BY <1>0, <1>1, <1>6 DEF Post
  <2>2. \A u \in Threads : at'[u] = a => pc'[u] \notin DrainLabels
    <3>1. \A u \in Threads : at[u] = a /\ pc[u] \in OwnerLabels => u = t
      BY <1>0, <1>1, <1>2 DEF IInv, Ownership, OwnerLabels, DrainLabels
    <3> QED
      BY <1>2, <3>1 DEF OwnerLabels
  <2>3. NothingTaken'
    BY DrainedByNobody, PTL
  <2>4. InFront(a)' = <<>>
    BY <1>6, <2>2, <2>3 DEF NothingTaken, InFront
  <2>5. InFront(a)' \o queue'[a] = queue[a]
    BY <1>2, <2>4, FrontType, ConcatEmptySeq
  <2>6. Faulty' = [Faulty EXCEPT ![a] = TRUE]
    BY <1>2, <2>1, FaultySet
  <2> QED
    BY <1>2, <1>3, <2>5, <2>6, LosesFront
<1> QED
  BY <1>5, <1>6

LEMMA LinkRefines ==
    ASSUME RInv, RInv', NEW t \in Threads, Link(t)
    PROVE  Contract!Next
<1> USE DEF Goto, Set
<1>0. /\ IInv /\ Types /\ Places
      /\ pc \in [Threads -> Labels] /\ n \in [Threads -> Nat]
      /\ at \in [Threads -> Sessions \cup {NoSession}]
      /\ queue \in [Sessions -> Seq(Messages)]
  BY DEF RInv, IInv, Types, ThreadTypes, SessionTypes
<1>1. PICK a \in Sessions, m \in Messages, i \in Nat : LinksAt(t, a, m, i)
  BY <1>0, LinkedSomewhere
<1>2. /\ at[t] = a /\ m \in Messages /\ i \in 1 .. Len(queue[a]) + 1
      /\ OneSender => i = Len(queue[a]) + 1
      /\ queue'[a] = InsertAt(queue[a], i, m)
      /\ \A s \in Sessions \ {a} : queue'[s] = queue[s]
  BY <1>1 DEF LinksAt
<1>3. /\ UNCHANGED <<wire, failed, cut, open, at, n, posted, buffers, sent>>
      /\ pc[t] = "Link" /\ pc'[t] = "Count"
      /\ \A u \in Threads \ {t} : pc'[u] = pc[u]
  BY <1>0 DEF Link, sendVars, historyVars
<1>4. \A s \in Sessions : InFront(s)' = InFront(s)
  BY <1>3, FrontKept DEF DrainLabels
<1> DEFINE p == Len(InFront(a)) + i
<1>5. InFront(a) \in Seq(Messages) /\ queue[a] \in Seq(Messages)
  BY FrontType
<1>6. /\ p \in 1 .. Len(InFront(a) \o queue[a]) + 1
      /\ InFront(a)' \o queue'[a] = InsertAt(InFront(a) \o queue[a], p, m)
  <2>1. /\ Len(InFront(a)) + i \in 1 .. Len(InFront(a) \o queue[a]) + 1
        /\ InFront(a) \o InsertAt(queue[a], i, m) 
             = InsertAt(InFront(a) \o queue[a], Len(InFront(a)) + i, m)
    <3>1. /\ InFront(a) \in Seq(Messages) /\ queue[a] \in Seq(Messages)
          /\ m \in Messages /\ i \in 1 .. Len(queue[a]) + 1
      BY <1>2, <1>5
    <3> QED
      BY ONLY SMTT(20), <3>1, InsertIntoConcat
  <2> QED
    BY <1>2, <1>4, <2>1
<1>7. OneSender => p = Len(InFront(a) \o queue[a]) + 1
  <2>1. /\ Len(InFront(a) \o queue[a]) = Len(InFront(a)) + Len(queue[a])
        /\ Len(InFront(a)) \in Nat /\ Len(queue[a]) \in Nat
    BY <1>5, ConcatProperties, LenProperties
  <2> QED
    BY <1>2, <2>1
<1> HIDE DEF p
<1>8. Outbox[a] = InFront(a) \o queue[a]
  BY OutboxValue
<1>9. /\ p \in 1 .. Len(Outbox[a]) + 1 /\ (OneSender => p = Len(Outbox[a]) + 1)
      /\ Outbox' = [Outbox EXCEPT ![a] = InsertAt(Outbox[a], p, m)]
  <2>1. \A s \in Sessions \ {a} : InFront(s)' = InFront(s) /\ queue'[s] = queue[s]
    BY <1>2, <1>4
  <2>2. InFront(a)' \o queue'[a] = InsertAt(Outbox[a], p, m)
    BY <1>6, <1>8
  <2> QED
    BY <1>6, <1>7, <1>8, <2>1, <2>2, OutboxSet
<1>10. Faulty' = Faulty
  BY <1>3, FaultyKept
<1>11. Contract!Submit(a, m)
  <2>1. Contract!InsertAt(Outbox[a], p, m) = InsertAt(Outbox[a], p, m)
    BY DEF Contract!InsertAt, InsertAt
  <2> QED
    BY <1>3, <1>9, <1>10, <2>1 DEF Contract!Submit
<1> QED
  BY <1>11 DEF Contract!Next

\* a completion takes what was posted off the outbox
LEMMA FinishFront ==
    ASSUME RInv, NEW w \in Threads, NEW a \in Sessions, Finish(a), UNCHANGED <<sent, queue>>,
           pc[w] = "Idle", pc'[w] \notin DrainLabels,
           \A u \in Threads \ {w} : pc'[u] = pc[u] /\ at'[u] = at[u] /\ n'[u] = n[u]
    PROVE  /\ InFront(a) = buffers[a] /\ InFront(a)' = <<>>
           /\ \A s \in Sessions \ {a} : InFront(s)' = InFront(s)
<1>0. /\ IInv
      /\ posted \in [Sessions -> BOOLEAN] /\ buffers = [s \in Sessions |-> buffers[s]]
  BY DEF RInv, IInv, Types, SessionTypes
<1>1. /\ posted[a] /\ ~ posted'[a]
      /\ \A s \in Sessions \ {a} : posted'[s] = posted[s] /\ buffers'[s] = buffers[s]
  BY <1>0 DEF Finish, Set
<1>2. \A u \in Threads : at[u] = a => pc[u] \notin OwnerLabels
  BY <1>0, <1>1 DEF IInv, Ownership
<1>3. \A u \in Threads : at'[u] = a => pc'[u] \notin DrainLabels
  BY <1>2 DEF OwnerLabels
<1>4. NothingTaken'
  BY DrainedByNobody, PTL
<1>5. InFront(a) = buffers[a] /\ InFront(a)' = <<>>
  BY <1>1, <1>3, <1>4 DEF NothingTaken, InFront
<1>6. \A s \in Sessions \ {a} : InFront(s)' = InFront(s)
  BY <1>1, FrontKept DEF DrainLabels
<1> QED
  BY <1>5, <1>6

LEMMA CompleteDataRefines ==
    ASSUME RInv, RInv', NEW w \in Workers, NEW a \in Sessions, CompleteData(w, a)
    PROVE  Contract!Next
<1> USE DEF Goto, Set
<1>0. /\ IInv /\ pc \in [Threads -> Labels] /\ w \in Threads
      /\ at \in [Threads -> Sessions \cup {NoSession}]
  BY DEF RInv, IInv, Types, ThreadTypes, Threads
<1>1. /\ Finish(a) /\ UNCHANGED <<sent, queue, failed, cut, open>>
      /\ wire' = [wire EXCEPT ![a] = @ \o buffers[a]]
      /\ pc[w] = "Idle" /\ pc'[w] \notin DrainLabels
      /\ \A u \in Threads \ {w} : pc'[u] = pc[u] /\ at'[u] = at[u] /\ n'[u] = n[u]
  BY <1>0 DEF CompleteData, queueVars, DrainLabels
<1>2. /\ InFront(a) = buffers[a] /\ InFront(a)' = <<>>
      /\ \A s \in Sessions \ {a} : InFront(s)' = InFront(s)
  BY <1>0, <1>1, FinishFront
<1> DEFINE k == Len(InFront(a))
<1>3. InFront(a)' \o queue'[a] = queue[a]
  BY <1>1, <1>2, FrontType, ConcatEmptySeq
<1>4. Outbox' = [Outbox EXCEPT ![a] = queue[a]]
  <2>1. \A s \in Sessions \ {a} : InFront(s)' = InFront(s) /\ queue'[s] = queue[s]
    BY <1>1, <1>2
  <2> QED
    BY <1>3, <2>1, OutboxSet
<1>5. /\ k \in 0 .. Len(Outbox[a])
      /\ SubSeq(Outbox[a], 1, k) = buffers[a]
      /\ SubSeq(Outbox[a], k + 1, Len(Outbox[a])) = queue[a]
  <2>1. Outbox[a] = InFront(a) \o queue[a]
    BY OutboxValue
  <2>2. InFront(a) \in Seq(Messages) /\ queue[a] \in Seq(Messages)
    BY FrontType
  <2>3. /\ Len(InFront(a)) \in 0 .. Len(InFront(a) \o queue[a])
        /\ SubSeq(InFront(a) \o queue[a], 1, Len(InFront(a))) = InFront(a)
        /\ SubSeq(InFront(a) \o queue[a], Len(InFront(a)) + 1, Len(InFront(a) \o queue[a])) = queue[a]
    BY <2>2, TakeFront
  <2> QED
    BY <1>2, <2>1, <2>3
<1> HIDE DEF k
<1>6. Contract!DropFirst(a, k)
  BY <1>4, <1>5 DEF Contract!DropFirst
<1>7. wire' = [wire EXCEPT ![a] = wire[a] \o Contract!First(a, k)]
  BY <1>1, <1>5 DEF Contract!First
<1>8. Faulty' = Faulty
  BY <1>1, FaultyKept
<1>9. Contract!Transmit(a, k)
  BY <1>6, <1>7, <1>8 DEF Contract!Transmit
<1> QED
  BY <1>5, <1>9 DEF Contract!Next

LEMMA CompleteZeroRefines ==
    ASSUME RInv, RInv', NEW w \in Workers, NEW a \in Sessions, CompleteZero(w, a)
    PROVE  Contract!Next
<1>0. /\ w \in Threads /\ cut \in [Sessions -> BOOLEAN]
  BY DEF RInv, IInv, Types, SessionTypes, Threads
<1>1. /\ Finish(a) /\ UNCHANGED <<sent, queue, failed, open, wire, pc, at, n>>
      /\ pc[w] = "Idle" /\ "Idle" \notin DrainLabels
      /\ cut'[a] /\ \A s \in Sessions \ {a} : cut'[s] = cut[s]
  BY <1>0 DEF CompleteZero, Set, queueVars, threadVars, DrainLabels
<1>2. InFront(a)' = <<>> /\ \A s \in Sessions \ {a} : InFront(s)' = InFront(s)
  BY <1>0, <1>1, FinishFront
<1>3. InFront(a)' \o queue'[a] = queue[a]
  BY <1>1, <1>2, FrontType, ConcatEmptySeq
<1>4. Faulty' = [Faulty EXCEPT ![a] = TRUE]
  BY <1>1, FaultySet
<1> QED
  BY <1>1, <1>2, <1>3, <1>4, LosesFront

\* The end of a session loses all that is left; a new one begins with nothing.
LEMMA ReleaseRefines ==
    ASSUME RInv, RInv', NEW a \in Sessions, ReleaseSession(a)
    PROVE  Contract!Next
<1> DEFINE k == Len(Outbox[a])
<1>0. open \in [Sessions -> BOOLEAN] /\ queue \in [Sessions -> Seq(Messages)]
  BY DEF RInv, IInv, Types, SessionTypes
<1>1. /\ UNCHANGED <<sent, failed, cut, wire, pc, at, n, posted, buffers>>
      /\ ~ posted[a] /\ Inside(a) = {} /\ queue'[a] = <<>> /\ ~ open'[a]
      /\ \A s \in Sessions \ {a} : queue'[s] = queue[s] /\ open'[s] = open[s]
  BY <1>0 DEF ReleaseSession, Set, sendVars, threadVars, historyVars
<1>2. \A s \in Sessions : InFront(s)' = InFront(s)
  BY <1>1, FrontKept
<1>3. Drained(a) = <<>>
  BY <1>1, DrainedByNobody DEF NothingTaken, Inside
<1>4. InFront(a) = <<>>
  BY <1>1, <1>3 DEF InFront
<1>5. InFront(a)' \o queue'[a] = <<>>
  <2>1. <<>> \in Seq(Messages)
    BY EmptySeq
  <2> QED
    BY <1>1, <1>2, <1>4, <2>1, ConcatEmptySeq
<1>6. Outbox' = [Outbox EXCEPT ![a] = <<>>]
  BY <1>1, <1>2, <1>5, OutboxSet
<1>7. Outbox[a] \in Seq(Messages)
  BY OutboxValue, FrontType, ConcatProperties
<1>8. k \in Nat /\ k \in 0 .. k
  BY <1>7
<1>9. SubSeq(Outbox[a], k + 1, k) = <<>>
  BY <1>8, SubSeqEmpty
<1>10. Faulty' = [Faulty EXCEPT ![a] = TRUE]
  BY <1>1, FaultySet
<1>11. Contract!Lose(a, k)
  BY <1>1, <1>6, <1>9, <1>10 DEF Contract!Lose, Contract!DropFirst
<1> QED
  BY <1>8, <1>11 DEF Contract!Next

LEMMA AcceptRefines ==
    ASSUME RInv, RInv', NEW a \in Sessions, AcceptSession(a)
    PROVE  Contract!Next
<1>0. /\ open \in [Sessions -> BOOLEAN] /\ failed \in [Sessions -> BOOLEAN]
      /\ cut \in [Sessions -> BOOLEAN] /\ IInv
  BY DEF RInv, IInv, Types, SessionTypes
<1>1. /\ UNCHANGED <<sent, queue, pc, at, n, posted, buffers>> /\ ~ open[a]
      /\ wire' = [wire EXCEPT ![a] = <<>>]
      /\ open'[a] /\ ~ failed'[a] /\ ~ cut'[a]
      /\ \A s \in Sessions \ {a} :
            open'[s] = open[s] /\ failed'[s] = failed[s] /\ cut'[s] = cut[s]
  BY <1>0 DEF AcceptSession, Set, queueVars, threadVars
<1>2. \A s \in Sessions : InFront(s)' = InFront(s)
  BY <1>1, FrontKept
<1>3. Outbox' = Outbox
  BY <1>1, <1>2, OutboxKept
<1>4. ~ posted[a] /\ queue[a] = <<>> /\ \A t \in Threads : at[t] # a
  BY <1>0, <1>1 DEF IInv, Ownership, Attended, Places
<1>5. Drained(a) = <<>>
  BY <1>4, DrainedByNobody DEF NothingTaken
<1>6. Outbox[a] = <<>>
  <2>1. Outbox[a] = <<>> \o <<>>
    BY <1>4, <1>5, OutboxValue DEF InFront
  <2>2. <<>> \in Seq(Messages)
    BY EmptySeq
  <2> QED
    BY <2>1, <2>2, ConcatEmptySeq
<1>7. Faulty' = [Faulty EXCEPT ![a] = FALSE]
  <2>1. \A s \in Sessions : Faulty'[s] = IF s = a THEN FALSE ELSE Faulty[s]
    BY <1>1 DEF Faulty
  <2>2. Faulty' = [s \in Sessions |-> Faulty'[s]] /\ Faulty = [s \in Sessions |-> Faulty[s]]
    BY DEF Faulty
  <2> QED
    BY <2>1, <2>2
<1>8. Contract!Reconnect(a)
  BY <1>1, <1>3, <1>6, <1>7 DEF Contract!Reconnect
<1> QED
  BY <1>8 DEF Contract!Next

\* Messages reach the stream each at most once, through every interleaving of
\* senders and workers, and in the order they were accepted when one thread
\* sends; only a send that fails or completes with no bytes, and the end of the
\* session, lose any, and they lose those that were to go out first.
THEOREM SendsAccepted == Spec => RefinesSendContract
<1>1. ASSUME Init PROVE Contract!Init
  <2>1. \A s \in Sessions : posted[s] = FALSE /\ queue[s] = <<>> /\ open[s] = TRUE
                            /\ failed[s] = FALSE /\ cut[s] = FALSE
    BY <1>1 DEF Init
  <2>2. \A s \in Sessions : Drained(s) = <<>>
    BY <1>1, DrainedByNobody DEF NothingTaken, Init, DrainLabels
  <2>3. <<>> \o <<>> = <<>>
    <3>1. <<>> \in Seq(Messages)
      BY EmptySeq
    <3> QED
      BY <3>1, ConcatEmptySeq
  <2>4. Outbox = [s \in Sessions |-> <<>>]
    BY <2>1, <2>2, <2>3 DEF Outbox
  <2>5. Faulty = [s \in Sessions |-> FALSE]
    BY <2>1 DEF Faulty
  <2>6. wire = [s \in Sessions |-> <<>>]
    BY <1>1 DEF Init
  <2> QED
    BY <2>4, <2>5, <2>6 DEF Contract!Init
<1>2. ASSUME RInv, RInv', [Next]_vars
      PROVE  [Contract!Next]_<<Outbox, wire, Faulty>>
  <2>1. Senders \subseteq Threads /\ Workers \subseteq Threads
    BY DEF Threads
  <2> QED
    BY <1>2, <2>1, Steps, HiddenSteps, StoreHidden, PostRefines, LinkRefines, CompleteDataRefines,
       CompleteZeroRefines, ReleaseRefines, AcceptRefines DEF SendPost
<1> QED
  BY ReferenceInvariant, <1>1, <1>2, PTL DEF Spec, RefinesSendContract, Contract!Spec
================================================================================
