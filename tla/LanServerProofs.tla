---------------------------- MODULE LanServerProofs ----------------------------
(***************************************************************************)
(* LanServer for any table, any threads and any number of connections: no  *)
(* session is released, the references of each are counted exactly, and    *)
(* what Terminate leaves behind.                                           *)
(***************************************************************************)
EXTENDS LanServer, FiniteSetTheorems, TLAPS

Labels == {"Idle", "Ended", "SetID", "SetSession", "Join", "RecvPost", "SendTry", "SendPost",
           "SendFailed", "Undo", "Final", "Release", "SendDone", "Acquire"}

\* a thread at one of these has no session, and the acceptor at one of those has
\* a session that no one knows yet
Free == {"Idle", "Ended"}
SettingUp == {"SetID", "SetSession", "Join"}

Completions == [slot : Slots, kind : {"recv", "send"}, data : BOOLEAN] \cup {Null}

Types ==
    /\ id \in [Slots -> IDs \cup {NoID}]
    /\ sock \in [Slots -> {"none", "open", "broken", "closed"}]
    /\ posted \in [Slots -> SUBSET {"recv", "send"}]
    /\ port \in Seq(Completions)
    /\ useable \subseteq Slots /\ missed \subseteq Slots
    /\ joined \subseteq IDs /\ uniqueID \in Nat
    /\ pc \in [Threads -> Labels]
    /\ cur \in [Threads -> Slots \cup {NoSlot}]
    /\ arg \in [Threads -> IDs \cup {NoID}]
    /\ ret \in [Threads -> {"Idle", "Final"}]
    /\ terminate \in {"Running", "Close", "Wait", "Deleted"}
    /\ i \in Nat

\* a thread has a session exactly while it works
Working == \A t \in Threads : cur[t] \in Slots <=> pc[t] \notin Free

\* a slot that is not set up has never had a socket
Unused ==
    /\ \A s \in useable : sock[s] = "none"
    /\ pc[Acceptor] \in {"SetID", "SetSession"} => sock[cur[Acceptor]] = "none"

\* only the acceptor sets up, a slot that is no longer useable and that is no
\* joined session's
Owned ==
    /\ \A t \in Threads : pc[t] \in SettingUp => t = Acceptor
    /\ pc[Acceptor] \in SettingUp => cur[Acceptor] \notin useable
    /\ pc[Acceptor] = "SetID" => uniqueID < MaxUnique
    /\ pc[Acceptor] \in {"SetSession", "Join"} =>
          id[cur[Acceptor]] \in IDs /\ id[cur[Acceptor]][2] = cur[Acceptor]
    /\ pc[Acceptor] \in {"SetID", "SetSession"} => \A ID \in joined : ID[2] # cur[Acceptor]

\* a session that was joined keeps its ID and its slot
Kept == \A ID \in joined : id[ID[2]] = ID /\ ID[2] \notin useable

\* a caller asks for a session that was joined
Asking ==
    \A t \in Threads : pc[t] = "Acquire" => arg[t] \in joined /\ arg[t][2] = cur[t]

\* the slots that Terminate has seen
Seen == {s \in Slots : terminate \in {"Wait", "Deleted"} \/ (terminate = "Close" /\ s < i)}

Terminating ==
    /\ terminate = "Deleted" => \A t \in mhThreads : pc[t] = "Ended"
    /\ \A s \in Seen : sock[s] = "closed" \/ s \in missed
    /\ terminate = "Running" => i = 0
    /\ terminate = "Close" => i <= mMaximumSessionCount

IInv == Types /\ Working /\ Unused /\ Owned /\ Kept /\ Asking /\ Terminating

--------------------------------------------------------------------------------
\* What Goto does to a thread, and to no other.
Moves(t, l) ==
    /\ pc' = [pc EXCEPT ![t] = l]
    /\ cur' \in [Threads -> Slots \cup {NoSlot}]
    /\ arg' \in [Threads -> IDs \cup {NoID}]
    /\ ret' \in [Threads -> {"Idle", "Final"}]
    /\ cur'[t] \in Slots <=> l \notin Free
    /\ cur'[t] \in Slots => cur'[t] = cur[t]
    /\ \A u \in Threads \ {t} : cur'[u] = cur[u] /\ arg'[u] = arg[u]

LEMMA GotoMoves ==
    ASSUME Types, Working, LanAssumption, NEW t \in Threads, NEW l \in Labels \ {"Ended"},
           pc[t] \notin Free, Goto(t, l)
    PROVE  Moves(t, l)
  BY DEF Types, Working, LanAssumption, Goto, Moves, Free

LEMMA DecMoves ==
    ASSUME Types, Working, LanAssumption, NEW t \in Threads, NEW l \in {"Idle", "Final"},
           pc[t] \notin Free, Dec(t, l)
    PROVE  Moves(t, l) \/ Moves(t, "Release")
  <1>1. CASE ioCount[cur[t]] = 1
    BY <1>1 DEF Dec, Types, Working, Moves, Free
  <1>2. CASE ioCount[cur[t]] # 1
    BY <1>2, GotoMoves DEF Dec, Labels
  <1>3. QED
    BY <1>1, <1>2

\* A step of a thread on a session that is set up: it may post an operation, close
\* the socket of a session that was joined, and nothing else that IInv is about.
LEMMA OnSession ==
    ASSUME IInv, LanAssumption, NEW t \in Threads,
           NEW l \in Labels \ ({"Ended", "Acquire"} \cup SettingUp),
           pc[t] \notin Free \cup SettingUp, Moves(t, l),
           posted' \in [Slots -> SUBSET {"recv", "send"}],
           \/ sock' = sock
           \/ /\ sock' = [sock EXCEPT ![cur[t]] = "closed"]
              /\ \E ID \in joined : ID[2] = cur[t],
           UNCHANGED <<id, port, serverVars, mainVars>>
    PROVE  IInv'
  <1> USE DEF IInv
  <1>1. /\ cur[t] \in Slots
        /\ sock' \in [Slots -> {"none", "open", "broken", "closed"}]
        /\ \A s \in Slots \ {cur[t]} : sock'[s] = sock[s]
        /\ sock'[cur[t]] # sock[cur[t]] => sock'[cur[t]] = "closed"
    BY DEF Types, Working
  <1>2. Types'
    BY <1>1 DEF Types, Moves, serverVars, mainVars
  <1>3. Working'
    BY DEF Working, Moves, Types, Free
  <1>4. Unused'
    <2>1. \A s \in useable : sock'[s] = sock[s]
      BY <1>1 DEF Kept, Types
    <2>2. ASSUME pc'[Acceptor] \in {"SetID", "SetSession"} PROVE sock'[cur'[Acceptor]] = "none"
      <3>1. Acceptor # t /\ pc'[Acceptor] = pc[Acceptor] /\ cur'[Acceptor] = cur[Acceptor]
        BY <2>2 DEF Moves, Types, SettingUp, Threads, mhThreads
      <3>2. cur[Acceptor] \in Slots
        BY <2>2, <3>1 DEF Working, Free, Threads, mhThreads
      <3>3. QED
        BY <1>1, <2>2, <3>1, <3>2 DEF Unused, Owned
    <2>3. QED
      BY <2>1, <2>2 DEF Unused, serverVars
  <1>5. Owned'
    BY DEF Owned, Moves, Types, SettingUp, serverVars, Threads, mhThreads
  <1>6. Kept'
    BY DEF Kept, serverVars
  <1>7. Asking'
    BY DEF Asking, Moves, Types, serverVars
  <1>8. Terminating'
    <2>1. terminate = "Deleted" => t \notin mhThreads
      BY DEF Terminating, Free
    <2>2. (\A s \in Seen : sock[s] = "closed" \/ s \in missed)'
      BY <1>1 DEF Terminating, Seen, mainVars
    <2>3. QED
      BY <2>1, <2>2 DEF Terminating, Moves, Types, mainVars, Threads
  <1>9. QED
    BY <1>2, <1>3, <1>4, <1>5, <1>6, <1>7, <1>8

LEMMA SessionStepKeeps ==
    ASSUME IInv, LanAssumption, NEW t \in Threads, SessionStep(t)
    PROVE  IInv'
  <1> DEFINE Stays == Labels \ ({"Ended", "Acquire"} \cup SettingUp)
  <1>0. Types /\ Working
    BY DEF IInv
  <1>1. ASSUME NEW kind \in {"recv", "send"}, NEW undo \in Stays, Post(t, kind, undo),
               pc[t] \notin Free \cup SettingUp,
               UNCHANGED <<id, sock, port, serverVars, mainVars>>
        PROVE  IInv'
    <2>1. posted' \in [Slots -> SUBSET {"recv", "send"}]
      BY <1>0, <1>1 DEF Post, Types
    <2>2. Moves(t, "Final") \/ Moves(t, undo)
      BY <1>0, <1>1, GotoMoves DEF Post, Labels
    <2>3. QED
      BY <1>1, <2>1, <2>2, OnSession DEF Labels, SettingUp
  <1>2. ASSUME NEW l \in {"Idle", "Final"}, Dec(t, l), pc[t] \notin Free \cup SettingUp,
               UNCHANGED <<id, sock, posted, port, serverVars, mainVars>>
        PROVE  IInv'
    <2>1. Moves(t, l) \/ Moves(t, "Release")
      BY <1>0, <1>2, DecMoves
    <2>2. QED
      BY <1>0, <1>2, <2>1, OnSession DEF Types, Labels, SettingUp
  <1>3. ASSUME NEW l \in Stays, Goto(t, l), pc[t] \notin Free \cup SettingUp,
               UNCHANGED <<id, sock, posted, port, serverVars, mainVars>>
        PROVE  IInv'
    <2>1. Moves(t, l)
      BY <1>0, <1>3, GotoMoves
    <2>2. QED
      BY <1>0, <1>3, <2>1, OnSession DEF Types
  <1>4. CASE RecvPost(t)
    BY <1>1, <1>4 DEF At, RecvPost, Free, SettingUp, Labels
  <1>5. CASE SendTry(t)
    <2>1. \E l \in {"Final", "SendPost"} : Goto(t, l)
      BY <1>5 DEF At, SendTry
    <2>2. QED
      BY <1>3, <1>5, <2>1 DEF At, SendTry, Free, SettingUp, Labels, ioVars
  <1>6. CASE SendPost(t)
    BY <1>1, <1>6 DEF At, SendPost, Free, SettingUp, Labels
  <1>7. CASE SendFailed(t)
    BY <1>3, <1>7 DEF At, SendFailed, Free, SettingUp, Labels, ioVars
  <1>8. CASE Undo(t)
    BY <1>2, <1>8 DEF At, Undo, Free, SettingUp, ioVars
  <1>9. CASE Final(t)
    BY <1>2, <1>9 DEF At, Final, Free, SettingUp, ioVars
  <1>10. CASE Release(t)
    <2>1. UNCHANGED <<flag, id, sock, useable, sessionCount, left>>
      BY <1>10 DEF At, Release, LanAssumption
    <2>2. ret[t] \in {"Idle", "Final"}
      BY <1>0 DEF Types
    <2>3. QED
      BY <1>3, <1>10, <2>1, <2>2 DEF At, Release, Free, SettingUp, Labels, ioVars, serverVars
  <1>11. QED
    BY <1>4, <1>5, <1>6, <1>7, <1>8, <1>9, <1>10 DEF SessionStep

LEMMA CallerStepKeeps ==
    ASSUME IInv, LanAssumption, NEW c \in Callers, CallerStep(c)
    PROVE  IInv'
  <1>0. Types /\ Working /\ c \in Threads /\ c # Acceptor /\ c \notin mhThreads
    BY DEF IInv, Threads, mhThreads, LanAssumption
  <1>1. ASSUME NEW ID \in joined, AcqInc(c, ID) PROVE IInv'
    <2>1. ID \in IDs /\ ID[2] \in Slots
      BY <1>0 DEF Types, IDs
    <2>2. Types'
      BY <1>0, <1>1, <2>1 DEF At, AcqInc, Types, Labels, ioVars, serverVars, mainVars
    <2>3. Working'
      BY <1>0, <1>1, <2>1 DEF At, AcqInc, Types, Working, Free
    <2>4. Unused' /\ Owned' /\ Kept'
      BY <1>0, <1>1 DEF IInv, At, AcqInc, Types, Unused, Owned, Kept, serverVars, SettingUp, mhThreads, Threads
    <2>5. Asking'
      BY <1>0, <1>1 DEF IInv, At, AcqInc, Types, Asking, serverVars
    <2>6. Terminating'
      BY <1>0, <1>1 DEF IInv, At, AcqInc, Types, Terminating, Seen, mainVars, mhThreads, Threads
    <2>7. QED
      BY <2>2, <2>3, <2>4, <2>5, <2>6 DEF IInv
  <1>2. CASE Acquire(c)
    <2>1. \E l \in {"SendTry", "Final"} : Goto(c, l)
      BY <1>2 DEF At, Acquire
    <2>2. PICK l \in {"SendTry", "Final"} : Moves(c, l)
      BY <1>0, <1>2, <2>1, GotoMoves DEF At, Acquire, Labels, Free
    <2>3. \E ID \in joined : ID[2] = cur[c]
      BY <1>0, <1>2 DEF IInv, Asking, At, Acquire
    <2>4. sock' = sock \/ sock' = [sock EXCEPT ![cur[c]] = "closed"]
      BY <1>2 DEF At, Acquire
    <2>5. QED
      BY <1>0, <1>2, <2>2, <2>3, <2>4, OnSession DEF At, Acquire, Types, Labels, SettingUp, Free, ioVars
  <1>3. QED
    BY <1>1, <1>2 DEF CallerStep

LEMMA AcceptorStepKeeps ==
    ASSUME IInv, LanAssumption, AcceptorStep
    PROVE  IInv'
  <1> DEFINE A == Acceptor
  <1>0. /\ Types /\ Working /\ Unused /\ Owned /\ Kept /\ Asking /\ Terminating
        /\ A \in Threads /\ A \in mhThreads /\ A \notin Callers
    BY DEF IInv, Threads, mhThreads, LanAssumption
  <1>1. CASE Refuse
    BY <1>1 DEF Refuse, vars, slotVars, ioVars, serverVars, threadVars, mainVars, IInv, Types,
               Working, Unused, Owned, Kept, Asking, Terminating, Seen
  <1>2. CASE Accept
    <2>1. PICK s \in useable : useable' = useable \ {s} /\ cur' = [cur EXCEPT ![A] = s]
      BY <1>2 DEF Accept
    <2>2. s \in Slots /\ sock[s] = "none" /\ pc' = [pc EXCEPT ![A] = "SetID"]
          /\ pc[A] = "Idle" /\ uniqueID < MaxUnique
      BY <1>0, <1>2 DEF Accept, At, Types, Unused
    <2>3. UNCHANGED <<slotVars, ioVars, sessionCount, uniqueID, joined, left, arg, ret,
                      mainVars>>
      BY <1>2 DEF Accept
    <2>4. Types' /\ Working'
      BY <1>0, <2>1, <2>2, <2>3 DEF Types, Working, Free, Labels, slotVars, ioVars, mainVars,
                                    LanAssumption
    <2>5. Unused' /\ Kept' /\ Asking'
      BY <1>0, <2>1, <2>2, <2>3 DEF Types, Unused, Kept, Asking, slotVars
    <2>6. Owned'
      BY <1>0, <2>1, <2>2, <2>3 DEF Types, Owned, Kept, SettingUp, slotVars
    <2>7. Terminating'
      BY <1>0, <2>1, <2>2, <2>3 DEF Types, Terminating, Seen, slotVars, mainVars, Threads,
                                    mhThreads
    <2>8. QED
      BY <2>4, <2>5, <2>6, <2>7 DEF IInv
  <1>3. CASE SetID
    <2>1. Moves(A, "SetSession") /\ pc[A] = "SetID"
      BY <1>0, <1>3, GotoMoves DEF SetID, At, Labels, Free
    <2>2. /\ cur[A] \in Slots /\ cur'[A] = cur[A]
          /\ id' = [id EXCEPT ![cur[A]] = <<uniqueID, cur[A]>>]
          /\ <<uniqueID, cur[A]>> \in IDs
          /\ uniqueID' \in Nat
      BY <1>0, <1>3, <2>1 DEF SetID, Working, Moves, Types, Owned, Free, IDs, LanAssumption
    <2>3. UNCHANGED <<sock, ioVars, useable, joined, mainVars>>
      BY <1>3 DEF SetID
    <2>4. Types' /\ Working'
      BY <1>0, <2>1, <2>2, <2>3 DEF Types, Working, Moves, Free, Labels, ioVars, mainVars
    <2>5. Unused' /\ Asking'
      BY <1>0, <2>1, <2>2, <2>3 DEF Types, Unused, Asking, Moves
    <2>6. Kept'
      <3>1. \A ID \in joined : ID[2] # cur[A] /\ ID[2] \in Slots
        BY <1>0, <2>1 DEF Owned, Types, IDs
      <3>2. QED
        BY <1>0, <2>2, <2>3, <3>1 DEF Types, Kept
    <2>7. Owned'
      BY <1>0, <2>1, <2>2, <2>3 DEF Types, Owned, Moves, SettingUp
    <2>8. Terminating'
      BY <1>0, <2>1, <2>3 DEF Types, Terminating, Seen, Moves, mainVars, Threads, mhThreads
    <2>9. QED
      BY <2>4, <2>5, <2>6, <2>7, <2>8 DEF IInv
  <1>4. CASE SetSession
    <2>1. Moves(A, "Join") /\ pc[A] = "SetSession"
      BY <1>0, <1>4, GotoMoves DEF SetSession, At, Labels, Free
    <2>2. /\ cur[A] \in Slots /\ cur'[A] = cur[A] /\ cur[A] \notin useable
          /\ sock[cur[A]] = "none"
          /\ sock' = [sock EXCEPT ![cur[A]] = "open"]
      BY <1>0, <1>4, <2>1 DEF SetSession, Working, Moves, Types, Owned, Unused, Free, SettingUp
    <2>3. UNCHANGED <<id, ioVars, serverVars, mainVars>>
      BY <1>4 DEF SetSession
    <2>4. Types' /\ Working'
      BY <1>0, <2>1, <2>2, <2>3 DEF Types, Working, Moves, Free, Labels, ioVars, serverVars,
                                    mainVars
    <2>5. Unused' /\ Asking' /\ Kept'
      BY <1>0, <2>1, <2>2, <2>3 DEF Types, Unused, Asking, Kept, Moves, serverVars
    <2>6. Owned'
      BY <1>0, <2>1, <2>2, <2>3 DEF Types, Owned, Moves, SettingUp, serverVars
    <2>7. Terminating'
      <3>1. \A s \in Seen : sock'[s] = "closed" \/ s \in missed
        BY <1>0, <2>2 DEF Types, Terminating, Seen
      <3>2. QED
        BY <1>0, <2>1, <2>3, <3>1 DEF Types, Terminating, Seen, Moves, mainVars, Threads,
                                      mhThreads
    <2>8. QED
      BY <2>4, <2>5, <2>6, <2>7 DEF IInv
  <1>5. CASE Join
    <2>1. Moves(A, "RecvPost") /\ pc[A] = "Join"
      BY <1>0, <1>5, GotoMoves DEF Join, At, Labels, Free
    <2>2. /\ cur[A] \in Slots /\ cur[A] \notin useable
          /\ id[cur[A]] \in IDs /\ id[cur[A]][2] = cur[A]
          /\ joined' = joined \cup {id[cur[A]]}
      BY <1>0, <1>5, <2>1 DEF Join, Working, Owned, Free, SettingUp
    <2>3. UNCHANGED <<id, sock, ioVars, useable, uniqueID, mainVars>>
      BY <1>5 DEF Join, slotVars
    <2>4. Types' /\ Working'
      BY <1>0, <2>1, <2>2, <2>3 DEF Types, Working, Moves, Free, Labels, ioVars, mainVars
    <2>5. Unused' /\ Asking' /\ Kept'
      BY <1>0, <2>1, <2>2, <2>3 DEF Types, Unused, Asking, Kept, Moves
    <2>6. Owned'
      BY <1>0, <2>1, <2>2, <2>3 DEF Types, Owned, Moves, SettingUp
    <2>7. Terminating'
      BY <1>0, <2>1, <2>3 DEF Types, Terminating, Seen, Moves, mainVars, Threads, mhThreads
    <2>8. QED
      BY <2>4, <2>5, <2>6, <2>7 DEF IInv
  <1>6. CASE AcceptFails
    <2>1. /\ pc[A] = "Idle" /\ pc' = [pc EXCEPT ![A] = "Ended"] /\ UNCHANGED <<cur, arg>>
          /\ ret' = [ret EXCEPT ![A] = "Idle"]
      BY <1>6 DEF AcceptFails, At, Goto
    <2>2. UNCHANGED <<slotVars, ioVars, serverVars, mainVars>>
      BY <1>6 DEF AcceptFails
    <2>3. Types' /\ Working'
      BY <1>0, <2>1, <2>2 DEF Types, Working, Free, Labels, slotVars, ioVars, serverVars,
                              mainVars
    <2>4. Unused' /\ Asking' /\ Kept' /\ Owned'
      BY <1>0, <2>1, <2>2 DEF Types, Unused, Asking, Kept, Owned, SettingUp, slotVars,
                              serverVars
    <2>5. Terminating'
      BY <1>0, <2>1, <2>2 DEF Types, Terminating, Seen, slotVars, mainVars, Threads, mhThreads
    <2>6. QED
      BY <2>3, <2>4, <2>5 DEF IInv
  <1>7. QED
    BY <1>1, <1>2, <1>3, <1>4, <1>5, <1>6 DEF AcceptorStep

LEMMA WorkerStepKeeps ==
    ASSUME IInv, LanAssumption, NEW w \in Workers, WorkerStep(w)
    PROVE  IInv'
  <1>0. /\ Types /\ Working /\ Unused /\ Owned /\ Kept /\ Asking /\ Terminating
        /\ w \in Threads /\ w # Acceptor /\ w \in mhThreads /\ w \notin Callers
    BY DEF IInv, Threads, mhThreads, LanAssumption
  <1>1. CASE Take(w)
    <2>1. Head(port) \in Completions /\ Tail(port) \in Seq(Completions)
      BY <1>0, <1>1 DEF Take, Types
    <2>2. PICK l \in {"Ended", "Final", "RecvPost", "SendDone"} :
              /\ pc' = [pc EXCEPT ![w] = l]
              /\ l = "Ended" <=> Head(port).kind = "null"
      BY <1>1 DEF Take
    <2>3. /\ Head(port).slot \in Slots \cup {NoSlot}
          /\ Head(port).slot \in Slots <=> Head(port).kind # "null"
      BY <2>1 DEF Completions, Null, LanAssumption
    <2>4. /\ pc[w] = "Idle" /\ cur' = [cur EXCEPT ![w] = Head(port).slot]
          /\ port' = Tail(port)
          /\ UNCHANGED <<slotVars, posted, serverVars, arg, ret, mainVars>>
      BY <1>1 DEF Take, At
    <2>5. Types' /\ Working'
      BY <1>0, <2>1, <2>2, <2>3, <2>4 DEF Types, Working, Free, Labels, slotVars, serverVars,
                                          mainVars
    <2>6. Unused' /\ Asking' /\ Kept' /\ Owned'
      BY <1>0, <2>2, <2>4 DEF Types, Unused, Asking, Kept, Owned, SettingUp, slotVars,
                              serverVars, Threads, mhThreads
    <2>7. Terminating'
      BY <1>0, <2>2, <2>4 DEF Types, Terminating, Seen, slotVars, mainVars, Threads, mhThreads
    <2>8. QED
      BY <2>5, <2>6, <2>7 DEF IInv
  <1>2. CASE SendDone(w)
    <2>1. Moves(w, "SendTry")
      BY <1>0, <1>2, GotoMoves DEF SendDone, At, Labels, Free
    <2>2. QED
      BY <1>0, <1>2, <2>1, OnSession DEF SendDone, At, Types, Labels, SettingUp, Free, ioVars
  <1>3. QED
    BY <1>1, <1>2 DEF WorkerStep

LEMMA CompleteKeeps ==
    ASSUME IInv, NEW s \in Slots, NEW kind \in {"recv", "send"}, Complete(s, kind)
    PROVE  IInv'
  <1> DEFINE c == [slot |-> s, kind |-> kind, data |-> sock[s] = "open"]
  <1>1. c \in Completions
    BY DEF Completions
  <1>2. port' = Append(port, c) /\ posted' = [posted EXCEPT ![s] = @ \ {kind}]
    BY DEF Complete
  <1>3. port' \in Seq(Completions)
    <2> HIDE DEF c
    <2>1. QED
      BY <1>1, <1>2 DEF IInv, Types
  <1>4. UNCHANGED <<slotVars, serverVars, threadVars, mainVars>>
    BY DEF Complete
  <1>5. Types'
    BY <1>2, <1>3, <1>4 DEF IInv, Types, slotVars, serverVars, threadVars, mainVars
  <1>6. QED
    BY <1>4, <1>5 DEF IInv, Working, Unused, Owned, Kept, Asking, Terminating, Seen, slotVars,
                      serverVars, threadVars, mainVars

LEMMA BreakKeeps ==
    ASSUME IInv, NEW s \in Slots, Break(s)
    PROVE  IInv'
  <1>1. sock[s] = "open" /\ sock' = [sock EXCEPT ![s] = "broken"]
    BY DEF Break
  <1>2. UNCHANGED <<id, ioVars, serverVars, threadVars, mainVars>>
    BY DEF Break
  <1>3. Types'
    BY <1>1, <1>2 DEF IInv, Types, ioVars, serverVars, threadVars, mainVars
  <1>4. Unused'
    <2>1. \A r \in useable : sock'[r] = sock[r]
      BY <1>1 DEF IInv, Types, Unused
    <2>2. pc[Acceptor] \in {"SetID", "SetSession"} => sock'[cur[Acceptor]] = "none"
      <3>1. sock[cur[Acceptor]] = "none" => cur[Acceptor] # s
        BY <1>1
      <3>2. pc[Acceptor] \in {"SetID", "SetSession"} => cur[Acceptor] \in Slots
        BY DEF IInv, Working, Free, Threads, mhThreads
      <3>3. QED
        BY <1>1, <3>1, <3>2 DEF IInv, Types, Unused
    <2>3. QED
      BY <1>2, <2>1, <2>2 DEF IInv, Unused, serverVars, threadVars
  <1>5. Terminating'
    <2>1. \A r \in Seen : sock'[r] = "closed" \/ r \in missed
      BY <1>1 DEF IInv, Types, Terminating, Seen
    <2>2. QED
      BY <1>2, <2>1 DEF IInv, Terminating, Seen, threadVars, mainVars
  <1>6. QED
    BY <1>2, <1>3, <1>4, <1>5 DEF IInv, Working, Owned, Kept, Asking, serverVars, threadVars

LEMMA TerminateKeeps ==
    ASSUME IInv, LanAssumption, Terminate
    PROVE  IInv'
  <1>0. Types /\ Working /\ Unused /\ Owned /\ Kept /\ Asking /\ Terminating
    BY DEF IInv
  <1>1. CASE CloseListen
    <2>1. /\ terminate = "Running" /\ terminate' = "Close"
          /\ UNCHANGED <<slotVars, ioVars, serverVars, threadVars, i, missed>>
      BY <1>1 DEF CloseListen
    <2>2. Seen' = {} /\ i = 0
      BY <1>0, <2>1 DEF Terminating, Seen, Slots, LanAssumption
    <2>3. QED
      BY <1>0, <2>1, <2>2 DEF IInv, Types, Working, Unused, Owned, Kept, Asking, Terminating,
                              Seen, slotVars, ioVars, serverVars, threadVars
  <1>2. CASE CloseSession
    <2>1. /\ terminate = "Close" /\ i' = i + 1 /\ i \in Slots
          /\ UNCHANGED <<id, ioVars, serverVars, threadVars, terminate>>
      BY <1>0, <1>2 DEF CloseSession, Types, Slots, LanAssumption
    <2>2. \/ sock[i] # "none" /\ sock' = [sock EXCEPT ![i] = "closed"] /\ missed' = missed
          \/ sock' = sock /\ missed' = missed \cup {i}
      BY <1>2 DEF CloseSession
    <2>3. /\ \A s \in Slots : sock[s] = "none" => sock'[s] = "none"
          /\ \A s \in Slots : sock[s] = "closed" => sock'[s] = "closed"
          /\ sock'[i] = "closed" \/ i \in missed'
      BY <1>0, <2>1, <2>2 DEF Types
    <2>4. Types'
      <3>1. sock' \in [Slots -> {"none", "open", "broken", "closed"}] /\ missed' \subseteq Slots
        BY <1>0, <2>1, <2>2 DEF Types
      <3>2. i' \in Nat
        BY <1>0, <2>1 DEF Types
      <3>3. QED
        BY <1>0, <2>1, <3>1, <3>2 DEF Types, ioVars, serverVars, threadVars
    <2>5. Unused'
      <3>1. pc[Acceptor] \in {"SetID", "SetSession"} => cur[Acceptor] \in Slots
        BY <1>0 DEF Working, Free, Threads, mhThreads
      <3>2. QED
        BY <1>0, <2>1, <2>3, <3>1 DEF Types, Unused, serverVars, threadVars
    <2>6. Terminating'
      <3>1. Seen' = Seen \cup {i}
        BY <1>0, <2>1 DEF Types, Seen, Slots, LanAssumption
      <3>2. missed \subseteq missed'
        BY <2>2
      <3>3. \A s \in Seen' : sock'[s] = "closed" \/ s \in missed'
        BY <1>0, <2>3, <3>1, <3>2 DEF Terminating, Seen
      <3>4. i' <= mMaximumSessionCount
        BY <2>1 DEF Slots, LanAssumption
      <3>5. QED
        BY <1>0, <2>1, <3>3, <3>4 DEF Terminating, threadVars
    <2>7. QED
      BY <1>0, <2>1, <2>4, <2>5, <2>6 DEF IInv, Working, Owned, Kept, Asking, serverVars,
                                          threadVars
  <1>3. CASE PostNulls
    <2> DEFINE nulls == [k \in 1 .. Cardinality(mhThreads) - 1 |-> Null]
    <2>1. /\ terminate = "Close" /\ i = mMaximumSessionCount /\ terminate' = "Wait" /\ i' = 0
          /\ port' = port \o nulls
          /\ UNCHANGED <<slotVars, posted, serverVars, threadVars, missed>>
      BY <1>3 DEF PostNulls
    <2>2. port' \in Seq(Completions)
      <3>1. IsFiniteSet(mhThreads)
        BY FS_Subset DEF LanAssumption, Threads
      <3>2. Cardinality(mhThreads) \in Nat \ {0}
        BY <3>1, FS_CardinalityType, FS_EmptySet DEF mhThreads
      <3>3. nulls \in Seq(Completions)
        BY <3>2 DEF Completions
      <3> HIDE DEF nulls
      <3>4. QED
        BY <1>0, <2>1, <3>3 DEF Types
    <2>3. Types'
      BY <1>0, <2>1, <2>2 DEF Types, slotVars, serverVars, threadVars
    <2>4. Terminating'
      <3>1. Seen' = Slots /\ Seen = Slots
        BY <2>1 DEF Seen, Slots, LanAssumption
      <3>2. QED
        BY <1>0, <2>1, <3>1 DEF Terminating, slotVars, threadVars
    <2>5. QED
      BY <1>0, <2>1, <2>3, <2>4 DEF IInv, Working, Unused, Owned, Kept, Asking, slotVars,
                                    serverVars, threadVars
  <1>4. CASE Delete
    <2>1. /\ terminate = "Wait" /\ terminate' = "Deleted"
          /\ \A t \in mhThreads : pc[t] = "Ended"
          /\ UNCHANGED <<slotVars, ioVars, serverVars, threadVars, i, missed>>
      BY <1>4 DEF Delete, At
    <2>2. QED
      BY <1>0, <2>1 DEF IInv, Types, Working, Unused, Owned, Kept, Asking, Terminating, Seen,
                        slotVars, ioVars, serverVars, threadVars
  <1>5. QED
    BY <1>1, <1>2, <1>3, <1>4 DEF Terminate

--------------------------------------------------------------------------------
LEMMA InitHolds ==
    ASSUME Init, LanAssumption
    PROVE  IInv
  <1>1. Types
    BY DEF Init, Types, Labels
  <1>2. Working /\ Unused /\ Owned /\ Kept /\ Asking
    BY DEF Init, Working, Unused, Owned, Kept, Asking, Free, SettingUp, LanAssumption, Threads,
           mhThreads
  <1>3. Terminating
    BY DEF Init, Terminating, Seen
  <1>4. QED
    BY <1>1, <1>2, <1>3 DEF IInv

LEMMA NextKeeps ==
    ASSUME IInv, LanAssumption, [Next]_vars
    PROVE  IInv'
  <1>1. CASE UNCHANGED vars
    BY <1>1 DEF IInv, Types, Working, Unused, Owned, Kept, Asking, Terminating, Seen, vars,
                slotVars, ioVars, serverVars, threadVars, mainVars
  <1>2. CASE Next
    BY <1>2, AcceptorStepKeeps, SessionStepKeeps, WorkerStepKeeps, CallerStepKeeps,
       CompleteKeeps, BreakKeeps, TerminateKeeps DEF Next, Threads
  <1>3. QED
    BY <1>1, <1>2

\* The inductive invariant.
THEOREM Invariant == Spec => []IInv
  BY InitHolds, NextKeeps, LanAssumption, PTL DEF Spec

\* No session that a LanServer told the program of ever loses its ID, or gives its
\* slot back: releaseSession does nothing, for any low word of mBuffer but zero.
THEOREM NoSessionIsReleased == Spec => []Kept
  <1>1. IInv => Kept
    BY DEF IInv
  <1>2. QED
    BY <1>1, Invariant, PTL

\* When Terminate deletes the table no thread of the server uses it, whatever the
\* program has called meanwhile; and what is still posted is of a socket it closed,
\* or of a slot that had no socket when it looked.
THEOREM TableIsDeletedLast == Spec => []TableDeleted
  <1>1. ASSUME IInv PROVE TableDeleted
    <2>1. ASSUME terminate = "Deleted" PROVE \A t \in mhThreads : pc[t] = "Ended"
      BY <1>1, <2>1 DEF IInv, Terminating
    <2>2. ASSUME terminate = "Deleted" PROVE \A t \in mhThreads : cur[t] = NoSlot
      BY <1>1, <2>1, <2>2 DEF IInv, Types, Working, Free, Threads
    <2>3. ASSUME terminate = "Deleted" PROVE Seen = Slots
      BY <2>3 DEF Seen
    <2>4. QED
      BY <1>1, <2>1, <2>2, <2>3 DEF IInv, Terminating, TableDeleted, At
  <1>2. QED
    BY <1>1, Invariant, PTL

--------------------------------------------------------------------------------
(* The references are counted exactly.  A session has one receive and one  *)
(* send at most, each of which is posted, in the port, or in the hands of  *)
(* a thread; so to post one adds to the set of what is posted.             *)

\* where the one thread is that has the receive, or the send, of its session
Handling(kind) ==
    IF kind = "recv" THEN {"Join", "RecvPost"} ELSE {"SendPost", "SendFailed", "SendDone"}
Doing(s, kind) == {t \in Threads : cur[t] = s /\ pc[t] \in Handling(kind)}

InPort(s) == {k \in DOMAIN port : port[k].slot = s}
Queued(s, kind) == {k \in InPort(s) : port[k].kind = kind}

Pending(s, kind) == kind \in posted[s] \/ Doing(s, kind) # {} \/ Queued(s, kind) # {}

OneOfEach ==
    \A s \in Slots, kind \in {"recv", "send"} :
        /\ \A t, u \in Doing(s, kind) : t = u
        /\ \A j, k \in Queued(s, kind) : j = k
        /\ Doing(s, kind) # {} => Queued(s, kind) = {}
        /\ kind \in posted[s] => Doing(s, kind) = {} /\ Queued(s, kind) = {}

\* bIsSending is set as long as there is a send
SendsGated == \A s \in Slots : Pending(s, "send") => sending[s]

\* nothing refers to a slot before the session in it is set up
Fresh(s) == s \in useable \/ (pc[Acceptor] \in {"SetID", "SetSession"} /\ cur[Acceptor] = s)
Untouched ==
    \A s \in Slots : Fresh(s) =>
        /\ posted[s] = {} /\ InPort(s) = {}
        /\ \A t \in Threads : cur[t] = s => t = Acceptor /\ s \notin useable

Counted ==
    \A s \in Slots :
        ioCount[s] = Cardinality(posted[s]) + Cardinality(Holders(s)) + Cardinality(Undoers(s))
                     + Cardinality(InPort(s))

CountTypes == ioCount \in [Slots -> Int] /\ sending \in [Slots -> BOOLEAN]

CInv == CountTypes /\ OneOfEach /\ SendsGated /\ Untouched /\ Counted

Bit(b) == IF b THEN 1 ELSE 0

\* the references of a thread on its session
Weight(l, r) ==
    IF l \in {"SetID", "SetSession"} \/ (l = "Release" /\ r = "Idle") THEN 0
    ELSE IF l \in {"Undo", "SendFailed"} THEN 2 ELSE 1
Mine(t, s) == IF cur[t] = s THEN Weight(pc[t], ret[t]) ELSE 0

\* the other threads stay where they are
Alone(t) == \A u \in Threads \ {t} : pc'[u] = pc[u] /\ cur'[u] = cur[u] /\ ret'[u] = ret[u]

\* one element comes or goes
LEMMA SwapOne ==
    ASSUME NEW S, NEW T, IsFiniteSet(S), NEW t, \A u : u # t => (u \in S <=> u \in T)
    PROVE  /\ IsFiniteSet(T) /\ Cardinality(S) \in Nat /\ Cardinality(T) \in Nat
           /\ Cardinality(T) = Cardinality(S) + Bit(t \in T) - Bit(t \in S)
  <1>1. Cardinality(S) \in Nat
    BY FS_CardinalityType
  <1>2. CASE (t \in S <=> t \in T)
    <2>1. S = T
      BY <1>2
    <2>2. QED
      BY <1>1, <2>1 DEF Bit
  <1>3. CASE t \in S /\ t \notin T
    <2>1. T = S \ {t}
      BY <1>3
    <2>2. IsFiniteSet(T) /\ Cardinality(T) = Cardinality(S) - 1
      BY <1>3, <2>1, FS_RemoveElement
    <2>3. Cardinality(T) \in Nat
      BY <2>2, FS_CardinalityType
    <2>4. QED
      BY <1>1, <1>3, <2>2, <2>3 DEF Bit
  <1>4. CASE t \notin S /\ t \in T
    <2>1. T = S \cup {t}
      BY <1>4
    <2>2. IsFiniteSet(T) /\ Cardinality(T) = Cardinality(S) + 1
      BY <1>4, <2>1, FS_AddElement
    <2>3. Cardinality(T) \in Nat
      BY <2>2, FS_CardinalityType
    <2>4. QED
      BY <1>1, <1>4, <2>2, <2>3 DEF Bit
  <1>5. QED
    BY <1>2, <1>3, <1>4

LEMMA FiniteThreads ==
    ASSUME LanAssumption, NEW s
    PROVE  /\ IsFiniteSet(Holders(s)) /\ IsFiniteSet(Undoers(s))
           /\ Cardinality(Holders(s)) \in Nat /\ Cardinality(Undoers(s)) \in Nat
  <1>1. Holders(s) \in SUBSET Threads /\ Undoers(s) \in SUBSET Threads
    BY DEF Holders, Undoers
  <1>2. IsFiniteSet(Holders(s)) /\ IsFiniteSet(Undoers(s))
    BY <1>1, FS_Subset DEF LanAssumption
  <1>3. QED
    BY <1>2, FS_CardinalityType

LEMMA FinitePosted ==
    ASSUME NEW P \in SUBSET {"recv", "send"}
    PROVE  IsFiniteSet(P) /\ Cardinality(P) \in Nat
  <1>1. IsFiniteSet({"recv"} \cup {"send"})
    BY FS_Singleton, FS_AddElement
  <1>2. P \in SUBSET ({"recv"} \cup {"send"})
    OBVIOUS
  <1>3. QED
    BY <1>1, <1>2, FS_Subset, FS_CardinalityType

LEMMA FinitePort ==
    ASSUME NEW q \in Seq(Completions), NEW T \in SUBSET DOMAIN q
    PROVE  IsFiniteSet(T) /\ Cardinality(T) \in Nat
  <1>1. Len(q) \in Nat /\ DOMAIN q = 1 .. Len(q)
    OBVIOUS
  <1>2. IsFiniteSet(1 .. Len(q))
    BY <1>1, FS_Interval
  <1>3. QED
    BY <1>1, <1>2, FS_Subset, FS_CardinalityType

\* When one thread moves, the references that threads have change by its own.
LEMMA Shift ==
    ASSUME LanAssumption, Types, Types', NEW t \in Threads, Alone(t), NEW s \in Slots
    PROVE  /\ Mine(t, s) \in Int /\ Mine(t, s)' \in Int
           /\ Cardinality(Holders(s)) \in Nat /\ Cardinality(Undoers(s)) \in Nat
           /\ Cardinality(Holders(s))' \in Nat /\ Cardinality(Undoers(s))' \in Nat
           /\ Cardinality(Holders(s))' + Cardinality(Undoers(s))'
                = Cardinality(Holders(s)) + Cardinality(Undoers(s)) + Mine(t, s)' - Mine(t, s)
  <1>1. \A u : u # t => (u \in Holders(s) <=> u \in Holders(s)')
    BY DEF Alone, Holders, At
  <1>2. \A u : u # t => (u \in Undoers(s) <=> u \in Undoers(s)')
    BY DEF Alone, Undoers
  <1>3. /\ Cardinality(Holders(s)') = Cardinality(Holders(s)) + Bit(t \in Holders(s)')
                                      - Bit(t \in Holders(s))
        /\ Cardinality(Holders(s)') \in Nat /\ Cardinality(Holders(s)) \in Nat
    <2> HIDE DEF Holders
    <2>1. QED
      BY <1>1, FiniteThreads, SwapOne
  <1>4. /\ Cardinality(Undoers(s)') = Cardinality(Undoers(s)) + Bit(t \in Undoers(s)')
                                      - Bit(t \in Undoers(s))
        /\ Cardinality(Undoers(s)') \in Nat /\ Cardinality(Undoers(s)) \in Nat
    BY <1>2, FiniteThreads, SwapOne
  <1>5. Mine(t, s) = Bit(t \in Holders(s)) + Bit(t \in Undoers(s))
    BY DEF Mine, Weight, Bit, Holders, Undoers, At
  <1>6. Mine(t, s)' = Bit(t \in Holders(s)') + Bit(t \in Undoers(s)')
    BY DEF Mine, Weight, Bit, Holders, Undoers, At
  <1>7. /\ Bit(t \in Holders(s)) \in Nat /\ Bit(t \in Undoers(s)) \in Nat
        /\ Bit(t \in Holders(s)') \in Nat /\ Bit(t \in Undoers(s)') \in Nat
    BY DEF Bit
  <1>8. QED
    BY <1>3, <1>4, <1>5, <1>6, <1>7

\* what a step has to show to keep the count
LEMMA CountMoves ==
    ASSUME LanAssumption, Types, Types', CountTypes, Counted, NEW t \in Threads, Alone(t),
           \A s \in Slots :
              ioCount'[s] = ioCount[s] + (Mine(t, s)' - Mine(t, s))
                            + (Cardinality(posted'[s]) - Cardinality(posted[s]))
                            + (Cardinality(InPort(s))' - Cardinality(InPort(s)))
    PROVE  Counted'
  <1> SUFFICES ASSUME NEW s \in Slots
               PROVE  ioCount'[s] = Cardinality(posted'[s]) + Cardinality(Holders(s))'
                                    + Cardinality(Undoers(s))' + Cardinality(InPort(s))'
    BY DEF Counted
  <1>1. /\ Mine(t, s) \in Int /\ Mine(t, s)' \in Int
        /\ Cardinality(Holders(s)) \in Nat /\ Cardinality(Undoers(s)) \in Nat
        /\ Cardinality(Holders(s))' \in Nat /\ Cardinality(Undoers(s))' \in Nat
        /\ Cardinality(Holders(s))' + Cardinality(Undoers(s))'
             = Cardinality(Holders(s)) + Cardinality(Undoers(s)) + Mine(t, s)' - Mine(t, s)
    BY Shift
  <1>2. Cardinality(posted[s]) \in Nat /\ Cardinality(posted'[s]) \in Nat
    <2>1. posted[s] \in SUBSET {"recv", "send"} /\ posted'[s] \in SUBSET {"recv", "send"}
      BY DEF Types
    <2>2. QED
      BY <2>1, FinitePosted
  <1>3. Cardinality(InPort(s)) \in Nat /\ Cardinality(InPort(s))' \in Nat
    <2>1. /\ port \in Seq(Completions) /\ port' \in Seq(Completions)
          /\ InPort(s) \in SUBSET DOMAIN port /\ InPort(s)' \in SUBSET DOMAIN port'
      BY DEF Types, InPort
    <2>2. QED
      BY <2>1, FinitePort
  <1>4. ioCount[s] = Cardinality(posted[s]) + Cardinality(Holders(s)) + Cardinality(Undoers(s))
                     + Cardinality(InPort(s))
    BY DEF Counted
  <1>5. QED
    BY <1>1, <1>2, <1>3, <1>4

\* A step of a thread in its session, at c: what it has to show for CInv.
LEMMA InSession ==
    ASSUME LanAssumption, Types, Types', Owned, CInv, CountTypes',
           NEW t \in Threads, Alone(t), NEW c \in Slots, cur[t] = c, cur'[t] \in {c, NoSlot},
           port' = port, useable' = useable,
           \A s \in Slots \ {c} : /\ ioCount'[s] = ioCount[s] /\ posted'[s] = posted[s]
                                  /\ sending'[s] = sending[s],
           \* the count
           ioCount'[c] = ioCount[c] + (Mine(t, c)' - Mine(t, c))
                         + (Cardinality(posted'[c]) - Cardinality(posted[c])),
           \* a receive or a send begins only if there is none, and is posted by its thread
           \A kind \in {"recv", "send"} :
              /\ cur'[t] = c /\ pc'[t] \in Handling(kind) =>
                    pc[t] \in Handling(kind) \/ ~Pending(c, kind)
              /\ kind \in posted'[c] =>
                    \/ kind \in posted[c]
                    \/ pc[t] \in Handling(kind) /\ pc'[t] \notin Handling(kind),
           posted[c] \subseteq posted'[c],
           \* bIsSending
           ~sending'[c] =>
              /\ pc'[t] \notin Handling("send")
              /\ "send" \in posted'[c] => "send" \in posted[c]
              /\ ~sending[c] \/ pc[t] \in Handling("send") \/ ~Pending(c, "send"),
           \* setting up
           pc[t] \in {"SetID", "SetSession"} => posted'[c] = posted[c],
           pc'[t] \in {"SetID", "SetSession"} => pc[t] \in {"SetID", "SetSession"}
    PROVE  CInv'
  <1> USE DEF CInv
  <1>1. /\ \A s \in Slots : InPort(s)' = InPort(s)
        /\ \A s \in Slots, kind \in {"recv", "send"} : Queued(s, kind)' = Queued(s, kind)
    BY DEF InPort, Queued
  <1>2. /\ \A s \in Slots \ {c} : \A kind : Doing(s, kind)' = Doing(s, kind)
        /\ \A kind : Doing(c, kind)' \ {t} = Doing(c, kind) \ {t}
        /\ \A kind : t \in Doing(c, kind)' <=> cur'[t] = c /\ pc'[t] \in Handling(kind)
        /\ \A kind : t \in Doing(c, kind) <=> pc[t] \in Handling(kind)
    BY DEF Doing, Alone, LanAssumption
  <1>3. OneOfEach'
    <2> SUFFICES ASSUME NEW s \in Slots, NEW kind \in {"recv", "send"}
                 PROVE  /\ \A u, w \in Doing(s, kind)' : u = w
                        /\ \A j, k \in Queued(s, kind)' : j = k
                        /\ Doing(s, kind)' # {} => Queued(s, kind)' = {}
                        /\ kind \in posted'[s] =>
                              Doing(s, kind)' = {} /\ Queued(s, kind)' = {}
      BY DEF OneOfEach
    <2>1. CASE s # c
      BY <1>1, <1>2, <2>1 DEF OneOfEach
    <2>2. CASE s = c
      <3>1. Doing(c, kind)' \subseteq Doing(c, kind) \/ (Doing(c, kind)' \subseteq {t} /\ ~Pending(c, kind))
        BY <1>2, <2>2 DEF Pending
      <3>2. kind \in posted'[c] =>
               \/ kind \in posted[c] /\ Doing(c, kind)' = {}
               \/ Doing(c, kind) = {t} /\ Doing(c, kind)' = {}
        BY <1>2, <3>1 DEF OneOfEach, Pending
      <3>3. QED
        BY <1>1, <2>2, <3>1, <3>2 DEF OneOfEach, Pending
    <2>3. QED
      BY <2>1, <2>2
  <1>4. SendsGated'
    <2> SUFFICES ASSUME NEW s \in Slots, Pending(s, "send")' PROVE sending'[s]
      BY DEF SendsGated
    <2>1. CASE s # c
      BY <1>1, <1>2, <2>1 DEF SendsGated, Pending
    <2>2. CASE s = c
      <3> SUFFICES ASSUME ~sending'[c] PROVE FALSE
        BY <2>2
      <3>1. /\ t \notin Doing(c, "send")'
            /\ "send" \in posted'[c] => "send" \in posted[c]
            /\ ~sending[c] \/ pc[t] \in Handling("send") \/ ~Pending(c, "send")
        BY <1>2
      <3>2. Pending(c, "send")
        BY <1>1, <1>2, <2>2, <3>1 DEF Pending
      <3>3. t \in Doing(c, "send")
        BY <1>2, <3>1, <3>2 DEF SendsGated
      <3>4. Doing(c, "send")' = {}
        BY <1>2, <3>1, <3>3 DEF OneOfEach
      <3>5. QED
        BY <1>1, <2>2, <3>1, <3>3, <3>4 DEF OneOfEach, Pending
    <2>3. QED
      BY <2>1, <2>2
  <1>5. Untouched'
    <2> SUFFICES ASSUME NEW s \in Slots, Fresh(s)'
                 PROVE  /\ posted'[s] = {} /\ InPort(s)' = {}
                        /\ \A u \in Threads : cur'[u] = s => u = Acceptor /\ s \notin useable
      BY DEF Untouched
    <2>1. Acceptor \in Threads
      BY DEF Threads, mhThreads
    <2>2. Fresh(s)
      BY <2>1 DEF Fresh, Alone, LanAssumption
    <2>3. s = c => pc[t] \in {"SetID", "SetSession"}
      BY <2>2 DEF Fresh, Untouched
    <2>4. posted'[s] = {}
      BY <2>2, <2>3 DEF Untouched
    <2>5. \A u \in Threads : cur'[u] = s => cur[u] = s
      BY DEF Alone, LanAssumption
    <2>6. QED
      BY <1>1, <2>2, <2>4, <2>5 DEF Untouched
  <1>6. Counted'
    <2>1. \A s \in Slots \ {c} : Mine(t, s)' = 0 /\ Mine(t, s) = 0
      BY DEF Mine, LanAssumption
    <2>2. \A s \in Slots : /\ Cardinality(posted[s]) \in Nat /\ ioCount[s] \in Int
                           /\ Cardinality(InPort(s)) \in Nat
                           /\ Cardinality(InPort(s))' = Cardinality(InPort(s))
      <3>1. \A s \in Slots : posted[s] \in SUBSET {"recv", "send"}
        BY DEF Types
      <3>2. \A s \in Slots : port \in Seq(Completions) /\ InPort(s) \in SUBSET DOMAIN port
        BY DEF Types, InPort
      <3>3. \A s \in Slots : Cardinality(posted[s]) \in Nat
        BY <3>1, FinitePosted
      <3>4. \A s \in Slots : Cardinality(InPort(s)) \in Nat
        BY <3>2, FinitePort
      <3>5. QED
        BY <1>1, <3>3, <3>4 DEF CountTypes
    <2>3. Mine(t, c) \in Int /\ Mine(t, c)' \in Int
      BY Shift
    <2>4. Cardinality(posted'[c]) \in Nat
      <3>1. posted'[c] \in SUBSET {"recv", "send"}
        BY DEF Types
      <3>2. QED
        BY <3>1, FinitePosted
    <2>5. \A s \in Slots :
              ioCount'[s] = ioCount[s] + (Mine(t, s)' - Mine(t, s))
                            + (Cardinality(posted'[s]) - Cardinality(posted[s]))
                            + (Cardinality(InPort(s))' - Cardinality(InPort(s)))
      <3> TAKE s \in Slots
      <3>1. CASE s = c
        BY <2>2, <2>3, <2>4, <3>1
      <3>2. CASE s # c
        BY <2>1, <2>2, <3>2
      <3>3. QED
        BY <3>1, <3>2
    <2>6. QED
      BY <2>5, CountMoves
  <1>7. QED
    BY <1>3, <1>4, <1>5, <1>6

LEMMA GotoAlone ==
    ASSUME Types, NEW t \in Threads, NEW l, Goto(t, l)
    PROVE  /\ Alone(t) /\ pc'[t] = l /\ ret'[t] = "Idle"
           /\ cur'[t] = IF l = "Idle" THEN NoSlot ELSE cur[t]
  BY DEF Types, Goto, Alone

LEMMA DecAlone ==
    ASSUME Types, CountTypes, NEW t \in Threads, cur[t] \in Slots, NEW l \in {"Idle", "Final"},
           Dec(t, l)
    PROVE  /\ Alone(t) /\ ioCount' \in [Slots -> Int]
           /\ ioCount'[cur[t]] = ioCount[cur[t]] - 1
           /\ \A s \in Slots \ {cur[t]} : ioCount'[s] = ioCount[s]
           /\ \/ pc'[t] = "Release" /\ ret'[t] = l /\ cur'[t] = cur[t]
              \/ /\ pc'[t] = l /\ ret'[t] = "Idle"
                 /\ cur'[t] = IF l = "Idle" THEN NoSlot ELSE cur[t]
  <1>1. /\ ioCount' \in [Slots -> Int] /\ ioCount'[cur[t]] = ioCount[cur[t]] - 1
        /\ \A s \in Slots \ {cur[t]} : ioCount'[s] = ioCount[s]
    BY DEF Dec, CountTypes
  <1>2. CASE ioCount[cur[t]] = 1
    BY <1>1, <1>2 DEF Dec, Types, Alone
  <1>3. CASE ioCount[cur[t]] # 1
    BY <1>1, <1>3, GotoAlone DEF Dec
  <1>4. QED
    BY <1>2, <1>3

\* InSession for a step that posts nothing
LEMMA NothingPosted ==
    ASSUME LanAssumption, Types, Types', Owned, CInv, CountTypes',
           NEW t \in Threads, Alone(t), NEW c \in Slots, cur[t] = c, cur'[t] \in {c, NoSlot},
           port' = port, useable' = useable, posted' = posted,
           \A s \in Slots \ {c} : ioCount'[s] = ioCount[s] /\ sending'[s] = sending[s],
           ioCount'[c] = ioCount[c] + (Mine(t, c)' - Mine(t, c)),
           \A kind \in {"recv", "send"} :
              cur'[t] = c /\ pc'[t] \in Handling(kind) =>
                 pc[t] \in Handling(kind) \/ ~Pending(c, kind),
           ~sending'[c] =>
              /\ pc'[t] \notin Handling("send")
              /\ ~sending[c] \/ pc[t] \in Handling("send") \/ ~Pending(c, "send"),
           pc'[t] \in {"SetID", "SetSession"} => pc[t] \in {"SetID", "SetSession"}
    PROVE  CInv'
  <1>1. Cardinality(posted'[c]) - Cardinality(posted[c]) = 0
    <2>1. posted[c] \in SUBSET {"recv", "send"}
      BY DEF Types
    <2>2. Cardinality(posted[c]) \in Nat
      BY <2>1, FinitePosted
    <2>3. QED
      BY <2>2
  <1>2. ioCount'[c] \in Int
    BY DEF CountTypes
  <1>3. ioCount'[c] = ioCount[c] + (Mine(t, c)' - Mine(t, c))
                      + (Cardinality(posted'[c]) - Cardinality(posted[c]))
    BY <1>1, <1>2
  <1>4. QED
    BY <1>3, InSession

LEMMA PostCounts ==
    ASSUME IInv, IInv', CInv, LanAssumption, NEW t \in Threads,
           NEW kind \in {"recv", "send"}, NEW undo \in {"Undo", "SendFailed"},
           kind = "recv" => pc[t] = "RecvPost" /\ undo = "Undo",
           kind = "send" => pc[t] = "SendPost" /\ undo = "SendFailed",
           Post(t, kind, undo), UNCHANGED <<sending, port, useable>>
    PROVE  CInv'
  <1>0. Types /\ Types' /\ Owned /\ CountTypes /\ cur[t] \in Slots
    BY DEF IInv, CInv, Working, Free
  <1>10. PICK c \in Slots : c = cur[t]
    BY <1>0
  <1>1. /\ ioCount' \in [Slots -> Int] /\ ioCount'[c] = ioCount[c] + 1
        /\ \A s \in Slots \ {c} : ioCount'[s] = ioCount[s]
    BY <1>0, <1>10 DEF Post, CountTypes
  <1>2. CountTypes'
    BY <1>0, <1>10, <1>1 DEF CountTypes
  <1>3. t \in Doing(c, kind) /\ pc[t] \in Handling(kind)
    BY <1>10 DEF Doing, Handling
  <1>4. kind \notin posted[c]
    BY <1>0, <1>10, <1>3 DEF CInv, OneOfEach
  <1>5. Mine(t, c) = 1
    BY <1>10 DEF Mine, Weight
  <1>6. kind = "send" => sending[c]
    BY <1>0, <1>10, <1>3 DEF CInv, SendsGated, Pending
  <1>7. CASE posted' = [posted EXCEPT ![c] = @ \cup {kind}] /\ Goto(t, "Final")
    <2>1. /\ Alone(t) /\ pc'[t] = "Final" /\ cur'[t] = c
      BY <1>0, <1>10, <1>7, GotoAlone
    <2>2. Mine(t, c)' = 1
      BY <1>0, <1>10, <2>1 DEF Mine, Weight
    <2>3. /\ posted'[c] = posted[c] \cup {kind}
          /\ \A s \in Slots \ {c} : posted'[s] = posted[s]
      BY <1>0, <1>10, <1>7 DEF Types
    <2>4. /\ Cardinality(posted'[c]) = Cardinality(posted[c]) + 1
          /\ Cardinality(posted[c]) \in Nat
      <3>1. posted[c] \in SUBSET {"recv", "send"}
        BY <1>0, <1>10 DEF Types
      <3>2. QED
        BY <1>4, <2>3, <3>1, FinitePosted, FS_AddElement
    <2>5. ioCount'[c] = ioCount[c] + (Mine(t, c)' - Mine(t, c))
                        + (Cardinality(posted'[c]) - Cardinality(posted[c]))
      BY <1>0, <1>10, <1>1, <1>5, <2>2, <2>4 DEF CountTypes
    <2>6. QED
      <3>1. /\ \A k \in {"recv", "send"} : pc'[t] \notin Handling(k)
            /\ pc[t] \in Handling(kind) /\ pc'[t] \notin {"SetID", "SetSession"}
            /\ pc[t] \notin {"SetID", "SetSession"}
        BY <1>3, <2>1 DEF Handling
      <3>2. /\ \A k \in {"recv", "send"} : k \in posted'[c] => k \in posted[c] \/ k = kind
            /\ posted[c] \subseteq posted'[c]
        BY <2>3
      <3>3. \A k \in {"recv", "send"} :
               /\ cur'[t] = c /\ pc'[t] \in Handling(k) =>
                     pc[t] \in Handling(k) \/ ~Pending(c, k)
               /\ k \in posted'[c] =>
                     \/ k \in posted[c]
                     \/ pc[t] \in Handling(k) /\ pc'[t] \notin Handling(k)
        BY <3>1, <3>2
      <3>4. ~sending'[c] =>
               /\ pc'[t] \notin Handling("send")
               /\ "send" \in posted'[c] => "send" \in posted[c]
               /\ ~sending[c] \/ pc[t] \in Handling("send") \/ ~Pending(c, "send")
        BY <1>6, <3>1, <3>2
      <3>5. \A s \in Slots \ {c} : /\ ioCount'[s] = ioCount[s] /\ posted'[s] = posted[s]
                                    /\ sending'[s] = sending[s]
        BY <1>1, <2>3
      <3>6. cur[t] = c /\ cur'[t] \in {c, NoSlot}
        BY <1>10, <2>1
      <3>7. QED
        BY <1>0, <1>2, <2>1, <2>5, <3>1, <3>2, <3>3, <3>4, <3>5, <3>6, InSession
  <1>8. CASE posted' = posted /\ Goto(t, undo)
    <2>1. /\ Alone(t) /\ pc'[t] = undo /\ cur'[t] = c
      BY <1>0, <1>10, <1>8, GotoAlone
    <2>2. Mine(t, c)' = 2
      BY <1>0, <1>10, <2>1 DEF Mine, Weight
    <2>3. ioCount'[c] = ioCount[c] + (Mine(t, c)' - Mine(t, c))
      BY <1>0, <1>10, <1>1, <1>5, <2>2 DEF CountTypes
    <2>4. QED
      BY <1>0, <1>10, <1>1, <1>2, <1>3, <1>6, <1>8, <2>1, <2>3, NothingPosted DEF Handling
  <1>9. QED
    BY <1>7, <1>8, <1>10 DEF Post

LEMMA SessionStepCounts ==
    ASSUME IInv, IInv', CInv, LanAssumption, NEW t \in Threads, SessionStep(t)
    PROVE  CInv'
  <1>0. /\ Types /\ Types' /\ Owned /\ CountTypes /\ NoSlot \notin Slots
        /\ pc[t] \notin Free
    BY DEF IInv, CInv, LanAssumption, SessionStep, RecvPost, SendTry, SendPost, SendFailed, Undo,
           Final, Release, At, Free
  <1>11. PICK c \in Slots : c = cur[t]
    BY <1>0 DEF IInv, Working
  <1>1. ASSUME NEW l \in {"SendTry", "SendPost", "Final", "Undo", "Idle"}, Goto(t, l),
               UNCHANGED <<ioCount, posted, port, useable>>, sending' \in [Slots -> BOOLEAN],
               \A s \in Slots \ {c} : sending'[s] = sending[s],
               Weight(pc[t], ret[t]) = IF l = "Idle" THEN 0 ELSE Weight(l, "Idle"),
               l = "SendPost" => ~Pending(c, "send") /\ sending'[c],
               ~sending'[c] => ~sending[c] \/ pc[t] \in Handling("send")
        PROVE  CInv'
    <2>1. /\ Alone(t) /\ pc'[t] = l /\ ret'[t] = "Idle"
          /\ cur'[t] = IF l = "Idle" THEN NoSlot ELSE c
      BY <1>0, <1>11, <1>1, GotoAlone
    <2>2. Mine(t, c)' = Mine(t, c) /\ Mine(t, c) \in Int
      <3>1. Mine(t, c) = Weight(pc[t], ret[t]) /\ Weight(pc[t], ret[t]) \in Int
        BY <1>11 DEF Mine, Weight
      <3>2. CASE l = "Idle"
        BY <1>0, <1>11, <1>1, <2>1, <3>1, <3>2 DEF Mine, Weight
      <3>3. CASE l # "Idle"
        <4>1. Mine(t, c)' = Weight(l, "Idle")
          BY <2>1, <3>3 DEF Mine
        <4>2. QED
          BY <1>1, <3>1, <3>3, <4>1
      <3>4. QED
        BY <3>2, <3>3
    <2>3. ioCount'[c] = ioCount[c] + (Mine(t, c)' - Mine(t, c))
      BY <1>0, <1>11, <1>1, <2>2 DEF CountTypes
    <2>4. CountTypes'
      BY <1>0, <1>11, <1>1 DEF CountTypes
    <2>5. /\ pc'[t] \notin {"SetID", "SetSession"} /\ cur'[t] \in {c, NoSlot}
          /\ \A kind \in {"recv", "send"} :
                pc'[t] \in Handling(kind) => kind = "send" /\ l = "SendPost"
      BY <1>1, <2>1 DEF Handling
    <2>6. \A s \in Slots \ {c} : ioCount'[s] = ioCount[s] /\ sending'[s] = sending[s]
      BY <1>1
    <2>7. /\ \A kind \in {"recv", "send"} : pc'[t] \in Handling(kind) => ~Pending(c, kind)
          /\ ~sending'[c] => pc'[t] \notin Handling("send")
      BY <1>1, <2>5
    <2>8. /\ posted' = posted /\ port' = port /\ useable' = useable
          /\ ~sending'[c] => ~sending[c] \/ pc[t] \in Handling("send")
      BY <1>1
    <2>9. QED
      BY <1>0, <1>11, <2>1, <2>3, <2>4, <2>5, <2>6, <2>7, <2>8, NothingPosted
  <1>2. ASSUME NEW l \in {"Idle", "Final"}, Dec(t, l),
               UNCHANGED <<posted, port, useable, sending>>,
               pc[t] = IF l = "Idle" THEN "Final" ELSE "Undo"
        PROVE  CInv'
    <2>1. /\ Alone(t) /\ ioCount' \in [Slots -> Int] /\ ioCount'[c] = ioCount[c] - 1
          /\ \A s \in Slots \ {c} : ioCount'[s] = ioCount[s]
          /\ \/ pc'[t] = "Release" /\ ret'[t] = l /\ cur'[t] = c
             \/ /\ pc'[t] = l /\ ret'[t] = "Idle"
                /\ cur'[t] = IF l = "Idle" THEN NoSlot ELSE c
      BY <1>0, <1>11, <1>2, DecAlone
    <2>2. /\ Mine(t, c) = IF l = "Idle" THEN 1 ELSE 2
          /\ Mine(t, c)' = IF l = "Idle" THEN 0 ELSE 1
      <3>1. Mine(t, c) = IF l = "Idle" THEN 1 ELSE 2
        BY <1>2, <1>11 DEF Mine, Weight
      <3>2. CASE pc'[t] = "Release" /\ ret'[t] = l /\ cur'[t] = c
        BY <3>1, <3>2 DEF Mine, Weight
      <3>3. CASE pc'[t] = "Idle" /\ l = "Idle" /\ cur'[t] = NoSlot
        BY <1>0, <1>11, <1>2, <3>1, <3>3 DEF Mine
      <3>4. CASE pc'[t] = "Final" /\ l = "Final" /\ cur'[t] = c
        BY <3>1, <3>4 DEF Mine, Weight
      <3>5. QED
        BY <2>1, <3>2, <3>3, <3>4
    <2>3. ioCount'[c] = ioCount[c] + (Mine(t, c)' - Mine(t, c))
      BY <1>0, <1>11, <1>2, <2>1, <2>2 DEF CountTypes
    <2>4. CountTypes'
      BY <1>0, <1>11, <1>2, <2>1 DEF CountTypes
    <2>5. /\ pc'[t] \notin {"SetID", "SetSession"} /\ cur'[t] \in {c, NoSlot}
          /\ \A kind \in {"recv", "send"} : pc'[t] \notin Handling(kind)
      BY <1>2, <2>1 DEF Handling
    <2>6. \A s \in Slots \ {c} : ioCount'[s] = ioCount[s] /\ sending'[s] = sending[s]
      BY <1>2, <2>1
    <2>7. /\ posted' = posted /\ port' = port /\ useable' = useable
          /\ ~sending'[c] => ~sending[c] /\ pc'[t] \notin Handling("send")
      BY <1>2, <2>5
    <2>8. QED
      BY <1>0, <1>11, <2>1, <2>3, <2>4, <2>5, <2>6, <2>7, NothingPosted
  <1>3. CASE RecvPost(t)
    BY <1>3, PostCounts DEF RecvPost, At, serverVars
  <1>4. CASE SendTry(t)
    <2>1. /\ pc[t] = "SendTry" /\ Weight("Final", "Idle") = 1
          /\ Weight("SendPost", "Idle") = 1 /\ Weight(pc[t], ret[t]) = 1
          /\ UNCHANGED <<ioCount, posted, port, useable>>
      BY <1>0, <1>11, <1>4 DEF SendTry, At, Free, Weight, ioVars, serverVars
    <2>2. CASE /\ sending' = [sending EXCEPT ![c] = TRUE]
               /\ Goto(t, IF sending[c] THEN "Final" ELSE "SendPost")
      <3>1. /\ sending' \in [Slots -> BOOLEAN] /\ sending'[c]
            /\ \A s \in Slots \ {c} : sending'[s] = sending[s]
        BY <1>0, <1>11, <2>1, <2>2 DEF CountTypes
      <3>2. ~sending[c] => ~Pending(c, "send")
        BY <2>1 DEF CInv, SendsGated
      <3>3. QED
        BY <1>1, <2>1, <2>2, <3>1, <3>2
    <2>3. CASE Goto(t, "Final") /\ sending' = sending
      BY <1>0, <1>11, <1>1, <2>1, <2>3 DEF CountTypes
    <2>4. QED
      BY <1>4, <1>11, <2>2, <2>3 DEF SendTry
  <1>5. CASE SendPost(t)
    BY <1>5, PostCounts DEF SendPost, At, serverVars
  <1>6. CASE SendFailed(t)
    <2>1. /\ pc[t] = "SendFailed" /\ Goto(t, "Undo")
          /\ Weight("Undo", "Idle") = Weight(pc[t], ret[t])
          /\ UNCHANGED <<ioCount, posted, port, useable>>
      BY <1>0, <1>11, <1>6 DEF SendFailed, At, Free, Weight, ioVars, serverVars
    <2>2. /\ sending' \in [Slots -> BOOLEAN]
          /\ \A s \in Slots \ {c} : sending'[s] = sending[s]
      BY <1>0, <1>11, <1>6 DEF SendFailed, CountTypes
    <2>3. QED
      BY <1>1, <2>1, <2>2 DEF Handling
  <1>7. CASE Undo(t)
    BY <1>0, <1>11, <1>2, <1>7 DEF Undo, At, Free, ioVars, serverVars
  <1>8. CASE Final(t)
    BY <1>0, <1>11, <1>2, <1>8 DEF Final, At, Free, ioVars, serverVars
  <1>9. CASE Release(t)
    <2>1. /\ UNCHANGED <<ioCount, sending, posted, port, useable>> /\ pc[t] = "Release"
          /\ Goto(t, ret[t])
      BY <1>0, <1>11, <1>9 DEF Release, At, Free, LanAssumption, ioVars
    <2>2. ret[t] \in {"Idle", "Final"}
      BY <1>0, <1>11 DEF Types
    <2>3. \/ ret[t] = "Idle" /\ Weight(pc[t], ret[t]) = 0
          \/ ret[t] = "Final" /\ Weight(ret[t], "Idle") = Weight(pc[t], ret[t])
      BY <2>1, <2>2 DEF Weight
    <2>4. QED
      BY <1>0, <1>11, <1>1, <2>1, <2>2, <2>3 DEF CountTypes
  <1>10. QED
    BY <1>3, <1>4, <1>5, <1>6, <1>7, <1>8, <1>9 DEF SessionStep

\* the port: no session has more there than it had, and those other than c have as much
Drained ==
    \A s \in Slots, kind \in {"recv", "send"} :
        /\ \A j, k \in Queued(s, kind)' : j = k
        /\ Queued(s, kind) = {} => Queued(s, kind)' = {}
OthersStay(c) ==
    \A s \in Slots \ {c} :
        /\ ioCount'[s] = ioCount[s]
        /\ Cardinality(InPort(s))' = Cardinality(InPort(s))
        /\ InPort(s) = {} => InPort(s)' = {}
\* a thread that has come to a session with its receive, or its send, took it from the port
Took(t, c) ==
    \A kind \in {"recv", "send"} :
        pc'[t] \in Handling(kind) => Queued(c, kind) # {} /\ Queued(c, kind)' = {}

\* A thread that had no session comes to one that is set up, with a reference that
\* is new or that it took over from the port.
LEMMA ComesToSession ==
    ASSUME LanAssumption, Types, Types', CInv, CountTypes', NEW t \in Threads, Alone(t),
           NEW c \in Slots, cur[t] = NoSlot, cur'[t] = c, ~Fresh(c),
           Weight(pc'[t], ret'[t]) = 1, pc'[t] \notin {"SetID", "SetSession"},
           useable' = useable, posted' = posted, sending' = sending,
           OthersStay(c), Drained, Took(t, c),
           ioCount'[c] = ioCount[c] + 1 + (Cardinality(InPort(c))' - Cardinality(InPort(c)))
    PROVE  CInv'
  <1> USE DEF CInv, OthersStay, Drained, Took
  <1>0. NoSlot \notin Slots
    BY DEF LanAssumption
  <1>1. /\ \A s \in Slots \ {c} : \A kind : Doing(s, kind)' = Doing(s, kind)
        /\ \A kind : pc'[t] \notin Handling(kind) => Doing(c, kind)' = Doing(c, kind)
        /\ \A kind : pc'[t] \in Handling(kind) => Doing(c, kind)' = Doing(c, kind) \cup {t}
    BY <1>0 DEF Doing, Alone
  <1>2. OneOfEach'
    <2> SUFFICES ASSUME NEW s \in Slots, NEW kind \in {"recv", "send"}
                 PROVE  /\ \A u, w \in Doing(s, kind)' : u = w
                        /\ Doing(s, kind)' # {} => Queued(s, kind)' = {}
                        /\ kind \in posted'[s] =>
                              Doing(s, kind)' = {} /\ Queued(s, kind)' = {}
      BY DEF OneOfEach
    <2>1. CASE s # c \/ pc'[t] \notin Handling(kind)
      BY <1>1, <2>1 DEF OneOfEach
    <2>2. CASE s = c /\ pc'[t] \in Handling(kind)
      <3>1. Doing(c, kind) = {} /\ kind \notin posted[c]
        BY <2>2 DEF OneOfEach
      <3>2. QED
        BY <1>1, <2>2, <3>1
    <2>3. QED
      BY <2>1, <2>2
  <1>3. SendsGated'
    <2>1. \A s \in Slots : Pending(s, "send")' => Pending(s, "send")
      BY <1>1 DEF Pending
    <2>2. QED
      BY <2>1 DEF SendsGated
  <1>4. Untouched'
    <2> SUFFICES ASSUME NEW s \in Slots, Fresh(s)'
                 PROVE  /\ posted'[s] = {} /\ InPort(s)' = {}
                        /\ \A u \in Threads : cur'[u] = s => u = Acceptor /\ s \notin useable
      BY DEF Untouched
    <2>1. Acceptor \in Threads
      BY DEF Threads, mhThreads
    <2>2. Fresh(s) /\ s # c
      BY <2>1 DEF Fresh, Alone
    <2>3. QED
      BY <2>2 DEF Untouched, Alone
  <1>5. Counted'
    <2>1. \A s \in Slots \ {c} : Mine(t, s)' = 0 /\ Mine(t, s) = 0
      BY <1>0 DEF Mine
    <2>2. Mine(t, c)' = 1 /\ Mine(t, c) = 0
      BY <1>0 DEF Mine
    <2>3. \A s \in Slots : /\ Cardinality(posted[s]) \in Nat /\ ioCount[s] \in Int
                           /\ Cardinality(InPort(s)) \in Nat /\ Cardinality(InPort(s))' \in Nat
      <3>1. \A s \in Slots : posted[s] \in SUBSET {"recv", "send"}
        BY DEF Types
      <3>2. \A s \in Slots : /\ port \in Seq(Completions) /\ InPort(s) \in SUBSET DOMAIN port
                             /\ port' \in Seq(Completions)
                             /\ InPort(s)' \in SUBSET DOMAIN port'
        BY DEF Types, InPort
      <3>3. \A s \in Slots : Cardinality(posted[s]) \in Nat
        BY <3>1, FinitePosted
      <3>4. \A s \in Slots : Cardinality(InPort(s)) \in Nat /\ Cardinality(InPort(s))' \in Nat
        BY <3>2, FinitePort
      <3>5. QED
        BY <3>3, <3>4 DEF CountTypes
    <2>4. \A s \in Slots :
              ioCount'[s] = ioCount[s] + (Mine(t, s)' - Mine(t, s))
                            + (Cardinality(posted'[s]) - Cardinality(posted[s]))
                            + (Cardinality(InPort(s))' - Cardinality(InPort(s)))
      <3> TAKE s \in Slots
      <3>1. CASE s = c
        BY <2>2, <2>3, <3>1
      <3>2. CASE s # c
        BY <2>1, <2>3, <3>2
      <3>3. QED
        BY <3>1, <3>2
    <2>5. QED
      BY <2>4, CountMoves
  <1>6. QED
    BY <1>2, <1>3, <1>4, <1>5

\* the port loses its first completion
LEMMA PortTail ==
    ASSUME Types, Types', port # <<>>, port' = Tail(port), NEW s \in Slots
    PROVE  /\ Cardinality(InPort(s)) \in Nat /\ Cardinality(InPort(s))' \in Nat
           /\ Cardinality(InPort(s))' = Cardinality(InPort(s)) - Bit(Head(port).slot = s)
           /\ \A kind : \A j \in Queued(s, kind)' : j + 1 \in Queued(s, kind) /\ j \in Nat
           /\ \A j \in InPort(s)' : j + 1 \in InPort(s)
           /\ \A kind : 1 \in Queued(s, kind) <=>
                           Head(port).slot = s /\ Head(port).kind = kind
  <1>1. /\ Len(port) \in Nat \ {0} /\ DOMAIN port = 1 .. Len(port)
        /\ DOMAIN port' = 1 .. Len(port) - 1
        /\ \A j \in 1 .. Len(port) - 1 : port'[j] = port[j + 1]
        /\ Head(port) = port[1]
    <2>1. port \in Seq(Completions)
      BY DEF Types
    <2>2. QED
      BY <2>1
  <1>2. /\ \A j \in InPort(s)' : j \in Nat /\ j + 1 \in InPort(s) \ {1}
        /\ \A k \in InPort(s) \ {1} : k \in Int /\ k - 1 \in InPort(s)'
    BY <1>1 DEF InPort
  <1>3. /\ 1 \in InPort(s) <=> Head(port).slot = s
        /\ \A kind : 1 \in Queued(s, kind) <=>
                        Head(port).slot = s /\ Head(port).kind = kind
    BY <1>1 DEF InPort, Queued
  <1>4. \A kind : \A j \in Queued(s, kind)' : j + 1 \in Queued(s, kind) /\ j \in Nat
    BY <1>1 DEF Queued, InPort
  <1>5. /\ IsFiniteSet(InPort(s)) /\ Cardinality(InPort(s)) \in Nat
        /\ IsFiniteSet(InPort(s)') /\ Cardinality(InPort(s)') \in Nat
    <2>1. /\ port \in Seq(Completions) /\ port' \in Seq(Completions)
          /\ InPort(s) \in SUBSET DOMAIN port /\ InPort(s)' \in SUBSET DOMAIN port'
      BY DEF Types, InPort
    <2>2. QED
      BY <2>1, FinitePort
  <1>6. Cardinality(InPort(s)') = Cardinality(InPort(s) \ {1})
    <2> DEFINE S == InPort(s) \ {1}
               T == InPort(s)'
               f == [k \in S |-> k - 1]
    <2>1. f \in [S -> T]
      BY <1>2
    <2>2. \A k, j \in S : f[k] = f[j] => k = j
      BY <1>2
    <2>3. \A j \in T : \E k \in S : f[k] = j
      <3> SUFFICES ASSUME NEW j \in T PROVE f[j + 1] = j /\ j + 1 \in S
        OBVIOUS
      <3>1. QED
        BY <1>2
    <2> HIDE DEF f, S, T
    <2>4. f \in Bijection(S, T)
      BY <2>1, <2>2, <2>3 DEF Bijection, Injection, Surjection, IsInjective
    <2>5. IsFiniteSet(S)
      BY <1>5, FS_RemoveElement DEF S
    <2>6. Cardinality(T) = Cardinality(S)
      BY <2>4, <2>5, FS_Bijection DEF ExistsBijection
    <2>7. QED
      BY <2>6 DEF S, T
  <1>7. Cardinality(InPort(s) \ {1}) = Cardinality(InPort(s)) - Bit(Head(port).slot = s)
    <2>1. CASE 1 \in InPort(s)
      <3>1. Cardinality(InPort(s) \ {1}) = Cardinality(InPort(s)) - 1
        BY <1>5, <2>1, FS_RemoveElement
      <3>2. QED
        BY <1>3, <2>1, <3>1 DEF Bit
    <2>2. CASE 1 \notin InPort(s)
      <3>1. InPort(s) \ {1} = InPort(s)
        BY <2>2
      <3>2. Bit(Head(port).slot = s) = 0
        BY <1>3, <2>2 DEF Bit
      <3>3. Cardinality(InPort(s) \ {1}) = Cardinality(InPort(s))
        BY <3>1
      <3>4. QED
        BY <1>5, <3>2, <3>3
    <2>3. QED
      BY <2>1, <2>2
  <1>8. QED
    BY <1>2, <1>3, <1>4, <1>5, <1>6, <1>7

\* A step that moves no thread that has a session, and completes nothing.
LEMMA SessionsStay ==
    ASSUME LanAssumption, Types, Types', Working, Owned, CInv,
           UNCHANGED <<ioCount, sending, posted, useable>>,
           \A u \in Threads : \/ pc'[u] = pc[u] /\ cur'[u] = cur[u] /\ ret'[u] = ret[u]
                              \/ cur[u] \notin Slots /\ cur'[u] \notin Slots,
           \A s \in Slots : /\ Cardinality(InPort(s))' = Cardinality(InPort(s))
                            /\ InPort(s) = {} => InPort(s)' = {},
           \A s \in Slots, kind \in {"recv", "send"} :
              /\ \A j, k \in Queued(s, kind)' : j = k
              /\ Queued(s, kind) = {} => Queued(s, kind)' = {}
    PROVE  CInv'
  <1> USE DEF CInv
  <1>1. \A s \in Slots, kind \in {"recv", "send"} : Doing(s, kind)' = Doing(s, kind)
    BY DEF Doing
  <1>2. \A s \in Slots : Holders(s)' = Holders(s) /\ Undoers(s)' = Undoers(s)
    BY DEF Holders, Undoers, At
  <1>3. OneOfEach'
    BY <1>1 DEF OneOfEach
  <1>4. SendsGated'
    BY <1>1 DEF SendsGated, Pending
  <1>5. Untouched'
    <2>1. Acceptor \in Threads
      BY DEF Threads, mhThreads
    <2>2. \A s \in Slots : Fresh(s)' => Fresh(s)
      BY <2>1 DEF Fresh
    <2>3. QED
      BY <2>2 DEF Untouched
  <1>6. Counted'
    BY <1>2 DEF Counted
  <1>7. CountTypes'
    BY DEF CountTypes
  <1>8. QED
    BY <1>3, <1>4, <1>5, <1>6, <1>7

LEMMA PortStays ==
    ASSUME CInv, port' = port
    PROVE  /\ \A s \in Slots : InPort(s)' = InPort(s)
           /\ \A s \in Slots, kind \in {"recv", "send"} :
                 /\ \A j, k \in Queued(s, kind)' : j = k
                 /\ Queued(s, kind)' = Queued(s, kind)
  BY DEF InPort, Queued, CInv, OneOfEach

LEMMA WorkerStepCounts ==
    ASSUME IInv, IInv', CInv, LanAssumption, NEW w \in Workers, WorkerStep(w)
    PROVE  CInv'
  <1>0. /\ Types /\ Types' /\ Owned /\ Working /\ CountTypes /\ w \in Threads
        /\ NoSlot \notin Slots
    BY DEF IInv, CInv, Threads, mhThreads, LanAssumption
  <1>1. CASE Take(w)
    <2>1. /\ pc[w] = "Idle" /\ port # <<>> /\ port' = Tail(port)
          /\ UNCHANGED <<ioCount, sending, posted, useable, ret>>
          /\ cur' = [cur EXCEPT ![w] = Head(port).slot]
          /\ pc' = [pc EXCEPT ![w] = pc'[w]]
          /\ pc'[w] \in IF Head(port).kind = "null" THEN {"Ended"}
                        ELSE IF Head(port).kind = "recv" THEN {"Final", "RecvPost"}
                        ELSE {"Final", "SendDone"}
      BY <1>0, <1>1 DEF Take, At, slotVars, serverVars, Types
    <2>2. /\ cur[w] = NoSlot /\ cur'[w] = Head(port).slot /\ Alone(w) /\ CountTypes'
      BY <1>0, <2>1 DEF Types, Working, Free, Alone, CountTypes
    <2>3. Head(port) \in Completions
      BY <1>0, <2>1 DEF Types
    <2>4. \A s \in Slots :
             /\ Cardinality(InPort(s)) \in Nat /\ Cardinality(InPort(s))' \in Nat
             /\ Cardinality(InPort(s))' = Cardinality(InPort(s)) - Bit(Head(port).slot = s)
             /\ \A kind : \A j \in Queued(s, kind)' : j + 1 \in Queued(s, kind) /\ j \in Nat
             /\ \A j \in InPort(s)' : j + 1 \in InPort(s)
             /\ \A kind : 1 \in Queued(s, kind) <=>
                             Head(port).slot = s /\ Head(port).kind = kind
      BY <1>0, <2>1, PortTail
    <2>5. /\ \A s \in Slots : InPort(s) = {} => InPort(s)' = {}
          /\ \A s \in Slots, kind \in {"recv", "send"} :
                Queued(s, kind) = {} => Queued(s, kind)' = {}
      BY <2>4
    <2>6. \A s \in Slots, kind \in {"recv", "send"} : \A j, k \in Queued(s, kind)' : j = k
      <3> SUFFICES ASSUME NEW s \in Slots, NEW kind \in {"recv", "send"},
                          NEW j \in Queued(s, kind)', NEW k \in Queued(s, kind)'
                   PROVE  j = k
        OBVIOUS
      <3>1. j + 1 = k + 1 /\ j \in Nat /\ k \in Nat
        BY <2>4 DEF CInv, OneOfEach
      <3>2. QED
        BY <3>1
    <2>7. CASE Head(port).kind = "null"
      <3>1. Head(port).slot = NoSlot
        BY <2>3, <2>7 DEF Completions, Null
      <3>2. \A s \in Slots : Cardinality(InPort(s))' = Cardinality(InPort(s))
        BY <1>0, <2>4, <3>1 DEF Bit
      <3>3. QED
        BY <1>0, <2>1, <2>2, <2>5, <2>6, <3>1, <3>2, SessionsStay DEF Alone
    <2>8. CASE Head(port).kind # "null"
      <3>1. PICK c \in Slots, kind \in {"recv", "send"} :
                Head(port).slot = c /\ Head(port).kind = kind
        BY <2>3, <2>8 DEF Completions, Null
      <3>2. /\ \A s \in Slots \ {c} : Cardinality(InPort(s))' = Cardinality(InPort(s))
            /\ Cardinality(InPort(c))' = Cardinality(InPort(c)) - 1
        BY <2>4, <3>1 DEF Bit
      <3>3. /\ 1 \in Queued(c, kind) /\ Queued(c, kind)' = {}
        <4>1. 1 \in Queued(c, kind)
          BY <2>4, <3>1
        <4>2. \A j \in Queued(c, kind)' : j + 1 = 1 /\ j + 1 \in Queued(c, kind) /\ j \in Nat
          BY <2>4, <4>1 DEF CInv, OneOfEach
        <4>3. \A j \in Queued(c, kind)' : j = 0
          BY <4>2
        <4>4. 0 \notin Queued(c, kind)'
          <5>1. 0 \notin DOMAIN port'
            BY <1>0 DEF Types
          <5>2. QED
            BY <5>1 DEF Queued, InPort
        <4>5. QED
          BY <4>1, <4>3, <4>4
      <3>4. ~Fresh(c)
        BY <3>3 DEF CInv, Untouched, Queued
      <3>5. /\ \A k \in {"recv", "send"} : pc'[w] \in Handling(k) => k = kind
            /\ pc'[w] \notin {"SetID", "SetSession"} /\ Weight(pc'[w], ret'[w]) = 1
        BY <2>1, <2>8, <3>1 DEF Handling, Weight
      <3>6. ioCount'[c] = ioCount[c] + 1 + (Cardinality(InPort(c))' - Cardinality(InPort(c)))
        BY <1>0, <2>1, <2>4, <3>2 DEF CountTypes
      <3>7. /\ \A k \in {"recv", "send"} :
                  pc'[w] \in Handling(k) => Queued(c, k) # {} /\ Queued(c, k)' = {}
            /\ cur[w] = NoSlot /\ cur'[w] = c /\ posted' = posted /\ sending' = sending
            /\ useable' = useable
        BY <2>1, <2>2, <3>1, <3>3, <3>5
      <3>8. \A s \in Slots \ {c} :
               /\ ioCount'[s] = ioCount[s]
               /\ Cardinality(InPort(s))' = Cardinality(InPort(s))
               /\ InPort(s) = {} => InPort(s)' = {}
        BY <2>1, <2>5, <3>2
      <3>9. \A s \in Slots, k \in {"recv", "send"} :
               /\ \A j, m \in Queued(s, k)' : j = m
               /\ Queued(s, k) = {} => Queued(s, k)' = {}
        BY <2>5, <2>6
      <3>10. Types /\ Types' /\ w \in Threads /\ Alone(w) /\ CountTypes'
        BY <1>0, <2>2
      <3>11. Weight(pc'[w], ret'[w]) = 1 /\ pc'[w] \notin {"SetID", "SetSession"}
        BY <3>5
      <3>12. OthersStay(c) /\ Drained /\ Took(w, c)
        <4>1. OthersStay(c)
          BY <3>8 DEF OthersStay
        <4>2. Drained
          BY <3>9 DEF Drained
        <4>3. Took(w, c)
          BY <3>7 DEF Took
        <4>4. QED
          BY <4>1, <4>2, <4>3
      <3>13. /\ cur[w] = NoSlot /\ cur'[w] = c /\ posted' = posted /\ sending' = sending
             /\ useable' = useable
        BY <3>7
      <3>14. QED
        BY <3>10, <3>11, <3>4, <3>6, <3>12, <3>13, ComesToSession
    <2>9. QED
      BY <2>7, <2>8
  <1>2. CASE SendDone(w)
    <2>1. PICK c \in Slots : c = cur[w]
      BY <1>0, <1>2 DEF SendDone, At, Working, Free
    <2>2. /\ Alone(w) /\ pc[w] = "SendDone" /\ pc'[w] = "SendTry" /\ cur'[w] = c
      BY <1>0, <1>2, <2>1, GotoAlone DEF SendDone, At
    <2>3. /\ sending' \in [Slots -> BOOLEAN] /\ \A s \in Slots \ {c} : sending'[s] = sending[s]
          /\ UNCHANGED <<ioCount, posted, port, useable>>
      BY <1>0, <1>2, <2>1 DEF SendDone, CountTypes, ioVars, serverVars
    <2>4. Mine(w, c) = 1 /\ Mine(w, c)' = 1
      BY <2>1, <2>2 DEF Mine, Weight
    <2>5. /\ ioCount'[c] = ioCount[c] + (Mine(w, c)' - Mine(w, c)) /\ CountTypes'
      BY <1>0, <2>3, <2>4 DEF CountTypes
    <2>6. /\ \A kind \in {"recv", "send"} : pc'[w] \notin Handling(kind)
          /\ pc[w] \in Handling("send") /\ pc'[w] \notin {"SetID", "SetSession"}
      BY <2>2 DEF Handling
    <2>7. QED
      BY <1>0, <2>1, <2>2, <2>3, <2>5, <2>6, NothingPosted
  <1>3. QED
    BY <1>1, <1>2 DEF WorkerStep

LEMMA CallerStepCounts ==
    ASSUME IInv, IInv', CInv, LanAssumption, NEW t \in Callers, CallerStep(t)
    PROVE  CInv'
  <1>0. /\ Types /\ Types' /\ Owned /\ Working /\ Kept /\ CountTypes /\ t \in Threads
        /\ NoSlot \notin Slots
    BY DEF IInv, CInv, Threads, LanAssumption
  <1>1. ASSUME NEW ID \in joined, AcqInc(t, ID) PROVE CInv'
    <2>1. PICK c \in Slots : c = ID[2]
      BY <1>0 DEF Types, IDs
    <2>2. /\ pc[t] = "Idle" /\ pc' = [pc EXCEPT ![t] = "Acquire"]
          /\ cur' = [cur EXCEPT ![t] = c] /\ ret' = ret
          /\ ioCount' = [ioCount EXCEPT ![c] = @ + 1]
          /\ UNCHANGED <<sending, posted, port, useable>>
      BY <1>1, <2>1 DEF AcqInc, At, ioVars, serverVars
    <2>3. /\ Alone(t) /\ cur[t] = NoSlot /\ cur'[t] = c /\ pc'[t] = "Acquire"
      BY <1>0, <2>2 DEF Types, Working, Free, Alone
    <2>4. ~Fresh(c)
      BY <1>0, <2>1 DEF Fresh, Kept, Owned
    <2>5. /\ CountTypes' /\ ioCount'[c] = ioCount[c] + 1 /\ ioCount[c] \in Int
          /\ \A s \in Slots \ {c} : ioCount'[s] = ioCount[s]
      BY <1>0, <2>2 DEF CountTypes
    <2>6. /\ \A s \in Slots : InPort(s)' = InPort(s)
          /\ \A s \in Slots, kind \in {"recv", "send"} :
                /\ \A j, k \in Queued(s, kind)' : j = k
                /\ Queued(s, kind)' = Queued(s, kind)
      BY <2>2, PortStays
    <2>7. Cardinality(InPort(c)) \in Nat
      <3>1. port \in Seq(Completions) /\ InPort(c) \in SUBSET DOMAIN port
        BY <1>0 DEF Types, InPort
      <3>2. QED
        BY <3>1, FinitePort
    <2>8. /\ ioCount'[c] = ioCount[c] + 1 + (Cardinality(InPort(c))' - Cardinality(InPort(c)))
          /\ \A s \in Slots \ {c} :
                /\ ioCount'[s] = ioCount[s]
                /\ Cardinality(InPort(s))' = Cardinality(InPort(s))
                /\ InPort(s) = {} => InPort(s)' = {}
      BY <2>5, <2>6, <2>7
    <2>9. /\ Weight(pc'[t], ret'[t]) = 1 /\ pc'[t] \notin {"SetID", "SetSession"}
          /\ \A kind \in {"recv", "send"} : pc'[t] \notin Handling(kind)
          /\ useable' = useable /\ posted' = posted /\ sending' = sending
      BY <2>2, <2>3 DEF Weight, Handling
    <2>10. OthersStay(c)
      BY <2>8 DEF OthersStay
    <2>11. Drained
      BY <2>6 DEF Drained
    <2>12. Took(t, c)
      BY <2>9 DEF Took
    <2>13. QED
      BY <1>0, <2>3, <2>4, <2>5, <2>8, <2>9, <2>10, <2>11, <2>12, ComesToSession
  <1>2. CASE Acquire(t)
    <2>1. PICK c \in Slots : c = cur[t]
      BY <1>0, <1>2 DEF Acquire, At, Working, Free
    <2>2. PICK l \in {"SendTry", "Final"} : Goto(t, l)
      BY <1>2 DEF Acquire
    <2>3. /\ Alone(t) /\ pc[t] = "Acquire" /\ pc'[t] = l /\ cur'[t] = c
      BY <1>0, <1>2, <2>1, <2>2, GotoAlone DEF Acquire, At
    <2>4. UNCHANGED <<ioCount, sending, posted, port, useable>>
      BY <1>2 DEF Acquire, ioVars, serverVars
    <2>5. Mine(t, c) = 1 /\ Mine(t, c)' = 1
      BY <2>1, <2>3 DEF Mine, Weight
    <2>6. /\ ioCount'[c] = ioCount[c] + (Mine(t, c)' - Mine(t, c)) /\ CountTypes'
      BY <1>0, <2>4, <2>5 DEF CountTypes
    <2>7. /\ \A kind \in {"recv", "send"} : pc'[t] \notin Handling(kind)
          /\ pc'[t] \notin {"SetID", "SetSession"}
      BY <2>3 DEF Handling
    <2>8. QED
      BY <1>0, <2>1, <2>3, <2>4, <2>6, <2>7, NothingPosted
  <1>3. QED
    BY <1>1, <1>2 DEF CallerStep

LEMMA AcceptorStepCounts ==
    ASSUME IInv, IInv', CInv, LanAssumption, AcceptorStep
    PROVE  CInv'
  <1> DEFINE A == Acceptor
  <1>0. /\ Types /\ Types' /\ Owned /\ Working /\ CountTypes /\ A \in Threads
        /\ NoSlot \notin Slots
    BY DEF IInv, CInv, Threads, mhThreads, LanAssumption
  <1>1. ASSUME UNCHANGED <<ioCount, sending, posted, port, useable>>,
               \A u \in Threads : \/ pc'[u] = pc[u] /\ cur'[u] = cur[u] /\ ret'[u] = ret[u]
                                  \/ cur[u] \notin Slots /\ cur'[u] \notin Slots
        PROVE  CInv'
    <2>1. /\ \A s \in Slots : InPort(s)' = InPort(s)
          /\ \A s \in Slots, kind \in {"recv", "send"} :
                /\ \A j, k \in Queued(s, kind)' : j = k
                /\ Queued(s, kind)' = Queued(s, kind)
      BY <1>1, PortStays
    <2>2. QED
      BY <1>0, <1>1, <2>1, SessionsStay
  <1>2. CASE Refuse
    BY <1>1, <1>2 DEF Refuse, vars, slotVars, ioVars, serverVars, threadVars
  <1>3. CASE AcceptFails
    <2>1. /\ pc[A] = "Idle" /\ pc'[A] = "Ended" /\ Alone(A) /\ cur'[A] = cur[A]
          /\ UNCHANGED <<ioCount, sending, posted, port, useable>>
      BY <1>0, <1>3, GotoAlone DEF AcceptFails, At, slotVars, ioVars, serverVars
    <2>2. cur[A] \notin Slots
      BY <1>0, <2>1 DEF Working, Free
    <2>3. QED
      BY <1>1, <2>1, <2>2 DEF Alone
  <1>4. CASE Accept
    <2>1. PICK c \in useable : useable' = useable \ {c} /\ cur' = [cur EXCEPT ![A] = c]
      BY <1>4 DEF Accept
    <2>2. /\ pc[A] = "Idle" /\ pc' = [pc EXCEPT ![A] = "SetID"] /\ ret' = ret
          /\ UNCHANGED <<ioCount, sending, posted, port>>
      BY <1>4 DEF Accept, At, slotVars, ioVars
    <2>3. /\ Alone(A) /\ cur[A] = NoSlot /\ cur'[A] = c /\ pc'[A] = "SetID" /\ c \in Slots
      BY <1>0, <2>1, <2>2 DEF Types, Working, Free, Alone
    <2>4. /\ \A s \in Slots : Holders(s)' = Holders(s) /\ Undoers(s)' = Undoers(s)
          /\ \A s \in Slots, kind \in {"recv", "send"} : Doing(s, kind)' = Doing(s, kind)
      BY <1>0, <2>2, <2>3 DEF Holders, Undoers, Doing, Handling, Alone, At
    <2>5. /\ \A s \in Slots : InPort(s)' = InPort(s)
          /\ \A s \in Slots, kind \in {"recv", "send"} : Queued(s, kind)' = Queued(s, kind)
      BY <2>2 DEF InPort, Queued
    <2>6. OneOfEach' /\ SendsGated' /\ Counted' /\ CountTypes'
      BY <2>2, <2>4, <2>5 DEF CInv, OneOfEach, SendsGated, Pending, Counted, CountTypes
    <2>7. Untouched'
      <3> SUFFICES ASSUME NEW s \in Slots, Fresh(s)'
                   PROVE  /\ posted'[s] = {} /\ InPort(s)' = {}
                          /\ \A t \in Threads : cur'[t] = s => t = A /\ s \notin useable'
        BY DEF Untouched
      <3>1. Fresh(s) /\ s \in useable
        BY <1>0, <2>1, <2>2, <2>3 DEF Fresh
      <3>2. /\ posted[s] = {} /\ InPort(s) = {} /\ \A t \in Threads : cur[t] # s
        BY <3>1 DEF CInv, Untouched
      <3>3. QED
        BY <2>1, <2>2, <2>3, <2>5, <3>2 DEF Alone
    <2>8. QED
      BY <2>6, <2>7 DEF CInv
  <1>5. CASE SetID \/ Join
    <2>1. PICK c \in Slots : c = cur[A]
      BY <1>0, <1>5 DEF SetID, Join, At, Working, Free
    <2>2. /\ UNCHANGED <<ioCount, sending, posted, port, useable>> /\ Alone(A) /\ cur'[A] = c
          /\ \/ pc[A] = "SetID" /\ pc'[A] = "SetSession"
             \/ pc[A] = "Join" /\ pc'[A] = "RecvPost"
      BY <1>0, <1>5, <2>1, GotoAlone DEF SetID, Join, At, slotVars, ioVars
    <2>3. Mine(A, c)' = Mine(A, c) /\ Mine(A, c) \in Int
      BY <2>1, <2>2 DEF Mine, Weight
    <2>4. /\ ioCount'[c] = ioCount[c] + (Mine(A, c)' - Mine(A, c)) /\ CountTypes'
      BY <1>0, <2>2, <2>3 DEF CountTypes
    <2>5. /\ \A kind \in {"recv", "send"} :
                pc'[A] \in Handling(kind) => pc[A] \in Handling(kind)
          /\ pc'[A] \notin Handling("send")
          /\ pc'[A] \in {"SetID", "SetSession"} => pc[A] \in {"SetID", "SetSession"}
      BY <2>2 DEF Handling
    <2>6. QED
      BY <1>0, <2>1, <2>2, <2>4, <2>5, NothingPosted
  <1>6. CASE SetSession
    <2>1. PICK c \in Slots : c = cur[A]
      BY <1>0, <1>6 DEF SetSession, At, Working, Free
    <2>2. /\ UNCHANGED <<posted, port, useable>> /\ Alone(A) /\ cur'[A] = c
          /\ pc[A] = "SetSession" /\ pc'[A] = "Join"
          /\ ioCount' = [ioCount EXCEPT ![c] = @ + 1]
          /\ sending' = [sending EXCEPT ![c] = FALSE]
      BY <1>0, <1>6, <2>1, GotoAlone DEF SetSession, At, ioVars, serverVars
    <2>3. Mine(A, c)' = 1 /\ Mine(A, c) = 0
      BY <2>1, <2>2 DEF Mine, Weight
    <2>4. /\ CountTypes' /\ ioCount'[c] = ioCount[c] + (Mine(A, c)' - Mine(A, c))
          /\ \A s \in Slots \ {c} : ioCount'[s] = ioCount[s] /\ sending'[s] = sending[s]
      BY <1>0, <2>2, <2>3 DEF CountTypes
    <2>5. \A kind \in {"recv", "send"} : ~Pending(c, kind)
      <3>1. /\ posted[c] = {} /\ InPort(c) = {}
            /\ \A t \in Threads : cur[t] = c => t = A
        BY <2>1, <2>2 DEF CInv, Untouched, Fresh
      <3>2. \A kind \in {"recv", "send"} : Doing(c, kind) = {} /\ Queued(c, kind) = {}
        BY <2>2, <3>1 DEF Doing, Handling, Queued
      <3>3. QED
        BY <3>1, <3>2 DEF Pending
    <2>6. pc'[A] \notin Handling("send") /\ pc'[A] \notin {"SetID", "SetSession"}
      BY <2>2 DEF Handling
    <2>7. QED
      BY <1>0, <2>1, <2>2, <2>4, <2>5, <2>6, NothingPosted
  <1>7. QED
    BY <1>2, <1>3, <1>4, <1>5, <1>6 DEF AcceptorStep

\* An operation completes: its reference goes from what is posted to the port.
LEMMA CompleteCounts ==
    ASSUME IInv, IInv', CInv, LanAssumption, NEW c \in Slots, NEW kind \in {"recv", "send"},
           Complete(c, kind)
    PROVE  CInv'
  <1> DEFINE n == Len(port) + 1
             m == [slot |-> c, kind |-> kind, data |-> sock[c] = "open"]
  <1>0. /\ Types /\ Types' /\ CountTypes /\ Acceptor \in Threads
        /\ OneOfEach /\ SendsGated /\ Untouched /\ Counted
    BY DEF IInv, CInv, Threads, mhThreads
  <1>1. /\ kind \in posted[c] /\ posted' = [posted EXCEPT ![c] = @ \ {kind}]
        /\ port' = Append(port, m)
        /\ UNCHANGED <<ioCount, sending, useable, pc, cur, ret>>
    BY DEF Complete, slotVars, serverVars, threadVars
  <1>2. /\ n \in Nat /\ n \notin DOMAIN port /\ DOMAIN port' = DOMAIN port \cup {n}
        /\ \A j \in DOMAIN port : port'[j] = port[j]
        /\ port'[n].slot = c /\ port'[n].kind = kind
    <2>1. port \in Seq(Completions) /\ m.slot = c /\ m.kind = kind
      BY <1>0 DEF Types
    <2> HIDE DEF m
    <2>2. QED
      BY <1>1, <2>1
  <1> HIDE DEF n, m
  <1>3. /\ InPort(c)' = InPort(c) \cup {n} /\ n \notin InPort(c)
        /\ \A s \in Slots \ {c} : InPort(s)' = InPort(s)
    BY <1>2 DEF InPort
  <1>4. /\ Queued(c, kind)' = Queued(c, kind) \cup {n}
        /\ \A s \in Slots, k \in {"recv", "send"} :
              s # c \/ k # kind => Queued(s, k)' = Queued(s, k)
    BY <1>2, <1>3 DEF Queued, InPort
  <1>5. /\ posted'[c] = posted[c] \ {kind}
        /\ \A s \in Slots \ {c} : posted'[s] = posted[s]
    BY <1>0, <1>1 DEF Types
  <1>6. \A s, k : Doing(s, k)' = Doing(s, k)
    BY <1>1 DEF Doing
  <1>7. OneOfEach'
    <2> SUFFICES ASSUME NEW s \in Slots, NEW k \in {"recv", "send"}
                 PROVE  /\ \A u, w \in Doing(s, k)' : u = w
                        /\ \A j, q \in Queued(s, k)' : j = q
                        /\ Doing(s, k)' # {} => Queued(s, k)' = {}
                        /\ k \in posted'[s] => Doing(s, k)' = {} /\ Queued(s, k)' = {}
      BY DEF OneOfEach
    <2>1. CASE s = c /\ k = kind
      <3>1. Doing(c, kind) = {} /\ Queued(c, kind) = {} /\ kind \notin posted'[c]
        BY <1>0, <1>1, <1>5 DEF OneOfEach
      <3>2. QED
        BY <1>4, <1>6, <2>1, <3>1
    <2>2. CASE s # c \/ k # kind
      <3>1. k \in posted'[s] => k \in posted[s]
        BY <1>5
      <3>2. Queued(s, k)' = Queued(s, k) /\ Doing(s, k)' = Doing(s, k)
        BY <1>4, <1>6, <2>2
      <3>3. QED
        BY <1>0, <3>1, <3>2 DEF OneOfEach
    <2>3. QED
      BY <2>1, <2>2
  <1>8. SendsGated'
    <2>1. \A s \in Slots : Pending(s, "send")' => Pending(s, "send")
      BY <1>1, <1>4, <1>5, <1>6 DEF Pending
    <2>2. QED
      BY <1>0, <1>1, <2>1 DEF SendsGated
  <1>9. Untouched'
    <2> SUFFICES ASSUME NEW s \in Slots, Fresh(s)'
                 PROVE  /\ posted'[s] = {} /\ InPort(s)' = {}
                        /\ \A t \in Threads : cur[t] = s => t = Acceptor /\ s \notin useable
      BY <1>1 DEF Untouched
    <2>1. Fresh(s)
      BY <1>1 DEF Fresh
    <2>2. s # c
      BY <1>0, <1>1, <2>1 DEF Untouched
    <2>3. QED
      BY <1>0, <1>3, <1>5, <2>1, <2>2 DEF Untouched
  <1>10. Counted'
    <2>1. Alone(Acceptor) /\ \A s \in Slots : Mine(Acceptor, s)' = Mine(Acceptor, s)
      BY <1>1 DEF Alone, Mine
    <2>2. /\ \A s \in Slots : Mine(Acceptor, s) \in Int /\ ioCount[s] \in Int
          /\ \A s \in Slots : Cardinality(posted[s]) \in Nat
          /\ \A s \in Slots : Cardinality(InPort(s)) \in Nat
      <3>1. \A s \in Slots : posted[s] \in SUBSET {"recv", "send"}
        BY <1>0 DEF Types
      <3>2. \A s \in Slots : port \in Seq(Completions) /\ InPort(s) \in SUBSET DOMAIN port
        BY <1>0 DEF Types, InPort
      <3>3. \A s \in Slots : Mine(Acceptor, s) \in Int
        BY DEF Mine, Weight
      <3>4. \A s \in Slots : Cardinality(posted[s]) \in Nat
        BY <3>1, FinitePosted
      <3>5. \A s \in Slots : Cardinality(InPort(s)) \in Nat
        BY <3>2, FinitePort
      <3>6. QED
        BY <1>0, <3>3, <3>4, <3>5 DEF CountTypes
    <2>3. Cardinality(posted'[c]) = Cardinality(posted[c]) - 1
      <3>1. posted[c] \in SUBSET {"recv", "send"}
        BY <1>0 DEF Types
      <3>2. IsFiniteSet(posted[c])
        BY <3>1, FinitePosted
      <3>3. QED
        BY <1>1, <1>5, <3>2, FS_RemoveElement
    <2>4. Cardinality(InPort(c))' = Cardinality(InPort(c)) + 1
      <3>1. port \in Seq(Completions) /\ InPort(c) \in SUBSET DOMAIN port
        BY <1>0 DEF Types, InPort
      <3>2. IsFiniteSet(InPort(c))
        BY <3>1, FinitePort
      <3>3. Cardinality(InPort(c) \cup {n}) = Cardinality(InPort(c)) + 1
        BY <1>3, <3>2, FS_AddElement
      <3>4. QED
        BY <1>3, <3>3
    <2>5. \A s \in Slots :
              ioCount'[s] = ioCount[s] + (Mine(Acceptor, s)' - Mine(Acceptor, s))
                            + (Cardinality(posted'[s]) - Cardinality(posted[s]))
                            + (Cardinality(InPort(s))' - Cardinality(InPort(s)))
      <3> TAKE s \in Slots
      <3>1. CASE s = c
        BY <1>1, <2>1, <2>2, <2>3, <2>4, <3>1
      <3>2. CASE s # c
        BY <1>1, <1>3, <1>5, <2>1, <2>2, <3>2
      <3>3. QED
        BY <3>1, <3>2
    <2>6. QED
      BY <1>0, <2>1, <2>5, CountMoves
  <1>11. CountTypes'
    BY <1>0, <1>1 DEF CountTypes
  <1>12. QED
    BY <1>7, <1>8, <1>9, <1>10, <1>11 DEF CInv

\* Terminate posts completions of no session.
LEMMA PostNullsCounts ==
    ASSUME IInv, IInv', CInv, LanAssumption, PostNulls
    PROVE  CInv'
  <1> DEFINE nulls == [k \in 1 .. Cardinality(mhThreads) - 1 |-> Null]
  <1>0. /\ Types /\ Types' /\ Owned /\ Working /\ CountTypes /\ OneOfEach /\ NoSlot \notin Slots
    BY DEF IInv, CInv, LanAssumption
  <1>1. /\ port' = port \o nulls
        /\ UNCHANGED <<ioCount, sending, posted, useable, pc, cur, ret>>
    BY DEF PostNulls, slotVars, serverVars, threadVars
  <1>2. \A s \in Slots : InPort(s)' = InPort(s) /\ \A j \in InPort(s) : port'[j] = port[j]
    <2>1. Cardinality(mhThreads) - 1 \in Nat
      <3>1. IsFiniteSet(mhThreads)
        BY FS_Subset DEF LanAssumption, Threads
      <3>2. Cardinality(mhThreads) \in Nat \ {0}
        BY <3>1, FS_CardinalityType, FS_EmptySet DEF mhThreads
      <3>3. QED
        BY <3>2
    <2>2. /\ nulls \in Seq(Completions) /\ port \in Seq(Completions)
          /\ \A k \in 1 .. Len(nulls) : nulls[k] = Null
      BY <1>0, <2>1 DEF Types, Completions
    <2> HIDE DEF nulls
    <2>3. /\ DOMAIN port \subseteq DOMAIN port'
          /\ \A k \in DOMAIN port : port'[k] = port[k]
          /\ \A k \in DOMAIN port' \ DOMAIN port : port'[k] = Null
      <3>1. /\ Len(port) \in Nat /\ Len(nulls) \in Nat
            /\ DOMAIN port = 1 .. Len(port) /\ DOMAIN port' = 1 .. Len(port) + Len(nulls)
            /\ \A k \in 1 .. Len(port) : port'[k] = port[k]
        BY <1>1, <2>2
      <3>2. \A k \in Len(port) + 1 .. Len(port) + Len(nulls) : port'[k] = Null
        <4>1. \A k \in Len(port) + 1 .. Len(port) + Len(nulls) :
                 k - Len(port) \in 1 .. Len(nulls) /\ port'[k] = nulls[k - Len(port)]
          BY <1>1, <2>2, <3>1
        <4>2. QED
          BY <2>2, <4>1
      <3>3. QED
        BY <3>1, <3>2
    <2>4. \A s \in Slots : Null.slot # s
      BY <1>0 DEF Null
    <2>5. QED
      BY <2>3, <2>4 DEF InPort
  <1>3. \A s \in Slots, k \in {"recv", "send"} : Queued(s, k)' = Queued(s, k)
    BY <1>2 DEF Queued
  <1>4. QED
    BY <1>0, <1>1, <1>2, <1>3, SessionsStay DEF OneOfEach

--------------------------------------------------------------------------------
LEMMA InitCounts ==
    ASSUME Init, LanAssumption
    PROVE  CInv
  <1>1. CountTypes
    BY DEF Init, CountTypes
  <1>2. /\ \A s \in Slots : posted[s] = {} /\ InPort(s) = {}
        /\ \A s \in Slots : Holders(s) = {} /\ Undoers(s) = {}
        /\ \A s \in Slots : \A kind : Doing(s, kind) = {} /\ Queued(s, kind) = {}
        /\ \A t \in Threads : cur[t] = NoSlot
    BY DEF Init, InPort, Queued, Holders, Undoers, Doing, LanAssumption
  <1>3. OneOfEach /\ SendsGated /\ Untouched
    BY <1>2 DEF OneOfEach, SendsGated, Pending, Untouched, LanAssumption
  <1>4. Counted
    <2>1. Cardinality({}) = 0
      BY FS_EmptySet
    <2>2. \A s \in Slots : ioCount[s] = 0
      BY DEF Init
    <2>3. \A s \in Slots : /\ Cardinality(posted[s]) = 0 /\ Cardinality(InPort(s)) = 0
                           /\ Cardinality(Holders(s)) = 0 /\ Cardinality(Undoers(s)) = 0
      BY <1>2, <2>1
    <2>4. QED
      BY <2>2, <2>3 DEF Counted
  <1>5. QED
    BY <1>1, <1>3, <1>4 DEF CInv

LEMMA NextCounts ==
    ASSUME IInv, IInv', CInv, LanAssumption, [Next]_vars
    PROVE  CInv'
  <1>0. Types /\ Types' /\ Owned /\ Working
    BY DEF IInv
  <1>1. ASSUME UNCHANGED <<ioCount, sending, posted, port, useable, pc, cur, ret>> PROVE CInv'
    <2>1. /\ \A s \in Slots : InPort(s)' = InPort(s)
          /\ \A s \in Slots, kind \in {"recv", "send"} :
                /\ \A j, k \in Queued(s, kind)' : j = k
                /\ Queued(s, kind)' = Queued(s, kind)
      BY <1>1, PortStays
    <2>2. QED
      BY <1>0, <1>1, <2>1, SessionsStay
  <1>2. CASE UNCHANGED vars
    BY <1>1, <1>2 DEF vars, slotVars, ioVars, serverVars, threadVars
  <1>3. CASE \E s \in Slots : Break(s)
    BY <1>1, <1>3 DEF Break, ioVars, serverVars, threadVars
  <1>4. CASE CloseListen \/ CloseSession \/ Delete
    BY <1>1, <1>4 DEF CloseListen, CloseSession, Delete, slotVars, ioVars, serverVars, threadVars
  <1>5. CASE PostNulls
    BY <1>5, PostNullsCounts
  <1>6. CASE \E s \in Slots, kind \in {"recv", "send"} : Complete(s, kind)
    BY <1>6, CompleteCounts
  <1>7. CASE AcceptorStep
    BY <1>7, AcceptorStepCounts
  <1>8. CASE \E t \in mhThreads \cup Callers : SessionStep(t)
    BY <1>8, SessionStepCounts DEF Threads
  <1>9. CASE \E w \in Workers : WorkerStep(w)
    BY <1>9, WorkerStepCounts
  <1>10. CASE \E c \in Callers : CallerStep(c)
    BY <1>10, CallerStepCounts
  <1>11. QED
    BY <1>2, <1>3, <1>4, <1>5, <1>6, <1>7, <1>8, <1>9, <1>10 DEF Next, Terminate

\* The inductive invariant, with the count.
LEMMA CountInvariant == Spec => [](IInv /\ CInv)
  <1>1. Init => IInv /\ CInv
    BY InitHolds, InitCounts, LanAssumption
  <1>2. IInv /\ CInv /\ [Next]_vars => (IInv /\ CInv)'
    <2>1. ASSUME IInv, [Next]_vars PROVE IInv'
      BY <2>1, NextKeeps, LanAssumption
    <2>2. ASSUME IInv, IInv', CInv, [Next]_vars PROVE CInv'
      BY <2>2, NextCounts, LanAssumption
    <2>3. QED
      BY <2>1, <2>2
  <1>3. QED
    BY <1>1, <1>2, PTL DEF Spec

\* The references of every session are those of its posted operations, of the threads
\* that work on it, and of its completions in the port, and no session that was joined
\* loses its ID or gives its slot back.
THEOREM ReferencesCountedSlotsKept == Spec => []SlotsKept
  <1>1. IInv /\ CInv => SlotsKept
    BY DEF IInv, CInv, Counted, Kept, SlotsKept, InPort
  <1>2. QED
    BY <1>1, CountInvariant, PTL
================================================================================
