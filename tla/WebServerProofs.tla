--------------------------- MODULE WebServerProofs ---------------------------
(***************************************************************************)
(* That handlers which share one SQLite connection do not mix their writes *)
(* and tell their clients the truth, for every number of connections.      *)
(***************************************************************************)
EXTENDS WebServer, TLAPS

Before == {"line", "lock", "body", "work"}   \* nothing written yet
Inside == {"body", "work", "txn", "reread"}  \* ENGINE_LOCK is held

\* The holder of the lock is the handler inside it, and the only one whose
\* transaction is open.
LockHeld ==
  \A t \in Threads :
    /\ holder = t <=> pc[t] \in Inside
    /\ pc[t] = "txn" => outer[t] /\ depth = 1
    /\ depth = 0 \/ \E u \in Threads : pc[u] = "txn"

\* A request is known before it is handled.
Known ==
  \A t \in Threads :
    /\ pc[t] # "line" => socket[t] # "nothing"
    /\ pc[t] = "txn" => kind[t] = "book"
    /\ pc[t] = "reread" => kind[t] = "cancel"
    /\ pc[t] \in Before => done[t] = 0
    /\ pc[t] \notin {"send", "done"} => answer[t] = "none"

\* A cancellation that answered 500 may have been written and not committed.
Pending(t) == kind[t] = "cancel" /\ answer[t] = "error" /\ pc[t] \in {"send", "done"}

\* What is written and not committed is what the open transaction has done, or
\* else cancellations that timed out, which no transaction() finds open.
StagedOwn ==
  /\ left => conn = "open" /\ \A t \in Threads : pc[t] # "txn"
  /\ \A t \in Threads, i \in 1..Statements :
       IF left THEN <<t, i>> \in staged => i = 1 /\ Pending(t)
       ELSE <<t, i>> \in staged <=> conn = "open" /\ pc[t] = "txn" /\ i <= done[t]

\* It stays so while no transaction opens, ends or writes.
LEMMA StagedKept ==
  ASSUME StagedOwn, UNCHANGED <<staged, conn, done, left>>,
         \A u \in Threads : pc'[u] = "txn" <=> pc[u] = "txn",
         \A u \in Threads : Pending(u) => Pending(u)'
  PROVE  StagedOwn'
BY DEF StagedOwn

Unsaved(t) == \A i \in 1..Statements : <<t, i>> \notin saved
Writes(t, i) == kind[t] = "book" \/ (kind[t] = "cancel" /\ i = 1)
Saved(t)   == \A i \in 1..Statements : <<t, i>> \in saved <=> Writes(t, i)

SavedWhole ==
  \A t \in Threads :
    /\ pc[t] \in Before \cup {"txn"} => Unsaved(t)
    /\ pc[t] = "reread" => Saved(t)
    /\ answer[t] = "ok" => Saved(t)
    /\ answer[t] = "refused" => Unsaved(t)
    /\ Saved(t) \/ Unsaved(t)

\* The rows of a request, one by one.
LEMMA WholeWritten ==
  ASSUME NEW t \in Threads
  PROVE  /\ Whole(t) \subseteq {t} \X (1..Statements)
         /\ \A i \in 1..Statements : <<t, i>> \in Whole(t) <=> Writes(t, i)
<1>1. 1..Statements = {1, 2}
  BY DEF Statements
<1>2. CASE kind[t] = "book"
  BY <1>2 DEF Whole, Writes
<1>3. CASE kind[t] = "cancel"
  BY <1>1, <1>3 DEF Whole, Writes
<1>4. CASE kind[t] \notin {"book", "cancel"}
  BY <1>4 DEF Whole, Writes
<1> QED
  BY <1>2, <1>3, <1>4

ServerInv == TypeOK /\ LockHeld /\ Known /\ StagedOwn /\ SavedWhole

\* A server with no connection satisfies the invariant.
LEMMA ServerStarts == Init => ServerInv
<1> SUFFICES ASSUME Init PROVE ServerInv
  OBVIOUS
<1> USE ServerAssumption DEF Init
<1>1. TypeOK
  <2>1. left \in BOOLEAN
    OBVIOUS
  <2> QED
    BY <2>1 DEF TypeOK, AllKinds, Phases, Answers, Statements
<1>2. LockHeld /\ Known
  BY DEF LockHeld, Known, Inside, Before
<1>3. StagedOwn /\ SavedWhole
  BY DEF StagedOwn, SavedWhole, Unsaved
<1> QED
  BY <1>1, <1>2, <1>3 DEF ServerInv

\* Every step of a handler, a browser and the shutdown keeps it.
LEMMA ServerKept == ServerInv /\ [Next]_vars => ServerInv'
<1> SUFFICES ASSUME ServerInv, [Next]_vars PROVE ServerInv'
  OBVIOUS
<1> USE ServerAssumption DEF ServerInv
<1>1. ASSUME NEW t \in Threads, NEW k \in Kinds, Request(t, k) PROVE ServerInv'
  <2>1. TypeOK'
    BY <1>1 DEF Request, store, TypeOK, Phases, Answers, AllKinds
  <2>2. LockHeld'
    BY <1>1 DEF Request, store, TypeOK, LockHeld, Known, Before, Inside
  <2>3. Known'
    BY <1>1 DEF Request, store, TypeOK, LockHeld, Known, Before, Inside
  <2>4. StagedOwn'
    <3>1. \A u \in Threads : pc'[u] = "txn" <=> pc[u] = "txn"
      BY <1>1 DEF Request, Finish, Goto, TypeOK
    <3>2. \A u \in Threads : Pending(u) => Pending(u)'
      BY <1>1 DEF Request, Finish, Goto, client, TypeOK, Known, Pending
    <3> QED
      BY <1>1, <3>1, <3>2, StagedKept DEF Request, store
  <2>5. SavedWhole'
    BY <1>1 DEF Request, store, TypeOK, LockHeld, Known, StagedOwn, SavedWhole, Unsaved,
       Saved, Writes, Before, Inside
  <2> QED BY <2>1, <2>2, <2>3, <2>4, <2>5
<1>2. ASSUME NEW t \in Threads, SendBody(t) PROVE ServerInv'
  <2>1. TypeOK'
    BY <1>2 DEF SendBody, store, TypeOK, Phases, Answers, AllKinds
  <2>2. LockHeld'
    BY <1>2 DEF SendBody, store, TypeOK, LockHeld, Known, Before, Inside
  <2>3. Known'
    BY <1>2 DEF SendBody, store, TypeOK, LockHeld, Known, Before, Inside
  <2>4. StagedOwn'
    <3>1. \A u \in Threads : pc'[u] = "txn" <=> pc[u] = "txn"
      BY <1>2 DEF SendBody, Finish, Goto, TypeOK
    <3>2. \A u \in Threads : Pending(u) => Pending(u)'
      BY <1>2 DEF SendBody, Finish, Goto, client, TypeOK, Known, Pending
    <3> QED
      BY <1>2, <3>1, <3>2, StagedKept DEF SendBody, store
  <2>5. SavedWhole'
    BY <1>2 DEF SendBody, store, TypeOK, LockHeld, Known, StagedOwn, SavedWhole, Unsaved,
       Saved, Writes, Before, Inside
  <2> QED BY <2>1, <2>2, <2>3, <2>4, <2>5
<1>3. ASSUME NEW t \in Threads, Leave(t) PROVE ServerInv'
  <2>1. TypeOK'
    BY <1>3 DEF Leave, store, TypeOK, Phases, Answers, AllKinds
  <2>2. LockHeld'
    BY <1>3 DEF Leave, store, TypeOK, LockHeld, Known, Before, Inside
  <2>3. Known'
    BY <1>3 DEF Leave, store, TypeOK, LockHeld, Known, Before, Inside
  <2>4. StagedOwn'
    <3>1. \A u \in Threads : pc'[u] = "txn" <=> pc[u] = "txn"
      BY <1>3 DEF Leave, Finish, Goto, TypeOK
    <3>2. \A u \in Threads : Pending(u) => Pending(u)'
      BY <1>3 DEF Leave, Finish, Goto, client, TypeOK, Known, Pending
    <3> QED
      BY <1>3, <3>1, <3>2, StagedKept DEF Leave, store
  <2>5. SavedWhole'
    BY <1>3 DEF Leave, store, TypeOK, LockHeld, Known, StagedOwn, SavedWhole, Unsaved, Saved,
       Writes, Before, Inside
  <2> QED BY <2>1, <2>2, <2>3, <2>4, <2>5
<1>4. ASSUME NEW t \in Threads, Route(t) PROVE ServerInv'
  <2>1. TypeOK'
    BY <1>4 DEF Route, Goto, client, store, TypeOK, Phases, Answers, AllKinds
  <2>2. LockHeld'
    BY <1>4 DEF Route, Goto, client, store, TypeOK, LockHeld, Known, Before, Inside
  <2>3. Known'
    BY <1>4 DEF Route, Goto, client, store, TypeOK, LockHeld, Known, Before, Inside
  <2>4. StagedOwn'
    <3>1. \A u \in Threads : pc'[u] = "txn" <=> pc[u] = "txn"
      BY <1>4 DEF Route, Finish, Goto, TypeOK
    <3>2. \A u \in Threads : Pending(u) => Pending(u)'
      BY <1>4 DEF Route, Finish, Goto, client, TypeOK, Known, Pending
    <3> QED
      BY <1>4, <3>1, <3>2, StagedKept DEF Route, store
  <2>5. SavedWhole'
    BY <1>4 DEF Route, Goto, client, store, TypeOK, LockHeld, Known, StagedOwn, SavedWhole,
       Unsaved, Saved, Writes, Before, Inside
  <2> QED BY <2>1, <2>2, <2>3, <2>4, <2>5
<1>5. ASSUME NEW t \in Threads, Acquire(t) PROVE ServerInv'
  <2>1. TypeOK'
    BY <1>5 DEF Acquire, Goto, client, store, TypeOK, Phases, Answers, AllKinds
  <2>2. LockHeld'
    BY <1>5 DEF Acquire, Goto, client, store, TypeOK, LockHeld, Known, Before, Inside
  <2>3. Known'
    BY <1>5 DEF Acquire, Goto, client, store, TypeOK, LockHeld, Known, Before, Inside
  <2>4. StagedOwn'
    <3>1. \A u \in Threads : pc'[u] = "txn" <=> pc[u] = "txn"
      BY <1>5 DEF Acquire, Finish, Goto, TypeOK
    <3>2. \A u \in Threads : Pending(u) => Pending(u)'
      BY <1>5 DEF Acquire, Finish, Goto, client, TypeOK, Known, Pending
    <3> QED
      BY <1>5, <3>1, <3>2, StagedKept DEF Acquire, store
  <2>5. SavedWhole'
    BY <1>5 DEF Acquire, Goto, client, store, TypeOK, LockHeld, Known, StagedOwn, SavedWhole,
       Unsaved, Saved, Writes, Before, Inside
  <2> QED BY <2>1, <2>2, <2>3, <2>4, <2>5
<1>6. ASSUME NEW t \in Threads, ReadBody(t) PROVE ServerInv'
  <2>1. TypeOK'
    BY <1>6 DEF ReadBody, Finish, Goto, client, store, TypeOK, Phases, Answers, AllKinds
  <2>2. LockHeld'
    BY <1>6 DEF ReadBody, Finish, Goto, client, store, TypeOK, LockHeld, Known, Before, Inside
  <2>3. Known'
    BY <1>6 DEF ReadBody, Finish, Goto, client, store, TypeOK, LockHeld, Known, Before, Inside
  <2>4. StagedOwn'
    <3>1. \A u \in Threads : pc'[u] = "txn" <=> pc[u] = "txn"
      BY <1>6 DEF ReadBody, Finish, Goto, TypeOK
    <3>2. \A u \in Threads : Pending(u) => Pending(u)'
      BY <1>6 DEF ReadBody, Finish, Goto, client, TypeOK, Known, Pending
    <3> QED
      BY <1>6, <3>1, <3>2, StagedKept DEF ReadBody, store
  <2>5. SavedWhole'
    BY <1>6 DEF ReadBody, Finish, Goto, client, store, TypeOK, LockHeld, Known, StagedOwn,
       SavedWhole, Unsaved, Saved, Writes, Before, Inside
  <2> QED BY <2>1, <2>2, <2>3, <2>4, <2>5
<1>7. ASSUME NEW t \in Threads, Look(t) PROVE ServerInv'
  <2>1. TypeOK'
    BY <1>7 DEF Look, Finish, Goto, client, store, TypeOK, Phases, Answers, AllKinds
  <2>2. LockHeld'
    BY <1>7 DEF Look, Finish, Goto, client, store, TypeOK, LockHeld, Known, Before, Inside
  <2>3. Known'
    BY <1>7 DEF Look, Finish, Goto, client, store, TypeOK, LockHeld, Known, Before, Inside
  <2>4. StagedOwn'
    <3>1. \A u \in Threads : pc'[u] = "txn" <=> pc[u] = "txn"
      BY <1>7 DEF Look, Finish, Goto, TypeOK
    <3>2. \A u \in Threads : Pending(u) => Pending(u)'
      BY <1>7 DEF Look, Finish, Goto, client, TypeOK, Known, Pending
    <3> QED
      BY <1>7, <3>1, <3>2, StagedKept DEF Look, store
  <2>5. SavedWhole'
    BY <1>7 DEF Look, Finish, Goto, client, store, TypeOK, LockHeld, Known, StagedOwn,
       SavedWhole, Unsaved, Saved, Writes, Before, Inside
  <2> QED BY <2>1, <2>2, <2>3, <2>4, <2>5
<1>8. ASSUME NEW t \in Threads, BeginWork(t) PROVE ServerInv'
  <2>1. TypeOK'
    BY <1>8 DEF BeginWork, Goto, client, store, TypeOK, Phases, Answers, AllKinds, LockHeld,
       Inside, Statements
  <2>2. LockHeld'
    <3>1. holder = t /\ depth = 0 /\ pc[t] = "work"
      BY <1>8 DEF BeginWork, Goto, TypeOK, LockHeld, Inside
    <3>2. holder' = holder /\ depth' = 1 /\ pc' = [pc EXCEPT ![t] = "txn"]
      BY <1>8, <3>1 DEF BeginWork, Goto
    <3>3. outer' = [outer EXCEPT ![t] = TRUE]
      BY <1>8, <3>1 DEF BeginWork
    <3> QED
      BY <3>1, <3>2, <3>3 DEF TypeOK, LockHeld, Inside
  <2>3. Known'
    BY <1>8 DEF BeginWork, Goto, client, store, TypeOK, LockHeld, Known, Before, Inside
  <2>4. StagedOwn'
    <3>1. /\ pc[t] = "work" /\ done[t] = 0 /\ pc' = [pc EXCEPT ![t] = "txn"]
          /\ UNCHANGED <<staged, conn, done, left>> /\ ~left
      BY <1>8 DEF BeginWork, Goto, Known, Before
    <3>2. ASSUME NEW i \in 1..Statements PROVE <<t, i>> \notin staged /\ ~(i <= done'[t])
      <4>1. i >= 1 /\ ~(i <= done'[t])
        BY <3>1 DEF Statements
      <4>2. pc[t] # "txn"
        BY <3>1
      <4> QED
        BY <3>1, <4>1, <4>2 DEF StagedOwn
    <3>3. \A u \in Threads \ {t} : pc'[u] = pc[u]
      BY <3>1 DEF TypeOK
    <3> QED
      BY <3>1, <3>2, <3>3 DEF StagedOwn
  <2>5. SavedWhole'
    BY <1>8 DEF BeginWork, Goto, client, store, TypeOK, LockHeld, Known, StagedOwn,
       SavedWhole, Unsaved, Saved, Writes, Before, Inside
  <2> QED BY <2>1, <2>2, <2>3, <2>4, <2>5
<1>9. ASSUME NEW t \in Threads, Statement(t) PROVE ServerInv'
  <2>1. TypeOK'
    BY <1>9 DEF Statement, client, store, TypeOK, Phases, Answers, AllKinds, LockHeld, Inside,
       Statements
  <2>2. LockHeld'
    BY <1>9 DEF Statement, client, store, TypeOK, LockHeld, Known, Before, Inside
  <2>3. Known'
    BY <1>9 DEF Statement, client, store, TypeOK, LockHeld, Known, Before, Inside
  <2>4. StagedOwn'
    <3>1. pc[t] = "txn" /\ conn = "open" /\ ~left /\ UNCHANGED <<pc, conn, left>>
      BY <1>9 DEF Statement, StagedOwn
    <3>2. done[t] \in Nat /\ done' = [done EXCEPT ![t] = @ + 1]
      BY <1>9 DEF Statement, TypeOK, Statements
    <3>3. staged' = staged \cup {<<t, done[t] + 1>>}
      BY <1>9 DEF Statement
    <3>4. ASSUME NEW i \in 1..Statements
          PROVE  <<t, i>> \in staged' <=> i <= done'[t]
      <4>1. <<t, i>> \in staged <=> i <= done[t]
        BY <3>1 DEF StagedOwn
      <4>2. done'[t] = done[t] + 1
        BY <3>2 DEF TypeOK
      <4>3. <<t, i>> \in staged' <=> i <= done[t] \/ i = done[t] + 1
        BY <3>3, <4>1
      <4>4. i \in Nat
        BY DEF Statements
      <4> QED
        BY <3>2, <4>2, <4>3, <4>4
    <3>5. ASSUME NEW u \in Threads \ {t}, NEW i \in 1..Statements
          PROVE  (<<u, i>> \in staged' <=> <<u, i>> \in staged) /\ done'[u] = done[u]
      BY <3>2, <3>3 DEF TypeOK
    <3> QED
      BY <3>1, <3>4, <3>5 DEF StagedOwn
  <2>5. SavedWhole'
    BY <1>9 DEF Statement, client, SavedWhole, Saved, Unsaved, Writes
  <2> QED BY <2>1, <2>2, <2>3, <2>4, <2>5
<1>10. ASSUME NEW t \in Threads, CommitWork(t) PROVE ServerInv'
  <2>1. TypeOK'
    BY <1>10 DEF CommitWork, Finish, Goto, client, store, TypeOK, Phases, Answers, AllKinds,
       LockHeld, Inside, Statements
  <2>2. LockHeld'
    BY <1>10 DEF CommitWork, Finish, Goto, client, store, TypeOK, LockHeld, Known, Before,
       Inside
  <2>3. Known'
    BY <1>10 DEF CommitWork, Finish, Goto, client, store, TypeOK, LockHeld, Known, Before,
       Inside
  <2>4. StagedOwn'
    <3>1. \A u \in Threads \ {t} : pc[u] # "txn" /\ pc'[u] = pc[u]
      BY <1>10 DEF CommitWork, Finish, Goto, TypeOK, LockHeld, Inside
    <3>2. staged' = {} /\ pc'[t] = "send" /\ ~left /\ ~left'
      BY <1>10 DEF CommitWork, Finish, Goto, TypeOK, LockHeld, StagedOwn
    <3> QED
      BY <3>1, <3>2 DEF StagedOwn
  <2>5. SavedWhole'
    <3>1. pc[t] = "txn" /\ kind[t] = "book" /\ done[t] = 2 /\ conn = "open" /\ ~left
      BY <1>10 DEF CommitWork, Finish, Goto, Known, Statements, StagedOwn
    <3>2. saved' = saved \cup staged /\ kind' = kind
      BY <1>10 DEF CommitWork, Finish, Goto, LockHeld, client
    <3>3. Saved(t)' /\ pc'[t] = "send" /\ answer'[t] = "ok"
      <4>1. ASSUME NEW i \in 1..Statements PROVE <<t, i>> \in staged
        <5>1. i <= done[t]
          BY <3>1 DEF Statements
        <5> QED
          BY <3>1, <5>1 DEF StagedOwn
      <4>2. pc'[t] = "send" /\ answer'[t] = "ok"
        BY <1>10 DEF CommitWork, Finish, Goto, TypeOK
      <4>3. kind'[t] = "book" /\ \A i \in 1..Statements : <<t, i>> \in saved'
        BY <3>1, <3>2, <4>1
      <4>4. Saved(t)'
        BY <4>3 DEF Saved, Writes
      <4> QED
        BY <4>2, <4>4
    <3>4. \A u \in Threads \ {t} :
            /\ pc'[u] = pc[u] /\ answer'[u] = answer[u] /\ kind'[u] = kind[u]
            /\ \A i \in 1..Statements : <<u, i>> \in saved' <=> <<u, i>> \in saved
      <4>1. ASSUME NEW u \in Threads \ {t}, NEW i \in 1..Statements PROVE <<u, i>> \notin staged
        BY <3>1, <4>1 DEF StagedOwn, LockHeld, Inside
      <4> QED
        BY <1>10, <3>2, <4>1 DEF CommitWork, Finish, Goto, TypeOK
    <3> QED
      BY <3>3, <3>4 DEF SavedWhole, Saved, Unsaved, Writes, Before
  <2> QED BY <2>1, <2>2, <2>3, <2>4, <2>5
<1>11. ASSUME NEW t \in Threads, AbortWork(t) PROVE ServerInv'
  <2>1. TypeOK'
    BY <1>11 DEF AbortWork, Finish, Goto, client, store, TypeOK, Phases, Answers, AllKinds,
       LockHeld, Inside, Statements
  <2>2. LockHeld'
    BY <1>11 DEF AbortWork, Finish, Goto, client, store, TypeOK, LockHeld, Known, Before, Inside
  <2>3. Known'
    BY <1>11 DEF AbortWork, Finish, Goto, client, store, TypeOK, LockHeld, Known, Before, Inside
  <2>4. StagedOwn'
    <3>1. \A u \in Threads \ {t} : pc[u] # "txn" /\ pc'[u] = pc[u]
      BY <1>11 DEF AbortWork, Finish, Goto, TypeOK, LockHeld, Inside
    <3>2. staged' = {} /\ pc'[t] = "send" /\ ~left /\ ~left'
      BY <1>11 DEF AbortWork, Finish, Goto, TypeOK, LockHeld, StagedOwn
    <3> QED
      BY <3>1, <3>2 DEF StagedOwn
  <2>5. SavedWhole'
    <3>1. saved' = saved /\ kind' = kind
      BY <1>11 DEF AbortWork, client, store
    <3>2. pc'[t] = "send" /\ answer'[t] \in {"refused", "error"} /\ Unsaved(t)
      BY <1>11 DEF AbortWork, Finish, Goto, TypeOK, SavedWhole, Before
    <3>3. \A u \in Threads \ {t} : pc'[u] = pc[u] /\ answer'[u] = answer[u]
      BY <1>11 DEF AbortWork, Finish, Goto, TypeOK
    <3> QED
      BY <3>1, <3>2, <3>3 DEF SavedWhole, Saved, Unsaved, Writes, Before
  <2> QED BY <2>1, <2>2, <2>3, <2>4, <2>5
<1>12. ASSUME NEW t \in Threads, CancelUpdate(t) PROVE ServerInv'
  <2>1. TypeOK'
    <3>1. left' \in BOOLEAN
      BY <1>12 DEF CancelUpdate, TypeOK
    <3> QED
      BY <1>12, <3>1 DEF CancelUpdate, Finish, Goto, client, TypeOK, Phases, Answers, AllKinds,
         Statements
  <2>2. LockHeld'
    BY <1>12 DEF CancelUpdate, Finish, Goto, client, store, TypeOK, LockHeld, Known, Before,
       Inside
  <2>3. Known'
    BY <1>12 DEF CancelUpdate, Finish, Goto, client, store, TypeOK, LockHeld, Known, Before,
       Inside
  <2>4. StagedOwn'
    <3>1. /\ pc[t] = "work" /\ depth = 0 /\ conn' = conn /\ done' = done
          /\ kind' = kind /\ answer[t] = "none"
      BY <1>12 DEF CancelUpdate, Finish, Goto, TypeOK, LockHeld, Inside, Known, client
    <3>2. \A u \in Threads : pc[u] # "txn" /\ pc'[u] # "txn"
      BY <1>12, <3>1 DEF CancelUpdate, Finish, Goto, TypeOK, LockHeld, Inside
    <3>3. \/ UNCHANGED <<staged, left>>
          \/ staged' = {} /\ ~left'
      BY <1>12, <3>1 DEF CancelUpdate
    <3>4. \A u \in Threads : Pending(u) => Pending(u)'
      BY <1>12, <3>1 DEF CancelUpdate, Finish, Goto, TypeOK, Pending
    <3> QED
      BY <3>1, <3>2, <3>3, <3>4 DEF StagedOwn
  <2>5. SavedWhole'
    <3>1. pc[t] = "work" /\ kind[t] = "cancel" /\ kind' = kind /\ depth = 0 /\ Unsaved(t)
      BY <1>12 DEF CancelUpdate, Finish, Goto, TypeOK, LockHeld, Inside, SavedWhole, Before,
         client
    <3>2. ASSUME NEW u \in Threads, NEW i \in 1..Statements, <<u, i>> \in staged
          PROVE  i = 1 /\ Pending(u)
      BY <1>12, <3>1, <3>2 DEF CancelUpdate, Finish, Goto, TypeOK, LockHeld, Inside, StagedOwn
    <3>3. \/ saved' = saved /\ pc'[t] = "send" /\ answer'[t] = "refused"
          \/ saved' = saved \cup staged \cup {<<t, 1>>} /\ pc'[t] = "reread" /\ answer' = answer
      BY <1>12, <3>1 DEF CancelUpdate, Finish, Goto, TypeOK
    <3>4. \A u \in Threads \ {t} : pc'[u] = pc[u] /\ answer'[u] = answer[u]
      BY <1>12, <3>1 DEF CancelUpdate, Finish, Goto, TypeOK
    <3>5. CASE saved' = saved /\ pc'[t] = "send" /\ answer'[t] = "refused"
      BY <3>1, <3>4, <3>5 DEF SavedWhole, Saved, Unsaved, Writes, Before
    <3>6. CASE saved' = saved \cup staged \cup {<<t, 1>>} /\ pc'[t] = "reread" /\ answer' = answer
      <4>1. Saved(t)' /\ answer'[t] = "none"
        <5>1. \A i \in 1..Statements : <<t, i>> \notin staged
          BY <3>1, <3>2 DEF Pending
        <5> QED
          BY <3>1, <3>6, <5>1 DEF Saved, Unsaved, Writes, Known
      <4>2. ASSUME NEW u \in Threads \ {t}, \A i \in 1..Statements : <<u, i>> \notin staged
            PROVE  \A i \in 1..Statements : <<u, i>> \in saved' <=> <<u, i>> \in saved
        BY <3>6, <4>2
      <4>3. ASSUME NEW u \in Threads \ {t}, NEW k \in 1..Statements, <<u, k>> \in staged
            PROVE  Saved(u)' /\ Pending(u)
        <5>1. Pending(u) /\ k = 1
          BY <3>2, <4>3
        <5>2. <<u, 1>> \in saved' /\ kind'[u] = "cancel"
          BY <3>1, <3>6, <4>3, <5>1 DEF Pending
        <5>3. ASSUME NEW i \in 1..Statements, i # 1 PROVE <<u, i>> \notin saved'
          <6>1. <<u, i>> \notin saved
            BY <5>1, <5>3 DEF Pending, SavedWhole, Saved, Unsaved, Writes
          <6> QED
            BY <3>2, <3>6, <5>3, <6>1
        <5> QED
          BY <5>1, <5>2, <5>3 DEF Saved, Writes
      <4>4. ASSUME NEW u \in Threads \ {t}
            PROVE  /\ pc'[u] \in Before \cup {"txn"} => Unsaved(u)'
                   /\ pc'[u] = "reread" => Saved(u)'
                   /\ answer'[u] = "ok" => Saved(u)'
                   /\ answer'[u] = "refused" => Unsaved(u)'
                   /\ Saved(u)' \/ Unsaved(u)'
        <5>1. CASE \A i \in 1..Statements : <<u, i>> \notin staged
          BY <3>1, <3>4, <4>2, <5>1 DEF SavedWhole, Saved, Unsaved, Writes
        <5>2. CASE \E i \in 1..Statements : <<u, i>> \in staged
          BY <3>4, <4>3, <5>2 DEF Pending, Before
        <5> QED
          BY <5>1, <5>2
      <4>5. /\ pc'[t] \notin Before \cup {"txn"}
            /\ answer'[t] \notin {"ok", "refused"}
        BY <3>6, <4>1 DEF Before
      <4> QED
        BY <4>1, <4>4, <4>5 DEF SavedWhole
    <3> QED
      BY <3>3, <3>5, <3>6
  <2> QED BY <2>1, <2>2, <2>3, <2>4, <2>5
<1>13. ASSUME NEW t \in Threads, CancelReread(t) PROVE ServerInv'
  <2>1. TypeOK'
    BY <1>13 DEF CancelReread, Finish, Goto, client, store, TypeOK, Phases, Answers, AllKinds
  <2>2. LockHeld'
    BY <1>13 DEF CancelReread, Finish, Goto, client, store, TypeOK, LockHeld, Known, Before,
       Inside
  <2>3. Known'
    BY <1>13 DEF CancelReread, Finish, Goto, client, store, TypeOK, LockHeld, Known, Before,
       Inside
  <2>4. StagedOwn'
    <3>1. \A u \in Threads : pc'[u] = "txn" <=> pc[u] = "txn"
      BY <1>13 DEF CancelReread, Finish, Goto, TypeOK
    <3>2. \A u \in Threads : Pending(u) => Pending(u)'
      BY <1>13 DEF CancelReread, Finish, Goto, client, TypeOK, Known, Pending
    <3> QED
      BY <1>13, <3>1, <3>2, StagedKept DEF CancelReread, store
  <2>5. SavedWhole'
    <3>1. saved' = saved /\ kind' = kind
      BY <1>13 DEF CancelReread, client, store
    <3>2. pc'[t] = "send" /\ answer'[t] \in {"ok", "error"} /\ Saved(t)
      BY <1>13 DEF CancelReread, Finish, Goto, TypeOK, SavedWhole, Before
    <3>3. \A u \in Threads \ {t} : pc'[u] = pc[u] /\ answer'[u] = answer[u]
      BY <1>13 DEF CancelReread, Finish, Goto, TypeOK
    <3> QED
      BY <3>1, <3>2, <3>3 DEF SavedWhole, Saved, Unsaved, Writes, Before
  <2> QED BY <2>1, <2>2, <2>3, <2>4, <2>5
<1>14. ASSUME NEW t \in Threads, ConnectionLost(t) PROVE ServerInv'
  <2>1. TypeOK'
    BY <1>14 DEF ConnectionLost, Finish, Goto, client, store, TypeOK, Phases, Answers,
       AllKinds, LockHeld, Inside, Statements
  <2>2. LockHeld'
    BY <1>14 DEF ConnectionLost, Finish, Goto, client, store, TypeOK, LockHeld, Known, Before,
       Inside
  <2>3. Known'
    BY <1>14 DEF ConnectionLost, Finish, Goto, client, store, TypeOK, LockHeld, Known, Before,
       Inside
  <2>4. StagedOwn'
    <3>1. conn # "open" /\ ~left /\ UNCHANGED <<staged, conn, left>>
      BY <1>14 DEF ConnectionLost, StagedOwn
    <3> QED
      BY <3>1 DEF StagedOwn
  <2>5. SavedWhole'
    <3>1. saved' = saved /\ kind' = kind
      BY <1>14 DEF ConnectionLost, client, store
    <3>2. pc'[t] = "send" /\ answer'[t] = "error" /\ (Saved(t) \/ Unsaved(t))
      BY <1>14 DEF ConnectionLost, Finish, Goto, TypeOK, SavedWhole, Before
    <3>3. \A u \in Threads \ {t} : pc'[u] = pc[u] /\ answer'[u] = answer[u]
      BY <1>14 DEF ConnectionLost, Finish, Goto, TypeOK
    <3> QED
      BY <3>1, <3>2, <3>3 DEF SavedWhole, Saved, Unsaved, Writes, Before
  <2> QED BY <2>1, <2>2, <2>3, <2>4, <2>5
<1>15. ASSUME NEW t \in Threads, Send(t) PROVE ServerInv'
  <2>1. TypeOK'
    BY <1>15 DEF Send, Goto, client, store, TypeOK, Phases, Answers, AllKinds
  <2>2. LockHeld'
    BY <1>15 DEF Send, Goto, client, store, TypeOK, LockHeld, Known, Before, Inside
  <2>3. Known'
    BY <1>15 DEF Send, Goto, client, store, TypeOK, LockHeld, Known, Before, Inside
  <2>4. StagedOwn'
    <3>1. \A u \in Threads : pc'[u] = "txn" <=> pc[u] = "txn"
      BY <1>15 DEF Send, Finish, Goto, TypeOK
    <3>2. \A u \in Threads : Pending(u) => Pending(u)'
      BY <1>15 DEF Send, Finish, Goto, client, TypeOK, Known, Pending
    <3> QED
      BY <1>15, <3>1, <3>2, StagedKept DEF Send, store
  <2>5. SavedWhole'
    BY <1>15 DEF Send, Goto, client, store, TypeOK, LockHeld, Known, StagedOwn, SavedWhole,
       Unsaved, Saved, Writes, Before, Inside
  <2> QED BY <2>1, <2>2, <2>3, <2>4, <2>5
<1>16. ASSUME NEW t \in Threads, BeginFails(t) PROVE ServerInv'
  <2>1. TypeOK'
    BY <1>16 DEF BeginFails, Finish, Goto, client, store, TypeOK, Phases, Answers, AllKinds
  <2>2. LockHeld'
    BY <1>16 DEF BeginFails, Finish, Goto, client, store, TypeOK, LockHeld, Known, Before,
       Inside
  <2>3. Known'
    BY <1>16 DEF BeginFails, Finish, Goto, client, store, TypeOK, LockHeld, Known, Before,
       Inside
  <2>4. StagedOwn'
    <3>1. \A u \in Threads : pc'[u] = "txn" <=> pc[u] = "txn"
      BY <1>16 DEF BeginFails, Finish, Goto, TypeOK
    <3>2. \A u \in Threads : Pending(u) => Pending(u)'
      BY <1>16 DEF BeginFails, Finish, Goto, client, TypeOK, Known, Pending
    <3> QED
      BY <1>16, <3>1, <3>2, StagedKept DEF BeginFails, store
  <2>5. SavedWhole'
    BY <1>16 DEF BeginFails, Finish, Goto, client, store, TypeOK, LockHeld, Known, StagedOwn,
       SavedWhole, Unsaved, Saved, Writes, Before, Inside
  <2> QED BY <2>1, <2>2, <2>3, <2>4, <2>5
<1>17. ASSUME NEW t \in Threads, CancelFails(t) PROVE ServerInv'
  <2>1. TypeOK'
    <3>1. left' \in BOOLEAN
      BY <1>17 DEF CancelFails, TypeOK
    <3> QED
      BY <1>17, <3>1 DEF CancelFails, Finish, Goto, client, TypeOK, Phases, Answers, AllKinds,
         Statements
  <2>2. LockHeld'
    BY <1>17 DEF CancelFails, Finish, Goto, client, store, TypeOK, LockHeld, Known, Before,
       Inside
  <2>3. Known'
    BY <1>17 DEF CancelFails, Finish, Goto, client, store, TypeOK, LockHeld, Known, Before,
       Inside
  <2>4. StagedOwn'
    <3>1. /\ pc[t] = "work" /\ depth = 0 /\ conn' = conn /\ conn = "open" /\ done' = done
          /\ answer[t] = "none"
      BY <1>17 DEF CancelFails, Finish, Goto, TypeOK, LockHeld, Inside, Known
    <3>2. \A u \in Threads : pc[u] # "txn" /\ pc'[u] # "txn"
      BY <1>17, <3>1 DEF CancelFails, Finish, Goto, TypeOK, LockHeld, Inside
    <3>3. Pending(t)' /\ \A u \in Threads : Pending(u) => Pending(u)'
      BY <1>17, <3>1 DEF CancelFails, Finish, Goto, client, TypeOK, Pending
    <3>4. \/ UNCHANGED <<staged, left>>
          \/ left' /\ staged' \in {staged, staged \cup {<<t, 1>>}}
      BY <1>17, <3>1 DEF CancelFails
    <3>5. \A u \in Threads, i \in 1..Statements : <<u, i>> \in staged => i = 1 /\ Pending(u)
      BY <3>2 DEF StagedOwn
    <3> QED
      BY <3>1, <3>2, <3>3, <3>4, <3>5 DEF StagedOwn
  <2>5. SavedWhole'
    <3>1. saved' = saved /\ kind' = kind
      BY <1>17 DEF CancelFails, client
    <3>2. pc'[t] = "send" /\ answer'[t] = "error" /\ (Saved(t) \/ Unsaved(t))
      BY <1>17 DEF CancelFails, Finish, Goto, TypeOK, SavedWhole, Before
    <3>3. \A u \in Threads \ {t} : pc'[u] = pc[u] /\ answer'[u] = answer[u]
      BY <1>17 DEF CancelFails, Finish, Goto, TypeOK
    <3> QED
      BY <3>1, <3>2, <3>3 DEF SavedWhole, Saved, Unsaved, Writes, Before
  <2> QED BY <2>1, <2>2, <2>3, <2>4, <2>5
<1>18. CASE Close
  <2>1. /\ conn' = "closed" /\ staged' = {} /\ left' = FALSE
        /\ UNCHANGED <<socket, kind, pc, holder, depth, outer, done, saved, answer>>
    BY <1>18 DEF Close, client
  <2>2. TypeOK'
    <3>1. left' \in BOOLEAN
      BY <2>1
    <3> QED
      BY <2>1, <3>1 DEF TypeOK
  <2>3. LockHeld' /\ Known'
    BY <2>1 DEF LockHeld, Known
  <2>4. StagedOwn'
    BY <2>1 DEF StagedOwn
  <2>5. SavedWhole'
    BY <2>1 DEF SavedWhole, Unsaved, Saved, Writes
  <2> QED BY <2>2, <2>3, <2>4, <2>5
<1>19. CASE UNCHANGED vars
  <2>1. UNCHANGED <<socket, kind, pc, holder, depth, outer, done, staged, saved, left, conn,
                    answer>>
    BY <1>19 DEF vars
  <2>2. TypeOK' /\ LockHeld' /\ Known'
    BY <2>1 DEF TypeOK, LockHeld, Known
  <2>3. StagedOwn'
    BY <2>1 DEF StagedOwn, Pending
  <2>4. SavedWhole'
    BY <2>1 DEF SavedWhole, Unsaved, Saved, Writes
  <2> QED BY <2>2, <2>3, <2>4
<1> QED
  BY <1>1, <1>2, <1>3, <1>4, <1>5, <1>6, <1>7, <1>8, <1>9, <1>10, <1>11, <1>12, <1>13, <1>14,
     <1>15, <1>16, <1>17, <1>18, <1>19 DEF Next, Handle

\* The lock, the open transaction and the threads agree in every reachable state.
THEOREM ServerInvariance == FairSpec => []ServerInv
  BY ServerStarts, ServerKept, PTL DEF FairSpec, Spec

\* Handlers in threads of their own, shut down at any moment, write all of
\* their request into bookings.db or nothing, for any number of connections.
THEOREM AllOrNothing == FairSpec => []RequestsAtomic
<1>1. ServerInv => RequestsAtomic
  <2> SUFFICES ASSUME ServerInv, NEW t \in Threads
               PROVE  saved \cap ({t} \X (1..Statements)) \in {{}, Whole(t)}
    BY DEF RequestsAtomic
  <2>1. Saved(t) \/ Unsaved(t)
    BY DEF ServerInv, SavedWhole
  <2>2. CASE Unsaved(t)
    BY <2>2 DEF Unsaved
  <2>3. CASE Saved(t)
    BY <2>3, WholeWritten DEF Saved
  <2> QED
    BY <2>1, <2>2, <2>3
<1> QED
  BY <1>1, ServerInvariance, PTL

\* What a client is told of its booking is so in bookings.db.
THEOREM ToldTheTruth == FairSpec => []AnswersTell
<1>1. ServerInv => AnswersTell
  <2> SUFFICES ASSUME ServerInv, NEW t \in Threads
               PROVE  /\ answer[t] = "ok" => Whole(t) \subseteq saved
                      /\ answer[t] = "refused" => saved \cap ({t} \X (1..Statements)) = {}
    BY DEF AnswersTell
  <2> QED
    BY WholeWritten DEF ServerInv, SavedWhole, Saved, Unsaved
<1> QED
  BY <1>1, ServerInvariance, PTL
=============================================================================
