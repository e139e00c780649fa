------------------------------ MODULE WebServer ------------------------------
(***************************************************************************)
(* The threaded web server (web.py): a thread for every connection of a    *)
(* browser, ENGINE_LOCK around everything that touches the engine, and one *)
(* SQLite connection to bookings.db that all threads share, with its       *)
(* transaction depth (src/booking_store.py).                               *)
(*                                                                         *)
(* A connection carries one request (HTTP/1.0), so a thread runs through   *)
(* its phases once.  What a booking does to the rows is BookingLedger's    *)
(* subject; here it is a transaction of two statements, and a cancellation *)
(* is one statement that commits by itself.  Other programs hold the file  *)
(* now and then, so that any statement on it may time out.                 *)
(***************************************************************************)
EXTENDS Integers, FiniteSets

CONSTANTS
  Threads, NoThread,   \* connections; nobody
  Kinds                \* the kinds of request clients send

\* Files and unknown paths; GET /api/...; POST /api/search and the like;
\* POST and PATCH that book; DELETE.
AllKinds  == {"page", "get", "search", "book", "cancel"}
WithBody  == {"search", "book"}

ASSUME ServerAssumption == NoThread \notin Threads /\ Kinds \subseteq AllKinds

Statements == 2   \* of a booking's transaction

VARIABLES
  socket,  \* what the client has sent: nothing, the head, all; or it has left
  kind,    \* its request
  pc,      \* where the handler is
  holder,  \* ENGINE_LOCK
  depth,   \* BookingStore._transaction_depth
  outer,   \* transaction()'s local of that name
  done,    \* statements a handler's transaction has executed
  staged,  \* what the shared connection has written and not committed
  saved,   \* what the file holds
  left,    \* whether a cancellation that timed out left a transaction open
  conn,    \* the shared connection: "open" until the server shuts down
  answer   \* what the handler sends back

client  == <<socket, kind>>
store   == <<depth, outer, done, staged, saved, left>>
vars    == <<socket, kind, pc, holder, depth, outer, done, staged, saved, left, conn, answer>>

Phases  == {"line", "lock", "body", "work", "txn", "reread", "send", "done"}
Answers == {"none", "ok", "refused", "error"}

\* Everything the request of t writes.
Whole(t) == IF kind[t] = "book" THEN {t} \X (1..Statements)
            ELSE IF kind[t] = "cancel" THEN {<<t, 1>>} ELSE {}

Init ==
  /\ socket = [t \in Threads |-> "nothing"]
  /\ kind = [t \in Threads |-> "page"]
  /\ pc = [t \in Threads |-> "line"]
  /\ holder = NoThread
  /\ depth = 0
  /\ outer = [t \in Threads |-> FALSE]
  /\ done = [t \in Threads |-> 0]
  /\ staged = {} /\ saved = {}
  /\ left = FALSE
  /\ conn = "open"
  /\ answer = [t \in Threads |-> "none"]

-----------------------------------------------------------------------------
(* The browser *)

\* A request's head arrives.  One without a body is complete; so is one whose
\* Content-Length the server refuses before it reads on.
Request(t, k) ==
  /\ socket[t] = "nothing"
  /\ kind' = [kind EXCEPT ![t] = k]
  /\ \E s \in IF k \in WithBody THEN {"head", "all"} ELSE {"all"} :
       socket' = [socket EXCEPT ![t] = s]
  /\ UNCHANGED <<pc, holder, store, conn, answer>>

SendBody(t) ==
  /\ socket[t] = "head"
  /\ socket' = [socket EXCEPT ![t] = "all"]
  /\ UNCHANGED <<kind, pc, holder, store, conn, answer>>

\* The tab is closed.
Leave(t) ==
  /\ socket[t] # "gone"
  /\ socket' = [socket EXCEPT ![t] = "gone"]
  /\ UNCHANGED <<kind, pc, holder, store, conn, answer>>

-----------------------------------------------------------------------------
(* A handler, do_GET ... do_DELETE and _run *)

Goto(t, from, to) == pc[t] = from /\ pc' = [pc EXCEPT ![t] = to]

\* Fault: pages go through the engine's lock like everything else.
RouteAllLocked(t) ==
  /\ \/ socket[t] \in {"head", "all"} /\ Goto(t, "line", "lock")
     \/ socket[t] = "gone" /\ Goto(t, "line", "done")
  /\ UNCHANGED <<client, holder, store, conn, answer>>

\* Files are served and unknown paths refused at once; the API waits its turn.
Route(t) ==
  /\ \/ /\ socket[t] \in {"head", "all"}
        /\ Goto(t, "line", IF kind[t] = "page" THEN "send" ELSE "lock")
     \/ socket[t] = "gone" /\ Goto(t, "line", "done")
  /\ UNCHANGED <<client, holder, store, conn, answer>>

\* Fault: the work is not serialised.
AcquireNothing(t) ==
  /\ Goto(t, "lock", IF kind[t] \in WithBody THEN "body" ELSE "work")
  /\ UNCHANGED <<client, holder, store, conn, answer>>

\* `with ENGINE_LOCK': the body is read inside.
Acquire(t) ==
  /\ holder = NoThread
  /\ Goto(t, "lock", IF kind[t] \in WithBody THEN "body" ELSE "work")
  /\ holder' = t
  /\ UNCHANGED <<client, store, conn, answer>>

\* The handler leaves the engine with answer a.
Finish(t, from, a) ==
  /\ Goto(t, from, "send")
  /\ holder' = IF holder = t THEN NoThread ELSE holder
  /\ answer' = [answer EXCEPT ![t] = a]

\* rfile.read blocks until the body or the end of the stream is there.
ReadBody(t) ==
  \/ /\ socket[t] = "all"
     /\ Goto(t, "body", "work")
     /\ UNCHANGED <<client, holder, store, conn, answer>>
  \/ /\ socket[t] \in {"all", "gone"}     \* a bad size, not JSON, or cut short
     /\ Finish(t, "body", "refused")
     /\ UNCHANGED <<client, store, conn>>

\* Endpoints that write nothing.
Look(t) ==
  /\ conn = "open"
  /\ kind[t] \in {"get", "search"}
  /\ \E a \in {"ok", "refused", "error"} : Finish(t, "work", a)
  /\ UNCHANGED <<client, store, conn>>

BeginWork(t) ==
  /\ conn = "open"
  /\ ~left
  /\ kind[t] = "book"
  /\ Goto(t, "work", "txn")
  /\ outer' = [outer EXCEPT ![t] = depth = 0]
  /\ depth' = depth + 1
  /\ UNCHANGED <<client, holder, done, staged, saved, left, conn, answer>>

\* BEGIN IMMEDIATE times out or finds a transaction open, or the request is
\* refused before it.
BeginFails(t) ==
  /\ conn = "open"
  /\ kind[t] = "book"
  /\ \E a \in {"refused", "error"} : Finish(t, "work", a)
  /\ UNCHANGED <<client, store, conn>>

Statement(t) ==
  /\ conn = "open"
  /\ pc[t] = "txn"
  /\ done[t] < Statements
  /\ done' = [done EXCEPT ![t] = @ + 1]
  /\ staged' = staged \cup {<<t, done[t] + 1>>}
  /\ UNCHANGED <<client, pc, holder, depth, outer, saved, left, conn, answer>>

\* Fault: the answer is decided before the commit.
CommitLate(t) ==
  /\ done[t] = Statements
  /\ Finish(t, "txn", "ok")
  /\ saved' = IF conn = "open" /\ outer[t] THEN saved \cup staged ELSE saved
  /\ staged' = IF outer[t] THEN {} ELSE staged
  /\ depth' = depth - 1
  /\ UNCHANGED <<client, outer, done, left, conn>>

CommitWork(t) ==
  /\ conn = "open"
  /\ done[t] = Statements
  /\ Finish(t, "txn", "ok")
  /\ saved' = IF outer[t] THEN saved \cup staged ELSE saved
  /\ staged' = IF outer[t] THEN {} ELSE staged
  /\ depth' = depth - 1
  /\ UNCHANGED <<client, outer, done, left, conn>>

\* Fault: an exception passes over the release of the lock.
AbortHoldingLock(t) ==
  /\ conn = "open"
  /\ Goto(t, "txn", "send")
  /\ answer' = [answer EXCEPT ![t] = "refused"]
  /\ staged' = IF outer[t] THEN {} ELSE staged
  /\ depth' = depth - 1
  /\ UNCHANGED <<client, holder, outer, done, saved, left, conn>>

\* A BookingError inside the transaction; another exception, which its COMMIT
\* raises when it times out, answers 500.
AbortWork(t) ==
  /\ conn = "open"
  /\ \E a \in {"refused", "error"} : Finish(t, "txn", a)
  /\ staged' = IF outer[t] THEN {} ELSE staged
  /\ depth' = depth - 1
  /\ UNCHANGED <<client, outer, done, saved, left, conn>>

\* cancel_booking: unknown ids answer 404; else update() commits, with whatever
\* was left open, unless a handler's transaction is open on the connection.
CancelUpdate(t) ==
  /\ conn = "open"
  /\ kind[t] = "cancel"
  /\ \/ Finish(t, "work", "refused") /\ UNCHANGED <<staged, saved, left>>
     \/ /\ Goto(t, "work", "reread")
        /\ saved' = IF depth = 0 THEN saved \cup staged \cup {<<t, 1>>} ELSE saved
        /\ staged' = IF depth = 0 THEN {} ELSE staged \cup {<<t, 1>>}
        /\ left' = FALSE
        /\ UNCHANGED <<holder, answer>>
  /\ UNCHANGED <<client, depth, outer, done, conn>>

\* The UPDATE or its COMMIT times out, which leaves the transaction open that
\* Python began for it; a SELECT before them leaves things as they were.
CancelFails(t) ==
  /\ conn = "open"
  /\ kind[t] = "cancel"
  /\ Finish(t, "work", "error")
  /\ \/ UNCHANGED <<staged, left>>
     \/ left' = (depth = 0) /\ staged' \in {staged, staged \cup {<<t, 1>>}}
  /\ UNCHANGED <<client, depth, outer, done, saved, conn>>

CancelReread(t) ==
  /\ conn = "open"
  /\ \E a \in {"ok", "error"} : Finish(t, "reread", a)
  /\ UNCHANGED <<client, store, conn>>

\* The connection was closed under the handler's feet: 500.
ConnectionLost(t) ==
  /\ conn = "closed"
  /\ \/ Finish(t, "work", "error") /\ UNCHANGED depth
     \/ Finish(t, "txn", "error") /\ depth' = depth - 1
     \/ Finish(t, "reread", "error") /\ UNCHANGED depth
  /\ UNCHANGED <<client, outer, done, staged, saved, left, conn>>

\* The response is written outside the lock; a client that left is ignored.
Send(t) ==
  /\ Goto(t, "send", "done")
  /\ UNCHANGED <<client, holder, store, conn, answer>>

\* Ctrl+C: system.close() waits for no handler and takes no lock.
Close ==
  /\ conn = "open"
  /\ conn' = "closed"
  /\ staged' = {}
  /\ left' = FALSE
  /\ UNCHANGED <<client, pc, holder, depth, outer, done, saved, answer>>

Handle(t) ==
  \/ Route(t) \/ Acquire(t) \/ ReadBody(t) \/ Look(t) \/ BeginWork(t) \/ BeginFails(t)
  \/ Statement(t) \/ CommitWork(t) \/ AbortWork(t) \/ CancelUpdate(t) \/ CancelFails(t)
  \/ CancelReread(t) \/ ConnectionLost(t) \/ Send(t)

Next ==
  \/ \E t \in Threads :
       \/ Handle(t) \/ SendBody(t) \/ Leave(t)
       \/ \E k \in Kinds : Request(t, k)
  \/ Close

Spec == Init /\ [][Next]_vars

\* Threads are scheduled and do not wait for ever for a lock that is free: the
\* connections are finitely many, so nobody is overtaken for ever.  Browsers
\* send what they like when they like.
FairSpec == Spec /\ \A t \in Threads : WF_vars(Handle(t))
-----------------------------------------------------------------------------
TypeOK ==
  /\ socket \in [Threads -> {"nothing", "head", "all", "gone"}]
  /\ kind \in [Threads -> AllKinds]
  /\ pc \in [Threads -> Phases]
  /\ holder \in Threads \cup {NoThread}
  /\ depth \in 0..1
  /\ outer \in [Threads -> BOOLEAN]
  /\ done \in [Threads -> 0..Statements]
  /\ staged \subseteq Threads \X (1..Statements)
  /\ saved \subseteq Threads \X (1..Statements)
  /\ left \in BOOLEAN
  /\ conn \in {"open", "closed"}
  /\ answer \in [Threads -> Answers]

\* The threads share one connection, yet the file holds every request's writes
\* or none of them: no handler commits, or rolls back, another one's.
RequestsAtomic == \A t \in Threads : saved \cap ({t} \X (1..Statements)) \in {{}, Whole(t)}

\* A client that was told so has its booking, although a shutdown may close
\* the connection at any moment; one that was refused has nothing.
AnswersTell ==
  \A t \in Threads :
    /\ answer[t] = "ok" => Whole(t) \subseteq saved
    /\ answer[t] = "refused" => saved \cap ({t} \X (1..Statements)) = {}

\* Pages are served whatever the engine is doing, a search that takes long or
\* a body that never comes, until the server is shut down.
PagesServed ==
  \A t \in Threads :
    kind[t] = "page" /\ socket[t] = "all" ~> pc[t] = "done" \/ conn = "closed"

\* If browsers finish the bodies they begin, or hang up, then every request is
\* answered: an error gives the lock back.
BodiesArrive == \A t \in Threads : WF_vars(socket[t] = "head" /\ (SendBody(t) \/ Leave(t)))
EngineServes ==
  BodiesArrive => \A t \in Threads : pc[t] = "lock" ~> pc[t] = "done" \/ conn = "closed"
=============================================================================
