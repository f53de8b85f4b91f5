--------------------------- MODULE SharedDatabase ---------------------------
(***************************************************************************)
(* Threads that share one Database (database.py): execute, explain_plan    *)
(* and close take the same RLock; close flushes, marks the Database closed *)
(* and tears the Pager down handle by handle, and any of these steps may   *)
(* raise.                                                                  *)
(***************************************************************************)
EXTENDS Naturals, Sequences

CONSTANTS Threads,
          Locking,        \* the locking argument of Database
          CloseFails,     \* TRUE: flush and the steps of Pager.close may raise
          MaxCalls        \* bound: calls each thread makes

NoThread == "nobody"

ASSUME SharedDatabaseAssumption ==
  /\ NoThread \notin Threads
  /\ {Locking, CloseFails} \subseteq BOOLEAN
  /\ MaxCalls \in Nat

VARIABLES lock,           \* the thread that holds the RLock, or NoThread
          closed,         \* _is_closed
          handles,        \* the handles Pager.close has yet to release
          threads,        \* where each thread is
          calls,          \* calls each thread has made
          closeReturned,  \* some close() has returned without an exception
          torn            \* a step of Pager.close has raised

threadVars == <<lock, closed, handles, threads, calls, closeReturned, torn>>

\* Pager.close releases them in this order.
AllHandles == <<"flock", "wal", "mmap", "file">>

Methods == {"execute", "explain_plan", "close"}

Stands(t, place) == threads[t].at = place

MoveTo(t, place) == threads' = [threads EXCEPT ![t].at = place]

ThreadsInit ==
  /\ lock = NoThread
  /\ closed = FALSE
  /\ handles = AllHandles
  /\ threads = [t \in Threads |-> [at |-> "idle", call |-> "execute", raised |-> FALSE]]
  /\ calls = [t \in Threads |-> 0]
  /\ closeReturned = FALSE
  /\ torn = FALSE

Call(t, kind) ==
  /\ Stands(t, "idle")
  /\ calls[t] < MaxCalls
  /\ calls' = [calls EXCEPT ![t] = @ + 1]
  /\ threads' = [threads EXCEPT ![t] = [at |-> "entered", call |-> kind, raised |-> FALSE]]
  /\ UNCHANGED <<lock, closed, handles, closeReturned, torn>>

\* Mutant: execute and explain_plan do not take the lock.
AcquireForClose(t) ==
  /\ Stands(t, "entered")
  /\ IF threads[t].call = "close" THEN lock = NoThread /\ lock' = t ELSE UNCHANGED lock
  /\ MoveTo(t, "locked")
  /\ UNCHANGED <<closed, handles, calls, closeReturned, torn>>

Acquire(t) ==
  /\ Stands(t, "entered")
  /\ IF Locking THEN lock = NoThread /\ lock' = t ELSE UNCHANGED lock
  /\ MoveTo(t, "locked")
  /\ UNCHANGED <<closed, handles, calls, closeReturned, torn>>

\* The check of _is_closed, inside the lock.
Check(t) ==
  /\ Stands(t, "locked")
  /\ IF closed
     THEN threads' = [threads EXCEPT ![t].at = "leaving",
                                     ![t].raised = @ \/ threads[t].call # "close"]
     ELSE MoveTo(t, CASE threads[t].call = "execute"      -> "running"
                    [] threads[t].call = "explain_plan" -> "planning"
                    [] threads[t].call = "close"        -> "flushing")
  /\ UNCHANGED <<lock, closed, handles, calls, closeReturned, torn>>

\* The statements of the script, to the last one or to one that raises.
Statements(t) ==
  /\ Stands(t, "running")
  /\ \E raised \in BOOLEAN :
       threads' = [threads EXCEPT ![t].at = "leaving", ![t].raised = raised]
  /\ UNCHANGED <<lock, closed, handles, calls, closeReturned, torn>>

\* explain_plan touches neither pager nor log.
Plan(t) ==
  /\ Stands(t, "planning")
  /\ \E raised \in BOOLEAN :
       threads' = [threads EXCEPT ![t].at = "leaving", ![t].raised = raised]
  /\ UNCHANGED <<lock, closed, handles, calls, closeReturned, torn>>

\* Mutant: an exception of flush ends close().
FlushEndsClose(t) ==
  /\ Stands(t, "flushing")
  /\ \E raised \in {FALSE, CloseFails} :
       threads' = [threads EXCEPT ![t].at = IF raised THEN "leaving" ELSE "closing",
                                  ![t].raised = raised]
  /\ closed' = TRUE
  /\ UNCHANGED <<lock, handles, calls, closeReturned, torn>>

Flush(t) ==
  /\ Stands(t, "flushing")
  /\ \E raised \in {FALSE, CloseFails} :
       threads' = [threads EXCEPT ![t].at = "closing", ![t].raised = raised]
  /\ closed' = TRUE
  /\ UNCHANGED <<lock, handles, calls, closeReturned, torn>>

\* One handle; an exception leaves the later ones as they are.
Release(t) ==
  /\ Stands(t, "closing")
  /\ IF handles = << >>
     THEN MoveTo(t, "leaving") /\ UNCHANGED <<handles, torn>>
     ELSE /\ handles' = Tail(handles)
          /\ \/ MoveTo(t, "closing") /\ UNCHANGED torn
             \/ /\ CloseFails
                /\ torn' = TRUE
                /\ threads' = [threads EXCEPT ![t].at = "leaving", ![t].raised = TRUE]
  /\ UNCHANGED <<lock, closed, calls, closeReturned>>

\* Mutant: an exception leaves the lock taken.
ReturnKeepsLock(t) ==
  /\ Stands(t, "leaving")
  /\ lock' = IF lock = t /\ ~threads[t].raised THEN NoThread ELSE lock
  /\ closeReturned' = (closeReturned \/ (threads[t].call = "close" /\ ~threads[t].raised))
  /\ MoveTo(t, "idle")
  /\ UNCHANGED <<closed, handles, calls, torn>>

Return(t) ==
  /\ Stands(t, "leaving")
  /\ lock' = IF lock = t THEN NoThread ELSE lock
  /\ closeReturned' = (closeReturned \/ (threads[t].call = "close" /\ ~threads[t].raised))
  /\ MoveTo(t, "idle")
  /\ UNCHANGED <<closed, handles, calls, torn>>

Step(t) ==
  \/ Acquire(t) \/ Check(t) \/ Statements(t) \/ Plan(t)
  \/ Flush(t) \/ Release(t) \/ Return(t)

ThreadsNext == \E t \in Threads : Step(t) \/ \E kind \in Methods : Call(t, kind)

(***************************************************************************)
(* A thread that has called runs on, and an RLock that is released is      *)
(* taken by some thread that waits for it.  A thread makes MaxCalls calls  *)
(* at most, so one that waits cannot be passed for ever and weak fairness  *)
(* is enough.                                                              *)
(***************************************************************************)
ThreadsSpec ==
  ThreadsInit /\ [][ThreadsNext]_threadVars /\ \A t \in Threads : WF_threadVars(Step(t))
-----------------------------------------------------------------------------
(***************************************************************************)
(* No statement runs on a Pager that close has begun to tear down: the     *)
(* check of _is_closed is inside the lock that close holds to its end.     *)
(***************************************************************************)
NoTornUse == \A t \in Threads : Stands(t, "running") => handles = AllHandles

(***************************************************************************)
(* Once a close() has returned without an exception every handle of the    *)
(* Pager is released, unless a step of Pager.close has raised: also when   *)
(* the flush raised, and when another thread's close() did the work (close *)
(* is idempotent and "runs even if flush/close raises").                   *)
(***************************************************************************)
CloseReleases == closeReturned /\ ~torn => handles = << >>

(***************************************************************************)
(* Every call returns, whatever the other threads call and wherever it     *)
(* raises: no exception path keeps the RLock.                              *)
(***************************************************************************)
CallsReturn == \A t \in Threads : ~Stands(t, "idle") ~> Stands(t, "idle")
=============================================================================
