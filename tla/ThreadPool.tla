----------------------------- MODULE ThreadPool -----------------------------
(***************************************************************************)
(* The workers that execute queries (server/thread_pool.hpp): a queue of   *)
(* tasks under one mutex, a condition with one sticky flag under another,  *)
(* and threads that take a task, or sleep when there is none.  One thread, *)
(* the poll thread of the server, appends tasks and shuts the pool down.   *)
(*                                                                         *)
(* A step of the model is one critical section, or one access to an atomic. *)
(***************************************************************************)
EXTENDS Integers, Sequences, FiniteSets

CONSTANTS
  Worker,  \* threads of the pool
  Task     \* tasks the poll thread may append, each at most once

ASSUME PoolAssumption == Worker # {} /\ IsFiniteSet(Worker)

VARIABLES
  queue,    \* TaskQueue::m_tasks
  ready,    \* Condition::m_ready = 1
  exit,     \* ThreadPool::m_exit
  running,  \* ThreadPool::m_running
  pc,       \* pc[w]: where worker w is in do_work
  task,     \* task[w]: the tasks worker w holds, none or one
  owner,    \* where the poll thread is: "idle", or inside a call of the pool
  wake,     \* notify_one calls of the shutdown still to make
  done      \* history: the tasks that have run

vars == <<queue, ready, exit, running, pc, task, owner, wake, done>>

\* "take": at take_task; "test": take_task was empty, m_exit not yet read;
\* "wait": at Condition::wait; "asleep": inside condition_variable::wait;
\* "taken", "run", "ran": around ++m_running, task(), --m_running
WorkerPc == {"take", "test", "wait", "asleep", "taken", "run", "ran", "exited"}

\* "set", "signal": notify_one of append_task, before the flag and before the
\* wake-up; "drain": waits for m_running = 0; "wakeset", "wakesignal":
\* notify_one of the shutdown; "join"; "joined"
OwnerPc == {"idle", "set", "signal", "cleared", "drain", "wakeset", "wakesignal",
            "join", "joined"}

Init ==
  /\ queue = <<>> /\ ready = FALSE /\ exit = FALSE /\ running = 0
  /\ pc = [w \in Worker |-> "take"]
  /\ task = [w \in Worker |-> {}]
  /\ owner = "idle" /\ wake = 0 /\ done = {}

Queued == {queue[i] : i \in 1 .. Len(queue)}
Held == UNION {task[w] : w \in Worker}

-----------------------------------------------------------------------------
(* The workers: ThreadPool::do_work.                                        *)

\* take_task
Take(w) ==
  /\ pc[w] = "take"
  /\ IF queue = <<>>
     THEN pc' = [pc EXCEPT ![w] = "test"] /\ UNCHANGED <<queue, task>>
     ELSE /\ pc' = [pc EXCEPT ![w] = "taken"]
          /\ task' = [task EXCEPT ![w] = {Head(queue)}]
          /\ queue' = Tail(queue)
  /\ UNCHANGED <<ready, exit, running, owner, wake, done>>

\* no task: m_exit decides between wait and break
TestExit(w) ==
  /\ pc[w] = "test"
  /\ pc' = [pc EXCEPT ![w] = IF exit THEN "exited" ELSE "wait"]
  /\ UNCHANGED <<queue, ready, exit, running, task, owner, wake, done>>

\* mutant: the worker sleeps without looking at the flag first
WaitBlind(w) ==
  /\ pc[w] = "wait"
  /\ pc' = [pc EXCEPT ![w] = "asleep"]
  /\ UNCHANGED <<queue, ready, exit, running, task, owner, wake, done>>

\* Condition::wait with its mutex: the flag is consumed, or the worker sleeps
Wait(w) ==
  /\ pc[w] = "wait"
  /\ ready' = FALSE
  /\ pc' = [pc EXCEPT ![w] = IF ready THEN "take" ELSE "asleep"]
  /\ UNCHANGED <<queue, exit, running, task, owner, wake, done>>

\* condition_variable::wait may return although nobody signalled
SpuriousWakeup(w) ==
  /\ pc[w] = "asleep"
  /\ pc' = [pc EXCEPT ![w] = "wait"]
  /\ UNCHANGED <<queue, ready, exit, running, task, owner, wake, done>>

Start(w) ==
  /\ pc[w] = "taken"
  /\ pc' = [pc EXCEPT ![w] = "run"]
  /\ running' = running + 1
  /\ UNCHANGED <<queue, ready, exit, task, owner, wake, done>>

Run(w) ==
  /\ pc[w] = "run"
  /\ pc' = [pc EXCEPT ![w] = "ran"]
  /\ done' = done \cup task[w]
  /\ task' = [task EXCEPT ![w] = {}]
  /\ UNCHANGED <<queue, ready, exit, running, owner, wake>>

Finish(w) ==
  /\ pc[w] = "ran"
  /\ pc' = [pc EXCEPT ![w] = "take"]
  /\ running' = running - 1
  /\ UNCHANGED <<queue, ready, exit, task, owner, wake, done>>

-----------------------------------------------------------------------------
(* The poll thread.                                                         *)

\* ThreadPool::append_task up to the push
Append_task(t) ==
  /\ owner = "idle" /\ ~exit
  /\ t \notin Queued \cup Held \cup done
  /\ queue' = Append(queue, t)
  /\ owner' = "set"
  /\ UNCHANGED <<ready, exit, running, pc, task, wake, done>>

\* notify_one: the flag under the mutex, then the wake-up without it
SetReady ==
  /\ owner \in {"set", "wakeset"}
  /\ ready' = TRUE
  /\ owner' = IF owner = "set" THEN "signal" ELSE "wakesignal"
  /\ UNCHANGED <<queue, exit, running, pc, task, wake, done>>

Asleep == {w \in Worker : pc[w] = "asleep"}

Signal ==
  /\ owner \in {"signal", "wakesignal"}
  /\ IF Asleep = {} THEN UNCHANGED pc
     ELSE \E w \in Asleep : pc' = [pc EXCEPT ![w] = "wait"]
  /\ IF owner = "signal" THEN owner' = "idle" /\ UNCHANGED wake
     ELSE /\ wake' = wake - 1
          /\ owner' = IF wake = 1 THEN "join" ELSE "wakeset"
  /\ UNCHANGED <<queue, ready, exit, running, task, done>>

\* quit drops the queue first, wait_for_job_finish does not
Quit ==
  /\ owner = "idle"
  /\ queue' = <<>>
  /\ owner' = "cleared"
  /\ UNCHANGED <<ready, exit, running, pc, task, wake, done>>

\* m_exit.store(true)
StoreExit ==
  /\ owner \in {"idle", "cleared"}
  /\ exit' = TRUE
  /\ owner' = "drain"
  /\ UNCHANGED <<queue, ready, running, pc, task, wake, done>>

\* mutant: the shutdown does not wake anybody
DrainedSilent ==
  /\ owner = "drain" /\ running = 0
  /\ owner' = "join"
  /\ UNCHANGED <<queue, ready, exit, running, pc, task, wake, done>>

\* m_running.load() is 0: one notify_one per worker follows
Drained ==
  /\ owner = "drain" /\ running = 0
  /\ owner' = "wakeset"
  /\ wake' = Cardinality(Worker)
  /\ UNCHANGED <<queue, ready, exit, running, pc, task, done>>

Join ==
  /\ owner = "join" /\ \A w \in Worker : pc[w] = "exited"
  /\ owner' = "joined"
  /\ UNCHANGED <<queue, ready, exit, running, pc, task, wake, done>>

-----------------------------------------------------------------------------
WorkerStep(w) == Take(w) \/ TestExit(w) \/ Wait(w) \/ Start(w) \/ Run(w) \/ Finish(w)

OwnerStep == SetReady \/ Signal \/ Drained \/ Join

Next ==
  \/ \E w \in Worker : WorkerStep(w) \/ SpuriousWakeup(w)
  \/ \E t \in Task : Append_task(t)
  \/ OwnerStep \/ Quit \/ StoreExit

Spec == Init /\ [][Next]_vars

\* Every thread is scheduled and every task returns; the poll thread completes
\* the calls it has begun, but need not append or shut down.  Nothing promises
\* a spurious wake-up.
FairSpec ==
  /\ Spec
  /\ \A w \in Worker : WF_vars(WorkerStep(w))
  /\ WF_vars(OwnerStep)
  /\ WF_vars(owner = "cleared" /\ StoreExit)

-----------------------------------------------------------------------------
\* No wake-up is lost: while the pool is open, a task in the queue has a
\* worker that is awake, or the poll thread is about to wake one.  notify_one
\* sets the flag and signals in two steps, several notifications share one
\* flag, and any worker may consume it.
NoLostWakeup ==
  queue # <<>> /\ ~exit =>
    \/ owner \in {"set", "signal"}
    \/ \E w \in Worker : pc[w] # "asleep"

\* A task that was appended runs, unless the pool is shut down first.
TaskRuns == \A t \in Task : (t \in Queued) ~> (t \in done \/ owner = "cleared" \/ exit)

\* A shutdown gets as far as joining the workers, with one of them gone at
\* least.  That all of them go is not promised: the wake-ups of the shutdown
\* share the flag, and whoever consumes it may leave the others asleep.
ShutdownWakes ==
  exit ~> (owner \in {"join", "joined"} /\ \E w \in Worker : pc[w] = "exited")
=============================================================================
