-------------------------- MODULE ThreadPoolProofs --------------------------
(***************************************************************************)
(* No wake-up of the pool is lost, for every number of workers and tasks.  *)
(***************************************************************************)
EXTENDS ThreadPool, TLAPS

Awake == \E w \in Worker : pc[w] # "asleep"

\* A worker that will look into the queue again before it sleeps
WillTake == \E w \in Worker : pc[w] \in {"take", "taken", "run", "ran"}

\* While the pool is open, the flag is up only with a worker awake, or about
\* to be signalled; and behind a task in the queue there is the flag, the
\* notification to come, or a worker on its way to take_task.
Covered ==
  /\ ready => owner = "signal" \/ Awake
  /\ queue # <<>> => owner = "set" \/ ready \/ WillTake

IInv ==
  /\ pc \in [Worker -> WorkerPc]
  /\ owner \in {"drain", "wakeset", "wakesignal", "join", "joined"} => exit
  /\ owner = "cleared" => queue = <<>>
  /\ ~exit => Covered

LEMMA InitOK == Init => IInv
<1> SUFFICES ASSUME Init PROVE IInv
  OBVIOUS
<1>1. pc \in [Worker -> WorkerPc]
  BY DEF Init, WorkerPc
<1> QED BY <1>1 DEF Init, IInv, Covered

\* Where the step of worker w leaves it
LEMMA WorkerMoves ==
  ASSUME IInv, NEW w \in Worker, NEW p \in WorkerPc, pc' = [pc EXCEPT ![w] = p]
  PROVE  /\ pc' \in [Worker -> WorkerPc]
         /\ p # "asleep" => Awake'
         /\ p \in {"take", "taken", "run", "ran"} => WillTake'
         /\ (WillTake /\ pc[w] \notin {"take", "taken", "run", "ran"}) => WillTake'
<1>1. pc \in [Worker -> WorkerPc]
  BY DEF IInv
<1>2. pc' \in [Worker -> WorkerPc] /\ pc'[w] = p
  BY <1>1
<1>3. \A v \in Worker \ {w} : pc'[v] = pc[v]
  BY <1>1
<1> QED BY <1>2, <1>3 DEF Awake, WillTake

LEMMA WorkerOK ==
  ASSUME IInv, NEW w \in Worker, WorkerStep(w) \/ SpuriousWakeup(w)
  PROVE  IInv'
<1> USE DEF WorkerPc
<1>1. UNCHANGED <<exit, owner>>
  BY DEF WorkerStep, SpuriousWakeup, Take, TestExit, Wait, Start, Run, Finish
<1>2. owner = "cleared" => queue' = <<>>
  BY DEF IInv, WorkerStep, SpuriousWakeup, Take, TestExit, Wait, Start, Run, Finish
<1>3. SUFFICES pc' \in [Worker -> WorkerPc] /\ (~exit => Covered')
  BY <1>1, <1>2 DEF IInv
<1>4. CASE Take(w)
  <2>1. CASE queue = <<>>
    <3>1. pc' = [pc EXCEPT ![w] = "test"] /\ queue' = <<>> /\ ready' = ready
      BY <1>4, <2>1 DEF Take
    <3>2. pc' \in [Worker -> WorkerPc] /\ Awake'
      BY <3>1, WorkerMoves
    <3> QED BY <3>1, <3>2 DEF Covered
  <2>2. CASE queue # <<>>
    <3>1. pc' = [pc EXCEPT ![w] = "taken"]
      BY <1>4, <2>2 DEF Take
    <3>2. pc' \in [Worker -> WorkerPc] /\ Awake' /\ WillTake'
      BY <3>1, WorkerMoves
    <3> QED BY <3>2 DEF Covered
  <2> QED BY <2>1, <2>2
<1>5. CASE TestExit(w)
  <2>1. pc[w] = "test" /\ UNCHANGED <<queue, ready>>
        /\ \E p \in {"exited", "wait"} : pc' = [pc EXCEPT ![w] = p]
    BY <1>5 DEF TestExit
  <2>2. pc' \in [Worker -> WorkerPc] /\ Awake' /\ (WillTake => WillTake')
    BY <2>1, WorkerMoves
  <2> QED BY <1>1, <2>1, <2>2 DEF IInv, Covered
<1>6. CASE Wait(w)
  <2>1. pc[w] = "wait" /\ ready' = FALSE /\ queue' = queue
    BY <1>6 DEF Wait
  <2>2. CASE ready
    <3>1. pc' = [pc EXCEPT ![w] = "take"]
      BY <1>6, <2>2 DEF Wait
    <3>2. pc' \in [Worker -> WorkerPc] /\ WillTake'
      BY <3>1, WorkerMoves
    <3> QED BY <2>1, <3>2 DEF Covered
  <2>3. CASE ~ready
    <3>1. pc' = [pc EXCEPT ![w] = "asleep"]
      BY <1>6, <2>3 DEF Wait
    <3>2. pc' \in [Worker -> WorkerPc] /\ (WillTake => WillTake')
      BY <2>1, <3>1, WorkerMoves
    <3> QED BY <1>1, <2>1, <2>3, <3>2 DEF IInv, Covered
  <2> QED BY <2>2, <2>3
<1>7. CASE SpuriousWakeup(w)
  <2>1. pc[w] = "asleep" /\ UNCHANGED <<queue, ready>> /\ pc' = [pc EXCEPT ![w] = "wait"]
    BY <1>7 DEF SpuriousWakeup
  <2>2. pc' \in [Worker -> WorkerPc] /\ Awake' /\ (WillTake => WillTake')
    BY <2>1, WorkerMoves
  <2> QED BY <1>1, <2>1, <2>2 DEF IInv, Covered
<1>8. CASE Start(w) \/ Run(w) \/ Finish(w)
  <2>1. \E p \in {"run", "ran", "take"} : pc' = [pc EXCEPT ![w] = p]
    BY <1>8 DEF Start, Run, Finish
  <2>2. pc' \in [Worker -> WorkerPc] /\ Awake' /\ WillTake'
    BY <2>1, WorkerMoves
  <2> QED BY <2>2 DEF Covered
<1> QED BY <1>4, <1>5, <1>6, <1>7, <1>8 DEF WorkerStep

LEMMA SignalOK == ASSUME IInv, Signal PROVE IInv'
<1>1. /\ UNCHANGED <<queue, ready, exit>>
      /\ owner \in {"signal", "wakesignal"}
      /\ owner = "signal" => owner' = "idle"
      /\ owner = "wakesignal" => owner' \in {"join", "wakeset"}
  BY DEF Signal
<1>2. pc' \in [Worker -> WorkerPc] /\ Awake' /\ (WillTake => WillTake')
  <2>1. CASE Asleep = {}
    <3>1. pc' = pc
      BY <2>1 DEF Signal
    <3>2. Awake
      BY <2>1, PoolAssumption DEF Asleep, Awake
    <3> QED BY <3>1, <3>2 DEF IInv, Awake, WillTake
  <2>2. CASE Asleep # {}
    <3>1. PICK w \in Asleep : pc' = [pc EXCEPT ![w] = "wait"]
      BY <2>2 DEF Signal
    <3>2. w \in Worker /\ pc[w] = "asleep"
      BY DEF Asleep
    <3>3. "wait" \in WorkerPc
      BY DEF WorkerPc
    <3> QED BY <3>1, <3>2, <3>3, WorkerMoves
  <2> QED BY <2>1, <2>2
<1> QED BY <1>1, <1>2 DEF IInv, Covered

\* The other steps of the poll thread leave the workers where they are
LEMMA OwnerOK ==
  ASSUME IInv, (\E t \in Task : Append_task(t)) \/ SetReady \/ Drained \/ Join
                 \/ Quit \/ StoreExit
  PROVE  IInv'
<1>1. UNCHANGED pc
  BY DEF Append_task, SetReady, Drained, Join, Quit, StoreExit
<1>2. UNCHANGED <<Awake, WillTake>>
  BY <1>1 DEF Awake, WillTake
<1>3. CASE \E t \in Task : Append_task(t)
  BY <1>1, <1>2, <1>3 DEF Append_task, IInv, Covered
<1>4. CASE SetReady
  BY <1>1, <1>2, <1>4 DEF SetReady, IInv, Covered
<1>5. CASE Drained \/ Join
  BY <1>1, <1>2, <1>5 DEF Drained, Join, IInv, Covered
<1>6. CASE Quit
  BY <1>1, <1>2, <1>6 DEF Quit, IInv, Covered
<1>7. CASE StoreExit
  BY <1>1, <1>2, <1>7 DEF StoreExit, IInv, Covered
<1> QED BY <1>3, <1>4, <1>5, <1>6, <1>7

\* The invariant holds in every reachable state.
THEOREM Inductive == Spec => []IInv
<1>1. Init => IInv
  BY InitOK
<1>2. IInv /\ [Next]_vars => IInv'
  <2> SUFFICES ASSUME IInv, [Next]_vars PROVE IInv'
    OBVIOUS
  <2>1. CASE UNCHANGED vars
    BY <2>1 DEF vars, IInv, Covered, Awake, WillTake
  <2>2. CASE Next
    BY <2>2, WorkerOK, SignalOK, OwnerOK DEF Next, OwnerStep
  <2> QED BY <2>1, <2>2
<1> QED BY <1>1, <1>2, PTL DEF Spec

\* No wake-up is lost: in an open pool a queued task never waits with every
\* worker asleep and no notification on its way.
THEOREM NoWakeupLost == Spec => []NoLostWakeup
<1>1. IInv => NoLostWakeup
  BY DEF IInv, Covered, Awake, WillTake, NoLostWakeup
<1> QED BY <1>1, Inductive, PTL
=============================================================================
