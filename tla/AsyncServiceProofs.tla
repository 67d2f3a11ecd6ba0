------------------------- MODULE AsyncServiceProofs -------------------------
(***************************************************************************)
(* Proofs about AsyncService for any set of callers, any mix of operations  *)
(* and any number of calls.  The inductive invariant is Inv: mutual         *)
(* exclusion in run() needs the meaning of isRunning_, and it needs to know *)
(* that start() never replaces a live worker, which rests on the discipline *)
(* of startMutex_.                                                          *)
(***************************************************************************)
EXTENDS AsyncService, TLAPS

Inv ==
    /\ TypeOK
    /\ LockDiscipline
    /\ HandleOwnsWorker
    /\ OneRunner
    /\ RunningIsTruthful

-----------------------------------------------------------------------------
(* The initial state satisfies the invariant: no thread is inside. *)
LEMMA InitInv == Init => Inv
<1> SUFFICES ASSUME Init PROVE Inv
  OBVIOUS
<1> USE ServiceAssumption DEF Init, Threads, RunStates, CallerStates, WorkerStates
<1>1. TypeOK
  <2>1. pc \in [Threads -> CallerStates \cup WorkerStates]
    OBVIOUS
  <2>2. ready \in Seq({"guard", "fn"})
    OBVIOUS
  <2> QED
    BY <2>1, <2>2 DEF TypeOK
<1>2. \A t \in Threads : pc[t] \in {"idle", "none"}
  OBVIOUS
<1>3. LockDiscipline
  BY <1>2 DEF LockDiscipline, UsesHandle
<1>4. HandleOwnsWorker
  BY DEF HandleOwnsWorker
<1>5. OneRunner /\ RunningIsTruthful
  BY <1>2 DEF OneRunner, RunningIsTruthful, InRun
<1> QED
  BY <1>1, <1>3, <1>4, <1>5 DEF Inv

(* A step after which the same threads are in run() and the flag is as before *)
(* keeps mutual exclusion and the meaning of the flag.                        *)
LEMMA SameRunners == ASSUME OneRunner, RunningIsTruthful, isRunning_' = isRunning_,
                            \A t \in Threads : InRun(t)' <=> InRun(t)
                     PROVE  OneRunner' /\ RunningIsTruthful'
  BY Zenon DEF OneRunner, RunningIsTruthful, Threads

(* Steps that move one thread outside run() and touch neither the worker nor  *)
(* the flag: the invariant needs only where the thread goes.                  *)
LEMMA CallsInv == ASSUME Inv, NEW c \in Callers, Calls(c)
                  PROVE  Inv'
  BY ServiceAssumption, SMTT(60)
  DEF Calls, CallStart, CallStop, CallRun, CallStreamRun, Post, Call, Goto, lifecycle, handlers,
      Inv, TypeOK, LockDiscipline, UsesHandle, HandleOwnsWorker, OneRunner,
      RunningIsTruthful, InRun, Threads, RunStates, CallerStates, WorkerStates

(* start(): joining and creating the worker keeps thread_ and the worker's    *)
(* life in step, and a worker that replaces another replaces an ended one.    *)
LEMMA StartInv == ASSUME Inv, NEW c \in Callers, StartSteps(c)
                  PROVE  Inv'
<1> USE ServiceAssumption
    DEF Goto, lifecycle, handlers, Inv, TypeOK, LockDiscipline, UsesHandle,
        HandleOwnsWorker, OneRunner, RunningIsTruthful, InRun, Threads,
        RunStates, CallerStates, WorkerStates
<1>1. CASE StartLock(c)
  <2>1. /\ pc[c] = "s_lock"
        /\ startMutex_ = NoOwner
        /\ UNCHANGED <<thread_, isRunning_, waiterWasNotified_, waiting, stopped,
                       guardWait, ready, calls>>
    BY <1>1 DEF StartLock, LockStart
  <2>2. PICK next \in {"idle", "s_stop", "s_spawn"} :
            /\ pc' = [pc EXCEPT ![c] = next]
            /\ next # "idle" => startMutex_' = c
            /\ next = "idle" => startMutex_' = startMutex_
            /\ next = "s_stop" => thread_
            /\ next = "s_spawn" => ~thread_
    BY <1>1 DEF StartLock, LockStart
  <2>3. TypeOK' /\ LockDiscipline' /\ HandleOwnsWorker'
    BY <2>1, <2>2
  <2>4. \A t \in Threads : InRun(t)' <=> InRun(t)
    BY <2>1, <2>2
  <2>5. OneRunner' /\ RunningIsTruthful'
    BY <2>1, <2>4, SameRunners, Zenon
  <2> QED
    BY <2>3, <2>5, Zenon
<1>2. CASE StartJoin(c)
  BY <1>2, ZenonT(60) DEF StartJoin, JoinWorker
<1>3. CASE StartSpawn(c)
  BY <1>3, ZenonT(60) DEF StartSpawn, ResetNotification
<1>4. CASE StartWake(c)
  BY <1>4 DEF StartWake
<1>5. CASE StartHalt(c)
  BY <1>5 DEF StartHalt, StopService
<1> QED
  BY <1>1, <1>2, <1>3, <1>4, <1>5 DEF StartSteps

(* stop(): the worker is dropped only once it has ended. *)
LEMMA StopInv == ASSUME Inv, NEW c \in Callers, StopSteps(c)
                 PROVE  Inv'
<1> USE ServiceAssumption
    DEF Goto, lifecycle, handlers, Inv, TypeOK, LockDiscipline, UsesHandle,
        HandleOwnsWorker, OneRunner, RunningIsTruthful, InRun, Threads,
        RunStates, CallerStates, WorkerStates
<1>1. CASE StopLock(c)
  BY <1>1 DEF StopLock, LockStart, StopService
<1>2. CASE StopJoin(c)
  BY <1>2, ZenonT(60) DEF StopJoin, JoinWorker
<1> QED
  BY <1>1, <1>2 DEF StopSteps

(* run(): a thread claims the service only while nobody holds it. *)
LEMMA RunInv == ASSUME Inv, NEW t \in Threads, RunSteps(t)
                PROVE  Inv'
<1> USE ServiceAssumption
    DEF Goto, lifecycle, handlers, AfterRun, Inv, TypeOK, LockDiscipline, UsesHandle,
        HandleOwnsWorker, OneRunner, RunningIsTruthful, InRun, Threads,
        RunStates, CallerStates, WorkerStates
<1>1. CASE RunEnter(t)
  <2>1. CASE isRunning_
    BY <1>1, <2>1 DEF RunEnter, Claimed
  <2>2. CASE ~isRunning_
    <3>1. \A u \in Threads : pc[u] \notin RunStates
      BY <2>2
    <3>2. pc' = [pc EXCEPT ![t] = "r_restart"] /\ isRunning_' = TRUE
      BY <1>1, <2>2 DEF RunEnter, Claimed, Claim
    <3>3. waiting' \subseteq Callers /\ waiterWasNotified_' = TRUE
      BY <1>1, <2>2 DEF RunEnter, Claimed, Claim
    <3>4. UNCHANGED <<lifecycle, stopped, handlers, calls>>
      BY <1>1 DEF RunEnter
    <3>5. TypeOK' /\ LockDiscipline' /\ HandleOwnsWorker'
      BY <1>1, <3>2, <3>3, <3>4 DEF RunEnter
    <3> QED
      BY <3>1, <3>2, <3>5
  <2> QED
    BY <2>1, <2>2
<1>2. CASE RunRestart(t)
  BY <1>2 DEF RunRestart
<1>3. CASE RunArm(t)
  BY <1>3 DEF RunArm, TimerCallback
<1>4. CASE RunHandler(t)
  <2>1. Tail(ready) \in Seq({"guard", "fn"})
    BY <1>4 DEF RunHandler
  <2>2. ready' \in Seq({"guard", "fn"}) /\ guardWait' \in BOOLEAN
    <3>1. CASE Head(ready) = "guard"
      <4>1. TimerCallback(Tail(ready))
        BY <1>4, <3>1 DEF RunHandler
      <4> QED
        BY <2>1, <4>1 DEF TimerCallback
    <3>2. CASE Head(ready) = "fn"
      BY <1>4, <2>1, <3>2 DEF RunHandler
    <3> QED
      BY <1>4, <3>1, <3>2 DEF RunHandler
  <2> QED
    BY <1>4, <2>2 DEF RunHandler
<1>5. CASE GuardExpires(t)
  <2>1. ready' \in Seq({"guard", "fn"})
    BY <1>5 DEF GuardExpires
  <2> QED
    BY <1>5, <2>1 DEF GuardExpires
<1>6. CASE RunExit(t)
  BY <1>6 DEF RunExit
<1>7. CASE RunClear(t)
  BY <1>7 DEF RunClear
<1> QED
  BY <1>1, <1>2, <1>3, <1>4, <1>5, <1>6, <1>7 DEF RunSteps

(* An exception of a posted function takes its caller out of run() and clears *)
(* the flag in the same breath, so nobody is taken for running afterwards.    *)
LEMMA RunThrowInv == ASSUME Inv, NEW c \in Callers, RunThrow(c)
                     PROVE  Inv'
<1> USE ServiceAssumption
    DEF Goto, lifecycle, handlers, Inv, TypeOK, LockDiscipline, UsesHandle,
        HandleOwnsWorker, OneRunner, RunningIsTruthful, InRun, Threads,
        RunStates, CallerStates, WorkerStates
<1>1. pc[c] = "r_loop" /\ pc' = [pc EXCEPT ![c] = "idle"] /\ isRunning_' = FALSE
  BY DEF RunThrow, ResetRunning
<1>2. ready' \in Seq({"guard", "fn"})
  BY DEF RunThrow
<1>3. UNCHANGED <<startMutex_, thread_, waiterWasNotified_, waiting, stopped,
                  guardWait, calls>>
  BY DEF RunThrow
<1>4. \A u \in Threads : pc'[u] \notin RunStates
  BY <1>1
<1>5. TypeOK' /\ LockDiscipline' /\ HandleOwnsWorker'
  BY <1>1, <1>2, <1>3
<1>6. OneRunner' /\ RunningIsTruthful'
  BY <1>1, <1>4
<1> QED
  BY <1>5, <1>6, Zenon

(* Every step of the specification, stuttering included, keeps the invariant. *)
LEMMA StepInv == Inv /\ [Next]_vars => Inv'
<1> SUFFICES ASSUME Inv, [Next]_vars PROVE Inv'
  OBVIOUS
<1>1. ASSUME NEW c \in Callers, SpuriousWake(c) PROVE Inv'
  BY <1>1, ServiceAssumption
  DEF SpuriousWake, lifecycle, handlers, Inv, TypeOK, LockDiscipline, UsesHandle,
      HandleOwnsWorker, OneRunner, RunningIsTruthful, InRun
<1>2. CASE UNCHANGED vars
  BY <1>2 DEF vars, Inv, TypeOK, LockDiscipline, UsesHandle, HandleOwnsWorker, OneRunner,
              RunningIsTruthful, InRun
<1> QED
  BY <1>1, <1>2, CallsInv, StartInv, StopInv, RunInv, RunThrowInv, Zenon DEF Next

(* The invariant holds in every state of every behaviour of the service. *)
THEOREM Invariance == Spec => []Inv
<1>1. Init => Inv
  BY InitInv
<1>2. Inv /\ [Next]_vars => Inv'
  BY StepInv
<1> QED
  BY <1>1, <1>2, PTL DEF Spec

(* Type correctness: in particular the thread states stay those of a caller   *)
(* or of the worker, and only callers hold startMutex_ or wait.               *)
LEMMA TypeCorrect == Spec => []TypeOK
<1>1. Inv => TypeOK
  BY DEF Inv
<1> QED
  BY <1>1, Invariance, PTL

(* From the test of thread_ to the end of the call, one call of start() or    *)
(* stop() has thread_ to itself and finds there what it tested, for any       *)
(* number of threads in start(), stop() and run().                            *)
THEOREM HandleIsGuarded == Spec => []HandleGuarded
<1>1. Inv => HandleGuarded
  <2>1. ASSUME LockDiscipline, NEW c \in Callers, UsesHandle(c)
        PROVE  thread_ <=> pc[c] # "s_spawn"
    BY <2>1 DEF LockDiscipline, UsesHandle
  <2>2. ASSUME LockDiscipline, NEW c \in Callers, NEW d \in Callers,
               UsesHandle(c), UsesHandle(d)
        PROVE  c = d
    BY <2>2 DEF LockDiscipline
  <2> QED
    BY <2>1, <2>2 DEF Inv, HandleGuarded
<1> QED
  BY <1>1, Invariance, PTL

(* At most one thread executes handlers, for any number of threads calling    *)
(* start() and run(): the claim of RunEnter is exclusive.                     *)
THEOREM MutualExclusion == Spec => []OneRunner
<1>1. Inv => OneRunner
  BY DEF Inv
<1> QED
  BY <1>1, Invariance, PTL

(* isRunning_ is TRUE exactly while some thread is in run(), exceptions       *)
(* thrown by posted functions included.                                       *)
THEOREM TruthfulFlag == Spec => []RunningIsTruthful
<1>1. Inv => RunningIsTruthful
  BY DEF Inv
<1> QED
  BY <1>1, Invariance, PTL

(* No live worker is ever left without its handle thread_, so start() never   *)
(* creates a second one beside it.                                            *)
THEOREM WorkerOwned == Spec => []HandleOwnsWorker
<1>1. Inv => HandleOwnsWorker
  BY DEF Inv
<1> QED
  BY <1>1, Invariance, PTL

-----------------------------------------------------------------------------
(* The guard. *)

(* Appending to the queue loses no guard handler, nor does removing a posted  *)
(* function from its head.                                                    *)
LEMMA QueuedKept ==
    ASSUME ready \in Seq({"guard", "fn"}), GuardQueued,
           \/ \E x \in {"guard", "fn"} : ready' = Append(ready, x)
           \/ ready # <<>> /\ Head(ready) = "fn" /\ ready' = Tail(ready)
    PROVE  GuardQueued'
<1>1. PICK i \in 1..Len(ready) : ready[i] = "guard"
  BY DEF GuardQueued
<1>2. CASE \E x \in {"guard", "fn"} : ready' = Append(ready, x)
  <2>1. i \in 1..Len(ready') /\ ready'[i] = "guard"
    BY <1>1, <1>2
  <2> QED
    BY <2>1 DEF GuardQueued
<1>3. CASE ready # <<>> /\ Head(ready) = "fn" /\ ready' = Tail(ready)
  <2>1. i # 1
    BY <1>1, <1>3
  <2>2. i - 1 \in 1..Len(ready') /\ ready'[i - 1] = "guard"
    BY <1>1, <1>3, <2>1
  <2> QED
    BY <2>2 DEF GuardQueued
<1> QED
  BY <1>2, <1>3

(* A step that brings no thread into service_.run() and does not touch the    *)
(* timer or the queue keeps the guard as it was.                              *)
LEMMA GuardUntouched ==
    ASSUME GuardKeepsBusy, UNCHANGED handlers,
           \A t \in Threads : pc'[t] = "r_loop" => pc[t] = "r_loop"
    PROVE  GuardKeepsBusy'
  BY DEF GuardKeepsBusy, GuardQueued, handlers, Threads

(* The steps of run() hand the guard from the timer to the queue and back:    *)
(* with one thread in run(), nobody else consumes its handler.                *)
LEMMA GuardRunInv == ASSUME Inv, GuardKeepsBusy, NEW t \in Threads, RunSteps(t)
                     PROVE  GuardKeepsBusy'
<1> USE DEF GuardKeepsBusy
<1>0. /\ pc \in [Threads -> CallerStates \cup WorkerStates]
      /\ ready \in Seq({"guard", "fn"})
  BY DEF Inv, TypeOK
<1>1. CASE RunEnter(t)
  BY <1>0, <1>1, GuardUntouched DEF RunEnter, Goto, AfterRun, handlers
<1>2. CASE RunRestart(t)
  BY <1>0, <1>2, GuardUntouched DEF RunRestart, Goto, handlers
<1>3. CASE RunArm(t)
  BY <1>3 DEF RunArm, TimerCallback
<1>4. CASE RunHandler(t)
  <2>1. CASE Head(ready) = "guard"
    BY <1>4, <2>1 DEF RunHandler, TimerCallback
  <2>2. CASE Head(ready) = "fn"
    <3>1. /\ ready # <<>> /\ ready' = Tail(ready)
          /\ UNCHANGED <<pc, guardWait>>
      BY <1>4, <2>2 DEF RunHandler
    <3>2. GuardQueued => GuardQueued'
      BY <1>0, <2>2, <3>1, QueuedKept
    <3> QED
      BY <3>1, <3>2 DEF Threads
  <2> QED
    BY <1>4, <2>1, <2>2 DEF RunHandler
<1>5. CASE GuardExpires(t)
  <2>1. ready' = Append(ready, "guard")
    BY <1>5 DEF GuardExpires
  <2>2. Len(ready') \in 1..Len(ready') /\ ready'[Len(ready')] = "guard"
    BY <1>0, <2>1
  <2> QED
    BY <2>2 DEF GuardQueued
<1>6. CASE RunExit(t)
  BY <1>0, <1>6, GuardUntouched DEF RunExit, Goto, handlers
<1>7. CASE RunClear(t)
  BY <1>0, <1>7, GuardUntouched DEF RunClear, Goto, AfterRun, handlers
<1> QED
  BY <1>1, <1>2, <1>3, <1>4, <1>5, <1>6, <1>7 DEF RunSteps

(* The steps of a caller outside run() leave the guard to the runner. *)
LEMMA GuardCallerInv ==
    ASSUME Inv, GuardKeepsBusy, NEW c \in Callers,
           Calls(c) \/ StartSteps(c) \/ StopSteps(c) \/ SpuriousWake(c) \/ RunThrow(c)
    PROVE  GuardKeepsBusy'
<1>0. /\ pc \in [Threads -> CallerStates \cup WorkerStates]
      /\ ready \in Seq({"guard", "fn"})
      /\ c \in Threads
  BY DEF Inv, TypeOK, Threads
<1>1. CASE Post(c)
  <2>1. ready' = Append(ready, "fn") /\ UNCHANGED <<pc, guardWait>>
    BY <1>1 DEF Post
  <2>2. GuardQueued => GuardQueued'
    BY <1>0, <2>1, QueuedKept
  <2> QED
    BY <2>1, <2>2 DEF GuardKeepsBusy, Threads
<1>2. CASE CallStart(c) \/ CallStop(c) \/ CallRun(c) \/ CallStreamRun(c)
  BY <1>0, <1>2, GuardUntouched
  DEF CallStart, CallStop, CallRun, CallStreamRun, Goto, handlers
<1>3. CASE StartSteps(c)
  BY <1>0, <1>3, GuardUntouched
  DEF StartSteps, StartLock, LockStart, StartHalt, StartJoin, JoinWorker, StartSpawn, StartWake,
      Goto, handlers
<1>4. CASE StopSteps(c) \/ SpuriousWake(c)
  BY <1>0, <1>4, GuardUntouched
  DEF StopSteps, StopLock, LockStart, StopJoin, JoinWorker, SpuriousWake, Goto, handlers
<1>5. CASE RunThrow(c)
  <2>1. pc[c] = "r_loop" /\ pc' = [pc EXCEPT ![c] = "idle"]
    BY <1>5 DEF RunThrow, Goto
  <2>2. \A t \in Threads : pc[t] = "r_loop" => t = c
    BY <1>0, <2>1 DEF Inv, OneRunner, InRun, RunStates
  <2>3. \A t \in Threads : pc'[t] # "r_loop"
    BY <1>0, <2>1, <2>2
  <2> QED
    BY <2>3 DEF GuardKeepsBusy, Threads
<1> QED
  BY <1>1, <1>2, <1>3, <1>4, <1>5 DEF Calls

(* While a thread is in service_.run(), the guard timer is pending or its     *)
(* handler is queued: the service never returns for want of work, however     *)
(* often it is stopped, started and posted to, and whoever runs it.           *)
THEOREM GuardHolds == Spec => []GuardKeepsBusy
<1>1. Init => GuardKeepsBusy
  BY ServiceAssumption DEF Init, GuardKeepsBusy, Threads
<1>2. Inv /\ GuardKeepsBusy /\ [Next]_vars => GuardKeepsBusy'
  <2> SUFFICES ASSUME Inv, GuardKeepsBusy, [Next]_vars PROVE GuardKeepsBusy'
    OBVIOUS
  <2>1. CASE UNCHANGED vars
    BY <2>1 DEF vars, GuardKeepsBusy, GuardQueued, Threads
  <2> QED
    BY <2>1, GuardRunInv, GuardCallerInv, Zenon DEF Next
<1> QED
  BY <1>1, <1>2, Invariance, PTL DEF Spec

-----------------------------------------------------------------------------
(* What start() waits for.  When the callers leave run() to the worker, only   *)
(* the worker notifies, as it enters run(), and the notification of an earlier *)
(* worker was forgotten when this one was created.                            *)

OnlyWorkerRuns == "run" \notin Ops /\ "stream_run" \notin Ops

NotifierInv ==
    /\ \A c \in Callers : pc[c] # "r_enter" /\ ~InRun(c)
    /\ pc[Worker] = "r_enter" => ~waiterWasNotified_

LEMMA StepNotifier == ASSUME OnlyWorkerRuns, TypeOK, NotifierInv, [Next]_vars
                      PROVE  NotifierInv'
<1> USE ServiceAssumption DEF NotifierInv, InRun, RunStates, Goto, Threads
<1>0. pc \in [Threads -> CallerStates \cup WorkerStates] /\ Worker \notin Callers
  BY DEF TypeOK
<1>1. ASSUME NEW c \in Callers, Calls(c) \/ StopSteps(c) \/ SpuriousWake(c)
      PROVE  NotifierInv'
  <2>1. UNCHANGED waiterWasNotified_
    BY <1>1
    DEF Calls, CallStart, CallStop, CallRun, CallStreamRun, Post, StopSteps, StopLock, StopJoin,
        SpuriousWake
  <2>2. \A t \in Threads : pc'[t] = pc[t] \/ pc'[t] \in {"idle", "s_lock", "p_lock", "p_join", "none"}
    BY <1>0, <1>1
    DEF Calls, CallStart, CallStop, CallRun, CallStreamRun, Post, Call, OnlyWorkerRuns,
        StopSteps, StopLock, StopJoin, JoinWorker, SpuriousWake
  <2> QED
    BY <1>0, <2>1, <2>2
<1>2. ASSUME NEW c \in Callers,
             StartLock(c) \/ StartHalt(c) \/ StartJoin(c) \/ StartWake(c)
      PROVE  NotifierInv'
  <2>1. UNCHANGED waiterWasNotified_
    BY <1>2 DEF StartLock, StartHalt, StartJoin, StartWake
  <2>2. \A t \in Threads : \/ pc'[t] = pc[t]
                          \/ pc'[t] \in {"idle", "s_stop", "s_join", "s_spawn", "none"}
    BY <1>0, <1>2 DEF StartLock, LockStart, StartHalt, StartJoin, JoinWorker, StartWake
  <2> QED
    BY <1>0, <2>1, <2>2
<1>3. ASSUME NEW c \in Callers, StartSpawn(c)
      PROVE  NotifierInv'
  BY <1>0, <1>3 DEF StartSpawn, ResetNotification
<1>4. ASSUME NEW t \in Threads, RunSteps(t)
      PROVE  NotifierInv'
  <2>1. t = Worker
    BY <1>4
    DEF RunSteps, RunEnter, RunRestart, RunArm, RunHandler, GuardExpires, RunExit, RunClear
  <2>2. pc' = pc \/ \E s \in {"ended"} \cup RunStates : pc' = [pc EXCEPT ![Worker] = s]
    BY <1>4, <2>1
    DEF RunSteps, RunEnter, RunRestart, RunArm, RunHandler, GuardExpires, RunExit, RunClear, AfterRun
  <2>3. pc' = pc => UNCHANGED waiterWasNotified_
    BY <1>0, <1>4, <2>1
    DEF RunSteps, RunEnter, RunRestart, RunArm, RunHandler, GuardExpires, RunExit, RunClear, AfterRun
  <2> QED
    BY <1>0, <2>2, <2>3
<1>5. ASSUME NEW c \in Callers, RunThrow(c)
      PROVE  FALSE
  BY <1>5 DEF RunThrow
<1>6. UNCHANGED vars => NotifierInv'
  BY DEF vars
<1> QED
  BY <1>1, <1>2, <1>3, <1>4, <1>5, <1>6 DEF Next, StartSteps

(* start() returns from its wait only when the worker it created has entered   *)
(* run(): a spurious wake-up, or what is left of an earlier start(), does not  *)
(* release it.  A caller in run() may, because it notifies as well.           *)
THEOREM StartedWhenReturned == ASSUME OnlyWorkerRuns PROVE Spec => StartedOnReturn
<1>1. Init => NotifierInv
  BY ServiceAssumption DEF Init, NotifierInv, InRun, RunStates, Threads
<1>2. TypeOK /\ NotifierInv /\ [Next]_vars => NotifierInv'
  BY StepNotifier
<1>3. TypeOK /\ NotifierInv /\ [Next]_vars
         => [\A c \in Callers : pc[c] = "s_wait" /\ pc'[c] = "idle" => pc[Worker] # "r_enter"]_vars
  <2> SUFFICES ASSUME TypeOK, NotifierInv, [Next]_vars, NEW c \in Callers, pc[c] = "s_wait",
                      pc'[c] = "idle"
               PROVE  pc[Worker] # "r_enter"
    OBVIOUS
  <2>0. pc \in [Threads -> CallerStates \cup WorkerStates] /\ Worker \notin Callers /\ c \in Threads
    BY ServiceAssumption DEF TypeOK, Threads
  <2>1. ASSUME NEW d \in Callers, StartSteps(d)
        PROVE  waiterWasNotified_
    <3>1. ~StartLock(d) /\ ~StartHalt(d) /\ ~StartJoin(d) /\ ~StartSpawn(d)
      BY <2>0 DEF StartLock, StartHalt, StartJoin, StartSpawn, JoinWorker, Goto
    <3> QED
      BY <2>0, <2>1, <3>1 DEF StartSteps, StartWake, Goto
  <2>2. ASSUME NEW d \in Callers, Calls(d) \/ StopSteps(d) \/ SpuriousWake(d) \/ RunThrow(d)
        PROVE  FALSE
    BY <2>0, <2>2
    DEF Calls, CallStart, CallStop, CallRun, CallStreamRun, Post, Call, StopSteps, StopLock,
        StopJoin, JoinWorker, SpuriousWake, RunThrow, Goto
  <2>3. ASSUME NEW t \in Threads, RunSteps(t)
        PROVE  FALSE
    BY <2>0, <2>3
    DEF RunSteps, RunEnter, RunRestart, RunArm, RunHandler, GuardExpires, RunExit, RunClear,
        AfterRun, Goto
  <2>4. ~UNCHANGED vars
    BY DEF vars
  <2>5. waiterWasNotified_
    BY <2>1, <2>2, <2>3, <2>4 DEF Next
  <2> QED
    BY <2>5 DEF NotifierInv
<1> QED
  BY <1>1, <1>2, <1>3, TypeCorrect, PTL DEF Spec, StartedOnReturn

=============================================================================
