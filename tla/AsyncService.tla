---------------------------- MODULE AsyncService ----------------------------
(***************************************************************************)
(* The life cycle of rtac::asio::AsyncService (src/src/AsyncService.cpp):   *)
(* start(), stop(), run() and post(), called by any number of threads, and  *)
(* the guard timer that keeps the io_service from running out of work.      *)
(*                                                                         *)
(* A step is what a thread does between two points at which another thread  *)
(* can tell the difference.  Every section under waitMutex_ is one step, so *)
(* that mutex is never held between two steps and needs no variable.        *)
(***************************************************************************)
EXTENDS Naturals, Sequences

CONSTANTS
    Callers,     \* the threads of the user of the library
    Worker,      \* the std::thread that start() creates
    NoOwner,     \* value of startMutex_ when it is free
    Ops,         \* which of "start", "stop", "run", "post" and "stream_run"
                 \* (Stream::run) the callers use
    StopSettled, \* TRUE: the body of stop() runs only while no thread is
                 \* between the entry of run() and service_.restart()
    MaxCalls     \* bound on the number of calls in a behaviour

ASSUME ServiceAssumption ==
    /\ Worker \notin Callers
    /\ NoOwner \notin Callers
    /\ Ops \subseteq {"start", "stop", "run", "post", "stream_run"}
    /\ StopSettled \in BOOLEAN
    /\ MaxCalls \in Nat

Threads == Callers \cup {Worker}

VARIABLES
    pc,                 \* what each thread is doing
    startMutex_,        \* the owner of startMutex_
    isRunning_,
    waiterWasNotified_,
    thread_,            \* TRUE when thread_ holds a (joinable) std::thread
    waiting,            \* the threads blocked on waitStart_
    stopped,            \* the stopped flag of the io_service
    guardWait,          \* TRUE when an async_wait is pending on timer_
    ready,              \* the handlers queued in the io_service, oldest first
    calls               \* the number of calls made so far

vars == <<pc, startMutex_, isRunning_, waiterWasNotified_, thread_, waiting,
          stopped, guardWait, ready, calls>>

lifecycle == <<startMutex_, thread_>>
handlers  == <<guardWait, ready>>

-----------------------------------------------------------------------------
(* States of a thread.  "idle" is outside the library; the worker has "none" *)
(* before start() creates it (and after it is joined) and "ended" when run() *)
(* has returned.                                                             *)

RunStates    == {"r_restart", "r_arm", "r_loop", "r_clear"}
CallerStates == {"idle", "s_lock", "s_stop", "s_join", "s_spawn", "s_wait",
                 "p_lock", "p_join", "r_enter"} \cup RunStates
WorkerStates == {"none", "r_enter", "ended"} \cup RunStates

Goto(t, s) == pc' = [pc EXCEPT ![t] = s]

(* Where a thread goes when run() returns. *)
AfterRun(t) == IF t = Worker THEN "ended" ELSE "idle"

InRun(t) == pc[t] \in RunStates

(* thread_->join() returns once the worker's run() has, and the handle is    *)
(* then destroyed; JoinForgotten destroys the handle of a live thread.       *)
JoinForgotten(c, next) ==
    /\ Goto(c, next)
    /\ thread_' = FALSE

JoinWorker(c, next) ==
    /\ pc[Worker] = "ended"
    /\ pc' = [pc EXCEPT ![Worker] = "none", ![c] = next]
    /\ thread_' = FALSE

-----------------------------------------------------------------------------
(* The calls.  A caller that is idle enters an operation it uses. *)

Call(c, op) ==
    /\ pc[c] = "idle"
    /\ op \in Ops
    /\ calls < MaxCalls
    /\ calls' = calls + 1

CallStart(c) ==
    /\ Call(c, "start")
    /\ Goto(c, "s_lock")
    /\ UNCHANGED <<lifecycle, isRunning_, waiterWasNotified_, waiting, stopped,
                   handlers>>

CallStop(c) ==
    /\ Call(c, "stop")
    /\ Goto(c, "p_lock")
    /\ UNCHANGED <<lifecycle, isRunning_, waiterWasNotified_, waiting, stopped,
                   handlers>>

CallRun(c) ==
    /\ Call(c, "run")
    /\ Goto(c, "r_enter")
    /\ UNCHANGED <<lifecycle, isRunning_, waiterWasNotified_, waiting, stopped,
                   handlers>>

(* Stream::run throws if the service is running, but looks at isRunning_       *)
(* before run() claims the service, in a section of its own.                  *)
CallStreamRun(c) ==
    /\ Call(c, "stream_run")
    /\ Goto(c, IF isRunning_ THEN "idle" ELSE "r_enter")
    /\ UNCHANGED <<lifecycle, isRunning_, waiterWasNotified_, waiting, stopped,
                   handlers>>

(* post() hands the function to boost::asio::post and returns. *)
Post(c) ==
    /\ Call(c, "post")
    /\ ready' = Append(ready, "fn")
    /\ UNCHANGED <<pc, lifecycle, isRunning_, waiterWasNotified_, waiting,
                   stopped, guardWait>>

-----------------------------------------------------------------------------
(* The lock_guard of start() and of stop(). *)
LockForgotten(c) == UNCHANGED startMutex_

LockStart(c) ==
    /\ startMutex_ = NoOwner
    /\ startMutex_' = c

-----------------------------------------------------------------------------
(* start() *)

(* service_.stop() makes service_.run() return, when its thread gets there. *)
StopNobody == UNCHANGED stopped

StopService == stopped' = TRUE

(* Under startMutex_: returns at once when the service is running, or goes on *)
(* to join the old worker, if there is one, or to create the new one.        *)
StartLock(c) ==
    /\ pc[c] = "s_lock"
    /\ \/ /\ isRunning_
          /\ startMutex_ = NoOwner
          /\ Goto(c, "idle")
          /\ UNCHANGED startMutex_
       \/ /\ ~isRunning_
          /\ LockStart(c)
          /\ Goto(c, IF thread_ THEN "s_stop" ELSE "s_spawn")
    /\ UNCHANGED <<thread_, isRunning_, waiterWasNotified_, waiting, stopped,
                   handlers, calls>>

(* The service is stopped before the join; by now a caller's run() may have  *)
(* claimed it, which then returns.                                          *)
StartHalt(c) ==
    /\ pc[c] = "s_stop"
    /\ StopService
    /\ Goto(c, "s_join")
    /\ UNCHANGED <<lifecycle, isRunning_, waiterWasNotified_, waiting, handlers,
                   calls>>

(* The old worker is joined and its handle dropped. *)
StartJoin(c) ==
    /\ pc[c] = "s_join"
    /\ JoinWorker(c, "s_spawn")
    /\ UNCHANGED <<startMutex_, isRunning_, waiterWasNotified_, waiting,
                   stopped, handlers, calls>>

(* The notification of an earlier start() must not satisfy this wait. *)
KeepNotification == waiterWasNotified_' = waiterWasNotified_

ResetNotification == waiterWasNotified_' = FALSE

(* Under waitMutex_: creates the worker, forgets any earlier notification   *)
(* and blocks on waitStart_, which releases waitMutex_.                      *)
StartSpawn(c) ==
    /\ pc[c] = "s_spawn"
    /\ thread_' = TRUE
    /\ pc' = [pc EXCEPT ![Worker] = "r_enter", ![c] = "s_wait"]
    /\ ResetNotification
    /\ waiting' = waiting \cup {c}
    /\ UNCHANGED <<startMutex_, isRunning_, stopped, handlers, calls>>

(* Woken, the thread checks the predicate again: it returns or blocks anew. *)
StartWake(c) ==
    /\ pc[c] = "s_wait"
    /\ c \notin waiting
    /\ \/ /\ waiterWasNotified_
          /\ Goto(c, "idle")
          /\ startMutex_' = NoOwner
          /\ UNCHANGED waiting
       \/ /\ ~waiterWasNotified_
          /\ waiting' = waiting \cup {c}
          /\ UNCHANGED <<pc, startMutex_>>
    /\ UNCHANGED <<thread_, isRunning_, waiterWasNotified_, stopped, handlers,
                   calls>>

(* A condition variable may wake a waiter without a notification. *)
SpuriousWake(c) ==
    /\ c \in waiting
    /\ waiting' = waiting \ {c}
    /\ UNCHANGED <<pc, lifecycle, isRunning_, waiterWasNotified_, stopped,
                   handlers, calls>>

-----------------------------------------------------------------------------
(* stop() *)

(* An assumption about the user, where StopSettled makes it.                 *)
Settled == StopSettled => \A t \in Threads : pc[t] \notin {"r_enter", "r_restart"}

StopLock(c) ==
    /\ pc[c] = "p_lock"
    /\ Settled
    /\ StopService
    /\ \/ /\ thread_
          /\ LockStart(c)
          /\ Goto(c, "p_join")
       \/ /\ ~thread_
          /\ startMutex_ = NoOwner
          /\ Goto(c, "idle")
          /\ UNCHANGED startMutex_
    /\ UNCHANGED <<thread_, isRunning_, waiterWasNotified_, waiting, handlers,
                   calls>>

StopJoin(c) ==
    /\ pc[c] = "p_join"
    /\ JoinWorker(c, "idle")
    /\ startMutex_' = NoOwner
    /\ UNCHANGED <<isRunning_, waiterWasNotified_, waiting, stopped, handlers,
                   calls>>

-----------------------------------------------------------------------------
(* run(), by the worker or by a caller *)

(* run() gives up when another thread runs the service ... *)
NeverClaimed == FALSE

Claimed == isRunning_

(* ... and otherwise claims it and notifies the thread in start(), if any. *)
ClaimSilently ==
    /\ isRunning_' = TRUE
    /\ UNCHANGED <<waiterWasNotified_, waiting>>

Claim ==
    /\ isRunning_' = TRUE
    /\ waiterWasNotified_' = TRUE
    /\ IF waiting = {}
       THEN UNCHANGED waiting
       ELSE \E w \in waiting : waiting' = waiting \ {w}

(* The section of run() under waitMutex_. *)
RunEnter(t) ==
    /\ pc[t] = "r_enter"
    /\ \/ /\ Claimed
          /\ Goto(t, AfterRun(t))
          /\ UNCHANGED <<isRunning_, waiterWasNotified_, waiting>>
       \/ /\ ~Claimed
          /\ Claim
          /\ Goto(t, "r_restart")
    /\ UNCHANGED <<lifecycle, stopped, handlers, calls>>

(* service_.restart() clears the stopped flag of the io_service. *)
RunRestart(t) ==
    /\ pc[t] = "r_restart"
    /\ stopped' = FALSE
    /\ Goto(t, "r_arm")
    /\ UNCHANGED <<lifecycle, isRunning_, waiterWasNotified_, waiting, handlers,
                   calls>>

(* expires_from_now() cancels a pending wait, whose handler is queued (with  *)
(* operation_aborted, which timer_callback does not look at), and async_wait *)
(* starts another; `queue' is what the io_service holds beforehand.          *)
TimerCallbackUnarmed(queue) ==
    /\ ready' = queue
    /\ UNCHANGED guardWait

TimerCallback(queue) ==
    /\ ready' = IF guardWait THEN Append(queue, "guard") ELSE queue
    /\ guardWait' = TRUE

RunArm(t) ==
    /\ pc[t] = "r_arm"
    /\ TimerCallback(ready)
    /\ Goto(t, "r_loop")
    /\ UNCHANGED <<lifecycle, isRunning_, waiterWasNotified_, waiting, stopped,
                   calls>>

(* service_.run() executes the oldest handler. *)
RunHandler(t) ==
    /\ pc[t] = "r_loop"
    /\ ~stopped
    /\ ready # <<>>
    /\ \/ /\ Head(ready) = "guard"
          /\ TimerCallback(Tail(ready))
       \/ /\ Head(ready) = "fn"
          /\ ready' = Tail(ready)
          /\ UNCHANGED guardWait
    /\ UNCHANGED <<pc, lifecycle, isRunning_, waiterWasNotified_, waiting,
                   stopped, calls>>

(* The catch clause of run() resets isRunning_ before it rethrows. *)
RethrowOnly == isRunning_' = isRunning_

ResetRunning == isRunning_' = FALSE

(* A posted function throws out of service_.run(): run() resets isRunning_   *)
(* and rethrows to its caller.  (On the worker the exception ends the        *)
(* process, and there is no next state.)                                     *)
RunThrow(c) ==
    /\ pc[c] = "r_loop"
    /\ ~stopped
    /\ ready # <<>>
    /\ Head(ready) = "fn"
    /\ ready' = Tail(ready)
    /\ ResetRunning
    /\ Goto(c, "idle")
    /\ UNCHANGED <<lifecycle, waiterWasNotified_, waiting, stopped, guardWait,
                   calls>>

(* The guard timer expires in the reactor of the thread in service_.run(). *)
GuardExpires(t) ==
    /\ pc[t] = "r_loop"
    /\ ~stopped
    /\ guardWait
    /\ guardWait' = FALSE
    /\ ready' = Append(ready, "guard")
    /\ UNCHANGED <<pc, lifecycle, isRunning_, waiterWasNotified_, waiting,
                   stopped, calls>>

(* service_.run() returns when the io_service is stopped or has no work. *)
RunExit(t) ==
    /\ pc[t] = "r_loop"
    /\ stopped \/ (~guardWait /\ ready = <<>>)
    /\ stopped' = TRUE
    /\ Goto(t, "r_clear")
    /\ UNCHANGED <<lifecycle, isRunning_, waiterWasNotified_, waiting, handlers,
                   calls>>

RunClear(t) ==
    /\ pc[t] = "r_clear"
    /\ isRunning_' = FALSE
    /\ Goto(t, AfterRun(t))
    /\ UNCHANGED <<lifecycle, waiterWasNotified_, waiting, stopped, handlers,
                   calls>>

-----------------------------------------------------------------------------
Init ==
    /\ pc = [t \in Threads |-> IF t = Worker THEN "none" ELSE "idle"]
    /\ startMutex_ = NoOwner
    /\ isRunning_ = FALSE
    /\ waiterWasNotified_ \in BOOLEAN   \* the constructor leaves it uninitialized
    /\ thread_ = FALSE
    /\ waiting = {}
    /\ stopped = FALSE
    /\ guardWait = FALSE
    /\ ready = <<>>
    /\ calls = 0

Calls(c) ==
    CallStart(c) \/ CallStop(c) \/ CallRun(c) \/ CallStreamRun(c) \/ Post(c)

StartSteps(c) ==
    StartLock(c) \/ StartHalt(c) \/ StartJoin(c) \/ StartSpawn(c) \/ StartWake(c)

StopSteps(c) == StopLock(c) \/ StopJoin(c)

RunSteps(t) ==
    \/ RunEnter(t) \/ RunRestart(t) \/ RunArm(t)
    \/ RunHandler(t) \/ GuardExpires(t) \/ RunExit(t) \/ RunClear(t)

Next ==
    \/ \E c \in Callers : Calls(c) \/ StartSteps(c) \/ StopSteps(c)
                          \/ SpuriousWake(c) \/ RunThrow(c)
    \/ \E t \in Threads : RunSteps(t)

Spec == Init /\ [][Next]_vars

(* The operating system schedules every thread, and timers expire: a thread *)
(* inside the library takes its next step.  Nothing obliges the user to     *)
(* call, a waiter to wake spuriously or a function to throw.                *)
Fairness ==
    /\ \A c \in Callers : /\ WF_vars(StartSteps(c))
                          /\ WF_vars(StopSteps(c))
    /\ \A t \in Threads : /\ WF_vars(RunEnter(t))
                          /\ WF_vars(RunRestart(t))
                          /\ WF_vars(RunArm(t))
                          /\ WF_vars(RunHandler(t))
                          /\ WF_vars(GuardExpires(t))
                          /\ WF_vars(RunExit(t))
                          /\ WF_vars(RunClear(t))

FairSpec == Spec /\ Fairness

-----------------------------------------------------------------------------
(* Properties *)

(* Between the test of thread_ and the end of the call. *)
UsesHandle(c) == pc[c] \in {"s_stop", "s_join", "s_spawn", "s_wait", "p_join"}

(* What the owner of startMutex_ knows of thread_ at each step. *)
LockDiscipline ==
    \A c \in Callers :
        /\ UsesHandle(c) => startMutex_ = c
        /\ pc[c] \in {"s_stop", "s_join", "s_wait", "p_join"} => thread_
        /\ pc[c] = "s_spawn" => ~thread_

(* thread_ is used by one call of start() or stop() at a time: nobody joins a *)
(* std::thread that another call joins or has dropped, which is a null        *)
(* pointer or an exception of join(), and start() never assigns over one.    *)
HandleGuarded ==
    /\ \A c, d \in Callers : UsesHandle(c) /\ UsesHandle(d) => c = d
    /\ \A c \in Callers : UsesHandle(c) => (thread_ <=> pc[c] # "s_spawn")

(* Types, and who may hold startMutex_ or wait: a caller inside start() or   *)
(* stop().  The worker never becomes a thread of the user.                   *)
TypeOK ==
    /\ pc \in [Threads -> CallerStates \cup WorkerStates]
    /\ pc[Worker] \in WorkerStates
    /\ \A c \in Callers : pc[c] \in CallerStates
    /\ startMutex_ \in Callers \cup {NoOwner}
    /\ isRunning_ \in BOOLEAN
    /\ waiterWasNotified_ \in BOOLEAN
    /\ thread_ \in BOOLEAN
    /\ waiting \subseteq Callers
    /\ stopped \in BOOLEAN
    /\ guardWait \in BOOLEAN
    /\ ready \in Seq({"guard", "fn"})
    /\ calls \in Nat

(* At most one thread executes the handlers of the service, whichever mix of *)
(* start() and run() is used: every class that posts to the service counts   *)
(* on its handlers not overlapping (run(), isRunning_).                      *)
OneRunner == \A t, u \in Threads : InRun(t) /\ InRun(u) => t = u

(* isRunning_ says whether some thread is in run(), also after an exception: *)
(* start() returns early and Stream::run throws on its word.                 *)
RunningIsTruthful == isRunning_ <=> \E t \in Threads : InRun(t)

(* A worker that exists is held by thread_: no std::thread is ever destroyed *)
(* unjoined, however calls of start() and stop() interleave.                 *)
HandleOwnsWorker == ~thread_ => pc[Worker] = "none"

GuardQueued == \E i \in 1..Len(ready) : ready[i] = "guard"

(* While a thread is in service_.run() the guard timer is pending or its     *)
(* handler queued, so the service never returns for want of work.            *)
GuardKeepsBusy == \A t \in Threads : pc[t] = "r_loop" => guardWait \/ GuardQueued

(* Between two expiries of its one second timeout the guard leaves the       *)
(* thread in service_.run() at rest: it does not keep a handler queued.      *)
GuardRests ==
    \A t \in Threads : pc[t] = "r_loop" ~> (ready = <<>> \/ pc[t] # "r_loop")

(* When start() returns from its wait, the worker it created has claimed the *)
(* service: the caller may rely on the service being, or having been, run.   *)
StartedOnReturn ==
    [][\A c \in Callers : pc[c] = "s_wait" /\ pc'[c] = "idle"
                            => pc[Worker] # "r_enter"]_vars

InStart(c) == pc[c] \in {"s_lock", "s_stop", "s_join", "s_spawn", "s_wait"}
InStop(c)  == pc[c] \in {"p_lock", "p_join"}

(* Every call of start(), and of stop(), returns. *)
StartReturns ==
    \A c \in Callers : InStart(c) ~> pc[c] = "idle"

StopReturns == \A c \in Callers : InStop(c) ~> pc[c] = "idle"

(* A function posted to a service that is running, or posted earlier, gets   *)
(* executed: the guard keeps run() going for it, unless stop() is called.    *)
FnQueued == \E i \in 1..Len(ready) : ready[i] = "fn"

PostedRuns == (FnQueued /\ isRunning_) ~> (~FnQueued \/ \E c \in Callers : InStop(c))

=============================================================================
