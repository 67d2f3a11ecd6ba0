---------------------------- MODULE StreamReader ----------------------------
(***************************************************************************)
(* Requests of rtac::asio::StreamReader (src/src/StreamReader.cpp): the     *)
(* synchronous and asynchronous reads of several threads on one stream, the *)
(* thread that runs the handlers of the service, the timeouts and a device  *)
(* that answers late, in pieces, with an error, or never.                   *)
(*                                                                         *)
(* Bytes are counted, not stored: where a delimiter lies is a choice.  The  *)
(* sections under readMutex_ are single steps; what the code reads or       *)
(* writes without that mutex is read or written by a step of its own.       *)
(***************************************************************************)
EXTENDS Naturals, Sequences, FiniteSets

CONSTANTS
    Callers,      \* the threads of the user
    Worker,       \* the thread in AsyncService::run
    NoOwner,      \* value of mutex_ when it is free
    SyncCallers,  \* the threads that use read and read_until
    AsyncCallers, \* the threads that use the async_ functions; with Worker
                  \* among them, a user callback may start another read
    Kinds,        \* which of "some", "all", "until" are used
    Sizes,        \* the requested sizes
    Timeouts,     \* whether reads are made with a timeout: a set of BOOLEAN
    ReadErrors,   \* TRUE: the device may fail a read
    SlowCaller,   \* TRUE: a timeout may expire while the call that armed it
                  \* has not returned yet
    Modulus,      \* readCounter_ wraps here: 2^32 in the build
    MaxReads      \* bound on the number of accepted reads in a behaviour

Threads == Callers \cup {Worker}

ASSUME ReaderAssumption ==
    /\ Worker \notin Callers
    /\ NoOwner \notin Threads
    /\ SyncCallers \subseteq Callers
    /\ AsyncCallers \subseteq Threads
    /\ Kinds \subseteq {"some", "all", "until"}
    /\ Sizes \subseteq Nat
    /\ Timeouts \subseteq BOOLEAN
    /\ ReadErrors \in BOOLEAN
    /\ SlowCaller \in BOOLEAN
    /\ Modulus \in Nat \ {0}
    /\ MaxReads \in Nat

VARIABLES
    readCounter_,
    readId_,
    requestedSize_,
    processed_,
    dst_,            \* the read that dst_ and callback_ belong to: its place
                     \* in `reads' (every read has its own buffer and callback)
    timer_,          \* the wait pending on timer_: a sequence of at most one
    mutex_,          \* the owner of mutex_
    waiterNotified_,
    readBuffer_,     \* the number of bytes in readBuffer_
    waiting,         \* the threads blocked on waiter_
    ready,           \* the handlers queued in the service; while the worker
                     \* executes one that may touch the request, it is still
                     \* the head
    device,          \* the reads the device has not answered, oldest first
    pc,              \* what each thread is doing
    mine,            \* the read each thread made last
    reads,           \* every read accepted so far
    posted           \* the reads whose callback was posted, in that order

request == <<readCounter_, readId_, requestedSize_, dst_, reads, mine>>
waiter  == <<mutex_, waiterNotified_, waiting>>
vars    == <<request, processed_, timer_, waiter, readBuffer_, ready, device, pc, posted>>

-----------------------------------------------------------------------------
(* Handlers.  `id' and `dst' are the readId_ and the buffer a handler was    *)
(* made for, `n' a number of bytes: the room of a device read, the bytes of  *)
(* a continuation, the count a callback is given.                            *)

Continuation(id, kind) ==
    [what |-> "continue", id |-> id, dst |-> dst_, kind |-> kind, n |-> 0, err |-> FALSE]

TimeoutReached(id, dst) ==
    [what |-> "timeout", id |-> id, dst |-> dst, kind |-> "none", n |-> 0, err |-> FALSE]

UserCallback(err) ==
    [what |-> "callback", id |-> 0, dst |-> dst_, kind |-> "none", n |-> processed_, err |-> err]

Goto(t, s) == pc' = [pc EXCEPT ![t] = s]

(* Where the code after the start of a read takes its caller: a synchronous  *)
(* read goes on to wait, the others return.                                  *)
Started(t) ==
    IF t = Worker THEN "loop" ELSE IF reads[mine[t]].sync THEN "reset" ELSE "idle"

-----------------------------------------------------------------------------
(* Starting a read *)

MayCall(t, sync) ==
    /\ pc[t] = IF t = Worker THEN "callback" ELSE "idle"
    /\ IF sync THEN t \in SyncCallers /\ mutex_ = NoOwner ELSE t \in AsyncCallers

(* Variants of definitions, named for a mistake, precede what they vary.     *)
ArmForgotten(id, dst) == UNCHANGED <<ready, timer_>>

(* expires_from_now() cancels the wait of an earlier read, whose handler is   *)
(* queued with an error timeout_reached does not look at.                    *)
Arm(id, dst) ==
    /\ ready' = ready \o timer_
    /\ timer_' = <<TimeoutReached(id, dst)>>

(* new_read(): a read is refused while another one has its id in readId_. *)
Busy == readId_ # 0

NextId == (readCounter_ + 1) % Modulus

(* An accepted call; read and read_until hold mutex_ from here on. *)
NewRead(t) ==
    \E kind \in Kinds, size \in Sizes, timed \in Timeouts, sync \in BOOLEAN :
        /\ MayCall(t, sync)
        /\ sync => kind # "some"
        /\ ~Busy
        /\ Len(reads) < MaxReads
        /\ readCounter_' = NextId
        /\ readId_' = NextId
        /\ requestedSize_' = size
        /\ processed_' = 0
        /\ dst_' = Len(reads) + 1
        /\ reads' = Append(reads, [kind |-> kind, size |-> size, timed |-> timed, sync |-> sync])
        /\ mine' = [mine EXCEPT ![t] = Len(reads) + 1]
        /\ IF timed THEN Arm(NextId, Len(reads) + 1) ELSE UNCHANGED <<ready, timer_>>
        /\ mutex_' = IF sync THEN t ELSE mutex_
        /\ Goto(t, "issue")
        /\ UNCHANGED <<waiterNotified_, waiting, readBuffer_, device, posted>>

(* A refused call returns false, or 0 bytes, and changes nothing. *)
Refused(t) ==
    /\ \E sync \in BOOLEAN : MayCall(t, sync)
    /\ Busy
    /\ Goto(t, IF t = Worker THEN "loop" ELSE "idle")
    /\ UNCHANGED <<request, processed_, timer_, waiter, readBuffer_, ready, device, posted>>

DoReadSomeUnderflow(count, handler, queue, held) ==
    /\ readBuffer_' = IF held > 0 THEN held - count - 1 ELSE 0
    /\ IF held > 0
       THEN /\ ready' = Append(queue, [handler EXCEPT !.n = IF held < count THEN held ELSE count])
            /\ UNCHANGED device
       ELSE /\ ready' = queue
            /\ device' = Append(device, [handler EXCEPT !.n = count])

DoReadSomeTwice(count, handler, queue, held) ==
    /\ ready' = IF held > 0 THEN Append(queue, [handler EXCEPT !.n = held]) ELSE queue
    /\ device' = Append(device, [handler EXCEPT !.n = count])
    /\ readBuffer_' = 0

(* do_read_some(), with `held' bytes in readBuffer_ and `queue' the handlers *)
(* in the service: bytes of readBuffer_ answer at once, and getting one too  *)
(* many from its istream drops it; else the device is asked.                 *)
DoReadSome(count, handler, queue, held) ==
    \/ /\ held > 0
       /\ LET n == IF held < count THEN held ELSE count
          IN  ready' = Append(queue, [handler EXCEPT !.n = n])
       /\ readBuffer_' = IF held > count THEN held - count - 1 ELSE 0
       /\ UNCHANGED device
    \/ /\ held = 0
       /\ device' = Append(device, [handler EXCEPT !.n = count])
       /\ readBuffer_' = 0
       /\ ready' = queue

(* async_read_until stops at the first of the bytes 1..i of readBuffer_ that *)
(* is the delimiter or fills the request.                                    *)
ScanStops(i) == \A j \in 1..(i - 1) : processed_ + j < requestedSize_

(* What async_read_some, async_read and async_read_until do after new_read,  *)
(* without a lock.                                                           *)
Issue(t) ==
    /\ pc[t] = "issue"
    /\ LET kind == reads[mine[t]].kind
           handler == Continuation(readId_, kind)
       IN \/ /\ kind # "until" \/ readBuffer_ = 0
             /\ DoReadSome(requestedSize_, handler, ready, readBuffer_)
             /\ Goto(t, Started(t))
             /\ UNCHANGED processed_
          \/ /\ kind = "until"
             /\ \E i \in 1..readBuffer_ :
                   /\ ScanStops(i)
                   /\ processed_' = processed_ + i
                   /\ readBuffer_' = readBuffer_ - i
             /\ Goto(t, "finish")
             /\ UNCHANGED <<ready, device>>
          \/ /\ kind = "until"
             /\ readBuffer_ > 0
             /\ processed_ + readBuffer_ < requestedSize_
             /\ processed_' = processed_ + readBuffer_
             /\ DoReadSome(requestedSize_, handler, ready, 0)
             /\ Goto(t, Started(t))
    /\ UNCHANGED <<request, timer_, waiter, posted>>

-----------------------------------------------------------------------------
(* The end of a read *)

FinishReadStaysBusy(err, queue) ==
    /\ ready' = Append(queue, UserCallback(err))
    /\ posted' = Append(posted, dst_)
    /\ UNCHANGED readId_

FinishReadUnchecked(err, queue) ==
    /\ readId_' = 0
    /\ ready' = Append(queue, UserCallback(err))
    /\ posted' = Append(posted, dst_)

(* finish_read(): posts the callback of the current read, unless there is    *)
(* none, which "should not happen".                                          *)
FinishRead(err, queue) ==
    \/ /\ ~Busy
       /\ ready' = queue
       /\ UNCHANGED <<readId_, posted>>
    \/ /\ Busy
       /\ readId_' = 0
       /\ ready' = Append(queue, UserCallback(err))
       /\ posted' = Append(posted, dst_)

(* async_read_until found its delimiter in readBuffer_. *)
FinishInline(t) ==
    /\ pc[t] = "finish"
    /\ FinishRead(FALSE, ready)
    /\ Goto(t, Started(t))
    /\ UNCHANGED <<readCounter_, requestedSize_, dst_, reads, mine, processed_, timer_,
                   waiter, readBuffer_, device>>

(* The last step of a continuation, or of timeout_reached. *)
FinishHandler ==
    /\ pc[Worker] = "end"
    /\ FinishRead(Head(ready).err, Tail(ready))
    /\ Goto(Worker, "loop")
    /\ UNCHANGED <<readCounter_, requestedSize_, dst_, reads, mine, processed_, timer_,
                   waiter, readBuffer_, device>>

-----------------------------------------------------------------------------
(* The handlers, executed one at a time by the worker *)

ReadIdUnchecked(handler) == Busy

(* readid_ok(), under readMutex_: the handler is of the current read. *)
ReadIdOk(handler) == handler.id = readId_

(* A continuation or a timeout that is no longer relevant is dropped. *)
DropHandler ==
    /\ pc[Worker] = "loop"
    /\ ready # <<>>
    /\ Head(ready).what \in {"continue", "timeout"}
    /\ ~ReadIdOk(Head(ready))
    /\ ready' = Tail(ready)
    /\ UNCHANGED <<request, processed_, timer_, waiter, readBuffer_, device, pc, posted>>

EnterHandler ==
    /\ pc[Worker] = "loop"
    /\ ready # <<>>
    /\ Head(ready).what \in {"continue", "timeout"}
    /\ ReadIdOk(Head(ready))
    /\ Goto(Worker, Head(ready).what)
    /\ UNCHANGED <<request, processed_, timer_, waiter, readBuffer_, ready, device, posted>>

(* timeout_reached notifies a waiter, without mutex_, before finish_read. *)
TimeoutNotifies ==
    /\ pc[Worker] = "timeout"
    /\ waiterNotified_' = TRUE
    /\ waiting' = {}
    /\ Goto(Worker, "end")
    /\ UNCHANGED <<request, processed_, timer_, mutex_, readBuffer_, ready, device, posted>>

GoOnFullSize(handler) ==
    /\ processed_' = processed_ + handler.n
    /\ IF handler.err \/ processed_ + handler.n >= requestedSize_
       THEN Goto(Worker, "end") /\ UNCHANGED <<readBuffer_, ready, device>>
       ELSE /\ DoReadSome(requestedSize_, Continuation(handler.id, handler.kind),
                          Tail(ready), readBuffer_)
            /\ Goto(Worker, "loop")

GoOnForgets(handler) ==
    /\ processed_' = processed_ + handler.n
    /\ Goto(Worker, IF processed_ + handler.n >= requestedSize_ THEN "end" ELSE "loop")
    /\ ready' = IF processed_ + handler.n >= requestedSize_ THEN ready ELSE Tail(ready)
    /\ UNCHANGED <<readBuffer_, device>>

(* A continuation that goes on reads what is missing; one that is done, or   *)
(* failed, ends the read.                                                    *)
GoOn(handler) ==
    /\ processed_' = processed_ + handler.n
    /\ \/ /\ handler.err \/ processed_ + handler.n >= requestedSize_
          /\ Goto(Worker, "end")
          /\ UNCHANGED <<readBuffer_, ready, device>>
       \/ /\ ~handler.err
          /\ processed_ + handler.n < requestedSize_
          /\ DoReadSome(requestedSize_ - (processed_ + handler.n),
                        Continuation(handler.id, handler.kind), Tail(ready), readBuffer_)
          /\ Goto(Worker, "loop")

ContinueSome(handler) ==
    /\ handler.kind = "some"
    /\ processed_' = handler.n
    /\ Goto(Worker, "end")
    /\ UNCHANGED <<readBuffer_, ready, device>>

ContinueAllOnce(handler) ==
    /\ handler.kind = "all"
    /\ processed_' = processed_ + handler.n
    /\ Goto(Worker, "end")
    /\ UNCHANGED <<readBuffer_, ready, device>>

ContinueAll(handler) == handler.kind = "all" /\ GoOn(handler)

(* The delimiter is the i-th byte, and those after it go to readBuffer_; or  *)
(* there is none.                                                            *)
ContinueUntil(handler) ==
    /\ handler.kind = "until"
    /\ \/ \E i \in 1..handler.n :
             /\ processed_' = processed_ + i
             /\ readBuffer_' = readBuffer_ + (handler.n - i)
             /\ Goto(Worker, "end")
             /\ UNCHANGED <<ready, device>>
       \/ GoOn(handler)

Continue ==
    /\ pc[Worker] = "continue"
    /\ LET handler == Head(ready)
       IN  ContinueSome(handler) \/ ContinueAll(handler) \/ ContinueUntil(handler)
    /\ UNCHANGED <<request, timer_, waiter, posted>>

ReadCallbackSilent ==
    /\ pc[Worker] = "loop"
    /\ ready # <<>>
    /\ Head(ready).what = "callback"
    /\ reads[Head(ready).dst].sync
    /\ ready' = Tail(ready)
    /\ UNCHANGED <<request, processed_, timer_, waiter, readBuffer_, device, pc, posted>>

(* read_callback notifies the waiters under mutex_. *)
ReadCallback ==
    /\ pc[Worker] = "loop"
    /\ ready # <<>>
    /\ Head(ready).what = "callback"
    /\ reads[Head(ready).dst].sync
    /\ mutex_ = NoOwner
    /\ waiterNotified_' = TRUE
    /\ waiting' = {}
    /\ ready' = Tail(ready)
    /\ UNCHANGED <<request, processed_, timer_, mutex_, readBuffer_, device, pc, posted>>

(* The callback of an asynchronous read is code of the user: it may start a   *)
(* read (NewRead), and it returns.                                           *)
EnterCallback ==
    /\ pc[Worker] = "loop"
    /\ ready # <<>>
    /\ Head(ready).what = "callback"
    /\ ~reads[Head(ready).dst].sync
    /\ ready' = Tail(ready)
    /\ Goto(Worker, "callback")
    /\ UNCHANGED <<request, processed_, timer_, waiter, readBuffer_, device, posted>>

LeaveCallback ==
    /\ pc[Worker] = "callback"
    /\ Goto(Worker, "loop")
    /\ UNCHANGED <<request, processed_, timer_, waiter, readBuffer_, ready, device, posted>>

-----------------------------------------------------------------------------
(* The synchronous calls, which hold mutex_ except when blocked *)

ResetForgotten(t) ==
    /\ pc[t] = "reset"
    /\ Goto(t, "check")
    /\ UNCHANGED <<request, processed_, timer_, waiter, readBuffer_, ready, device, posted>>

ResetNotified(t) ==
    /\ pc[t] = "reset"
    /\ waiterNotified_' = FALSE
    /\ Goto(t, "check")
    /\ UNCHANGED <<request, processed_, timer_, mutex_, waiting, readBuffer_, ready, device,
                   posted>>

(* The predicate of waiter_.wait: the call returns processed_, or ... *)
CheckNotified(t) ==
    /\ pc[t] = "check"
    /\ IF waiterNotified_
       THEN Goto(t, "idle") /\ mutex_' = NoOwner
       ELSE Goto(t, "block") /\ UNCHANGED mutex_
    /\ UNCHANGED <<request, processed_, timer_, waiterNotified_, waiting, readBuffer_, ready,
                   device, posted>>

(* ... blocks.  A notification made since the predicate was looked at is not  *)
(* seen, unless its author held mutex_.                                      *)
Block(t) ==
    /\ pc[t] = "block"
    /\ mutex_' = NoOwner
    /\ waiting' = waiting \cup {t}
    /\ Goto(t, "asleep")
    /\ UNCHANGED <<request, processed_, timer_, waiterNotified_, readBuffer_, ready, device,
                   posted>>

Wake(t) ==
    /\ pc[t] = "asleep"
    /\ t \notin waiting
    /\ mutex_ = NoOwner
    /\ mutex_' = t
    /\ Goto(t, "check")
    /\ UNCHANGED <<request, processed_, timer_, waiterNotified_, waiting, readBuffer_, ready,
                   device, posted>>

SpuriousWake(t) ==
    /\ t \in waiting
    /\ waiting' = waiting \ {t}
    /\ UNCHANGED <<request, processed_, timer_, mutex_, waiterNotified_, readBuffer_, ready,
                   device, pc, posted>>

-----------------------------------------------------------------------------
(* flush() *)
Flush(t) ==
    /\ pc[t] = "idle"
    /\ readBuffer_' = 0
    /\ UNCHANGED <<request, processed_, timer_, waiter, ready, device, pc, posted>>

(* The environment: timers, and the device (a socket or a serial port, whose *)
(* reads are answered in order).                                             *)

TimerExpires ==
    /\ timer_ # <<>>
    /\ SlowCaller \/ \A t \in Threads : pc[t] \notin {"issue", "finish"}
    /\ ready' = ready \o timer_
    /\ timer_' = <<>>
    /\ UNCHANGED <<request, processed_, waiter, readBuffer_, device, pc, posted>>

Answer(op) ==
    /\ ready' = Append(ready, op)
    /\ device' = Tail(device)
    /\ UNCHANGED <<request, processed_, timer_, waiter, readBuffer_, pc, posted>>

DeviceDelivers ==
    /\ device # <<>>
    /\ \E n \in 0..Head(device).n :
          /\ n = 0 => Head(device).n = 0
          /\ Answer([Head(device) EXCEPT !.n = n])

DeviceFails ==
    /\ ReadErrors
    /\ device # <<>>
    /\ Answer([Head(device) EXCEPT !.n = 0, !.err = TRUE])

-----------------------------------------------------------------------------
Init ==
    /\ readCounter_ = 0
    /\ readId_ = 0
    /\ requestedSize_ = 0
    /\ processed_ = 0
    /\ dst_ = 0
    /\ timer_ = <<>>
    /\ mutex_ = NoOwner
    /\ waiterNotified_ \in BOOLEAN    \* the constructor leaves it uninitialized
    /\ readBuffer_ = 0
    /\ waiting = {}
    /\ ready = <<>>
    /\ device = <<>>
    /\ pc = [t \in Threads |-> IF t = Worker THEN "loop" ELSE "idle"]
    /\ mine = [t \in Threads |-> 0]
    /\ reads = <<>>
    /\ posted = <<>>

StartSteps(t) == Issue(t) \/ FinishInline(t)

SyncSteps(t) == ResetNotified(t) \/ CheckNotified(t) \/ Block(t) \/ Wake(t)

WorkerSteps ==
    \/ DropHandler \/ EnterHandler \/ TimeoutNotifies \/ Continue \/ FinishHandler
    \/ ReadCallback \/ EnterCallback \/ LeaveCallback

Environment == TimerExpires \/ DeviceDelivers \/ DeviceFails

Next ==
    \/ \E t \in Threads : NewRead(t) \/ Refused(t) \/ StartSteps(t)
    \/ \E c \in Callers : SyncSteps(c) \/ SpuriousWake(c) \/ Flush(c)
    \/ WorkerSteps
    \/ Environment

Spec == Init /\ [][Next]_vars

(* Threads are scheduled, a mutex that is free time and again is obtained,   *)
(* and timers expire.  Nothing is assumed of the user or of the device.      *)
Fairness ==
    /\ \A t \in Threads : WF_vars(StartSteps(t))
    /\ \A c \in Callers : SF_vars(Wake(c)) /\ WF_vars(SyncSteps(c))
    /\ SF_vars(ReadCallback)
    /\ WF_vars(WorkerSteps)
    /\ WF_vars(TimerExpires)

FairSpec == Spec /\ Fairness

(* A device that answers every read. *)
AnsweringSpec == FairSpec /\ WF_vars(DeviceDelivers)

-----------------------------------------------------------------------------
(* Properties *)

CallerStates == {"idle", "issue", "finish", "reset", "check", "block", "asleep"}
WorkerStates == {"loop", "issue", "finish", "continue", "timeout", "end", "callback"}

Handlers ==
    [what : {"continue", "timeout", "callback"}, id : Nat, dst : Nat,
     kind : Kinds \cup {"none"}, n : Nat, err : BOOLEAN]

Reads == [kind : Kinds, size : Sizes, timed : BOOLEAN, sync : BOOLEAN]

(* Types; the ids stay below the width of the counter, and mutex_ is held by *)
(* a caller.                                                                 *)
TypeOK ==
    /\ readCounter_ \in 0..(Modulus - 1)
    /\ readId_ \in 0..(Modulus - 1)
    /\ requestedSize_ \in Nat
    /\ processed_ \in Nat
    /\ dst_ \in Nat
    /\ timer_ \in Seq(Handlers)
    /\ mutex_ \in Callers \cup {NoOwner}
    /\ waiterNotified_ \in BOOLEAN
    /\ readBuffer_ \in Nat
    /\ waiting \subseteq Callers
    /\ ready \in Seq(Handlers)
    /\ device \in Seq(Handlers)
    /\ pc \in [Threads -> CallerStates \cup WorkerStates]
    /\ mine \in [Threads -> Nat]
    /\ reads \in Seq(Reads)
    /\ posted \in Seq(Nat)

(* Every accepted read has one outcome: the callbacks are posted in the      *)
(* order the reads were accepted, each once, and only the read that has its  *)
(* id in readId_ is without one.                                             *)
OneOutcome ==
    /\ \A i \in 1..Len(posted) : posted[i] = i
    /\ Len(reads) = Len(posted) + IF Busy THEN 1 ELSE 0

InHandler == pc[Worker] \in {"continue", "timeout", "end"}

(* A handler that got past readid_ok acts on the read it was made for: an    *)
(* answer of the device or a timeout that comes late never ends another read.*)
LateIsIgnored == InHandler => Busy /\ Head(ready).dst = dst_

IndexesOf(queue, what) == {i \in 1..Len(queue) : queue[i].what = what /\ queue[i].id = readId_}

(* What the current read is waiting for, its timeout aside. *)
UnderWay ==
    Cardinality({t \in Threads : pc[t] \in {"issue", "finish"}})
    + Cardinality(IndexesOf(device, "continue"))
    + Cardinality(IndexesOf(ready, "continue"))

(* While a read is in progress exactly one thing is under way that will carry *)
(* it on: its call, a read of the device or a queued continuation.  With none *)
(* the reader would be busy for ever, with two it would take bytes out of     *)
(* order.                                                                     *)
OneUnderWay == Busy => UnderWay = 1

(* No read but read_until ever counts more bytes than its buffer has room for.*)
CountInBound ==
    Busy /\ reads[dst_].kind # "until" => processed_ <= requestedSize_

(* The same of read_until, whose buffer has room for maxSize bytes. *)
UntilInBound ==
    Busy /\ reads[dst_].kind = "until" => processed_ <= requestedSize_

(* The callback of an async_read without a timeout that reports no error is   *)
(* given the requested count, bound before another read resets processed_.    *)
FullCount ==
    \A i \in 1..Len(ready) :
        LET handler == ready[i]
            read    == reads[handler.dst]
        IN  handler.what = "callback" /\ ~handler.err /\ read.kind = "all" /\ ~read.timed
              => handler.n = read.size

Returns(c) == pc[c] = "check" /\ pc'[c] = "idle"

Over(k) == k <= Len(posted)

(* A synchronous read returns only once its read is over, so that the caller  *)
(* may reuse its buffer.                                                      *)
ReturnsWhenOver == [][\A c \in Callers : Returns(c) => Over(mine[c])]_vars

TimeoutNotified(k) ==
    pc[Worker] = "end" /\ Head(ready).what = "timeout" /\ Head(ready).dst = k

(* A read that was notified has ended, or is about to: what wakes the caller  *)
(* of a synchronous read before its end is its own timeout, which notifies    *)
(* first, and never what an earlier read left behind.                         *)
NoStaleWakeUp ==
    [][\A c \in Callers :
           Returns(c) => Over(mine[c]) \/ TimeoutNotified(mine[c])]_vars

(* The count a synchronous read returns is the count of its own read. *)
ReturnsOwnCount == [][\A c \in Callers : Returns(c) => dst_ = mine[c]]_vars

(* finish_read always has a read to end. *)
AlwaysAReadToEnd == pc[Worker] = "end" => Busy

InSync(c) == pc[c] \in {"reset", "check", "block", "asleep"}

(* With a timeout, a synchronous read returns even if the device is silent.   *)
SyncReturns == \A c \in Callers : InSync(c) ~> ~InSync(c)

(* A synchronous read returns once it is over, also when other reads follow.  *)
OverReturns == \A c \in Callers : InSync(c) /\ Over(mine[c]) ~> ~InSync(c)

(* An accepted read comes to its end. *)
ReadEnds == \A k \in 1..MaxReads : Len(reads) >= k ~> Over(k)

=============================================================================
