# rtac_asio in TLA+

This directory specifies rtac_asio, a small C++ layer over boost::asio for serial
ports and TCP/UDP clients: what its threads, handlers, timers, locks and devices do
to each other and to the bytes that pass. The modules are translated from the code in
`src/`; TLC checks small instances of them and TLAPS proves the theorems for all.

## The system

| Component | State | Operations | Made correct by |
|---|---|---|---|
| `AsyncService` | `io_service`, worker `thread_`, `isRunning_`, `startMutex_`, `waitMutex_`/`waitStart_`/`waiterWasNotified_`, guard `timer_` | `start`, `stop`, `run` (also as `Stream::run`), `post`, `is_running`, `timer_callback` | one thread runs the handlers; the flag tells who; no thread is lost; the service never returns for want of work; calls return |
| `StreamReader` | current request (`readCounter_`, `readId_`, `requestedSize_`, `processed_`, `dst_`, `callback_`), `timer_`, `readBuffer_`, `rxDump_`, `mutex_`/`waiter_`/`waiterNotified_` | `async_read_some`, `async_read`, `async_read_until`, `read`, `read_until`, `flush`, `reset`, `enable_dump`, `disable_dump`, the continuations, `timeout_reached`, `read_callback` | one callback for each accepted read; late handlers ignored; bytes within the buffer and in order; synchronous calls return when, and only when, they should |
| `StreamWriter` | the same for one write, without a buffer; `txDump_` | `async_write_some`, `async_write`, `write`, `flush`, `reset`, `enable_dump`, `disable_dump`, ... | the same; the bytes of one write contiguous on the wire, counted truly, dumped in order; the buffer of a write that is over not used any more |
| `UDPClientStream` | `socket_`, `buffer_`, `bufferBegin_`, `bufferEnd_` | `async_read_some`, `receive_continue`, `flush`, `reset`, `close` | bytes of datagrams handed over once and in order |
| `TCPClientStream`, `SerialStream` | `socket_` / `serial_` | `reset`, `close`, `flush`, forwarded reads and writes | what was outstanding is answered when the device is closed |
| `StringStream` | `buffer_` | loop-back reads and writes, `flush`, `reset` | what is written is read, in order, within the capacity |
| `Stream` | a reader and a writer on one device | forwards; `flush`, `reset` and the dump files of both | bytes written reach the reads in order, and are lost only where the code says |
| `StreamInterface`, `ip_utils`, tests | none | | |

How they interact. A user thread calls the reader or the writer, which records
the request under its own mutex, arms a timer and asks the device
(`StreamInterface::async_read_some`) for bytes. One thread, in
`AsyncService::run`, executes every handler: continuations of the device,
timeouts, and the callbacks that `finish_read` posts. A synchronous call waits on
a condition variable that its own callback, or the timeout, notifies. Handlers
are bound to `this`; the ids in them are compared with the current one
(`readid_ok`) before they act.

What is hard here: calls of several threads between the locked sections of one
operation, the worker that is created, claims the service and is stopped while
others look at unlocked flags, the timeout that races the answer it replaces,
answers that arrive for a request that has ended, a device that is closed, reset or
broken with requests outstanding, bytes that wait in three buffers, and the two-step
wake-up of a synchronous call. `PROJECT.json` lists each such hazard at its line with the
properties that would show it going wrong.

## The modules

`AsyncService.tla`. `pc` says where each thread of the user, and the worker, is
in `start`, `stop` or `run`; the other variables are the members of the class and
of the `io_service` (its stopped flag, its queue of handlers, the pending wait of
the guard timer). A step is what a thread does between two points where another
thread can tell the difference: every section under `waitMutex_` is a single step,
so that mutex needs no variable, while `startMutex_`, held while joining and
waiting, has one. `start` under it is four steps (the tests, `service_.stop()`, the
join, the new worker), since a caller's `run` claims the service without it. The plain `bool` `isRunning_` is read and written atomically,
one access at a time. `waiterWasNotified_`, which the constructor leaves
uninitialized, starts with either value. There is never more than one
`std::thread` (`HandleOwnsWorker`), so the worker is a constant whose `pc` goes
from `none` to `ended` and back when it is joined. `Stream::run` (`CallStreamRun`) reads
the flag before it calls `run`, which tests it again. An exception that a posted
function throws leaves `run()` for the caller that called it (`RunThrow`); on the
worker it ends the process, which has no next state.

`StreamReader.tla`. The members of the class, the queue `ready` of handlers of
the service, the reads `device` has not answered, and the `pc` of the callers and
of the worker. A read is identified by its place in `reads`, the accepted reads:
that is the value of `dst_`, since every read has its own buffer and callback.
Sections under `readMutex_` are single steps; `readid_ok` and `finish_read` are
two, as in the code, and so are `new_read` and what follows it. `mutex_`, held
across several steps by a synchronous call, is a variable. Bytes are counted:
where a delimiter lies among them is a free choice. A device read is answered in
order, by 1 to n bytes, with an error, or never. Three calls are not told apart
by their names but by `kind`: `some`, `all` and `until`; `read` and `read_until`
are `all` and `until` with `mutex_` held. The worker is assumed to be running.
A stream buffer used by two threads at once (`flush` against a handler) is
undefined behaviour in C++; here each use of `readBuffer_` is one step.

`Devices.tla`. Operators for what stands behind a writer, chosen by `transport`.
`link` is `socket_` or `serial_`: null, open, or open without a peer; using a null
one makes it `crashed`, after which nothing happens (`Running`). A socket or a port
keeps the writes in `outgoing` and takes some bytes of the oldest, or fails it once
the peer is gone, or never answers; `close` and `reset` answer all with errors. A
`StringStream` answers at once with what there was room for.

`StreamWriter.tla`. The steps are cut as in `StreamReader`: sections under
`writeMutex_` are single, what lies between them is not. A byte is the pair of its
write and its place in it, so that `wire` (what devices accepted) and `dumped` (the
dump file) can be compared with the writes. `dump_callback` is part of the first
step of a handler, whether `writeid_ok` then lets it pass or not. User code, in a
thread or in a callback, may also reset, flush or close the device. Overlapping
calls of one device are left out, since boost::asio forbids them.

`ClosedWriter.tla`. `StreamWriter` with a history variable, `abandoned`: the writes
that had an operation outstanding when `close` or `reset` was called, whether the call
closed the device or returned early. `ClosedEnds` says that they end.

`LoopBack.tla`. A `Stream` over a `StringStream`, as in
`tests/src/string_stream.cpp`. It extends `StreamWriter` and adds the reader with
the bytes that `StreamReader` only counts: those in `buffer_`, in `readBuffer_`
(`DoReadSome` with the byte that `istream::get` takes in excess), in the buffer of
the current read (`dst_`), in queued callbacks and in the dump file. The locks of
the reader being the subject of `StreamReader`, here a call or a handler of the
reader is one step, and only asynchronous calls are made. The last byte of a write
is a delimiter.

`ByteStream.tla`. What a device promises the reader: bytes are handed over in the
order of arrival, none twice, none missing but those discarded at once. The
specification of the code adds who may discard: `flush` and `reset`
(`OnlyFlushDrops`, part of `ImplementsByteStream`).

`UDPClientStream.tla`. Its members, with bytes numbered by arrival, the reads that
`async_receive` holds (`waiting`) and those whose handler is queued
(`completed`). The socket writes a datagram into `buffer_` when it arrives and
`receive_continue` moves `bufferEnd_` later: `flush`, `reset` and `close` may come
in between. `close` of a socket whose `connect` threw leaves it open, as the early
return does. The refinement maps `next` to the first unread byte or, when the
buffer is empty, to the first byte of the datagram whose handler has not run.
`MaxOutstanding` is one unless the reader gives a read up, which is what
`OneUnderWay` of `StreamReader` is about. Calls on the stream that overlap a
handler are a data race and left out; a null `socket_` ends the process.

`MCAsyncService`, `MCStreamReader`, `MCStreamWriter`, `MCLoopBack` and
`MCUDPClientStream` name the sets the configurations use. `AsyncServiceProofs`,
`StreamReaderProofs`, `StreamReaderUnderWayProofs`,
`StreamWriterProofs`, `StreamWriterWireProofs`, `LoopBackProofs`, `ByteStreamProofs`
and `UDPClientStreamProofs` hold the theorems.

Definitions called after a mistake (`JoinForgotten`, `FinishReadStaysBusy`, ...)
are variants of the definition that follows them; no specification uses them.
`PROJECT.json` pairs each with the property that notices it.

## The runs

The bounds of `AsyncService` are the number of calls (`MaxCalls`) and of threads.
Two threads are the least that interleave with each other and with the worker;
seven calls let a service be started, stopped, started again and raced by `run`
while functions are queued. `StreamReader` bounds the accepted reads (`MaxReads`):
one read leaves late handlers behind, the second one suffers them, the third
starts from the state they leave. Sizes 1 and 2 tell a whole answer from a
partial one. For UDP a buffer of three bytes takes empty, small and full
datagrams, and eight bytes let it fill, empty and fill again.

`writer` makes two writes of two bytes from one thread and from the callbacks: a
partial answer, a timeout that leaves an operation outstanding, and a second write
that meets its late answer; one call of `close`, `reset` or `flush` comes at any
point. `loop_back` makes two writes of one or two bytes into a memory of three, so
that it fills, and two reads out of four kinds: `async_read_some` of one byte, a
timed `async_read` of two, `async_read_until` of two and of three, which leaves up
to two bytes in `readBuffer_`; one `flush`, `reset` or change of the dump files
(`MaxControls`) comes at any point.

`CHECK_DEADLOCK` is off everywhere: once the bounded calls are made the user may do
nothing for ever.

| Run | Shows |
|---|---|
| `service_safety` | all operations by two threads: mutual exclusion in `run`, truthful flag, `thread_` joined, dropped and assigned by one call at a time, no lost worker, guard |
| `service_live` | `start`, `stop`, `post` by two threads: every call returns, posted functions run, `start` returns after its own worker |
| `service_stop_race` | counterexample: `stop` right after `start` never returns |
| `reader_async` | asynchronous reads with timeouts, errors, callbacks that read again |
| `reader_sync` | without timeouts `read` returns only when its read is over, also beside an asynchronous reader |
| `reader_live` | with timeouts every synchronous call returns though the device is silent and timeouts are early |
| `reader_until` | counterexample: `read_until` counts more bytes than `maxSize` |
| `reader_early` | counterexample: the `read_callback` of a read that timed out stays queued, wakes the next `read`, and this one returns while it is in progress |
| `writer` | writes to sockets and ports that are slow, broken, closed or reset: order and bounds of the bytes on the wire, truth of the counts, the dump file, release of buffers, and an end for every timed write and for every write that `close` or `reset` found outstanding |
| `loop_back` | bytes through `Stream`, `StringStream` and `readBuffer_`: order, none that was not written, delimiters, dump file, where bytes may be lost, and an end for a timed read while the worker spins on an empty memory |
| `udp_stream` | one read at a time: the datagram buffer implements `ByteStream`, only `flush` and `reset` drop bytes, and a receive writes over nothing unread |
| `udp_timeout` | counterexample: with the receive of an abandoned read outstanding, unread bytes are overwritten |

Two constants state assumptions, and the runs above say where they are made.
`StopSettled`: `stop` takes effect only when no thread is between the entry of
`run` and `service_.restart()`; without it `StopReturns` fails
(`service_stop_race`). `SlowCaller = FALSE` (in all but `reader_live`): a timeout, which is a number of
milliseconds, does not expire while the call that armed it has not returned;
`LateIsIgnored` (of reader and writer), `OneUnderWay` and the orders on the wire need
it. The delimiter of `loop_back` is below 128 (`WideDelimiter = FALSE`).

Fairness. The operating system schedules every thread that can move, so each step
of a thread inside the library is weakly fair; timers expire. `Wake` and
`ReadCallback` need `mutex_` and are strongly fair: a mutex that is free time and
again is obtained, and so is `WriteCallback`. Fairness of the writer is that of a
process that still runs. In `loop_back` the queue alone decides: a timeout reaches
its head although the continuations before it re-queue themselves. Nothing obliges the user to call, the device to answer, a
waiter to wake up spuriously or a function to throw.

## The proofs

`AsyncServiceProofs` proves, for any set of threads, any mix of operations and
any number of calls, `OneRunner`, `RunningIsTruthful`, `HandleOwnsWorker`,
`HandleGuarded` and `GuardKeepsBusy`. The inductive invariant `Inv` is the
conjunction of `TypeOK`, the first three and `LockDiscipline`. Mutual exclusion is not
inductive alone: a thread enters `run` because `isRunning_` is FALSE, so the flag
must tell the truth; and `StartSpawn` puts the worker at the entry of `run`
whatever it did before, so the worker must be known to be dead, which is
`HandleOwnsWorker` together with what the owner of `startMutex_` knows of
`thread_` at each step (`LockDiscipline`). That also gives `HandleGuarded`: a call
that has not the mutex touches no handle. `GuardKeepsBusy` then holds because
the only thread that takes the guard's handler from the queue re-arms the timer,
and `OneRunner` says there is no other. `StartedWhenReturned` proves the action
property `StartedOnReturn` when the callers do not use `run` themselves
(`OnlyWorkerRuns`): then only a worker notifies, and not before it has entered
`run` (`NotifierInv`). A caller's `run` would notify the thread in `start` before
the worker has moved.

`StreamReaderProofs` proves `OneOutcome` under `NoWrap` (fewer reads than the
counter has values): with reads numbered in the order of acceptance, the number
of posted callbacks is the number of accepted reads, less the one in progress.
It holds whatever the timers do (`SlowCaller` included). `ReaderTypes` proves
`TypeOK` from `TypeInv` and `Handling`, and `LateAnswersIgnored` proves
`LateIsIgnored` under `NoWrap` and `~SlowCaller`, along the argument given below
for the writer. `ReturnsOver` proves the action property `ReturnsWhenOver` under
`NoWrap`, without timeouts (`NoTimeouts`) and with one synchronous caller
(`OneSyncCaller`), asynchronous ones aside; it holds with `SlowCaller` too, which
then has nothing to delay. `SyncInv` says that the caller of a synchronous read
stays in its call, unnotified, while its callback is missing or queued; that a
notified caller's read is over; and that callbacks are queued in the order of
their reads, so that none is left of an earlier one. A second caller, or a
timeout, leaves one behind: see the limits below.

The next three theorems assume the same two conditions and build on that
invariant. In `StreamReaderUnderWayProofs`, `WaitsForOneThing` proves
`OneUnderWay`. Its `UnderWayInv` counts by positions: among the queue and the
device together exactly one handler carries the number of the current read,
unless a thread is still starting it (`Carried`). A timeout leaves the answer of
its read behind, but no later read has that number; and a continuation that
re-issues its read is itself the one handler that carries it, which takes knowing
that it is still at the head of the queue when it is removed (`AtHead`).

It also proves `CountInBound` and `FullCount`. `FitInv` says
that what the one continuation of the current read brings fits into what is left
to count, so adding it cannot pass `requestedSize_`; a second continuation, which
`Carried` excludes, could. `FullInv` says that what each handler tells of its
read is true (`TrueOf`): its kind, whether it has a timeout, and, once a callback
is posted, the count bound to it, which later reads no longer disturb.

`StreamWriterProofs` proves the first of these of the writer, over every device, and
four more theorems. `WriterTypes` (`TypeOK`) rests on `TypeInv`, which also knows that a thread
about to issue a write has made one, and on `Handling`, that a handler in execution
is still the head of the queue whatever other threads, `close` and `reset` append to
it. `LateHandlersIgnored` (`LateIsIgnored`) assumes `NoWrap` and `~SlowCaller`. Its
`LateInv` says that every handler queued, outstanding or armed carries the number of
an accepted write as its id and as its buffer; that while a write has not been
issued no handler has its number yet (`IssuedLast`); and that a handler in execution
is of the write in progress (`Current`). That last part fails as soon as another
thread can end the write between `writeid_ok` and `finish_write`; only the worker
does, and no second thread is at `issue` with it, because the write must be ended,
by a handler, before another is accepted. With `SlowCaller` the timeout is such a
handler before the issue, and with a wrapped counter two writes share an id. The theorems
that follow share these two assumptions. `TruthInv` says that what a handler tells
of its write is true (its kind, its timeout, that it ends within the buffer), from
which `WritesWithinBuffer` (`WithinBuffer`) follows. `ReturnsOver` proves
`ReturnsWhenOver` of the writer, with one synchronous caller. Its writes may not
have timeouts, those of others may: such a timeout notifies the caller as well, but
`CallbackOrder` (a callback is queued behind every handler of its write and of
earlier ones) and `TruthInv` tell that the caller's own write is then over and its
callback gone.

`StreamWriterWireProofs` proves what the writer gives the device, by invariants that
rest on one another and on `TruthInv`. `OrderInv` says that the answers in the queue, then those of the outstanding
operations, are of ascending writes, so that a write has one operation at a time: a
device answers its operations in their order, and `close` and `reset` answer all
that are left. `PieceInv` says what comes next on the wire: the oldest operation goes
on where the wire stops, the others start their writes, and `processed_` counts what
the wire held before the answer that is still queued. `BytesInOrder` (`WireInOrder`)
rests on it, and so does `CountsAreTrue` (`CountIsTrue`): a write without a timeout
ends by its only answer, when nothing is outstanding (`EndsAlone`, which also gives
`BuffersReleased`), and no byte of it can follow. For `DumpHoldsWire` (`DumpIsWire`)
the bytes reported by queued answers are a backlog of the file: `DumpInv` says that
what the file holds is behind every answer queued, outstanding or about to be made
(`Fits`), so `dump_callback`, which runs for late answers too, appends in order and
removes from the backlog what it appends and nothing else.

`LoopBackProofs` follows the bytes through the whole `Stream`. Its theorems assume
`NoWrap` and `~SlowCaller`; the delimiter matters to the last only. The writer's
part of the invariant (`WriterInv`, over `OutcomeInv`) is what its proofs know, for a
memory that answers at once: the bytes it adds come after all written before
(`Grows`). The steps then fall into three kinds (`LoopKinds`): the writer
feeds the memory (`Feeds`); a call or a handler serves a read (`ReadServed`), which
ends it (`Finishes`) or gives it bytes from `readBuffer_` or the memory (`Asks`); and
all others, `flush`, `reset` and the dump files among them, only drop handlers or
bytes, or take a callback (`Calm`). `BytesComeInOrder` proves `PipelineInOrder` by `FlowInv`: the bytes
handed over, those of the callbacks in the order of the queue, then `Order` of what
the current read has, its one answer, `readBuffer_` and the memory form a line in
which each precedes the next. That only one answer is of the current read is part
of it, since two would come in the order of the queue and not of the bytes; late
answers are outside the line, for no read takes them. A read until a delimiter that
puts bytes back into `readBuffer_` keeps the order only when nothing waits there,
which `UntilInv` states. Everything in the line is on the wire (`Inside`, part of
`FlowInv` and of `DumpLine`), which is `NothingIsMadeUp` (`NothingMadeUp`): the bytes a
read takes out of `readBuffer_` end where the buffer does. `BytesAreDumpedOnce` (`DumpedOnce`) has a line of its own,
from the file over the answers still to be dumped, late ones included, to the memory
(`DumpLine`); `DumpCovers` says that what did not come with such an answer is in the
file already. `ReadsUntilDelimiter` (`UntilExact`) assumes `~WideDelimiter`: by
`ExactInv` no byte that a read in progress has is a delimiter, and a posted
callback keeps what its read ended with, whichever writes and reads follow.
`OnlyTheseLose` (`LostOnlyHere`) asks the converse, that nothing of the line falls
out. Every byte of `Pipeline` is there after a step, but for the one that
`do_read_some` takes and drops (`PassesOn`); by `RestInv` nothing waits in
`readBuffer_` when an answer leaves its read short, so a read that goes on asks an
empty buffer, and only the call that accepts a read can lose that byte.

`UDPClientStreamProofs` proves, for any sizes of buffer, datagrams and reads and
`MaxOutstanding = 1`, that `UDPClientStream` implements `ByteStream`. Its `Inv`
says which bytes `buffer_` holds: the unread ones are the last that arrived
(`LastArrived`), a buffer with nothing unread starts at its beginning
(`StartsWhenEmpty`), and a datagram whose handler has not run lies alone there
(`ReceivesIntoEmpty`). Each action preserves it and is a step of `ByteStream` or a
stutter, and no action but `Flush` and `Reset` moves on without handing over
(`DropsNothing`). `ByteStreamProofs` proves, as a lemma, that whatever implements
`ByteStream` hands bytes over in strictly ascending order; `DatagramsInOrder`
instantiates it with the refinement mapping and so says it of the callbacks of
`UDPClientStream`.

Only model-checked: every liveness property (out of the prover's reach), and
`UntilInBound` of `StreamReader`, which the code breaks.

## Known limits of the code

Each of these was met while modelling; the first four are kept as runs, the others
are described with what shows them.

- `stop()` right after `start()` never returns: `service_.restart()`
  (`AsyncService.cpp:66`) erases the stop.
- `async_read_until` with part of its bytes in `readBuffer_` asks the device for
  the full size again (`StreamReader.cpp:320`).
- A read that timed out leaves a `read_callback` queued, which notifies the next one
  (`StreamReader.cpp:287`): `NoStaleWakeUp` fails. The timeout also notifies its own
  caller before it ends the read (`:160`): `ReturnsWhenOver` fails with timeouts, and
  `NoStaleWakeUp` allows it.
- Two receives on one `buffer_` after a timeout (`UDPClientStream.cpp:132`).
- `start()` against a caller's `run()`: the worker finds the service claimed and
  returns without a notification (`AsyncService.cpp:56`). `StartReturns` fails in
  `service_live` as soon as `Ops` includes `"run"`.
- After a restart the cancelled guard re-arms itself for ever
  (`AsyncService.cpp:45`): `GuardRests` fails.
- The count of a synchronous read may be that of a later asynchronous one
  (`StreamReader.cpp:275`): `ReturnsOwnCount` fails in `reader_sync`.
- A second synchronous read may reset `waiterNotified_` before the first has woken
  up (`StreamReader.cpp:272`): `OverReturns` fails with two synchronous callers and
  no timeouts.
- With early timeouts `finish_read` may find no read to end
  (`StreamReader.cpp:129`): `AlwaysAReadToEnd` fails in `reader_live` with
  asynchronous callers and `read_until`.
- `readCounter_` wraps to the value that means no read (`StreamReader.cpp:110`):
  `OneOutcome` fails when `MaxReads` exceeds `Modulus`, so the runs stay below it and
  the theorems assume `NoWrap`.
- `do_read_some` loses a byte when `readBuffer_` holds more than it is asked for:
  `is.get()` is called once more than fits (`StreamReader.cpp:188`). `LostOnlyHere`
  names it as one of the places of loss.
- With signed `char` a delimiter of 128 or more is found in `readBuffer_` and not in
  an answer of the device (`StreamReader.cpp:340`): `UntilExact` fails with
  `WideDelimiter`.
- `StreamReader::reset()` keeps `readBuffer_` (`StreamReader.cpp:60`): the next read
  is given bytes from before.
- A `reset` between a partial answer and its handler lets the rest of the write go
  to the new connection (`StreamWriter.cpp:225`).
- After `close`, or a `reset` of a serial port that throws, `socket_` or `serial_` is
  null and the next operation ends the process (`SerialStream.cpp:100`, `:128`).
- `TCPClientStream::close()` of a socket whose `shutdown` fails leaves it open
  (`TCPClientStream.cpp:66`), its operations cancelled, which is what `ClosedEnds`
  needs; a write made afterwards is outstanding like any other.

## Not modelled

- `StreamInterface` has no state and `ip_utils` only calls boost::asio; the options
  of a serial port do not change what its operations do; the tests are interactive.
- The destruction of a reader, a writer or a `Stream` with handlers outstanding: the
  handlers hold a bare pointer, and what they then do is undefined.
- Calls of one device that overlap each other or a handler, also undefined, except
  where a module above says how it makes them steps.
- A synchronous `Stream` over a `StringStream`: its waiting is that of
  `StreamReader` and `StreamWriter`, its bytes those of `LoopBack`.
