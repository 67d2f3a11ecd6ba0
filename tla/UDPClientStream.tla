--------------------------- MODULE UDPClientStream ---------------------------
(***************************************************************************)
(* The datagram buffer of rtac::asio::UDPClientStream                       *)
(* (src/src/UDPClientStream.cpp).  Bytes are numbered by arrival.  A call   *)
(* or a handler of the stream is one step: none of them locks anything, and *)
(* calls that overlap are undefined behaviour.                              *)
(***************************************************************************)
EXTENDS Integers, Sequences

CONSTANTS
    BufferSize,     \* the size of buffer_
    DatagramSizes,  \* sizes of the datagrams that arrive
    ReadSizes,      \* sizes of the reads
    MaxOutstanding, \* reads that wait for a datagram at the same time: one,
                    \* unless the reader gives a read up, as at a timeout
    MaxBytes        \* bound on the number of bytes that arrive

(* The header asks for a buffer that holds any datagram. *)
ASSUME UDPAssumption ==
    /\ BufferSize \in Nat \ {0}
    /\ DatagramSizes \subseteq 0..BufferSize
    /\ ReadSizes \subseteq Nat
    /\ MaxOutstanding \in Nat
    /\ MaxBytes \in Nat

VARIABLES
    socket_,      \* "none", "connected", or "unconnected" after connect() threw
    buffer_,
    bufferBegin_,
    bufferEnd_,
    waiting,      \* sizes of the reads in async_receive, oldest first
    completed,    \* answered receives, whose handlers the service will run
    arrived,      \* the number of bytes the socket has put in buffer_
    handed        \* the bytes given to the callbacks, in that order

vars == <<socket_, buffer_, bufferBegin_, bufferEnd_, waiting, completed,
          arrived, handed>>

Available == bufferEnd_ - bufferBegin_

Outstanding == Len(waiting) + Len(completed)

Init ==
    /\ socket_ = "connected"
    /\ buffer_ = [i \in 0..(BufferSize - 1) |-> 0]
    /\ bufferBegin_ = 0
    /\ bufferEnd_ = 0
    /\ waiting = <<>>
    /\ completed = <<>>
    /\ arrived = 0
    /\ handed = <<>>

-----------------------------------------------------------------------------
EmptyBuffer ==
    /\ bufferBegin_' = 0
    /\ bufferEnd_' = 0

(* The bytes of buffer_ from `from', n of them, go to the callback. *)
GiveBytes(from, n) == handed' = handed \o [i \in 1..n |-> buffer_[from + i - 1]]

(* A read of `size' bytes takes what the unread bytes, up to `end', hold.    *)
(* Two mistakes: the rest is forgotten, or the buffer is not made empty.     *)
TakeForgetsRest(size, end) ==
    /\ \/ size >= end - bufferBegin_ /\ GiveBytes(bufferBegin_, end - bufferBegin_)
       \/ size < end - bufferBegin_ /\ GiveBytes(bufferBegin_, size)
    /\ EmptyBuffer

TakeInPlace(size, end) ==
    LET n == IF size >= end - bufferBegin_ THEN end - bufferBegin_ ELSE size
    IN  /\ GiveBytes(bufferBegin_, n)
        /\ bufferBegin_' = bufferBegin_ + n
        /\ bufferEnd_' = end

Take(size, end) ==
    \/ /\ size >= end - bufferBegin_
       /\ GiveBytes(bufferBegin_, end - bufferBegin_)
       /\ EmptyBuffer
    \/ /\ size < end - bufferBegin_
       /\ GiveBytes(bufferBegin_, size)
       /\ bufferBegin_' = bufferBegin_ + size
       /\ bufferEnd_' = end

(* async_read_some() when the unread bytes end at `end': from the buffer, or  *)
(* from the next datagram when there are none.  Without a socket the second   *)
(* is a null pointer and ends the process.                                   *)
AsyncReadSome(size, end) ==
    \/ /\ end > bufferBegin_
       /\ Take(size, end)
       /\ UNCHANGED waiting
    \/ /\ end <= bufferBegin_
       /\ socket_ # "none"
       /\ waiting' = Append(waiting, size)
       /\ bufferEnd_' = end
       /\ UNCHANGED <<bufferBegin_, handed>>

Read ==
    /\ Outstanding < MaxOutstanding
    /\ \E size \in ReadSizes : AsyncReadSome(size, bufferEnd_)
    /\ UNCHANGED <<socket_, buffer_, completed, arrived>>

-----------------------------------------------------------------------------
Answer(size, err, received) == [size |-> size, err |-> err, received |-> received]

(* A datagram of n bytes arrives: the socket writes it at the start of        *)
(* buffer_ and queues the handler of the oldest receive.                     *)
Receive(n) ==
    /\ socket_ = "connected"
    /\ waiting # <<>>
    /\ arrived + n <= MaxBytes
    /\ buffer_' = [i \in 0..(BufferSize - 1) |->
                       IF i < n THEN arrived + i + 1 ELSE buffer_[i]]
    /\ arrived' = arrived + n
    /\ completed' = Append(completed, Answer(Head(waiting), FALSE, n))
    /\ waiting' = Tail(waiting)
    /\ UNCHANGED <<socket_, bufferBegin_, bufferEnd_, handed>>

(* A receive fails. *)
ReceiveFails ==
    /\ waiting # <<>>
    /\ completed' = Append(completed, Answer(Head(waiting), TRUE, 0))
    /\ waiting' = Tail(waiting)
    /\ UNCHANGED <<socket_, buffer_, bufferBegin_, bufferEnd_, arrived, handed>>

(* The handler of a receive reads again after a datagram, so that an empty    *)
(* one makes it wait for another, and passes an error on.                    *)
ReceiveContinue ==
    /\ completed # <<>>
    /\ completed' = Tail(completed)
    /\ LET answer == Head(completed)
           end    == bufferEnd_ + answer.received
       IN  \/ /\ ~answer.err
              /\ AsyncReadSome(answer.size, end)
           \/ /\ answer.err
              /\ bufferEnd_' = end
              /\ UNCHANGED <<bufferBegin_, waiting, handed>>
    /\ UNCHANGED <<socket_, buffer_, arrived>>

-----------------------------------------------------------------------------
(* socket_->cancel(): the receives that wait are answered with an error. *)
Cancel ==
    /\ completed' = completed \o [i \in 1..Len(waiting) |-> Answer(waiting[i], TRUE, 0)]
    /\ waiting' = <<>>

(* close(): shutdown() of a socket that is not connected fails, and the       *)
(* socket stays open.                                                        *)
Close ==
    /\ socket_ # "none"
    /\ Cancel
    /\ socket_' = IF socket_ = "connected" THEN "none" ELSE "unconnected"
    /\ UNCHANGED <<buffer_, bufferBegin_, bufferEnd_, arrived, handed>>

Flush ==
    /\ EmptyBuffer
    /\ UNCHANGED <<socket_, buffer_, waiting, completed, arrived, handed>>

(* reset(): close(), flush(), and a new socket, whose connect() may throw. *)
Reset ==
    /\ Cancel
    /\ EmptyBuffer
    /\ socket_' \in {"connected", "unconnected"}
    /\ UNCHANGED <<buffer_, arrived, handed>>

Next ==
    \/ Read
    \/ \E n \in DatagramSizes : Receive(n)
    \/ ReceiveFails
    \/ ReceiveContinue
    \/ Close
    \/ Flush
    \/ Reset

Spec == Init /\ [][Next]_vars

-----------------------------------------------------------------------------
(* The members have their types; in particular the two iterators stay within *)
(* buffer_, one past its end included, in this order.                        *)
BufferTypeOK ==
    /\ socket_ \in {"none", "connected", "unconnected"}
    /\ buffer_ \in [0..(BufferSize - 1) -> Nat]
    /\ bufferBegin_ \in 0..BufferSize
    /\ bufferEnd_ \in bufferBegin_..BufferSize
    /\ waiting \in Seq(ReadSizes)
    /\ completed \in Seq([size : ReadSizes, err : BOOLEAN, received : 0..BufferSize])
    /\ arrived \in Nat
    /\ handed \in Seq(Nat)

(* A receive writes at the start of buffer_, so nothing unread is in it and   *)
(* the iterators are at its start, from the request to the handler: "called   *)
(* only when buffer empty" (UDPClientStream.cpp:131) is still true when the    *)
(* datagram arrives.                                                         *)
ReceivesIntoEmpty == Outstanding > 0 => bufferBegin_ = 0 /\ bufferEnd_ = 0

(* The bytes of a datagram whose handler has not run. *)
Pending == IF completed = <<>> THEN 0 ELSE Head(completed).received

NextByte == IF Available > 0 THEN buffer_[bufferBegin_] ELSE arrived - Pending + 1

Stream == INSTANCE ByteStream WITH next <- NextByte

OnlyFlushDrops ==
    [][handed' = handed /\ NextByte' # NextByte => Flush \/ Reset]_vars

(* The stream hands over the bytes of the datagrams as a stream of bytes      *)
(* does, in order and none twice, and only flush and reset drop bytes,        *)
(* whatever the sizes of datagrams and reads, and with errors and close.      *)
ImplementsByteStream == Stream!Spec /\ OnlyFlushDrops

Unread == {buffer_[i] : i \in bufferBegin_..(bufferEnd_ - 1)}

(* "This class buffers UDP data until read or flushed by the user"            *)
(* (UDPClientStream.h:45): a byte leaves the buffer only when it is handed    *)
(* over, or by flush and reset.                                              *)
KeptUntilRead ==
    [][\A b \in Unread :
           \/ b \in Unread'
           \/ \E i \in 1..Len(handed') : handed'[i] = b
           \/ Flush
           \/ Reset]_vars

=============================================================================
