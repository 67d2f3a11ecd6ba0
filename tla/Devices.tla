------------------------------ MODULE Devices ------------------------------
(***************************************************************************)
(* What stands behind a StreamInterface: a TCP socket                       *)
(* (src/src/TCPClientStream.cpp), a serial port (src/src/SerialStream.cpp)  *)
(* or the memory of a StringStream (src/include/rtac_asio/StringStream.h).   *)
(* Operators of StreamWriter and LoopBack; a byte is <<write, position>>.    *)
(***************************************************************************)
EXTENDS Naturals, Sequences

CONSTANTS
    Transports, \* which of "tcp", "serial", "string" there are
    Capacity,   \* the size of the buffer of a StringStream
    MaxResets   \* bound on the number of calls of close, reset and flush

ASSUME DevicesAssumption ==
    /\ Transports \subseteq {"tcp", "serial", "string"}
    /\ Capacity \in Nat
    /\ MaxResets \in Nat

VARIABLES
    transport,
    link,      \* socket_ or serial_: "none" when null, "open", or "broken" when
               \* open without a peer; "crashed" once a null one was used
    outgoing,  \* the writes a socket or a port has not answered, oldest first
    buffer_,   \* the bytes held by a StringStream
    wire,      \* the bytes that were accepted, in that order
    ready,     \* the handlers queued in the service; while the worker executes
               \* one that may touch a request, it is still the head
    resets

lifecycle == <<transport, link, resets>>

(* The first n bytes of what an operation writes. *)
Bytes(op, n) == [i \in 1..n |-> <<op.src, op.from + i>>]

Answered(op, n, err) == [op EXCEPT !.n = n, !.err = err]

DevicesInit ==
    /\ transport \in Transports
    /\ link = "open"     \* a constructor that cannot open throws
    /\ outgoing = <<>>
    /\ buffer_ = <<>>
    /\ wire = <<>>
    /\ ready = <<>>
    /\ resets = 0

-----------------------------------------------------------------------------
(* Writing *)

(* StringStream: what there is room for, possibly nothing, is answered by a   *)
(* post to the service.                                                      *)
StringWrite(op, queue) ==
    LET room == Capacity - Len(buffer_)
        n    == IF op.n < room THEN op.n ELSE room
    IN  /\ buffer_' = buffer_ \o Bytes(op, n)
        /\ wire' = wire \o Bytes(op, n)
        /\ ready' = Append(queue, Answered(op, n, FALSE))

(* async_write_some() of the device, `queue' being the handlers before it. *)
AsyncWriteSome(op, queue) ==
    \/ /\ transport = "string"
       /\ StringWrite(op, queue)
       /\ UNCHANGED <<link, outgoing>>
    \/ /\ transport # "string"
       /\ link \in {"open", "broken"}
       /\ outgoing' = Append(outgoing, op)
       /\ ready' = queue
       /\ UNCHANGED <<link, buffer_, wire>>
    \/ /\ link = "none"
       /\ link' = "crashed"
       /\ ready' = queue
       /\ UNCHANGED <<outgoing, buffer_, wire>>

Answer(n, err) ==
    /\ ready' = Append(ready, Answered(Head(outgoing), n, err))
    /\ outgoing' = Tail(outgoing)
    /\ wire' = wire \o Bytes(Head(outgoing), n)
    /\ UNCHANGED <<lifecycle, buffer_>>

(* The socket or the port takes some of the bytes of the oldest write ... *)
DeviceTakes ==
    /\ link = "open"
    /\ outgoing # <<>>
    /\ \E n \in 0..Head(outgoing).n :
          /\ n = 0 => Head(outgoing).n = 0
          /\ Answer(n, FALSE)

(* ... or fails it, once the peer is gone. *)
DeviceFails ==
    /\ link = "broken"
    /\ outgoing # <<>>
    /\ Answer(0, TRUE)

(* The peer disconnects, or the cable is pulled. *)
LinkBreaks ==
    /\ transport # "string"
    /\ link = "open"
    /\ link' = "broken"
    /\ UNCHANGED <<transport, resets, outgoing, buffer_, wire, ready>>

-----------------------------------------------------------------------------
(* close(), reset() and flush() *)

(* cancel(): every outstanding operation is answered with an error. *)
Cancel ==
    /\ ready' = ready \o [i \in 1..Len(outgoing) |-> Answered(outgoing[i], 0, TRUE)]
    /\ outgoing' = <<>>

CloseTCPReturnsFirst ==
    /\ transport = "tcp"
    /\ \/ link = "broken" /\ link' = "broken" /\ UNCHANGED <<ready, outgoing>>
       \/ Cancel /\ link' = "none"

(* TCPClientStream::close() cancels, but returns before it closes a socket    *)
(* whose shutdown() fails, as that of a broken connection may.               *)
CloseTCP ==
    /\ transport = "tcp"
    /\ Cancel
    /\ \/ link = "broken" /\ link' = "broken"
       \/ link' = "none"

(* SerialStream::close() ends with no port, even if close() throws. *)
CloseSerial ==
    /\ transport = "serial"
    /\ Cancel
    /\ link' = "none"

(* close() does nothing unless is_open(). *)
IsOpen == link \in {"open", "broken"}

Close ==
    /\ resets < MaxResets
    /\ IsOpen
    /\ CloseTCP \/ CloseSerial
    /\ resets' = resets + 1
    /\ UNCHANGED <<transport, buffer_, wire>>

(* The new socket replaces the old one, open or not; connect() may throw. *)
ResetTCP ==
    /\ transport = "tcp"
    /\ Cancel
    /\ link' \in {"open", "broken"}
    /\ UNCHANGED buffer_

(* Opening the port may throw, which leaves none; setting an option or        *)
(* flushing may throw as well, which leaves it open.                         *)
ResetSerial ==
    /\ transport = "serial"
    /\ Cancel
    /\ link' \in {"open", "none"}
    /\ UNCHANGED buffer_

ResetString ==
    /\ transport = "string"
    /\ buffer_' = <<>>
    /\ UNCHANGED <<ready, outgoing, link>>

ResetDevice ==
    /\ resets < MaxResets
    /\ ResetTCP \/ ResetSerial \/ ResetString
    /\ resets' = resets + 1
    /\ UNCHANGED <<transport, wire>>

(* flush() of a socket does nothing; that of a port needs one. *)
FlushSerial ==
    /\ transport = "serial"
    /\ link' = IF link = "none" THEN "crashed" ELSE link
    /\ UNCHANGED buffer_

FlushString ==
    /\ transport = "string"
    /\ buffer_' = <<>>
    /\ UNCHANGED link

FlushDevice ==
    /\ resets < MaxResets
    /\ FlushSerial \/ FlushString
    /\ resets' = resets + 1
    /\ UNCHANGED <<transport, outgoing, wire, ready>>

=============================================================================
