-------------------------- MODULE MCUDPClientStream --------------------------
(* Instances of UDPClientStream for TLC. *)
EXTENDS UDPClientStream

(* A datagram may be empty, fit, or fill the buffer. *)
UpTo3 == 0..3

OneToThree == 1..3

Two == {2}

OneByte == {1}

=============================================================================
