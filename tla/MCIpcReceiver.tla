--------------------------- MODULE MCIpcReceiver ---------------------------
(* Instances of IpcReceiver for TLC: bytes of two bits. *)
EXTENDS IpcReceiver

TwoBits == 0 .. 3

\* ^ on two bits.
XorTwoBits(a, b) == ((a + b) % 2) + 2 * (((a \div 2) + (b \div 2)) % 2)

\* As the commands of the host: data that holds no header, whose checksum is not
\* the first byte of one ...
OtherCrc == {<<0, 1, 0>>, <<0, 3, 0>>, <<1, 3, 1>>, <<0, 2, 3>>}

\* ... and one whose is, as that of the angle 165 = 0xA5 with the header A5 5A.
LsbCrc == {<<0, 2, 0>>}
=============================================================================
