---------------------------- MODULE MCCommander ----------------------------
(* An instance of Commander for TLC with the constants of the code: whole  *)
(* bytes, the header A5 5A, 180 positions, 360 degrees.                    *)
EXTENDS Commander

Bits == INSTANCE Bitwise

AllBytes == 0 .. 255
XorTable == [a \in AllBytes |-> [b \in AllBytes |-> Bits!^^(a, b)]]
XorBytes(a, b) == XorTable[a][b]

\* Both ends of the turn, of one and of two bytes, the first angle refused, and the
\* angle 165, whose checksum is the first byte of the header.
SomeAngles == {0, 165, 359, 360}

SomeCommands == {Command(a) : a \in SomeAngles}

\* The bytes of the header, and no bits.
SomeReplacements == {0, 165, 90}
=============================================================================
