--------------------------- MODULE MCBinaryCheck ---------------------------
\* Every file of up to eight cells, for TLC.
EXTENDS BinaryCheck

AllFiles == UNION {[1..n -> 0..2] : n \in 0..8}
Magics == [k \in Kinds |-> IF k = "firmware" THEN <<2, 1>> ELSE <<0, 2>>]
=============================================================================
