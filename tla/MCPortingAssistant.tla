------------------------ MODULE MCPortingAssistant ------------------------
\* A good file of each kind and bad ones, for TLC.
EXTENDS PortingAssistant

SomeFiles == {<<1, 2, 7, 8, 2, 0>>, <<1, 2, 9, 8, 2, 0>>, <<1, 2, 7, 8>>}
Magics == [k \in Kinds |-> IF k = "firmware" THEN <<7, 8>> ELSE <<9, 8>>]
=============================================================================
