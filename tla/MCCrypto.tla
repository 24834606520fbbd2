------------------------------ MODULE MCCrypto ------------------------------
(* A curve with A = P - 3, which mbedtls leaves unset, and one with another A; *)
(* numbers around zero, and labels and data that only NUL tells apart.         *)
EXTENDS Crypto

SomeValues == -2..5
SomeCurves == {[P |-> 7, A |-> 4, B |-> 3, hasA |-> FALSE],
               [P |-> 11, A |-> 5, B |-> 2, hasA |-> TRUE]}
SomeLabels == {<<>>, <<"a">>, <<"a", "b">>}
SomeDatas == {<<>>, <<"b">>, <<"c", "d">>}
=============================================================================
