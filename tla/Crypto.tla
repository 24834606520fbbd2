------------------------------- MODULE Crypto -------------------------------
(***************************************************************************)
(* crypto_mbedtls_mm.c: big numbers and curves (CryptoBignum), what the     *)
(* functions own (CryptoObjects) and the octets they put together           *)
(* (CryptoPrf).  The three share no state: each behaviour is of one.        *)
(***************************************************************************)
EXTENDS CryptoBignum, CryptoObjects, CryptoPrf

cvars == <<call, ovars, prf>>

CInit == InitBignum /\ InitObjects /\ InitPrf

CNext ==
  \/ InitObjects /\ InitPrf /\ BignumNext /\ UNCHANGED <<ovars, prf>>
  \/ InitBignum /\ InitPrf /\ ObjectsNext /\ UNCHANGED <<call, prf>>
  \/ InitBignum /\ InitObjects /\ PrfNext /\ UNCHANGED <<call, ovars>>

CSpec == CInit /\ [][CNext]_cvars
=============================================================================
