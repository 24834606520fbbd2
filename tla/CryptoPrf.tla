----------------------------- MODULE CryptoPrf -----------------------------
(***************************************************************************)
(* The octets crypto_mbedtls_mm.c puts together: the key derivation         *)
(* functions, which write a MAC after another into the caller's buffer, and *)
(* the public value crypto_ecdh_set_peerkey hands to mbedtls behind a       *)
(* header of its own.                                                       *)
(*                                                                         *)
(* mbedtls and the rest of hostap are not under src/.  An octet of a MAC    *)
(* is named by what was hashed, its place in the MAC and how many of its    *)
(* leading bits are kept.  What is hashed is the sequence of its elements,  *)
(* one behind the other.                                                    *)
(*                                                                         *)
(* Bounds: MacLen for the 20 to 64 octets of a MAC, CounterMod for the 2^8  *)
(* and LengthMod for the 2^16 of the counters, MaxOctets of a request,      *)
(* BufSize in place of the 256 octets of the header's buffer, which are as  *)
(* many as an octet has values.                                             *)
(***************************************************************************)
EXTENDS Integers, Sequences

CONSTANTS MacLen, CounterMod, LengthMod, MaxOctets, BufSize, Labels, Datas

\* sha1_prf is asked for less than its one octet of counter reaches (hostap derives 64).
ASSUME PrfAssumption ==
  /\ MacLen \in Nat \ {0} /\ CounterMod \in Nat /\ LengthMod \in Nat /\ BufSize \in Nat
  /\ MaxOctets \in Nat
  /\ MaxOctets < MacLen * CounterMod /\ 8 * MaxOctets < LengthMod

Whole == 8
MacOf(hashed) == [i \in 1..MacLen |-> [of |-> hashed, at |-> i, bits |-> Whole]]

\* Zero bits, not the ones that were there.
Masked(octet, n) == [octet EXCEPT !.bits = n]
MaskLast(octets, n) == [octets EXCEPT ![Len(octets)] = Masked(@, n)]

NUL == "nul"

VARIABLE prf   \* one call: its arguments, how far it is, and what it has written

Idle == [fn |-> "none"]
InitPrf == prf = Idle

\* strlen(label), and strlen(label) + 1 in sha1_prf, whose counter starts at 0.
Call(fn, label, data, bits) ==
  [fn |-> fn, label |-> label, data |-> data, bits |-> bits, pc |-> "setup",
   ctr |-> IF fn = "sha1_prf" THEN 0 ELSE 1, left |-> (bits + 7) \div 8,
   buf |-> <<>>, hash |-> "clear", rc |-> 0]

\* hmac_prf_bits is reached with a number of bits from sha256_prf_bits alone.
StartPrf ==
  /\ prf = Idle
  /\ \E label \in Labels, data \in Datas, n \in 0..MaxOctets :
       \/ prf' = Call("sha1_prf", label, data, 8 * n)
       \/ \E k \in 0..7 : 8 * n >= k /\ prf' = Call("hmac_prf_bits", label, data, 8 * n - k)

Elements_NoNul ==
  IF prf.fn = "sha1_prf"
  THEN prf.label \o prf.data \o <<prf.ctr % CounterMod>>
  ELSE <<prf.ctr % LengthMod>> \o prf.label \o prf.data \o <<prf.bits % LengthMod>>

Elements ==
  IF prf.fn = "sha1_prf"
  THEN prf.label \o <<NUL>> \o prf.data \o <<prf.ctr % CounterMod>>
  ELSE <<prf.ctr % LengthMod>> \o prf.label \o prf.data \o <<prf.bits % LengthMod>>

End(p, rc) == [p EXCEPT !.pc = "done", !.rc = rc]

\* sha1_prf sets a context up for every block, hmac_prf_bits one for all.
SetupFails ==
  /\ prf # Idle /\ prf.pc = "setup" /\ (prf.fn = "sha1_prf" => prf.left > 0)
  /\ prf' = End(prf, -1)

WholeBlock ==
  /\ prf # Idle /\ prf.pc \in {"setup", "block"} /\ prf.left >= MacLen
  /\ prf' = [prf EXCEPT !.pc = IF prf.fn = "sha1_prf" THEN "setup" ELSE "block",
                        !.buf = @ \o MacOf(Elements), !.left = @ - MacLen, !.ctr = @ + 1]

\* The MAC is made in hash, which is cleared after the part that is asked for is taken.
PartOfBlock ==
  /\ prf # Idle /\ prf.pc \in {"setup", "block"} /\ prf.left \in 1..(MacLen - 1)
  /\ prf' = [prf EXCEPT !.pc = "clear", !.buf = @ \o SubSeq(MacOf(Elements), 1, prf.left),
                        !.left = 0, !.hash = "key"]

ClearHash ==
  /\ prf # Idle /\ prf.pc = "clear"
  /\ prf' = [prf EXCEPT !.pc = "mask", !.hash = "clear"]

MaskBits ==
  /\ prf # Idle
  /\ prf.pc = "mask" \/ (prf.pc \in {"setup", "block"} /\ prf.left = 0)
  /\ prf' = End([prf EXCEPT !.buf = IF prf.bits % 8 = 0 THEN @ ELSE MaskLast(@, prf.bits % 8)], 0)

-----------------------------------------------------------------------------
(* crypto_ecdh_set_peerkey on a short Weierstrass curve: key is the x of     *)
(* prime_len octets, with the y behind it when inc_y.                        *)

Uncompressed == 4
Compressed == 2

\* key as it came, or with the y that was computed behind it.
PutOnce(len, inc_y) ==
  [first |-> (1 + len) % BufSize, form |-> IF inc_y THEN Uncompressed ELSE Compressed,
   put |-> 1 + len, secret |-> IF inc_y THEN len \div 2 ELSE len]
PutTwice(len) ==
  [first |-> (((1 + len) % BufSize) + len) % BufSize, form |-> Uncompressed,
   put |-> 1 + 2 * len, secret |-> len]

set_peerkey_OneLimit(len, inc_y, derives) ==
  IF len = 0 \/ BufSize - 2 < len THEN <<>>
  ELSE IF inc_y \/ ~derives THEN <<PutOnce(len, inc_y)>> ELSE <<PutTwice(len)>>

\* What mbedtls reads, or nothing: how many octets follow by the first, the point's form,
\* and how many are there; and the length of the secret's buffer.  derives: mbedtls before
\* 3.4, where y is computed here and put behind x.
set_peerkey(len, inc_y, derives) ==
  IF len = 0 \/ BufSize - 2 < len \/ (~inc_y /\ derives /\ BufSize - 2 < 2 * len) THEN <<>>
  ELSE IF inc_y \/ ~derives THEN <<PutOnce(len, inc_y)>> ELSE <<PutTwice(len)>>

SetPeerKey ==
  /\ prf = Idle
  /\ \E len \in 0..BufSize, inc_y, derives \in BOOLEAN :
       prf' = [fn |-> "set_peerkey", pc |-> "done", len |-> len, inc_y |-> inc_y,
               derives |-> derives, out |-> set_peerkey(len, inc_y, derives)]

\* The caller goes on.
PrfReturn == prf # Idle /\ prf.pc = "done" /\ prf' = Idle

PrfNext ==
  PrfReturn \/ StartPrf \/ SetupFails \/ WholeBlock \/ PartOfBlock \/ ClearHash \/ MaskBits \/ SetPeerKey

PrfSpec == InitPrf /\ [][PrfNext]_prf

-----------------------------------------------------------------------------
(* Properties *)

Derivations == {"sha1_prf", "hmac_prf_bits"}

\* The i-th octet of the derived key, as 802.11 defines the two functions: which block it is
\* in, what that block hashes, its place there, and the bits of it that were asked for.
KeyOctet(p, i) ==
  LET b == (i - 1) \div MacLen
      kept == IF 8 * i > p.bits THEN p.bits - 8 * (i - 1) ELSE 8
  IN  [of |-> IF p.fn = "sha1_prf" THEN p.label \o <<NUL>> \o p.data \o <<b>>
              ELSE <<b + 1>> \o p.label \o p.data \o <<p.bits>>,
       at |-> i - b * MacLen, bits |-> kept]

\* A derivation that succeeds has written the octets asked for and no more, each from the
\* block it belongs to whatever the label, the data and the length; one that fails has
\* written a part of those; and no MAC is left in the stack frame of either
\* (crypto_mbedtls_mm.c:441-506, 556-592).
PrfRight ==
  prf.fn \in Derivations =>
    /\ prf.pc # "done" => Len(prf.buf) + prf.left = (prf.bits + 7) \div 8
    /\ prf.pc = "done" =>
         /\ prf.hash = "clear"
         /\ prf.rc = 0 => Len(prf.buf) = (prf.bits + 7) \div 8
         /\ \A i \in 1..Len(prf.buf) : prf.buf[i] = KeyOctet(prf, i)

\* A public value mbedtls is given is as long as its first octet says and fits the buffer,
\* has both coordinates when it says so, and the secret has the octets of one coordinate
\* (crypto_mbedtls_mm.c:1262-1354).
PeerKeyRight ==
  prf.fn = "set_peerkey" /\ prf.out # <<>> =>
    LET o == prf.out[1]
        prime_len == IF prf.inc_y THEN prf.len \div 2 ELSE prf.len
    IN  /\ o.first = o.put /\ o.put + 1 <= BufSize /\ o.secret = prime_len
        /\ (prf.inc_y => prf.len % 2 = 0) =>
             o.put = 1 + (IF o.form = Uncompressed THEN 2 ELSE 1) * prime_len
=============================================================================
