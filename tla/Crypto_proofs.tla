--------------------------- MODULE Crypto_proofs ---------------------------
(***************************************************************************)
(* What Crypto's functions compute, for all numbers, curves and radices,    *)
(* MACs, requests, labels and data (within PrfAssumption), and that they    *)
(* lose and misuse no object, as CryptoObjects_proofs shows of one call.    *)
(*                                                                         *)
(* Keys.  A derivation has written k whole blocks before its last part      *)
(* (Progress), each octet what the definition says, all bits kept           *)
(* (Written); that the counters do not come around is ElementsAre.  Only    *)
(* the last step clears bits (MaskedIsKey).                                 *)
(*                                                                         *)
(* Big numbers.  The proof is about outcomes.  Each mbedtls function leaves *)
(* one number in one place or fails (Leaves); what a crypto_bignum function *)
(* does with them, its operands in the same place or not, follows call by   *)
(* call (Answers); and every call of CryptoBignum is one of those.          *)
(*                                                                         *)
(* That crypto_bignum_legendre is the Legendre symbol is Euler's criterion. *)
(* The numbers 1..p-1 fall into pairs with product k modulo p, all of them  *)
(* when k is no square, all but the two roots when it is one; so their      *)
(* product is k^h or -(k^h), h pairs altogether, and -1 as k = 1 shows.     *)
(***************************************************************************)
EXTENDS Crypto, CryptoObjects_proofs, WellFoundedInduction, FiniteSetTheorems

-----------------------------------------------------------------------------
(* Derived keys and public values *)

Octets(p) == (p.bits + 7) \div 8
WholeBlocks(p) == IF p.fn = "sha1_prf" THEN p.ctr ELSE p.ctr - 1

\* What the b-th block hashes, and the i-th octet before its last bits are cleared.
HashedBySha1(l, d, n) == l \o <<NUL>> \o d \o <<n>>
HashedByHmac(l, d, n, m) == <<n>> \o l \o d \o <<m>>
BlockOf(p, b) ==
  IF p.fn = "sha1_prf" THEN HashedBySha1(p.label, p.data, b)
                       ELSE HashedByHmac(p.label, p.data, b + 1, p.bits)
Plain(p, i) ==
  LET b == (i - 1) \div MacLen
  IN  [of |-> BlockOf(p, b), at |-> i - b * MacLen, bits |-> 8]

Hashed ==
  {HashedBySha1(l, d, n) : l \in Labels, d \in Datas, n \in Nat}
  \cup {HashedByHmac(l, d, n, m) : l \in Labels, d \in Datas, n \in Nat, m \in Nat}
Octet == [of : Hashed, at : 1..MacLen, bits : 0..8]

Keys ==
  [fn : Derivations, label : Labels, data : Datas, bits : 0..(8 * MaxOctets),
   pc : {"setup", "block", "clear", "mask", "done"}, ctr : Nat, left : Nat,
   buf : Seq(Octet), hash : {"clear", "key"}, rc : {0, -1}]

\* How far a derivation is, and that what it has written is the key so far.
Progress ==
  /\ prf.pc \in {"setup", "block"} =>
       /\ WholeBlocks(prf) \in Nat /\ Len(prf.buf) = WholeBlocks(prf) * MacLen
       /\ prf.left = Octets(prf) - Len(prf.buf)
       /\ prf.pc = "setup" /\ prf.fn = "hmac_prf_bits" => prf.buf = <<>>
  /\ prf.pc \in {"clear", "mask"} => prf.left = 0 /\ Len(prf.buf) = Octets(prf)
  /\ prf.hash = "key" => prf.pc = "clear"
Written ==
  /\ prf.pc # "done" => \A i \in 1..Len(prf.buf) : prf.buf[i] = Plain(prf, i)
  /\ prf.pc = "done" =>
       /\ prf.rc = 0 => Len(prf.buf) = Octets(prf)
       /\ \A i \in 1..Len(prf.buf) : prf.buf[i] = KeyOctet(prf, i)

PeerKeys ==
  {[fn |-> "set_peerkey", pc |-> "done", len |-> len, inc_y |-> inc_y, derives |-> derives,
    out |-> set_peerkey(len, inc_y, derives)] :
     len \in 0..BufSize, inc_y \in BOOLEAN, derives \in BOOLEAN}

PrfInv == prf = Idle \/ prf \in PeerKeys \/ (prf \in Keys /\ Progress /\ Written)

-----------------------------------------------------------------------------
(* WholeBlocks and octets *)

\* Dividing by a positive number.
LEMMA Division ==
  ASSUME NEW p \in Nat \ {0}, NEW x \in Int
  PROVE  x \div p \in Int /\ x % p \in 0..(p - 1) /\ x = (x \div p) * p + (x % p)
OBVIOUS

\* The quotient and the remainder are the only ones.
LEMMA DivIs ==
  ASSUME NEW p \in Nat \ {0}, NEW x \in Int, NEW q \in Int, NEW r \in 0..(p - 1), x = q * p + r
  PROVE  x \div p = q /\ x % p = r
<1> DEFINE u == x \div p
           s == x % p
<1>1. u \in Int /\ s \in 0..(p - 1) /\ x = u * p + s
  BY Division
<1> HIDE DEF u, s
<1>2. (u - q) * p = r - s
  BY <1>1
<1>3. ~(u - q >= 1)
  <2>1. SUFFICES ASSUME u - q >= 1 PROVE FALSE
    OBVIOUS
  <2>2. (u - q) * p >= p
    BY <1>1, <2>1
  <2>3. QED
    BY <1>1, <1>2, <2>2
<1>4. ~(u - q <= -1)
  <2>1. SUFFICES ASSUME u - q <= -1 PROVE FALSE
    OBVIOUS
  <2>2. (u - q) * p <= -p
    BY <1>1, <2>1
  <2>3. QED
    BY <1>1, <1>2, <2>2
<1>5. u = q
  BY <1>1, <1>3, <1>4
<1>6. s = r
  BY <1>1, <1>2, <1>5
<1>7. QED
  BY <1>5, <1>6 DEF u, s

\* A number below the modulus stays what it is.
LEMMA SmallMod ==
  ASSUME NEW a \in Nat, NEW d \in Nat, a < d
  PROVE  a % d = a
<1>1. d \in Nat \ {0} /\ a \in 0..(d - 1) /\ a = 0 * d + a
  OBVIOUS
<1>2. QED
  BY <1>1, DivIs

\* The octets of one block are in the block.
LEMMA InBlock ==
  ASSUME NEW k \in Nat, NEW j \in 1..MacLen
  PROVE  (k * MacLen + j - 1) \div MacLen = k
<1> DEFINE a == k * MacLen + j - 1
<1>1. MacLen \in Nat \ {0}
  BY PrfAssumption
<1>2. k * MacLen \in Nat
  BY <1>1
<1>3. a \in Nat /\ j - 1 \in 0..(MacLen - 1) /\ a = k * MacLen + (j - 1)
  BY <1>1, <1>2
<1> HIDE DEF a
<1>4. a \div MacLen = k
  BY <1>1, <1>3, DivIs
<1>5. QED
  BY <1>4 DEF a

\* The octets of a MAC.
LEMMA MacIs ==
  ASSUME NEW h \in Hashed
  PROVE  /\ MacOf(h) \in Seq(Octet) /\ Len(MacOf(h)) = MacLen
         /\ \A i \in 1..MacLen : MacOf(h)[i] = [of |-> h, at |-> i, bits |-> 8]
<1>1. MacLen \in Nat
  BY PrfAssumption
<1>2. \A i \in 1..MacLen : MacOf(h)[i] = [of |-> h, at |-> i, bits |-> 8]
  BY DEF MacOf, Whole
<1>3. MacOf(h) \in [1..MacLen -> Octet]
  BY DEF MacOf, Whole, Octet
<1>4. MacOf(h) \in Seq(Octet)
  BY <1>1, <1>3, SeqDef
<1>5. DOMAIN MacOf(h) = 1..MacLen
  BY DEF MacOf
<1>6. Len(MacOf(h)) = MacLen
  BY <1>1, <1>4, <1>5, LenProperties
<1>7. QED
  BY <1>2, <1>4, <1>6

\* Neither counter comes around, and what a block hashes is what the two definitions say.
LEMMA ElementsAre ==
  ASSUME prf \in Keys, Progress, prf.pc \in {"setup", "block"}, prf.left > 0
  PROVE  Elements = BlockOf(prf, WholeBlocks(prf)) /\ Elements \in Hashed
<1> DEFINE k == WholeBlocks(prf)
<1>1. /\ prf.fn \in Derivations /\ prf.bits \in 0..(8 * MaxOctets) /\ prf.ctr \in Nat
      /\ prf.label \in Labels /\ prf.data \in Datas
  BY DEF Keys
<1>2. /\ MacLen \in Nat \ {0} /\ CounterMod \in Nat /\ LengthMod \in Nat /\ MaxOctets \in Nat
      /\ MaxOctets < MacLen * CounterMod /\ 8 * MaxOctets < LengthMod
  BY PrfAssumption
<1>3. k \in Nat /\ k * MacLen < Octets(prf)
  <2>1. Octets(prf) \in Int /\ Len(prf.buf) \in Nat
    BY <1>1, <1>2, LenProperties DEF Octets, Keys
  <2>2. Octets(prf) - Len(prf.buf) > 0 /\ Len(prf.buf) = k * MacLen /\ k \in Nat
    BY DEF Progress
  <2>3. Len(prf.buf) < Octets(prf)
    BY <2>1, <2>2
  <2>4. QED
    BY <2>2, <2>3
<1>4. Octets(prf) <= MaxOctets
  BY <1>1, <1>2 DEF Octets
<1>5. prf.ctr = IF prf.fn = "sha1_prf" THEN k ELSE k + 1
  BY <1>1 DEF WholeBlocks
<1> HIDE DEF k
<1>6. k < CounterMod
  <2>1. SUFFICES ASSUME k >= CounterMod PROVE FALSE
    BY <1>2, <1>3
  <2>2. k * MacLen >= MacLen * CounterMod
    BY <1>2, <1>3, <2>1
  <2>3. k * MacLen \in Int /\ MacLen * CounterMod \in Int /\ Octets(prf) \in Int
    BY <1>1, <1>2, <1>3 DEF Octets
  <2>4. \A x, y, o, m \in Int : ~(x >= y /\ m < y /\ o <= m /\ x < o)
    OBVIOUS
  <2>5. QED
    BY <1>2, <1>3, <1>4, <2>2, <2>3, <2>4
<1>7. k < MaxOctets
  <2>1. k * MacLen >= k * 1
    BY <1>2, <1>3
  <2>2. k * MacLen \in Nat /\ Octets(prf) \in Int
    BY <1>1, <1>2, <1>3 DEF Octets
  <2>3. QED
    BY <1>2, <1>3, <1>4, <2>1, <2>2
<1>8. k + 1 < LengthMod /\ k + 1 \in Nat /\ prf.bits \in Nat /\ prf.bits < LengthMod
  BY <1>1, <1>2, <1>3, <1>7
<1>9. k % CounterMod = k /\ (k + 1) % LengthMod = k + 1 /\ prf.bits % LengthMod = prf.bits
  BY <1>2, <1>3, <1>6, <1>8, SmallMod
<1>10. Elements = BlockOf(prf, k)
  BY <1>5, <1>9 DEF Elements, BlockOf, HashedBySha1, HashedByHmac
<1>11. BlockOf(prf, k) \in Hashed
  BY <1>1, <1>3, <1>8 DEF BlockOf, Hashed
<1>12. QED
  BY <1>10, <1>11 DEF k

\* Octets of the next block behind the ones that are there.
LEMMA Extended ==
  ASSUME prf \in Keys, Progress, Written, prf.pc \in {"setup", "block"}, prf.left > 0,
         NEW m \in Seq(Octet), Len(m) <= MacLen,
         \A j \in 1..Len(m) : m[j] = MacOf(Elements)[j]
  PROVE  /\ prf.buf \o m \in Seq(Octet)
         /\ Len(prf.buf \o m) = Len(prf.buf) + Len(m)
         /\ \A i \in 1..Len(prf.buf \o m) : (prf.buf \o m)[i] = Plain(prf, i)
<1> DEFINE k == WholeBlocks(prf)
           n == Len(prf.buf)
<1>1. prf.buf \in Seq(Octet) /\ n \in Nat /\ Len(m) \in Nat /\ MacLen \in Nat \ {0}
  BY PrfAssumption, LenProperties DEF Keys
<1>2. k \in Nat /\ n = k * MacLen
  BY DEF Progress
<1>3. /\ prf.buf \o m \in Seq(Octet) /\ Len(prf.buf \o m) = n + Len(m)
      /\ \A i \in 1..(n + Len(m)) : (prf.buf \o m)[i] = IF i <= n THEN prf.buf[i] ELSE m[i - n]
  BY <1>1, ConcatProperties
<1>4. \A i \in 1..n : prf.buf[i] = Plain(prf, i)
  BY DEF Written
<1>5. Elements = BlockOf(prf, k) /\ Elements \in Hashed
  BY ElementsAre
<1> HIDE DEF k, n
<1>6. ASSUME NEW j \in 1..Len(m) PROVE m[j] = Plain(prf, n + j)
  <2>1. j \in 1..MacLen
    BY <1>1
  <2>2. m[j] = [of |-> BlockOf(prf, k), at |-> j, bits |-> 8]
    BY <1>5, <2>1, MacIs
  <2>3. (k * MacLen + j - 1) \div MacLen = k
    BY <1>2, <2>1, InBlock
  <2>4. (n + j) - 1 = n + j - 1 /\ (n + j) - n = j
    BY <1>1, <2>1
  <2>5. ((n + j) - 1) \div MacLen = k /\ (n + j) - k * MacLen = j
    BY <1>2, <2>3, <2>4
  <2>6. QED
    BY <2>2, <2>5 DEF Plain
<1>7. ASSUME NEW i \in 1..(n + Len(m)) PROVE (prf.buf \o m)[i] = Plain(prf, i)
  <2>1. CASE i <= n
    BY <1>1, <1>3, <1>4, <2>1
  <2>2. CASE i > n
    <3>1. i - n \in 1..Len(m) /\ n + (i - n) = i
      BY <1>1, <2>2
    <3>2. (prf.buf \o m)[i] = m[i - n]
      BY <1>1, <1>3, <2>2
    <3>3. m[i - n] = Plain(prf, n + (i - n))
      BY <1>6, <3>1
    <3>4. QED
      BY <3>1, <3>2, <3>3
  <2>3. i <= n \/ i > n
    BY <1>1
  <2>4. QED
    BY <2>1, <2>2, <2>3
<1>8. QED
  BY <1>3, <1>7 DEF n

\* An octet of which all bits are asked for.
LEMMA KeyIsPlain ==
  ASSUME NEW p \in Keys, NEW i \in Nat, ~(8 * i > p.bits)
  PROVE  KeyOctet(p, i) = Plain(p, i)
  BY DEF KeyOctet, Plain, BlockOf, HashedBySha1, HashedByHmac

\* The last octet, when not all of its bits are.
LEMMA KeyIsMasked ==
  ASSUME NEW p \in Keys, NEW i \in Nat, 8 * i > p.bits
  PROVE  KeyOctet(p, i) = Masked(Plain(p, i), p.bits - 8 * (i - 1))
<1> DEFINE b == (i - 1) \div MacLen
<1>1. KeyOctet(p, i) = [of |-> BlockOf(p, b), at |-> i - b * MacLen, bits |-> p.bits - 8 * (i - 1)]
  BY DEF KeyOctet, BlockOf, HashedBySha1, HashedByHmac
<1>2. Plain(p, i) = [of |-> BlockOf(p, b), at |-> i - b * MacLen, bits |-> 8]
  BY DEF Plain
<1> HIDE DEF b
<1>3. QED
  BY <1>1, <1>2 DEF Masked

\* Of a key that is complete, the octets before the last are whole, and the last is when the
\* number of bits is one of octets.
LEMMA LastOctet ==
  ASSUME prf \in Keys
  PROVE  /\ Octets(prf) \in Nat /\ prf.bits \in Nat /\ prf.bits % 8 \in 0..7
         /\ \A i \in 1..Octets(prf) :
              (8 * i > prf.bits) <=> (i = Octets(prf) /\ prf.bits % 8 # 0)
         /\ prf.bits % 8 # 0 => /\ Octets(prf) > 0
                                /\ prf.bits - 8 * (Octets(prf) - 1) = prf.bits % 8
<1>1. prf.bits \in Nat
  BY PrfAssumption DEF Keys
<1>2. QED
  BY <1>1 DEF Octets

\* The masked key is the one that was asked for.
LEMMA MaskedIsKey ==
  ASSUME prf \in Keys, prf.pc # "done", Written, Len(prf.buf) = Octets(prf),
         NEW out, out = IF prf.bits % 8 = 0 THEN prf.buf ELSE MaskLast(prf.buf, prf.bits % 8)
  PROVE  /\ out \in Seq(Octet) /\ Len(out) = Octets(prf)
         /\ \A i \in 1..Len(out) : out[i] = KeyOctet(prf, i)
<1> DEFINE n == Octets(prf)
           r == prf.bits % 8
<1>1. /\ n \in Nat /\ r \in 0..7
      /\ \A i \in 1..n : (8 * i > prf.bits) <=> (i = n /\ r # 0)
      /\ r # 0 => n > 0 /\ prf.bits - 8 * (n - 1) = r
  BY LastOctet
<1>2. prf.buf \in Seq(Octet) /\ Len(prf.buf) = n /\ \A i \in 1..n : prf.buf[i] = Plain(prf, i)
  BY DEF Written, Keys
<1>3. out = IF r = 0 THEN prf.buf ELSE MaskLast(prf.buf, r)
  OBVIOUS
<1> HIDE DEF n, r
<1>4. CASE r = 0
  <2>1. ASSUME NEW i \in 1..n PROVE out[i] = KeyOctet(prf, i)
    <3>1. i \in Nat /\ ~(8 * i > prf.bits)
      BY <1>1, <1>4
    <3>2. KeyOctet(prf, i) = Plain(prf, i)
      BY <3>1, KeyIsPlain
    <3>3. QED
      BY <1>2, <1>3, <1>4, <3>2
  <2>2. QED
    BY <1>2, <1>3, <1>4, <2>1 DEF n
<1>5. CASE r # 0
  <2>1. n \in 1..n /\ r \in 0..8
    BY <1>1, <1>5
  <2>2. prf.buf[n] \in Octet
    BY <1>2, <2>1, ElementOfSeq
  <2>3. Masked(prf.buf[n], r) \in Octet
    BY <2>1, <2>2 DEF Masked, Octet
  <2>4. out = [prf.buf EXCEPT ![n] = Masked(prf.buf[n], r)]
    BY <1>2, <1>3, <1>5 DEF MaskLast
  <2>5. /\ out \in Seq(Octet) /\ Len(out) = n
        /\ \A i \in 1..n : out[i] = IF i = n THEN Masked(prf.buf[n], r) ELSE prf.buf[i]
    BY <1>2, <2>1, <2>3, <2>4, ExceptSeq
  <2>6. ASSUME NEW i \in 1..n PROVE out[i] = KeyOctet(prf, i)
    <3>1. i \in Nat
      BY <1>1
    <3>2. CASE i = n
      <4>1. 8 * i > prf.bits
        BY <1>1, <1>5, <3>2
      <4>2. KeyOctet(prf, i) = Masked(Plain(prf, i), prf.bits - 8 * (i - 1))
        BY <3>1, <4>1, KeyIsMasked
      <4>3. KeyOctet(prf, n) = Masked(prf.buf[n], r)
        BY <1>1, <1>2, <1>5, <2>1, <3>2, <4>2
      <4>4. QED
        BY <2>1, <2>5, <3>2, <4>3
    <3>3. CASE i # n
      <4>1. ~(8 * i > prf.bits)
        BY <1>1, <3>3
      <4>2. KeyOctet(prf, i) = Plain(prf, i)
        BY <3>1, <4>1, KeyIsPlain
      <4>3. QED
        BY <1>2, <2>5, <3>3, <4>2
    <3>4. QED
      BY <3>2, <3>3
  <2>7. QED
    BY <2>5, <2>6 DEF n
<1>6. QED
  BY <1>4, <1>5

\* What has been written of a key that is not complete is the beginning of it.
LEMMA BeginningIsKey ==
  ASSUME prf \in Keys, prf.pc # "done", Written, Len(prf.buf) < Octets(prf)
  PROVE  \A i \in 1..Len(prf.buf) : prf.buf[i] = KeyOctet(prf, i)
<1>1. Len(prf.buf) \in Nat /\ Octets(prf) \in Nat
  BY LastOctet, LenProperties DEF Keys
<1>2. SUFFICES ASSUME NEW i \in 1..Len(prf.buf) PROVE prf.buf[i] = KeyOctet(prf, i)
  OBVIOUS
<1>3. i \in Nat /\ i \in 1..Octets(prf) /\ i # Octets(prf)
  BY <1>1
<1>4. ~(8 * i > prf.bits)
  BY <1>3, LastOctet
<1>5. QED
  BY <1>3, <1>4, KeyIsPlain DEF Written

-----------------------------------------------------------------------------
(* The invariant *)

\* A step keeps the arguments of the call.
SameCall == /\ prf'.fn = prf.fn /\ prf'.label = prf.label /\ prf'.data = prf.data
            /\ prf'.bits = prf.bits

\* What they say of the key stays the same.
LEMMA SameKey ==
  ASSUME SameCall
  PROVE  /\ Octets(prf') = Octets(prf)
         /\ \A i : Plain(prf', i) = Plain(prf, i)
         /\ \A i : KeyOctet(prf', i) = KeyOctet(prf, i)
<1>1. Octets(prf') = Octets(prf)
  BY DEF SameCall, Octets
<1>2. ASSUME NEW i PROVE Plain(prf', i) = Plain(prf, i)
  BY DEF SameCall, Plain, BlockOf
<1>3. ASSUME NEW i PROVE KeyOctet(prf', i) = KeyOctet(prf, i)
  BY DEF SameCall, KeyOctet
<1>4. QED
  BY <1>1, <1>2, <1>3

\* A derivation is not an idle machine.
LEMMA KeyIsCall == prf \in Keys => prf # Idle /\ prf \notin PeerKeys
  BY DEF Keys, Idle, PeerKeys, Derivations

\* A derivation begins with nothing written.
LEMMA StartKeeps == StartPrf => PrfInv'
<1> SUFFICES ASSUME StartPrf PROVE PrfInv'
  OBVIOUS
<1>1. PICK l \in Labels, d \in Datas, n \in 0..MaxOctets :
        \/ prf' = Call("sha1_prf", l, d, 8 * n)
        \/ \E k \in 0..7 : 8 * n >= k /\ prf' = Call("hmac_prf_bits", l, d, 8 * n - k)
  BY DEF StartPrf
<1>2. PICK fn \in Derivations, bits \in 0..(8 * MaxOctets) : prf' = Call(fn, l, d, bits)
  BY <1>1, PrfAssumption DEF Derivations
<1>3. (bits + 7) \div 8 \in Nat
  BY <1>2, PrfAssumption
<1>4. <<>> \in Seq(Octet) /\ Len(<<>>) = 0
  BY EmptySeq
<1>5. prf' \in Keys
  BY <1>2, <1>3, <1>4 DEF Call, Keys, Derivations
<1>6. /\ prf'.pc = "setup" /\ prf'.buf = <<>> /\ prf'.left = Octets(prf') /\ prf'.hash = "clear"
      /\ WholeBlocks(prf') = 0
  BY <1>2 DEF Call, Octets, WholeBlocks, Derivations
<1>7. Progress'
  <2>1. 0 = 0 * MacLen /\ Octets(prf') \in Nat
    BY <1>2, <1>3, PrfAssumption DEF Octets, Call
  <2>2. Octets(prf') = Octets(prf') - 0
    BY <2>1
  <2>3. QED
    BY <1>4, <1>6, <2>1, <2>2 DEF Progress
<1>8. Written'
  BY <1>4, <1>6 DEF Written
<1>9. QED
  BY <1>5, <1>7, <1>8 DEF PrfInv

\* A block of the key in full.
LEMMA WholeKeeps ==
  ASSUME prf \in Keys, Progress, Written, WholeBlock
  PROVE  PrfInv'
<1>1. /\ prf.pc \in {"setup", "block"} /\ prf.left >= MacLen /\ MacLen \in Nat \ {0}
      /\ prf.left \in Nat /\ prf.ctr \in Nat /\ prf.left > 0
  BY PrfAssumption DEF WholeBlock, Keys
<1>2. Elements \in Hashed
  BY <1>1, ElementsAre
<1> DEFINE mac == MacOf(Elements)
           buf == prf.buf \o mac
<1>3. mac \in Seq(Octet) /\ Len(mac) = MacLen
  BY <1>2, MacIs
<1>4. /\ buf \in Seq(Octet) /\ Len(buf) = Len(prf.buf) + MacLen
      /\ \A i \in 1..Len(buf) : buf[i] = Plain(prf, i)
  <2>1. Len(mac) <= MacLen /\ \A j \in 1..Len(mac) : mac[j] = MacOf(Elements)[j]
    BY <1>1, <1>3
  <2> HIDE DEF mac
  <2>2. QED
    BY <1>1, <1>3, <2>1, Extended
<1> HIDE DEF buf
<1>5. /\ prf'.buf = buf /\ prf'.left = prf.left - MacLen /\ prf'.ctr = prf.ctr + 1
      /\ prf'.pc = (IF prf.fn = "sha1_prf" THEN "setup" ELSE "block")
      /\ prf'.hash = prf.hash /\ SameCall
  BY DEF WholeBlock, Keys, buf, SameCall
<1>6. prf' \in Keys
  <2>1. prf.left - MacLen \in Nat /\ prf.ctr + 1 \in Nat
    BY <1>1
  <2>2. prf' = [prf EXCEPT !.pc = IF prf.fn = "sha1_prf" THEN "setup" ELSE "block",
                           !.buf = buf, !.left = prf.left - MacLen, !.ctr = prf.ctr + 1]
    BY DEF WholeBlock, buf
  <2> HIDE DEF mac
  <2>3. QED
    BY <1>4, <2>1, <2>2 DEF Keys
<1>7. WholeBlocks(prf') = WholeBlocks(prf) + 1
  BY <1>1, <1>5 DEF WholeBlocks, SameCall, Keys, Derivations
<1>8. Progress'
  <2>1. /\ WholeBlocks(prf) \in Nat /\ Len(prf.buf) = WholeBlocks(prf) * MacLen /\ Len(prf.buf) \in Nat
        /\ prf.left = Octets(prf) - Len(prf.buf) /\ prf.hash # "key"
        /\ Octets(prf) \in Nat
    BY <1>1, LastOctet, LenProperties DEF Progress, Keys
  <2>2. WholeBlocks(prf') \in Nat /\ Len(buf) = WholeBlocks(prf') * MacLen
    <3>1. \A x, y \in Nat : (x + 1) * y = x * y + y
      OBVIOUS
    <3>2. (WholeBlocks(prf) + 1) * MacLen = WholeBlocks(prf) * MacLen + MacLen
      BY <1>1, <2>1, <3>1
    <3>3. QED
      BY <1>4, <1>7, <2>1, <3>2
  <2>3. prf'.left = Octets(prf') - Len(buf)
    <3>1. Octets(prf') = Octets(prf)
      BY <1>5, SameKey
    <3>2. QED
      BY <1>1, <1>4, <1>5, <2>1, <3>1
  <2>4. QED
    BY <1>5, <2>1, <2>2, <2>3 DEF Progress, SameCall
<1>9. Written'
  BY <1>4, <1>5, SameKey DEF Written
<1>10. QED
  BY <1>6, <1>8, <1>9 DEF PrfInv

\* The part of the last block that is asked for.
LEMMA PartKeeps ==
  ASSUME prf \in Keys, Progress, Written, PartOfBlock
  PROVE  PrfInv'
<1>1. /\ prf.pc \in {"setup", "block"} /\ prf.left \in 1..(MacLen - 1) /\ MacLen \in Nat \ {0}
      /\ prf.left > 0
  BY PrfAssumption DEF PartOfBlock
<1>2. Elements \in Hashed
  BY <1>1, ElementsAre
<1> DEFINE mac == MacOf(Elements)
           part == SubSeq(mac, 1, prf.left)
           buf == prf.buf \o part
<1>3. mac \in Seq(Octet) /\ Len(mac) = MacLen
  BY <1>2, MacIs
<1> HIDE DEF mac
<1>4. /\ part \in Seq(Octet) /\ Len(part) = prf.left
      /\ \A j \in 1..Len(part) : part[j] = mac[j]
  <2>1. \A j \in 1..prf.left : mac[j] \in Octet
    BY <1>1, <1>3, ElementOfSeq
  <2>2. /\ part \in Seq(Octet) /\ Len(part) = (IF 1 <= prf.left THEN prf.left - 1 + 1 ELSE 0)
        /\ \A j \in 1..(prf.left - 1 + 1) : part[j] = mac[1 + j - 1]
    BY <1>1, <2>1, SubSeqProperties
  <2>3. prf.left - 1 + 1 = prf.left /\ 1 <= prf.left
    BY <1>1
  <2>4. \A j \in 1..prf.left : 1 + j - 1 = j
    BY <1>1
  <2>5. QED
    BY <2>2, <2>3, <2>4
<1> HIDE DEF part
<1>5. /\ buf \in Seq(Octet) /\ Len(buf) = Len(prf.buf) + prf.left
      /\ \A i \in 1..Len(buf) : buf[i] = Plain(prf, i)
  <2>1. Len(part) <= MacLen
    BY <1>1, <1>4
  <2>2. QED
    BY <1>1, <1>4, <2>1, Extended DEF mac
<1> HIDE DEF buf
<1>6. /\ prf'.buf = buf /\ prf'.left = 0 /\ prf'.pc = "clear" /\ prf'.hash = "key" /\ SameCall
  BY DEF PartOfBlock, Keys, buf, part, mac, SameCall
<1>7. prf' \in Keys
  BY <1>5 DEF PartOfBlock, Keys, buf, part, mac
<1>8. Len(buf) = Octets(prf')
  <2>1. /\ prf.left = Octets(prf) - Len(prf.buf) /\ Octets(prf) \in Nat /\ Len(prf.buf) \in Nat
    BY <1>1, LastOctet, LenProperties DEF Progress, Keys
  <2>2. Octets(prf') = Octets(prf)
    BY <1>6, SameKey
  <2>3. QED
    BY <1>5, <2>1, <2>2
<1>9. Progress'
  BY <1>6, <1>8 DEF Progress
<1>10. Written'
  BY <1>5, <1>6, SameKey DEF Written
<1>11. QED
  BY <1>7, <1>9, <1>10 DEF PrfInv

\* The MAC is cleared; nothing else changes.
LEMMA ClearKeeps ==
  ASSUME prf \in Keys, Progress, Written, ClearHash
  PROVE  PrfInv'
<1>1. /\ prf.pc = "clear" /\ prf'.pc = "mask" /\ prf'.hash = "clear" /\ prf'.buf = prf.buf
      /\ prf'.left = prf.left /\ SameCall
  BY DEF ClearHash, Keys, SameCall
<1>2. prf' \in Keys
  BY DEF ClearHash, Keys
<1>3. Progress'
  BY <1>1, SameKey DEF Progress
<1>4. Written'
  BY <1>1, SameKey DEF Written
<1>5. QED
  BY <1>2, <1>3, <1>4 DEF PrfInv

\* A derivation that fails has written the beginning of the key, or nothing.
LEMMA FailKeeps ==
  ASSUME prf \in Keys, Progress, Written, SetupFails
  PROVE  PrfInv'
<1>1. /\ prf.pc = "setup" /\ prf'.pc = "done" /\ prf'.rc = -1 /\ prf'.buf = prf.buf
      /\ prf'.hash = prf.hash /\ SameCall
  BY DEF SetupFails, End, Keys, SameCall
<1>2. prf' \in Keys
  BY DEF SetupFails, End, Keys
<1>3. Progress'
  BY <1>1 DEF Progress
<1>4. \A i \in 1..Len(prf.buf) : prf.buf[i] = KeyOctet(prf, i)
  <2>1. CASE prf.fn = "sha1_prf"
    <3>1. /\ prf.left > 0 /\ prf.left = Octets(prf) - Len(prf.buf) /\ Octets(prf) \in Nat
          /\ Len(prf.buf) \in Nat
      BY <1>1, <2>1, LastOctet, LenProperties DEF SetupFails, Progress, Keys
    <3>2. Len(prf.buf) < Octets(prf)
      BY <3>1
    <3>3. QED
      BY <1>1, <3>2, BeginningIsKey
  <2>2. CASE prf.fn = "hmac_prf_bits"
    <3>1. prf.buf = <<>>
      BY <1>1, <2>2 DEF Progress
    <3>2. QED
      BY <3>1, EmptySeq
  <2>3. QED
    BY <2>1, <2>2 DEF Keys, Derivations
<1>5. Written'
  BY <1>1, <1>4, SameKey DEF Written
<1>6. QED
  BY <1>2, <1>3, <1>5 DEF PrfInv

\* The last octet keeps the bits that are asked for.
LEMMA MaskKeeps ==
  ASSUME prf \in Keys, Progress, Written, MaskBits
  PROVE  PrfInv'
<1> DEFINE out == IF prf.bits % 8 = 0 THEN prf.buf ELSE MaskLast(prf.buf, prf.bits % 8)
<1>1. /\ prf.pc # "done" /\ prf.hash # "key" /\ prf'.pc = "done" /\ prf'.rc = 0
      /\ prf'.hash = prf.hash /\ SameCall
  BY DEF MaskBits, End, Keys, SameCall, Progress
<1>2. prf'.buf = out
  BY DEF MaskBits, End, Keys
<1>3. Len(prf.buf) = Octets(prf)
  <2>1. Octets(prf) \in Nat /\ Len(prf.buf) \in Nat
    BY LastOctet, LenProperties DEF Keys
  <2>2. QED
    BY <2>1 DEF MaskBits, Progress
<1>4. /\ out \in Seq(Octet) /\ Len(out) = Octets(prf)
      /\ \A i \in 1..Len(out) : out[i] = KeyOctet(prf, i)
  BY <1>1, <1>3, MaskedIsKey
<1>5. prf' \in Keys
  BY <1>4 DEF MaskBits, End, Keys
<1> HIDE DEF out
<1>6. Progress'
  BY <1>1 DEF Progress
<1>7. Written'
  BY <1>1, <1>2, <1>4, SameKey DEF Written
<1>8. QED
  BY <1>5, <1>6, <1>7 DEF PrfInv

\* Every step keeps the invariant.
LEMMA PrfInvStep == PrfInv /\ [PrfNext]_prf => PrfInv'
<1> SUFFICES ASSUME PrfInv, [PrfNext]_prf PROVE PrfInv'
  OBVIOUS
<1>1. CASE StartPrf
  BY <1>1, StartKeeps
<1>2. CASE SetPeerKey
  BY <1>2 DEF SetPeerKey, PrfInv, PeerKeys
<1>3. CASE PrfReturn
  BY <1>3 DEF PrfReturn, PrfInv
<1>4. CASE prf' = prf
  BY <1>4 DEF PrfInv, Progress, Written
<1>5. CASE SetupFails \/ WholeBlock \/ PartOfBlock \/ ClearHash \/ MaskBits
  <2>1. prf # Idle /\ prf \notin PeerKeys
    BY <1>5 DEF SetupFails, WholeBlock, PartOfBlock, ClearHash, MaskBits, PeerKeys
  <2>2. prf \in Keys /\ Progress /\ Written
    BY <2>1 DEF PrfInv
  <2>3. QED
    BY <1>5, <2>2, FailKeeps, WholeKeeps, PartKeeps, ClearKeeps, MaskKeeps
<1>6. QED
  BY <1>1, <1>2, <1>3, <1>4, <1>5 DEF PrfNext

\* It holds before the first call.
LEMMA PrfInvInit == InitPrf => PrfInv
  BY DEF InitPrf, PrfInv

-----------------------------------------------------------------------------
(* The theorems *)

\* A derived key is the one 802.11 defines, whatever its label, its data, its length in bits
\* and the length of a MAC: octet by octet, none missing, none too many and no counter that
\* comes around; and no MAC is left behind.
THEOREM KeysAreRight == PrfSpec => []PrfRight
<1>1. PrfInv => PrfRight
  <2> SUFFICES ASSUME PrfInv, prf.fn \in Derivations PROVE PrfRight
    BY DEF PrfRight
  <2>1. prf \in Keys /\ Progress /\ Written
    BY DEF PrfInv, Idle, PeerKeys, Derivations
  <2>2. Octets(prf) \in Nat /\ Len(prf.buf) \in Nat
    BY <2>1, LastOctet, LenProperties DEF Keys
  <2>3. prf.pc # "done" => Len(prf.buf) + prf.left = Octets(prf)
    BY <2>1, <2>2 DEF Progress, Keys
  <2>4. prf.pc = "done" => prf.hash = "clear"
    BY <2>1 DEF Progress, Keys
  <2>5. QED
    BY <2>1, <2>3, <2>4 DEF Written, PrfRight, Octets
<1>2. QED
  BY PrfInvInit, PrfInvStep, <1>1, PTL DEF PrfSpec

\* The public value mbedtls reads is as long as its first octet says, fits the buffer and has
\* the coordinates its form says, for every length a peer may send.
THEOREM PeerKeysAreRight == PrfSpec => []PeerKeyRight
<1>1. PrfInv => PeerKeyRight
  <2> SUFFICES ASSUME PrfInv, prf.fn = "set_peerkey", prf.out # <<>> PROVE PeerKeyRight
    BY DEF PeerKeyRight
  <2>1. prf \in PeerKeys
    BY DEF PrfInv, Idle, Keys, Derivations
  <2>2. PICK len \in 0..BufSize, inc_y \in BOOLEAN, derives \in BOOLEAN :
          prf = [fn |-> "set_peerkey", pc |-> "done", len |-> len, inc_y |-> inc_y,
                 derives |-> derives, out |-> set_peerkey(len, inc_y, derives)]
    BY <2>1 DEF PeerKeys
  <2>3. BufSize \in Nat
    BY PrfAssumption
  <2>4. set_peerkey(len, inc_y, derives) # <<>>
    BY <2>2
  <2>5. /\ len > 0 /\ len <= BufSize - 2
        /\ ~inc_y /\ derives => 2 * len <= BufSize - 2
    BY <2>2, <2>3, <2>4 DEF set_peerkey
  <2>6. CASE inc_y \/ ~derives
    <3>1. prf.out = <<PutOnce(len, inc_y)>>
      BY <2>2, <2>4, <2>6 DEF set_peerkey
    <3>2. (1 + len) % BufSize = 1 + len
      BY <2>2, <2>3, <2>5, SmallMod
    <3>3. prf.out[1] = PutOnce(len, inc_y) /\ prf.inc_y = inc_y /\ prf.len = len
      BY <2>2, <3>1
    <3>4. QED
      BY <2>2, <2>3, <2>5, <3>2, <3>3 DEF PeerKeyRight, PutOnce, Uncompressed, Compressed
  <2>7. CASE ~inc_y /\ derives
    <3>1. prf.out = <<PutTwice(len)>>
      BY <2>2, <2>4, <2>7 DEF set_peerkey
    <3>2. (1 + len) % BufSize = 1 + len
      BY <2>2, <2>3, <2>5, SmallMod
    <3>3. (1 + len) + len = 1 + 2 * len /\ 1 + 2 * len \in Nat /\ 1 + 2 * len < BufSize
      BY <2>2, <2>3, <2>5, <2>7
    <3>4. (1 + 2 * len) % BufSize = 1 + 2 * len
      BY <2>3, <3>3, SmallMod
    <3>5. prf.out[1] = PutTwice(len) /\ prf.inc_y = inc_y /\ prf.len = len
      BY <2>2, <3>1
    <3>6. /\ PutTwice(len).first = 1 + 2 * len /\ PutTwice(len).put = 1 + 2 * len
          /\ PutTwice(len).secret = len /\ PutTwice(len).form = Uncompressed
      BY <3>2, <3>3, <3>4 DEF PutTwice
    <3>7. (1 + 2 * len) + 1 <= BufSize
      BY <2>2, <2>3, <3>3
    <3>8. QED
      BY <2>7, <3>5, <3>6, <3>7 DEF PeerKeyRight
  <2>8. QED
    BY <2>2, <2>6, <2>7
<1>2. QED
  BY PrfInvInit, PrfInvStep, <1>1, PTL DEF PrfSpec

-----------------------------------------------------------------------------
(* Congruence *)

Congruent(a, b, p) == \E q \in Int : a - b = q * p

\* Congruent numbers have the same remainder.
LEMMA CongruentIs ==
  ASSUME NEW p \in Nat \ {0}, NEW a \in Int, NEW b \in Int
  PROVE  Congruent(a, b, p) <=> a % p = b % p
<1>1. ASSUME Congruent(a, b, p) PROVE a % p = b % p
  <2>1. PICK q \in Int : a - b = q * p
    BY <1>1 DEF Congruent
  <2> DEFINE u == b \div p
             s == b % p
  <2>2. u \in Int /\ s \in 0..(p - 1) /\ b = u * p + s
    BY Division
  <2> HIDE DEF u, s
  <2>3. a = (q + u) * p + s
    BY <2>1, <2>2
  <2>4. a % p = s
    BY <2>2, <2>3, DivIs, q + u \in Int
  <2>5. QED
    BY <2>4 DEF s
<1>2. ASSUME a % p = b % p PROVE Congruent(a, b, p)
  <2> DEFINE u == b \div p
             w == a \div p
             s == b % p
  <2>1. u \in Int /\ w \in Int /\ s \in 0..(p - 1) /\ b = u * p + s /\ a = w * p + s
    BY <1>2, Division
  <2> HIDE DEF u, w, s
  <2>2. a - b = (w - u) * p /\ w - u \in Int
    BY <2>1
  <2>3. QED
    BY <2>2 DEF Congruent
<1>3. QED
  BY <1>1, <1>2

\* A number is congruent to its remainder.
LEMMA CongruentMod ==
  ASSUME NEW p \in Nat \ {0}, NEW a \in Int
  PROVE  a % p \in 0..(p - 1) /\ Congruent(a % p, a, p) /\ Congruent(a, a % p, p)
<1> DEFINE u == a \div p
           s == a % p
<1>1. u \in Int /\ s \in 0..(p - 1) /\ a = u * p + s
  BY Division
<1> HIDE DEF u, s
<1>2. s - a = (-u) * p /\ a - s = u * p /\ -u \in Int
  BY <1>1
<1>3. Congruent(s, a, p) /\ Congruent(a, s, p)
  BY <1>1, <1>2 DEF Congruent
<1>4. QED
  BY <1>1, <1>3 DEF s

\* Congruent remainders are equal.
LEMMA CongruentSmall ==
  ASSUME NEW p \in Nat \ {0}, NEW a \in 0..(p - 1), NEW b \in 0..(p - 1), Congruent(a, b, p)
  PROVE  a = b
<1>1. a % p = a /\ b % p = b
  <2>1. a = 0 * p + a /\ b = 0 * p + b
    OBVIOUS
  <2>2. QED
    BY <2>1, DivIs, 0 \in Int
<1>2. a % p = b % p
  BY CongruentIs, a \in Int, b \in Int
<1>3. QED
  BY <1>1, <1>2

\* Congruence is an equivalence,
LEMMA CongruentRefl == ASSUME NEW p \in Int, NEW a \in Int PROVE Congruent(a, a, p)
<1>1. a - a = 0 * p
  OBVIOUS
<1>2. QED
  BY <1>1, 0 \in Int DEF Congruent

\* in both directions,
LEMMA CongruentSym ==
  ASSUME NEW p \in Int, NEW a \in Int, NEW b \in Int, Congruent(a, b, p)
  PROVE  Congruent(b, a, p)
<1>1. PICK q \in Int : a - b = q * p
  BY DEF Congruent
<1>2. b - a = (-q) * p /\ -q \in Int
  BY <1>1
<1>3. QED
  BY <1>2 DEF Congruent

\* from one number to the next,
LEMMA CongruentTrans ==
  ASSUME NEW p \in Int, NEW a \in Int, NEW b \in Int, NEW c \in Int,
         Congruent(a, b, p), Congruent(b, c, p)
  PROVE  Congruent(a, c, p)
<1>1. PICK q \in Int : a - b = q * p
  BY DEF Congruent
<1>2. PICK u \in Int : b - c = u * p
  BY DEF Congruent
<1>3. a - c = (q + u) * p /\ q + u \in Int
  BY <1>1, <1>2
<1>4. QED
  BY <1>3 DEF Congruent

\* kept by sums and differences
LEMMA CongruentSum ==
  ASSUME NEW p \in Int, NEW a \in Int, NEW b \in Int, NEW c \in Int, NEW d \in Int,
         Congruent(a, b, p), Congruent(c, d, p)
  PROVE  Congruent(a + c, b + d, p) /\ Congruent(a - c, b - d, p)
<1>1. PICK q \in Int : a - b = q * p
  BY DEF Congruent
<1>2. PICK u \in Int : c - d = u * p
  BY DEF Congruent
<1>3. (a + c) - (b + d) = (q + u) * p /\ (a - c) - (b - d) = (q - u) * p
  BY <1>1, <1>2
<1>4. QED
  BY <1>3, q + u \in Int, q - u \in Int DEF Congruent

\* and by products.
LEMMA CongruentProduct ==
  ASSUME NEW p \in Int, NEW a \in Int, NEW b \in Int, NEW c \in Int, NEW d \in Int,
         Congruent(a, b, p), Congruent(c, d, p)
  PROVE  Congruent(a * c, b * d, p)
<1>1. PICK q \in Int : a - b = q * p
  BY DEF Congruent
<1>2. PICK u \in Int : c - d = u * p
  BY DEF Congruent
<1>3. a = b + q * p /\ c = d + u * p
  BY <1>1, <1>2
<1>4. a * c - b * d = (q * c + b * u) * p
  <2>1. a * c - b * d = (a - b) * c + b * (c - d)
    OBVIOUS
  <2>2. (a - b) * c = (q * c) * p
    BY <1>1
  <2>3. b * (c - d) = (b * u) * p
    BY <1>2
  <2>4. QED
    BY <2>1, <2>2, <2>3
<1>5. QED
  BY <1>4, q * c + b * u \in Int DEF Congruent

\* Every set of natural numbers that is not empty has a least one.
LEMMA Least ==
  ASSUME NEW T \in SUBSET Nat, T # {}
  PROVE  \E m \in T : \A n \in T : m <= n
<1>1. PICK m \in T : \A n \in T : <<n, m>> \notin OpToRel(<, Nat)
  BY NatLessThanWellFounded, WFMin, Zenon
<1>2. ASSUME NEW n \in T PROVE m <= n
  <2>1. SUFFICES ASSUME n < m PROVE FALSE
    OBVIOUS
  <2>2. <<n, m>> \in OpToRel(<, Nat)
    BY <2>1 DEF OpToRel
  <2>3. QED
    BY <1>1, <2>2
<1>3. QED
  BY <1>2

\* Induction, about a set of numbers instead of a formula.
LEMMA Induction ==
  ASSUME NEW S, 0 \in S, \A n \in Nat : n \in S => n + 1 \in S
  PROVE  \A n \in Nat : n \in S
<1> SUFFICES ASSUME {n \in Nat : n \notin S} # {} PROVE FALSE
  OBVIOUS
<1>1. PICK m \in {n \in Nat : n \notin S} : \A n \in {n \in Nat : n \notin S} : m <= n
  BY Least
<1>2. m # 0 /\ m - 1 \in Nat
  BY <1>1
<1>3. m - 1 \in S
  BY <1>1, <1>2
<1>4. m \in S
  BY <1>2, <1>3
<1>5. QED
  BY <1>1, <1>4

-----------------------------------------------------------------------------
(* Products of the first numbers of a sequence, and powers *)

Products(g, c, n) == g = [i \in 0..n |-> IF i = 0 THEN 1 ELSE c[i] * g[i - 1]]
Product(c, n) == (CHOOSE g : Products(g, c, n))[n]

\* The products exist.
LEMMA ProductsExist ==
  ASSUME NEW c \in [Nat -> Int] PROVE \A n \in Nat : \E g \in [0..n -> Int] : Products(g, c, n)
<1> DEFINE S == {n \in Nat : \E g \in [0..n -> Int] : Products(g, c, n)}
<1>1. 0 \in S
  <2> DEFINE g == [i \in 0..0 |-> 1]
  <2>1. g \in [0..0 -> Int] /\ Products(g, c, 0)
    BY DEF Products
  <2>2. QED
    BY <2>1
<1>2. ASSUME NEW n \in Nat, n \in S PROVE n + 1 \in S
  <2>1. PICK g \in [0..n -> Int] : Products(g, c, n)
    BY <1>2
  <2> DEFINE h == [i \in 0..(n + 1) |-> IF i = n + 1 THEN c[i] * g[n] ELSE g[i]]
  <2>2. h \in [0..(n + 1) -> Int]
    <3>1. c[n + 1] * g[n] \in Int
      OBVIOUS
    <3>2. QED
      BY <3>1
  <2>3. ASSUME NEW i \in 0..(n + 1) PROVE h[i] = IF i = 0 THEN 1 ELSE c[i] * h[i - 1]
    <3>1. CASE i = n + 1
      BY <3>1
    <3>2. CASE i \in 0..n
      <4>1. g[i] = IF i = 0 THEN 1 ELSE c[i] * g[i - 1]
        BY <2>1, <3>2 DEF Products
      <4>2. QED
        BY <3>2, <4>1
    <3>3. QED
      BY <3>1, <3>2
  <2>4. Products(h, c, n + 1)
    BY <2>2, <2>3 DEF Products
  <2>5. QED
    BY <2>2, <2>4
<1>3. QED
  <2> HIDE DEF S
  <2>1. \A n \in Nat : n \in S
    BY <1>1, <1>2, Induction
  <2>2. QED
    BY <2>1 DEF S

\* Two such functions agree as far as both go.
LEMMA ProductsAgree ==
  ASSUME NEW c, NEW n \in Nat, NEW m \in Nat, n <= m, NEW g, NEW h, Products(g, c, n), Products(h, c, m)
  PROVE  \A i \in 0..n : g[i] = h[i]
<1> DEFINE S == {i \in Nat : i <= n => g[i] = h[i]}
<1>1. 0 \in S
  BY DEF Products
<1>2. ASSUME NEW i \in Nat, i \in S PROVE i + 1 \in S
  <2>1. CASE i + 1 <= n
    <3>1. g[i + 1] = c[i + 1] * g[i] /\ h[i + 1] = c[i + 1] * h[i]
      BY <2>1, Zenon, SMT DEF Products
    <3>2. QED
      BY <1>2, <2>1, <3>1
  <2>2. QED
    BY <2>1
<1>3. QED
  <2> HIDE DEF S
  <2>1. \A i \in Nat : i \in S
    BY <1>1, <1>2, Induction
  <2>2. QED
    BY <2>1 DEF S

\* Product is that function's last value.
LEMMA ProductIs ==
  ASSUME NEW c, NEW n \in Nat, NEW g, Products(g, c, n)
  PROVE  Product(c, n) = g[n]
<1> DEFINE G == CHOOSE f : Products(f, c, n)
<1>1. Product(c, n) = G[n]
  BY DEF Product
<1>2. Products(G, c, n)
  OBVIOUS
<1> HIDE DEF G
<1>3. QED
  BY <1>1, <1>2, ProductsAgree

\* What a product is, from one factor to the next.
LEMMA ProductStep ==
  ASSUME NEW c \in [Nat -> Int]
  PROVE  /\ Product(c, 0) = 1
         /\ \A n \in Nat : Product(c, n) \in Int /\ Product(c, n + 1) = c[n + 1] * Product(c, n)
<1>1. Product(c, 0) = 1
  <2>1. PICK g : Products(g, c, 0)
    BY ProductsExist
  <2>2. Product(c, 0) = g[0]
    BY <2>1, ProductIs
  <2>3. g[0] = 1
    BY <2>1 DEF Products
  <2>4. QED
    BY <2>2, <2>3
<1>2. ASSUME NEW n \in Nat PROVE Product(c, n) \in Int /\ Product(c, n + 1) = c[n + 1] * Product(c, n)
  <2>1. PICK g \in [0..n -> Int] : Products(g, c, n)
    BY ProductsExist
  <2>2. n + 1 \in Nat
    OBVIOUS
  <2>3. PICK h \in [0..(n + 1) -> Int] : Products(h, c, n + 1)
    BY <2>2, ProductsExist
  <2>4. Product(c, n) = g[n] /\ Product(c, n + 1) = h[n + 1]
    BY <2>1, <2>2, <2>3, ProductIs
  <2>5. g[n] = h[n]
    BY <2>1, <2>2, <2>3, ProductsAgree
  <2>6. h[n + 1] = c[n + 1] * h[n]
    BY <2>3 DEF Products
  <2>7. QED
    BY <2>1, <2>4, <2>5, <2>6
<1>3. QED
  BY <1>1, <1>2

\* A power is the product of equal factors.
LEMMA PowerIs ==
  ASSUME NEW a \in Int, NEW n \in Nat
  PROVE  Power(a, n) = Product([i \in Nat |-> a], n)
<1> DEFINE c == [i \in Nat |-> a]
           G == CHOOSE f : f = [i \in 0..n |-> IF i = 0 THEN 1 ELSE a * f[i - 1]]
<1>1. PICK g \in [0..n -> Int] : Products(g, c, n)
  BY ProductsExist
<1>2. g = [i \in 0..n |-> IF i = 0 THEN 1 ELSE a * g[i - 1]]
  BY <1>1 DEF Products
<1>3. G = [i \in 0..n |-> IF i = 0 THEN 1 ELSE a * G[i - 1]]
  BY <1>2
<1>4. Power(a, n) = G[n]
  BY DEF Power
<1> HIDE DEF G
<1>5. Products(G, c, n)
  BY <1>3 DEF Products
<1>6. QED
  BY <1>4, <1>5, ProductIs

\* What a power is, from one exponent to the next.
LEMMA PowerStep ==
  ASSUME NEW a \in Int
  PROVE  /\ Power(a, 0) = 1
         /\ \A n \in Nat : Power(a, n) \in Int /\ Power(a, n + 1) = a * Power(a, n)
<1> DEFINE c == [i \in Nat |-> a]
<1>1. c \in [Nat -> Int]
  OBVIOUS
<1>2. \A n \in Nat : c[n + 1] = a
  OBVIOUS
<1>3. \A n \in Nat : Power(a, n) = Product(c, n)
  BY PowerIs, Zenon
<1> HIDE DEF c
<1>4. Product(c, 0) = 1 /\ \A n \in Nat : Product(c, n) \in Int /\ Product(c, n + 1) = c[n + 1] * Product(c, n)
  BY <1>1, ProductStep
<1>5. \A n \in Nat : n + 1 \in Nat
  OBVIOUS
<1>6. QED
  BY <1>2, <1>3, <1>4, <1>5

\* 1 to any power, and powers of positive numbers.
LEMMA PowersOfOne == \A n \in Nat : Power(1, n) = 1
<1> DEFINE S == {n \in Nat : Power(1, n) = 1}
<1>1. 0 \in S
  BY PowerStep
<1>2. ASSUME NEW n \in Nat, n \in S PROVE n + 1 \in S
  BY <1>2, PowerStep
<1>3. QED
  <2> HIDE DEF S
  <2>1. \A n \in Nat : n \in S
    BY <1>1, <1>2, Induction
  <2>2. QED
    BY <2>1 DEF S

\* Powers of 2 and more exceed their exponents.
LEMMA PowerGrows ==
  ASSUME NEW a \in Nat, a >= 2
  PROVE  \A n \in Nat : Power(a, n) \in Nat /\ Power(a, n) > n
<1> DEFINE S == {n \in Nat : Power(a, n) \in Nat /\ Power(a, n) > n}
<1>1. 0 \in S
  BY PowerStep
<1>2. ASSUME NEW n \in Nat, n \in S PROVE n + 1 \in S
  <2> DEFINE w == Power(a, n)
  <2>1. w \in Nat /\ w >= n + 1 /\ Power(a, n + 1) = a * w
    BY <1>2, PowerStep
  <2> HIDE DEF w
  <2>2. a * w >= 2 * w /\ a * w \in Nat
    BY <2>1
  <2>3. QED
    BY <2>1, <2>2
<1>3. QED
  <2> HIDE DEF S
  <2>1. \A n \in Nat : n \in S
    BY <1>1, <1>2, Induction
  <2>2. QED
    BY <2>1 DEF S

\* Powers of 2 and more grow with their exponents.
LEMMA PowerMonotone ==
  ASSUME NEW a \in Nat, a >= 2, NEW n \in Nat
  PROVE  \A m \in Nat : Power(a, n + m) >= Power(a, n)
<1> DEFINE S == {m \in Nat : Power(a, n + m) >= Power(a, n)}
<1>1. 0 \in S
  BY PowerGrows
<1>2. ASSUME NEW m \in Nat, m \in S PROVE m + 1 \in S
  <2> DEFINE w == Power(a, n + m)
  <2>1. n + m \in Nat /\ n + (m + 1) = (n + m) + 1
    OBVIOUS
  <2>2. w \in Nat /\ Power(a, n + (m + 1)) = a * w /\ Power(a, n) \in Nat /\ w >= Power(a, n)
    BY <1>2, <2>1, PowerStep, PowerGrows
  <2> HIDE DEF w
  <2>3. a * w >= w /\ a * w \in Nat
    BY <2>2
  <2>4. QED
    BY <2>2, <2>3
<1>3. QED
  <2> HIDE DEF S
  <2>1. \A m \in Nat : m \in S
    BY <1>1, <1>2, Induction
  <2>2. QED
    BY <2>1 DEF S

-----------------------------------------------------------------------------
(* Modulo a prime *)

\* The least multiple of x modulo p divides p.
LEMMA PrimeInverse ==
  ASSUME NEW p \in Nat, Prime(p), NEW x \in 1..(p - 1)
  PROVE  \E y \in 1..(p - 1) : Congruent(x * y, 1, p)
<1>0. p > 1 /\ p \in Nat \ {0} /\ x \in Int
  BY DEF Prime
<1> DEFINE T == {n \in Nat : n # 0 /\ \E j \in Int : Congruent(j * x, n, p)}
<1>1. x \in T
  <2>1. Congruent(1 * x, x, p)
    BY <1>0, CongruentRefl
  <2>2. QED
    BY <2>1, 1 \in Int
<1>2. PICK m \in T : \A n \in T : m <= n
  BY <1>1, Least
<1>3. m \in Nat \ {0} /\ m <= x
  BY <1>1, <1>2
<1>4. PICK j \in Int : Congruent(j * x, m, p)
  BY <1>2
<1>5. PICK q \in Int : j * x - m = q * p
  BY <1>4 DEF Congruent
<1> DEFINE u == p \div m
           r == p % m
<1>6. u \in Int /\ r \in 0..(m - 1) /\ p = u * m + r
  BY <1>3, Division
<1>7. r = 0
  <2> HIDE DEF u, r
  <2>1. (-u * j) * x - r = (-u * q - 1) * p
    <3>1. (-u * j) * x = -u * (j * x)
      BY <1>0, <1>6
    <3>2. -u * (j * x) = -u * (m + q * p)
      BY <1>0, <1>3, <1>5, <1>6
    <3>3. -u * (m + q * p) = -(u * m) + (-u * q) * p
      BY <1>0, <1>3, <1>6
    <3>4. (-u * q - 1) * p = (-u * q) * p - p
      BY <1>0, <1>6
    <3>5. QED
      BY <1>0, <1>3, <1>6, <3>1, <3>2, <3>3, <3>4
  <2>2. Congruent((-u * j) * x, r, p)
    BY <1>6, <2>1, -u * q - 1 \in Int DEF Congruent
  <2>3. r \in Nat /\ -u * j \in Int
    BY <1>6
  <2>4. r # 0 => r \in T
    BY <2>2, <2>3
  <2>5. QED
    BY <1>2, <1>3, <1>6, <2>4
<1>8. m = 1
  BY <1>0, <1>3, <1>7 DEF Prime
<1> DEFINE y == j % p
<1>9. y \in 0..(p - 1) /\ Congruent(y, j, p)
  BY <1>0, CongruentMod
<1> HIDE DEF T, u, r, y
<1>10. Congruent(x * y, x * j, p)
  <2>1. Congruent(x, x, p) /\ y \in Int
    BY <1>0, <1>9, CongruentRefl
  <2>2. QED
    BY <1>0, <1>9, <2>1, CongruentProduct
<1>11. x * j = j * x /\ x * j \in Int /\ x * y \in Int
  BY <1>0, <1>9
<1>12. Congruent(x * y, 1, p)
  BY <1>0, <1>4, <1>8, <1>10, <1>11, CongruentTrans
<1>13. y # 0
  <2>1. SUFFICES ASSUME y = 0 PROVE FALSE
    OBVIOUS
  <2>2. x * y = 0
    BY <1>0, <2>1
  <2>3. 0 \in 0..(p - 1) /\ 1 \in 0..(p - 1)
    BY <1>0
  <2>4. QED
    BY <1>0, <1>12, <2>2, <2>3, CongruentSmall
<1>14. QED
  BY <1>9, <1>12, <1>13

\* A factor prime to p cancels.
LEMMA Cancel ==
  ASSUME NEW p \in Nat, Prime(p), NEW x \in 1..(p - 1), NEW a \in Int, NEW b \in Int,
         Congruent(x * a, x * b, p)
  PROVE  Congruent(a, b, p)
<1>1. p \in Int /\ x \in Int
  OBVIOUS
<1>2. PICK y \in 1..(p - 1) : Congruent(x * y, 1, p)
  BY PrimeInverse
<1>3. y \in Int /\ x * y \in Int /\ x * a \in Int /\ x * b \in Int
  BY <1>1
<1>4. Congruent(y * (x * a), y * (x * b), p)
  BY <1>1, <1>3, CongruentRefl, CongruentProduct
<1>5. ASSUME NEW c \in Int
      PROVE  Congruent(y * (x * c), c, p) /\ Congruent(c, y * (x * c), p) /\ y * (x * c) \in Int
  <2>1. Congruent((x * y) * c, 1 * c, p)
    BY <1>1, <1>2, <1>3, CongruentRefl, CongruentProduct
  <2>2. (x * y) * c = y * (x * c) /\ 1 * c = c /\ y * (x * c) \in Int
    BY <1>1, <1>3
  <2>3. QED
    BY <1>1, <2>1, <2>2, CongruentSym
<1>6. Congruent(a, y * (x * b), p)
  BY <1>1, <1>4, <1>5, CongruentTrans
<1>7. QED
  BY <1>1, <1>5, <1>6, CongruentTrans

\* For k prime to p every x has one y with x * y = k.
LEMMA Partner ==
  ASSUME NEW p \in Nat, Prime(p), NEW k \in Int, ~Congruent(k, 0, p), NEW x \in 1..(p - 1)
  PROVE  /\ \E y \in 1..(p - 1) : Congruent(x * y, k, p)
         /\ \A y, z \in 1..(p - 1) : Congruent(x * y, k, p) /\ Congruent(x * z, k, p) => y = z
<1>1. p \in Int /\ x \in Int /\ p \in Nat \ {0} /\ p > 1
  BY DEF Prime
<1>2. \E y \in 1..(p - 1) : Congruent(x * y, k, p)
  <2>1. PICK j \in 1..(p - 1) : Congruent(x * j, 1, p)
    BY PrimeInverse
  <2> DEFINE y == (j * k) % p
  <2>2. j \in Int /\ j * k \in Int
    OBVIOUS
  <2>3. y \in 0..(p - 1) /\ Congruent(y, j * k, p)
    BY <1>1, <2>2, CongruentMod
  <2> HIDE DEF y
  <2>4. x * y \in Int /\ x * j \in Int /\ x * (j * k) \in Int /\ x * (j * k) = (x * j) * k /\ 1 * k = k
    BY <1>1, <2>2, <2>3
  <2>5. Congruent(x * y, x * (j * k), p)
    <3>1. Congruent(x, x, p) /\ y \in Int
      BY <1>1, <2>3, CongruentRefl
    <3>2. QED
      BY <1>1, <2>2, <2>3, <3>1, CongruentProduct
  <2>6. Congruent((x * j) * k, 1 * k, p)
    BY <1>1, <2>1, <2>4, CongruentRefl, CongruentProduct
  <2>7. Congruent(x * y, k, p)
    BY <1>1, <2>4, <2>5, <2>6, CongruentTrans
  <2>8. y # 0
    <3>1. SUFFICES ASSUME y = 0 PROVE FALSE
      OBVIOUS
    <3>2. x * y = 0
      BY <1>1, <3>1
    <3>3. QED
      BY <1>1, <2>7, <3>2, CongruentSym
  <2>9. QED
    BY <2>3, <2>7, <2>8
<1>3. ASSUME NEW y \in 1..(p - 1), NEW z \in 1..(p - 1), Congruent(x * y, k, p), Congruent(x * z, k, p)
      PROVE  y = z
  <2>1. y \in Int /\ z \in Int /\ x * y \in Int /\ x * z \in Int
    BY <1>1
  <2>2. Congruent(x * y, x * z, p)
    BY <1>1, <1>3, <2>1, CongruentSym, CongruentTrans
  <2>3. Congruent(y, z, p)
    BY <2>1, <2>2, Cancel
  <2>4. y \in 0..(p - 1) /\ z \in 0..(p - 1)
    OBVIOUS
  <2>5. QED
    BY <1>1, <2>3, <2>4, CongruentSmall
<1>4. QED
  BY <1>2, <1>3

-----------------------------------------------------------------------------
(* The product of a set of numbers *)

Factors(S) == [i \in Nat |-> IF i \in S THEN i ELSE 1]
ProductOf(S, n) == Product(Factors(S), n)

\* One factor apart.
LEMMA ProductTake ==
  ASSUME NEW c \in [Nat -> Int], NEW d \in [Nat -> Int], NEW x \in Nat \ {0}, d[x] = 1,
         \A i \in Nat : i # x => c[i] = d[i]
  PROVE  \A n \in Nat : Product(c, n) = IF n < x THEN Product(d, n) ELSE c[x] * Product(d, n)
<1> DEFINE S == {n \in Nat : Product(c, n) = IF n < x THEN Product(d, n) ELSE c[x] * Product(d, n)}
<1>1. 0 \in S
  BY ProductStep
<1>2. ASSUME NEW n \in Nat, n \in S PROVE n + 1 \in S
  <2> DEFINE w == Product(d, n)
  <2>1. /\ w \in Int /\ Product(d, n + 1) = d[n + 1] * w
        /\ Product(c, n + 1) = c[n + 1] * Product(c, n)
        /\ Product(c, n) = IF n < x THEN w ELSE c[x] * w
    BY <1>2, ProductStep
  <2>2. c[x] \in Int /\ c[n + 1] \in Int /\ d[n + 1] \in Int
    OBVIOUS
  <2> HIDE DEF w
  <2>3. Product(c, n + 1) = IF n + 1 < x THEN Product(d, n + 1) ELSE c[x] * Product(d, n + 1)
    <3>1. CASE n + 1 < x
      BY <2>1, <2>2, <3>1
    <3>2. CASE n + 1 = x
      BY <2>1, <2>2, <3>2
    <3>3. CASE n + 1 > x
      <4>1. c[n + 1] = d[n + 1] /\ Product(c, n + 1) = d[n + 1] * (c[x] * w)
        BY <2>1, <2>2, <3>3
      <4>2. d[n + 1] * (c[x] * w) = c[x] * (d[n + 1] * w)
        BY <2>1, <2>2
      <4>3. QED
        BY <2>1, <3>3, <4>1, <4>2
    <3>4. QED
      BY <3>1, <3>2, <3>3
  <2>4. QED
    BY <2>3
<1>3. QED
  <2> HIDE DEF S
  <2>1. \A n \in Nat : n \in S
    BY <1>1, <1>2, Induction
  <2>2. QED
    BY <2>1 DEF S

\* The product of a set is a number.
LEMMA ProductOfType ==
  ASSUME NEW S, NEW n \in Nat PROVE Factors(S) \in [Nat -> Int] /\ ProductOf(S, n) \in Int
<1>1. Factors(S) \in [Nat -> Int]
  BY DEF Factors
<1>2. QED
  BY <1>1, ProductStep DEF ProductOf

\* A member is a factor of the product.
LEMMA ProductOfTake ==
  ASSUME NEW n \in Nat, NEW S \in SUBSET (1..n), NEW x \in S
  PROVE  ProductOf(S, n) = x * ProductOf(S \ {x}, n)
<1> DEFINE c == Factors(S)
           d == Factors(S \ {x})
<1>1. c \in [Nat -> Int] /\ d \in [Nat -> Int] /\ x \in Nat \ {0} /\ c[x] = x /\ d[x] = 1 /\ ~(n < x)
  BY DEF Factors
<1>2. \A i \in Nat : i # x => c[i] = d[i]
  BY DEF Factors
<1> HIDE DEF c, d
<1>3. Product(c, n) = x * Product(d, n)
  BY <1>1, <1>2, ProductTake
<1>4. QED
  BY <1>3 DEF ProductOf, c, d

\* The product of no numbers.
LEMMA ProductOfNone == \A n \in Nat : ProductOf({}, n) = 1
<1> DEFINE c == Factors({})
           S == {n \in Nat : Product(c, n) = 1}
<1>1. c \in [Nat -> Int] /\ \A n \in Nat : c[n] = 1
  BY DEF Factors
<1> HIDE DEF c
<1>2. 0 \in S
  BY <1>1, ProductStep
<1>3. ASSUME NEW n \in Nat, n \in S PROVE n + 1 \in S
  BY <1>1, <1>3, ProductStep
<1>4. \A n \in Nat : n \in S
  <2> HIDE DEF S
  <2>1. QED
    BY <1>2, <1>3, Induction
<1>5. QED
  BY <1>4 DEF ProductOf, c

-----------------------------------------------------------------------------
(* Euler's criterion: numbers in pairs whose products are k *)

Paired(S, k, p) == \A x \in S : \E y \in S : y # x /\ Congruent(x * y, k, p)

\* n pairs whose products are k make k^n.
LEMMA PairsProduct ==
  ASSUME NEW p \in Nat, Prime(p), NEW k \in Int, ~Congruent(k, 0, p)
  PROVE  \A n \in Nat : \A S \in SUBSET (1..(p - 1)) :
           IsFiniteSet(S) /\ Cardinality(S) = n + n /\ Paired(S, k, p)
             => Congruent(ProductOf(S, p - 1), Power(k, n), p)
<1> DEFINE Good(n) == \A S \in SUBSET (1..(p - 1)) :
             IsFiniteSet(S) /\ Cardinality(S) = n + n /\ Paired(S, k, p)
               => Congruent(ProductOf(S, p - 1), Power(k, n), p)
           N == {n \in Nat : Good(n)}
<1>0. p > 1 /\ p \in Int /\ p - 1 \in Nat
  BY DEF Prime
<1>1. 0 \in N
  <2>1. ASSUME NEW S \in SUBSET (1..(p - 1)), IsFiniteSet(S), Cardinality(S) = 0 + 0
        PROVE  Congruent(ProductOf(S, p - 1), Power(k, 0), p)
    <3>1. S = {}
      BY <2>1, FS_EmptySet
    <3>2. ProductOf(S, p - 1) = 1 /\ Power(k, 0) = 1
      BY <1>0, <3>1, ProductOfNone, PowerStep
    <3>3. QED
      BY <1>0, <3>2, CongruentRefl
  <2>2. QED
    BY <2>1
<1>2. ASSUME NEW n \in Nat, n \in N PROVE n + 1 \in N
  <2>1. ASSUME NEW S \in SUBSET (1..(p - 1)), IsFiniteSet(S), Cardinality(S) = (n + 1) + (n + 1),
               Paired(S, k, p)
        PROVE  Congruent(ProductOf(S, p - 1), Power(k, n + 1), p)
    <3>1. PICK x \in S : TRUE
      <4>1. Cardinality(S) # 0
        BY <2>1
      <4>2. S # {}
        BY <4>1, FS_EmptySet
      <4>3. QED
        BY <4>2
    <3>2. PICK y \in S : y # x /\ Congruent(x * y, k, p)
      BY <2>1 DEF Paired
    <3> DEFINE U == S \ {x}
               V == U \ {y}
    <3>3. x \in Int /\ y \in Int /\ x \in 1..(p - 1) /\ y \in 1..(p - 1) /\ x * y = y * x
      OBVIOUS
    <3>4. /\ IsFiniteSet(U) /\ Cardinality(U) = Cardinality(S) - 1
          /\ IsFiniteSet(V) /\ Cardinality(V) = Cardinality(U) - 1
      <4>1. IsFiniteSet(U) /\ Cardinality(U) = Cardinality(S) - 1
        BY <2>1, FS_RemoveElement
      <4>2. y \in U
        BY <3>2
      <4> HIDE DEF U
      <4>3. QED
        BY <4>1, <4>2, FS_RemoveElement
    <3>5. Cardinality(V) = n + n
      BY <2>1, <3>4
    <3>6. ASSUME NEW z \in V PROVE \E w \in V : w # z /\ Congruent(z * w, k, p)
      <4>1. PICK w \in S : w # z /\ Congruent(z * w, k, p)
        BY <2>1 DEF Paired
      <4>2. z \in 1..(p - 1) /\ w \in 1..(p - 1) /\ z * w = w * z
        OBVIOUS
      <4>3. w # x
        <5>1. SUFFICES ASSUME w = x PROVE FALSE
          OBVIOUS
        <5>2. Congruent(x * z, k, p)
          BY <4>1, <4>2, <5>1
        <5>3. z = y
          BY <3>2, <3>3, <4>2, <5>2, Partner
        <5>4. QED
          BY <5>3
      <4>4. w # y
        <5>1. SUFFICES ASSUME w = y PROVE FALSE
          OBVIOUS
        <5>2. Congruent(y * z, k, p) /\ Congruent(y * x, k, p)
          BY <3>2, <3>3, <4>1, <4>2, <5>1
        <5>3. z = x
          BY <3>3, <4>2, <5>2, Partner
        <5>4. QED
          BY <5>3
      <4>5. QED
        BY <4>1, <4>3, <4>4
    <3>7. Paired(V, k, p)
      BY <3>6 DEF Paired
    <3>8. Congruent(ProductOf(V, p - 1), Power(k, n), p)
      <4>1. V \in SUBSET (1..(p - 1))
        OBVIOUS
      <4> HIDE DEF V
      <4>2. QED
        BY <1>2, <3>4, <3>5, <3>7, <4>1
    <3>9. ProductOf(S, p - 1) = x * ProductOf(U, p - 1)
      BY <1>0, ProductOfTake
    <3>10. ProductOf(U, p - 1) = y * ProductOf(V, p - 1)
      <4>1. y \in U /\ U \in SUBSET (1..(p - 1))
        BY <3>2
      <4> HIDE DEF U
      <4>2. QED
        BY <1>0, <4>1, ProductOfTake
    <3> DEFINE v == ProductOf(V, p - 1)
               w == Power(k, n)
    <3>11. v \in Int /\ w \in Int /\ Power(k, n + 1) = k * w
      BY <1>0, ProductOfType, PowerStep
    <3>12. ProductOf(S, p - 1) = x * (y * v) /\ Congruent(v, w, p)
      BY <3>8, <3>9, <3>10
    <3> HIDE DEF v, w, U, V
    <3>13. x * y \in Int /\ x * (y * v) = (x * y) * v
      BY <3>3, <3>11
    <3>14. Congruent((x * y) * v, k * w, p)
      BY <1>0, <3>2, <3>11, <3>12, <3>13, CongruentProduct
    <3>15. QED
      BY <3>11, <3>12, <3>13, <3>14
  <2>2. QED
    BY <2>1
<1>3. \A n \in Nat : n \in N
  <2> HIDE DEF N
  <2>1. QED
    BY <1>1, <1>2, Induction
<1>4. QED
  BY <1>3

\* Numbers that are not squares: all are in pairs.
LEMMA ProductNoRoot ==
  ASSUME NEW p \in Nat, Prime(p), NEW h \in Nat, p = h + h + 1, NEW k \in Int, ~Congruent(k, 0, p),
         \A i \in 1..(p - 1) : ~Congruent(i * i, k, p)
  PROVE  Congruent(ProductOf(1..(p - 1), p - 1), Power(k, h), p)
<1> DEFINE S == 1..(p - 1)
<1>1. IsFiniteSet(S) /\ Cardinality(S) = h + h
  <2>1. 1 \in Int /\ p - 1 \in Int /\ p > 1
    BY DEF Prime
  <2>2. QED
    BY <2>1, FS_Interval
<1>2. ASSUME NEW x \in S PROVE \E y \in S : y # x /\ Congruent(x * y, k, p)
  BY Partner
<1>3. Paired(S, k, p)
  BY <1>2 DEF Paired
<1>4. S \in SUBSET (1..(p - 1))
  OBVIOUS
<1> HIDE DEF S
<1>5. Congruent(ProductOf(S, p - 1), Power(k, h), p)
  BY <1>1, <1>3, <1>4, PairsProduct
<1>6. QED
  BY <1>5 DEF S

\* A square has two roots.
LEMMA Roots ==
  ASSUME NEW p \in Nat, Prime(p), NEW i \in 1..(p - 1), NEW x \in 1..(p - 1),
         Congruent(x * x, i * i, p)
  PROVE  x = i \/ x = p - i
<1>1. SUFFICES ASSUME x # i PROVE x = p - i
  OBVIOUS
<1>2. p > 1 /\ p \in Nat \ {0} /\ x \in Int /\ i \in Int /\ p \in Int
  BY DEF Prime
<1>3. PICK q \in Int : x * x - i * i = q * p
  BY DEF Congruent
<1> DEFINE d == (x - i) % p
<1>4. d \in 0..(p - 1) /\ d \in Int /\ Congruent(d, x - i, p)
  <2>1. x - i \in Int
    BY <1>2
  <2>2. d \in 0..(p - 1) /\ Congruent(d, x - i, p)
    BY <1>2, <2>1, CongruentMod
  <2>3. QED
    BY <1>2, <2>2
<1> HIDE DEF d
<1>5. d # 0
  <2>1. SUFFICES ASSUME d = 0 PROVE FALSE
    OBVIOUS
  <2>2. PICK u \in Int : 0 - (x - i) = u * p
    BY <1>4, <2>1 DEF Congruent
  <2>3. u # 0 /\ x - i < p /\ i - x < p
    BY <1>1, <1>2, <2>2
  <2>4. u >= 1 => u * p >= p
    BY <1>2
  <2>5. u <= -1 => u * p <= -p
    BY <1>2
  <2>6. QED
    BY <1>2, <2>2, <2>3, <2>4, <2>5
<1>6. Congruent(d * (x + i), (x - i) * (x + i), p)
  <2>1. Congruent(x + i, x + i, p)
    BY <1>2, CongruentRefl
  <2>2. QED
    BY <1>2, <1>4, <2>1, CongruentProduct
<1>7. Congruent((x - i) * (x + i), d * 0, p)
  <2>1. (x - i) * (x + i) = x * x - i * i
    BY <1>2
  <2>2. (x - i) * (x + i) - d * 0 = q * p
    BY <1>2, <1>3, <1>4, <2>1
  <2>3. QED
    BY <2>2 DEF Congruent
<1>8. Congruent(d * (x + i), d * 0, p)
  <2>1. d * (x + i) \in Int /\ (x - i) * (x + i) \in Int /\ d * 0 \in Int
    BY <1>2, <1>4
  <2>2. QED
    BY <1>2, <1>6, <1>7, <2>1, CongruentTrans
<1>9. Congruent(x + i, 0, p)
  <2>1. d \in 1..(p - 1) /\ x + i \in Int /\ 0 \in Int
    BY <1>2, <1>4, <1>5
  <2>2. QED
    BY <1>8, <2>1, Cancel
<1>10. PICK u \in Int : (x + i) - 0 = u * p
  BY <1>9 DEF Congruent
<1>11. u >= 1
  <2>1. u <= 0 => u * p <= 0
    BY <1>2
  <2>2. QED
    BY <1>2, <1>10, <2>1
<1>12. u < 2
  <2>1. u >= 2 => u * p >= 2 * p
    BY <1>2
  <2>2. QED
    BY <1>2, <1>10, <2>1
<1>13. QED
  BY <1>2, <1>10, <1>11, <1>12

\* Squares: all are in pairs but the two roots.
LEMMA ProductRoot ==
  ASSUME NEW p \in Nat, Prime(p), NEW h \in Nat, p = h + h + 1, NEW k \in Int, ~Congruent(k, 0, p),
         NEW i \in 1..(p - 1), Congruent(i * i, k, p)
  PROVE  Congruent(ProductOf(1..(p - 1), p - 1), -Power(k, h), p)
<1> DEFINE j == p - i
           T == 1..(p - 1)
           U == T \ {i}
           S == U \ {j}
<1>1. p > 1 /\ p \in Int /\ i \in Int /\ h - 1 \in Nat /\ p - 1 \in Nat /\ k \in Int
  BY DEF Prime
<1>2. j \in 1..(p - 1) /\ j # i
  BY <1>1
<1>3. Congruent(i * j, -k, p) /\ Congruent(j * j, k, p) /\ i * j \in Int /\ j * j \in Int
  <2>1. PICK q \in Int : i * i - k = q * p
    BY DEF Congruent
  <2>2. i * j - (-k) = i * p - q * p
    <3>1. i * (p - i) = i * p - i * i
      BY <1>1
    <3>2. QED
      BY <1>1, <2>1, <3>1
  <2>3. i * p - q * p = (i - q) * p
    BY <1>1
  <2>4. j * j = p * p - 2 * (i * p) + i * i
    BY <1>1
  <2>5. j * j - k = (p - 2 * i + q) * p
    <3>1. (p - 2 * i + q) * p = p * p - 2 * (i * p) + q * p
      BY <1>1
    <3>2. QED
      BY <1>1, <2>1, <2>4, <3>1
  <2>6. i - q \in Int /\ p - 2 * i + q \in Int /\ i * j \in Int /\ j * j \in Int
    BY <1>1
  <2>7. QED
    BY <2>2, <2>3, <2>5, <2>6 DEF Congruent
<1> HIDE DEF j
<1>4. IsFiniteSet(S) /\ Cardinality(S) = (h - 1) + (h - 1)
  <2>1. IsFiniteSet(T) /\ Cardinality(T) = h + h
    BY <1>1, FS_Interval, 1 \in Int
  <2>2. i \in T /\ j \in U
    BY <1>2
  <2> HIDE DEF T
  <2>3. IsFiniteSet(U) /\ Cardinality(U) = (h + h) - 1
    BY <2>1, <2>2, FS_RemoveElement
  <2> HIDE DEF U
  <2>4. IsFiniteSet(S) /\ Cardinality(S) = ((h + h) - 1) - 1
    BY <2>2, <2>3, FS_RemoveElement
  <2>5. QED
    BY <1>1, <2>4
<1>5. ASSUME NEW x \in S PROVE \E y \in S : y # x /\ Congruent(x * y, k, p)
  <2>1. x \in 1..(p - 1) /\ x # i /\ x # j /\ x \in Int
    OBVIOUS
  <2>2. PICK y \in 1..(p - 1) : Congruent(x * y, k, p)
    BY <2>1, Partner
  <2>3. y \in Int /\ x * y \in Int /\ x * x \in Int /\ i * i \in Int /\ x * y = y * x
    BY <1>1, <2>1
  <2>4. y # x
    <3>1. SUFFICES ASSUME y = x PROVE FALSE
      OBVIOUS
    <3>2. Congruent(x * x, i * i, p)
      BY <1>1, <2>2, <2>3, <3>1, CongruentSym, CongruentTrans
    <3>3. QED
      BY <2>1, <3>2, Roots DEF j
  <2>5. y # i
    <3>1. SUFFICES ASSUME y = i PROVE FALSE
      OBVIOUS
    <3>2. Congruent(i * x, k, p)
      BY <2>2, <2>3, <3>1
    <3>3. QED
      BY <2>1, <3>2, Partner
  <2>6. y # j
    <3>1. SUFFICES ASSUME y = j PROVE FALSE
      OBVIOUS
    <3>2. Congruent(j * x, k, p)
      BY <2>2, <2>3, <3>1
    <3>3. QED
      BY <1>2, <1>3, <2>1, <3>2, Partner
  <2>7. QED
    BY <2>2, <2>4, <2>5, <2>6
<1>6. Paired(S, k, p)
  BY <1>5 DEF Paired
<1>7. Congruent(ProductOf(S, p - 1), Power(k, h - 1), p)
  <2>1. S \in SUBSET (1..(p - 1))
    OBVIOUS
  <2> HIDE DEF S
  <2>2. QED
    BY <1>1, <1>4, <1>6, <2>1, PairsProduct
<1>8. ProductOf(T, p - 1) = i * ProductOf(U, p - 1)
  BY <1>1, ProductOfTake
<1>9. ProductOf(U, p - 1) = j * ProductOf(S, p - 1)
  <2>1. j \in U /\ U \in SUBSET (1..(p - 1))
    BY <1>2
  <2> HIDE DEF U
  <2>2. QED
    BY <1>1, <2>1, ProductOfTake
<1> DEFINE v == ProductOf(S, p - 1)
           w == Power(k, h - 1)
<1>10. v \in Int /\ w \in Int /\ Power(k, h) = k * w
  <2>1. (h - 1) + 1 = h
    OBVIOUS
  <2>2. w \in Int /\ Power(k, (h - 1) + 1) = k * w
    BY <1>1, PowerStep
  <2>3. QED
    BY <1>1, <2>1, <2>2, ProductOfType
<1>11. ProductOf(T, p - 1) = i * (j * v) /\ Congruent(v, w, p)
  BY <1>7, <1>8, <1>9
<1> HIDE DEF v, w, S, U
<1>12. i * (j * v) = (i * j) * v /\ (-k) * w = -(k * w) /\ j \in Int /\ -k \in Int
  BY <1>1, <1>2, <1>10
<1>13. Congruent((i * j) * v, (-k) * w, p)
  BY <1>1, <1>3, <1>10, <1>11, <1>12, CongruentProduct
<1>14. QED
  BY <1>10, <1>11, <1>12, <1>13

\* Euler's criterion (with Wilson's theorem on the way).
LEMMA EulersCriterion ==
  ASSUME NEW p \in Nat, Prime(p), NEW h \in Nat, p = h + h + 1, NEW k \in Int
  PROVE  /\ Congruent(k, 0, p) => Congruent(Power(k, h), 0, p)
         /\ ~Congruent(k, 0, p) /\ (\E i \in 1..(p - 1) : Congruent(i * i, k, p))
              => Congruent(Power(k, h), 1, p)
         /\ ~Congruent(k, 0, p) /\ (\A i \in 1..(p - 1) : ~Congruent(i * i, k, p))
              => Congruent(Power(k, h), -1, p)
<1> DEFINE f == ProductOf(1..(p - 1), p - 1)
           e == Power(k, h)
<1>1. p > 1 /\ p \in Int /\ h - 1 \in Nat /\ p - 1 \in Nat /\ p \in Nat \ {0} /\ -1 \in Int /\ 1 \in Int /\ 0 \in Int
  BY DEF Prime
<1>2. f \in Int /\ e \in Int /\ -e \in Int
  <2>1. f \in Int
    BY <1>1, ProductOfType
  <2>2. e \in Int
    BY <1>1, PowerStep
  <2> HIDE DEF e, f
  <2>3. QED
    BY <2>1, <2>2
<1>3. Congruent(f, -1, p)
  <2>1. ~Congruent(1, 0, p)
    <3>1. 0 \in 0..(p - 1) /\ 1 \in 0..(p - 1)
      BY <1>1
    <3>2. QED
      BY <1>1, <3>1, CongruentSmall
  <2>2. 1 \in 1..(p - 1) /\ 1 * 1 = 1
    BY <1>1
  <2>3. Congruent(1 * 1, 1, p)
    BY <1>1, <2>2, CongruentRefl
  <2>4. Congruent(f, -Power(1, h), p)
    BY <1>1, <2>1, <2>2, <2>3, ProductRoot
  <2>5. QED
    BY <2>4, PowersOfOne
<1>4. ASSUME Congruent(k, 0, p) PROVE Congruent(e, 0, p)
  <2> DEFINE w == Power(k, h - 1)
  <2>1. (h - 1) + 1 = h
    OBVIOUS
  <2>2. w \in Int /\ Power(k, (h - 1) + 1) = k * w
    BY <1>1, PowerStep
  <2>3. e = k * w
    BY <2>1, <2>2
  <2> HIDE DEF w, e
  <2>4. Congruent(w, w, p)
    BY <1>1, <2>2, CongruentRefl
  <2>5. Congruent(k * w, 0 * w, p) /\ 0 * w = 0
    BY <1>1, <1>4, <2>2, <2>4, CongruentProduct
  <2>6. QED
    BY <2>3, <2>5
<1>5. ASSUME ~Congruent(k, 0, p), NEW i \in 1..(p - 1), Congruent(i * i, k, p) PROVE Congruent(e, 1, p)
  <2>1. Congruent(f, -e, p)
    BY <1>5, ProductRoot
  <2> HIDE DEF e, f
  <2>2. Congruent(-e, -1, p)
    BY <1>1, <1>2, <1>3, <2>1, CongruentSym, CongruentTrans
  <2>3. PICK q \in Int : -e - (-1) = q * p
    BY <2>2 DEF Congruent
  <2>4. e - 1 = (-q) * p /\ -q \in Int
    BY <1>1, <1>2, <2>3
  <2>5. QED
    BY <2>4 DEF Congruent
<1>6. ASSUME ~Congruent(k, 0, p), \A i \in 1..(p - 1) : ~Congruent(i * i, k, p) PROVE Congruent(e, -1, p)
  <2>1. Congruent(f, e, p)
    BY <1>6, ProductNoRoot
  <2> HIDE DEF e, f
  <2>2. QED
    BY <1>1, <1>2, <1>3, <2>1, CongruentSym, CongruentTrans
<1>7. QED
  BY <1>4, <1>5, <1>6

-----------------------------------------------------------------------------
(* Outcomes *)

Vals == [Numbers -> Int]

\* An outcome that may differ from v at d alone, and is k there when the function succeeded.
Touches(o, v, d) == o.val \in Vals /\ \A n \in Numbers \ {d} : o.val[n] = v[n]
Leaves(o, v, d, k) == Touches(o, v, d) /\ (o.rc = 0 => o.val[d] = k)

\* The places of numbers, and that a function's temporaries are its own.
LEMMA NumbersAre == /\ Callers \subseteq Numbers /\ Temporaries \subseteq Numbers /\ Parameters \subseteq Numbers
                    /\ \A n \in Callers \cup Parameters : n \notin Temporaries
BY DEF Numbers, Callers, Temporaries, Parameters

\* The numbers there are when a call begins.
LEMMA FreshType ==
  ASSUME NEW e \in Curves, NEW i \in Int, NEW j \in Int, NEW k \in Int
  PROVE  Fresh(e, i, j, k) \in Vals
<1>1. e.P \in Int /\ e.A \in Int /\ e.B \in Int
  BY BignumAssumption
<1> DEFINE f == Fresh(e, i, j, k)
<1>2. DOMAIN f = Numbers
  BY DEF Fresh, Numbers, Callers, Temporaries, Parameters
<1>3. QED
  BY <1>1, <1>2 DEF Vals, Fresh, Numbers, Callers, Temporaries, Parameters

\* A failure leaves all as it was.
LEMMA FailedLeaves ==
  ASSUME NEW v \in Vals, NEW d \in Numbers, NEW k
  PROVE  Leaves(Failed(v), v, d, k)
BY DEF Failed, Leaves, Touches

\* An mbedtls function sets its result or fails.
LEMMA SetsLeaves ==
  ASSUME NEW v \in Vals, NEW d \in Numbers, NEW k \in Int, NEW o \in Sets(v, d, k)
  PROVE  Leaves(o, v, d, k)
<1>1. CASE o = Failed(v)
  BY <1>1, FailedLeaves
<1>2. CASE o = Done(Put(v, d, k))
  BY <1>2 DEF Done, Put, Leaves, Touches, Vals
<1>3. QED
  BY <1>1, <1>2 DEF Sets

\* mbedtls functions whose result is theirs whatever they are given.
LEMMA ArithmeticLeaves ==
  ASSUME NEW v \in Vals, NEW d \in Numbers, NEW a \in Numbers, NEW b \in Numbers, NEW k \in Int, NEW o
  PROVE  /\ o \in mpi_add(v, d, a, b) => Leaves(o, v, d, v[a] + v[b])
         /\ o \in mpi_sub(v, d, a, b) => Leaves(o, v, d, v[a] - v[b])
         /\ o \in mpi_mul(v, d, a, b) => Leaves(o, v, d, v[a] * v[b])
         /\ o \in mpi_sub_int(v, d, a, k) => Leaves(o, v, d, v[a] - k)
         /\ o \in mpi_copy(v, d, a) => Leaves(o, v, d, v[a])
<1>1. v[a] \in Int /\ v[b] \in Int
  BY DEF Vals
<1>2. v[a] + v[b] \in Int /\ v[a] - v[b] \in Int /\ v[a] * v[b] \in Int /\ v[a] - k \in Int
  BY <1>1
<1>3. QED
  BY <1>1, <1>2, SetsLeaves DEF mpi_add, mpi_sub, mpi_mul, mpi_sub_int, mpi_copy

\* mbedtls_mpi_mod_mpi into any number, right unless that is the modulus.
LEMMA ModLeaves ==
  ASSUME NEW v \in Vals, NEW d \in Numbers, NEW a \in Numbers, NEW m \in Numbers,
         NEW o \in mpi_mod(v, d, a, m)
  PROVE  /\ Touches(o, v, d)
         /\ o.rc = 0 => v[m] > 0
         /\ d # m => Leaves(o, v, d, v[a] % v[m])
<1>1. v[a] \in Int /\ v[m] \in Int
  BY DEF Vals
<1>2. CASE v[m] <= 0
  <2>1. o = Failed(v)
    BY <1>2 DEF mpi_mod
  <2>2. Leaves(o, v, d, v[a] % v[m]) /\ o.rc # 0
    BY <2>1, FailedLeaves DEF Failed
  <2>3. QED
    BY <2>2 DEF Leaves
<1>3. CASE v[m] > 0 /\ d = m
  <2>1. o \in Sets(v, d, 0)
    BY <1>1, <1>3 DEF mpi_mod
  <2>2. QED
    BY <1>3, <2>1, SetsLeaves DEF Leaves
<1>4. CASE v[m] > 0 /\ d # m
  <2>1. o \in Sets(v, d, v[a] % v[m]) /\ v[a] % v[m] \in Int
    BY <1>1, <1>4 DEF mpi_mod
  <2>2. QED
    BY <1>4, <2>1, SetsLeaves DEF Leaves
<1>5. QED
  BY <1>1, <1>2, <1>3, <1>4

\* What a remainder is.
LEMMA ModRight ==
  ASSUME NEW m \in Int, m > 0, NEW s \in Int
  PROVE  s % m \in 0..(m - 1) /\ (s - (s % m)) % m = 0
<1> DEFINE q == s \div m
           r == s % m
<1>1. q \in Int /\ r \in 0..(m - 1) /\ s = q * m + r /\ m \in Nat \ {0}
  BY Division
<1> HIDE DEF q, r
<1>2. s - r = q * m + 0 /\ s - r \in Int /\ 0 \in 0..(m - 1)
  BY <1>1
<1>3. (s - r) % m = 0
  BY <1>1, <1>2, DivIs
<1>4. QED
  BY <1>1, <1>3 DEF r

\* Division rounds towards zero.
LEMMA QuotientRight ==
  ASSUME NEW a \in Int, NEW b \in Int, b # 0
  PROVE  /\ Quotient(a, b) \in Int
         /\ Abs(a - Quotient(a, b) * b) < Abs(b) /\ (a - Quotient(a, b) * b) * a >= 0
         /\ Abs(Quotient(a, b)) * Abs(b) <= Abs(a) /\ Abs(a) < (Abs(Quotient(a, b)) + 1) * Abs(b)
         /\ b > 0 => Quotient(a, b) * a >= 0
<1> DEFINE u == Abs(a) \div Abs(b)
           r == Abs(a) % Abs(b)
           k == Quotient(a, b)
<1>1. Abs(a) \in Int /\ Abs(b) \in Nat \ {0}
  BY DEF Abs
<1>2. u \in Int /\ r \in 0..(Abs(b) - 1) /\ Abs(a) = u * Abs(b) + r
  BY <1>1, Division
<1>3. k = IF (a < 0 /\ b < 0) \/ (a >= 0 /\ b > 0) THEN u ELSE -u
  <2>1. k = (IF (a < 0) = (b < 0) THEN 1 ELSE -1) * u
    BY Zenon DEF Quotient
  <2>2. ((a < 0) = (b < 0)) = ((a < 0 /\ b < 0) \/ (a >= 0 /\ b > 0))
    OBVIOUS
  <2> HIDE DEF u, k
  <2>3. QED
    BY <1>2, <2>1, <2>2
<1> HIDE DEF u, r, k
<1>4. u >= 0
  <2>1. u <= -1 => u * Abs(b) <= -Abs(b)
    BY <1>1, <1>2
  <2>2. Abs(a) >= 0
    BY DEF Abs
  <2>3. QED
    BY <1>1, <1>2, <2>1, <2>2
<1>5. Abs(k) = u /\ k \in Int
  BY <1>2, <1>3, <1>4 DEF Abs
<1>6. a - k * b = IF a < 0 THEN -r ELSE r
  <2>1. CASE a < 0 /\ b < 0
    <3>1. Abs(a) = -a /\ Abs(b) = -b /\ k = u
      BY <1>3, <2>1 DEF Abs
    <3>2. u * (-b) = -(u * b)
      BY <1>2
    <3>3. QED
      BY <1>2, <2>1, <3>1, <3>2
  <2>2. CASE a < 0 /\ b > 0
    <3>1. Abs(a) = -a /\ Abs(b) = b /\ k = -u
      BY <1>3, <2>2 DEF Abs
    <3>2. (-u) * b = -(u * b)
      BY <1>2
    <3>3. QED
      BY <1>2, <2>2, <3>1, <3>2
  <2>3. CASE a >= 0 /\ b < 0
    <3>1. Abs(a) = a /\ Abs(b) = -b /\ k = -u
      BY <1>3, <2>3 DEF Abs
    <3>2. u * (-b) = (-u) * b
      BY <1>2
    <3>3. QED
      BY <1>2, <2>3, <3>1, <3>2
  <2>4. CASE a >= 0 /\ b > 0
    <3>1. Abs(a) = a /\ Abs(b) = b /\ k = u
      BY <1>3, <2>4 DEF Abs
    <3>3. QED
      BY <1>2, <2>4, <3>1
  <2>5. QED
    BY <2>1, <2>2, <2>3, <2>4
<1>7. Abs(a - k * b) < Abs(b)
  <2> DEFINE z == a - k * b
  <2>1. z = IF a < 0 THEN -r ELSE r
    BY <1>6
  <2> HIDE DEF z
  <2>2. Abs(z) = r
    BY <1>2, <2>1 DEF Abs
  <2>3. QED
    BY <1>1, <1>2, <2>2 DEF z
<1>8. (a - k * b) * a >= 0
  <2> DEFINE z == a - k * b
  <2>1. z = IF a < 0 THEN -r ELSE r
    BY <1>6
  <2> HIDE DEF z
  <2>2. z * a >= 0
    BY <1>1, <1>2, <2>1
  <2>3. QED
    BY <2>2 DEF z
<1>9. (u + 1) * Abs(b) = u * Abs(b) + Abs(b)
  BY <1>1, <1>2
<1>10. b > 0 => k * a >= 0
  BY <1>2, <1>3, <1>4
<1>11. Abs(k) * Abs(b) <= Abs(a) /\ Abs(a) < (Abs(k) + 1) * Abs(b)
  BY <1>1, <1>2, <1>5, <1>9
<1>12. k \in Int /\ Abs(a - k * b) < Abs(b) /\ (a - k * b) * a >= 0
  BY <1>5, <1>7, <1>8
<1>13. QED
  BY <1>10, <1>11, <1>12 DEF k

-----------------------------------------------------------------------------
(* The functions *)

\* What ResultRight asks of the outcome o of fn.
Unchanged(o, v, d) == \A n \in (Callers \cup Parameters) \ {d} : o.val[n] = v[n]
Answers(o, fn, v, a, b, c, d) ==
  /\ o.rc = 0 => Correct(fn, o.val[d], v[a], v[b], v[c], v)
  /\ Unchanged(o, v, d)

\* No caller's number and no curve changes but the result.
LEMMA TouchesUnchanged ==
  ASSUME NEW o, NEW v, NEW d, Touches(o, v, d)
  PROVE  Unchanged(o, v, d)
BY NumbersAre DEF Touches, Unchanged

\* crypto_bignum_add.
LEMMA AddRight ==
  ASSUME NEW v \in Vals, NEW a \in Callers, NEW b \in Callers, NEW c \in Callers,
         NEW o \in crypto_bignum_add(v, a, b, c)
  PROVE  Answers(o, "add", v, a, b, c, c)
<1>1. Leaves(o, v, c, v[a] + v[b])
  BY NumbersAre, ArithmeticLeaves, 0 \in Int DEF crypto_bignum_add
<1>2. QED
  BY <1>1, TouchesUnchanged DEF Leaves, Answers, Correct

\* crypto_bignum_sub.
LEMMA SubRight ==
  ASSUME NEW v \in Vals, NEW a \in Callers, NEW b \in Callers, NEW c \in Callers,
         NEW o \in crypto_bignum_sub(v, a, b, c)
  PROVE  Answers(o, "sub", v, a, b, c, c)
<1>1. Leaves(o, v, c, v[a] - v[b])
  BY NumbersAre, ArithmeticLeaves, 0 \in Int DEF crypto_bignum_sub
<1>2. QED
  BY <1>1, TouchesUnchanged DEF Leaves, Answers, Correct

\* crypto_bignum_mod.
LEMMA ModuloRight ==
  ASSUME NEW v \in Vals, NEW a \in Callers, NEW b \in Callers, NEW c \in Callers, c # b,
         NEW o \in crypto_bignum_mod(v, a, b, c)
  PROVE  Answers(o, "mod", v, a, b, c, c)
<1>1. Leaves(o, v, c, v[a] % v[b]) /\ (o.rc = 0 => v[b] > 0)
  BY NumbersAre, ModLeaves DEF crypto_bignum_mod
<1>2. v[a] \in Int /\ v[b] \in Int
  BY NumbersAre DEF Vals
<1>3. v[b] > 0 => v[a] % v[b] \in 0..(v[b] - 1) /\ (v[a] - (v[a] % v[b])) % v[b] = 0
  BY <1>2, ModRight
<1>4. QED
  BY <1>1, <1>3, TouchesUnchanged DEF Leaves, Answers, Correct

\* crypto_bignum_inverse.
LEMMA InverseRight ==
  ASSUME NEW v \in Vals, NEW a \in Callers, NEW b \in Callers, NEW c \in Callers,
         NEW o \in crypto_bignum_inverse(v, a, b, c)
  PROVE  Answers(o, "inverse", v, a, b, c, c)
<1> DEFINE I == Inverses(v[a], v[b])
           k == CHOOSE i \in I : TRUE
<1>1. v[a] \in Int /\ v[b] \in Int /\ c \in Numbers
  BY NumbersAre DEF Vals
<1>2. CASE v[b] > 1 /\ I # {}
  <2>1. o \in Sets(v, c, k)
    BY <1>2 DEF crypto_bignum_inverse, mpi_inv_mod
  <2>2. k \in I
    BY <1>2
  <2> HIDE DEF k
  <2>3. k \in 1..(v[b] - 1) /\ (v[a] * k) % v[b] = 1
    BY <2>2 DEF Inverses
  <2>4. Leaves(o, v, c, k)
    BY <1>1, <2>1, <2>3, SetsLeaves
  <2>5. k \in 0..(v[b] - 1)
    BY <1>1, <2>3
  <2>6. QED
    BY <2>3, <2>4, <2>5, TouchesUnchanged DEF Leaves, Answers, Correct
<1>3. CASE ~(v[b] > 1 /\ I # {})
  <2>1. o = Failed(v)
    BY <1>3 DEF crypto_bignum_inverse, mpi_inv_mod
  <2>2. Leaves(o, v, c, 0) /\ o.rc # 0
    BY <1>1, <2>1, FailedLeaves DEF Failed
  <2>3. QED
    BY <2>2, TouchesUnchanged DEF Leaves, Answers
<1>4. QED
  BY <1>2, <1>3

\* mbedtls_mpi_exp_mod into a number that is neither the exponent nor the modulus.
LEMMA ExpLeaves ==
  ASSUME NEW v \in Vals, NEW d \in Numbers, NEW a \in Numbers, NEW e \in Numbers, NEW m \in Numbers,
         d \notin {e, m}, NEW o \in mpi_exp_mod(v, d, a, e, m)
  PROVE  /\ Leaves(o, v, d, Power(v[a], v[e]) % v[m])
         /\ o.rc = 0 => CanExp(v, e, m)
<1> DEFINE w == Power(v[a], v[e]) % v[m]
<1>1. v[a] \in Int /\ v[e] \in Int /\ v[m] \in Int
  BY DEF Vals
<1>2. CASE CanExp(v, e, m)
  <2>1. v[e] \in Nat /\ v[m] \in Nat \ {0}
    BY <1>1, <1>2 DEF CanExp
  <2>2. Power(v[a], v[e]) \in Int
    BY <1>1, <2>1, PowerStep
  <2>3. w \in Int
    BY <2>1, <2>2
  <2>4. o \in Sets(v, d, w)
    BY <1>2 DEF mpi_exp_mod
  <2>5. QED
    BY <1>2, <2>3, <2>4, SetsLeaves
<1>3. CASE ~CanExp(v, e, m)
  <2>1. o = Failed(v)
    BY <1>3 DEF mpi_exp_mod
  <2>2. Leaves(o, v, d, w) /\ o.rc # 0
    BY <2>1, FailedLeaves DEF Failed
  <2>3. QED
    BY <2>2
<1>4. QED
  BY <1>2, <1>3

\* The remainder of a power.
LEMMA ExpRight ==
  ASSUME NEW v \in Vals, NEW a \in Numbers, NEW e \in Numbers, NEW m \in Numbers, CanExp(v, e, m)
  PROVE  LET k == Power(v[a], v[e]) % v[m]
         IN  k \in 0..(v[m] - 1) /\ (Power(v[a], v[e]) - k) % v[m] = 0
<1>1. v[a] \in Int /\ v[e] \in Nat /\ v[m] \in Int /\ v[m] > 0
  BY DEF Vals, CanExp
<1>2. Power(v[a], v[e]) \in Int
  BY <1>1, PowerStep
<1>3. QED
  BY <1>1, <1>2, ModRight

\* crypto_bignum_exptmod, also into its exponent or its modulus.
LEMMA ExptmodRight ==
  ASSUME NEW v \in Vals, NEW a \in Callers, NEW b \in Callers, NEW c \in Callers, NEW d \in Callers,
         NEW o \in crypto_bignum_exptmod(v, a, b, c, d)
  PROVE  Answers(o, "exptmod", v, a, b, c, d)
<1> DEFINE k == Power(v[a], v[b]) % v[c]
<1>1. {a, b, c, d, "R"} \subseteq Numbers /\ "R" \notin {b, c, d}
  BY NumbersAre DEF Callers, Temporaries
<1>2. Unchanged(o, v, d) /\ (o.rc = 0 => o.val[d] = k /\ CanExp(v, b, c))
  <2>1. CASE d \in {b, c}
    <3>1. PICK o1 \in mpi_exp_mod(v, "R", a, b, c) :
            o \in (IF o1.rc = 0 THEN mpi_copy(o1.val, d, "R") ELSE {o1})
      BY <2>1 DEF crypto_bignum_exptmod, Then
    <3>2. Leaves(o1, v, "R", k) /\ (o1.rc = 0 => CanExp(v, b, c))
      BY <1>1, ExpLeaves
    <3> HIDE DEF k
    <3>3. CASE o1.rc = 0
      <4>1. Leaves(o, o1.val, d, o1.val["R"]) /\ o1.val \in Vals
        <5>1. o1.val \in Vals /\ o \in mpi_copy(o1.val, d, "R")
          BY <1>1, <3>1, <3>2, <3>3 DEF Leaves, Touches
        <5>2. QED
          BY <1>1, <5>1, ArithmeticLeaves, 0 \in Int
      <4>2. QED
        BY <1>1, <3>2, <3>3, <4>1, NumbersAre DEF Leaves, Touches, Unchanged, Temporaries
    <3>4. CASE o1.rc # 0
      BY <3>1, <3>2, <3>4, NumbersAre DEF Leaves, Touches, Unchanged, Temporaries
    <3>5. QED
      BY <3>3, <3>4
  <2>2. CASE d \notin {b, c}
    <3>1. o \in mpi_exp_mod(v, d, a, b, c)
      BY <2>2 DEF crypto_bignum_exptmod
    <3>2. Leaves(o, v, d, k) /\ (o.rc = 0 => CanExp(v, b, c))
      BY <1>1, <2>2, <3>1, ExpLeaves
    <3>3. QED
      BY <3>2, TouchesUnchanged DEF Leaves
  <2>3. QED
    BY <2>1, <2>2
<1>3. CanExp(v, b, c) => k \in 0..(v[c] - 1) /\ (Power(v[a], v[b]) - k) % v[c] = 0
  BY <1>1, ExpRight
<1> HIDE DEF k
<1>4. QED
  BY <1>2, <1>3 DEF Answers, Correct

\* crypto_bignum_div.
LEMMA DivRight ==
  ASSUME NEW v \in Vals, NEW a \in Callers, NEW b \in Callers, NEW c \in Callers,
         NEW o \in crypto_bignum_div(v, a, b, c)
  PROVE  Answers(o, "div", v, a, b, c, c)
<1> DEFINE k == Quotient(v[a], v[b])
<1>1. {a, b, c, "R"} \subseteq Numbers /\ v[a] \in Int /\ v[b] \in Int
  BY NumbersAre DEF Temporaries, Vals
<1>2. PICK o1 \in mpi_div(v, "R", a, b) : o \in (IF o1.rc = 0 THEN mpi_copy(o1.val, c, "R") ELSE {o1})
  BY DEF crypto_bignum_div, Then
<1>3. v[b] # 0 => k \in Int /\ Abs(v[a] - k * v[b]) < Abs(v[b]) /\ (v[a] - k * v[b]) * v[a] >= 0
  BY <1>1, QuotientRight
<1>4. Leaves(o1, v, "R", k) /\ (o1.rc = 0 => v[b] # 0)
  <2>1. CASE v[b] # 0
    <3>1. o1 \in Sets(v, "R", k)
      BY <2>1 DEF mpi_div
    <3> HIDE DEF k
    <3>2. QED
      BY <1>1, <1>3, <2>1, <3>1, SetsLeaves
  <2>2. CASE v[b] = 0
    <3>1. o1 = Failed(v)
      BY <2>2 DEF mpi_div
    <3>2. Leaves(o1, v, "R", k) /\ o1.rc # 0
      BY <1>1, <3>1, FailedLeaves DEF Failed
    <3> HIDE DEF k
    <3>3. QED
      BY <3>2
  <2>3. QED
    BY <2>1, <2>2
<1> HIDE DEF k
<1>5. Unchanged(o, v, c) /\ (o.rc = 0 => o.val[c] = k /\ v[b] # 0)
  <2>1. CASE o1.rc = 0
    <3>1. Leaves(o, o1.val, c, o1.val["R"]) /\ o1.val \in Vals
      <4>1. o1.val \in Vals /\ o \in mpi_copy(o1.val, c, "R")
        BY <1>1, <1>2, <1>4, <2>1 DEF Leaves, Touches
      <4>2. QED
        BY <1>1, <4>1, ArithmeticLeaves, 0 \in Int
    <3>2. QED
      BY <1>1, <1>4, <2>1, <3>1, NumbersAre DEF Leaves, Touches, Unchanged, Temporaries
  <2>2. CASE o1.rc # 0
    BY <1>2, <1>4, <2>2, NumbersAre DEF Leaves, Touches, Unchanged, Temporaries
  <2>3. QED
    BY <2>1, <2>2
<1>6. QED
  BY <1>3, <1>5 DEF Answers, Correct

\* A result that is reduced after it was computed.
LEMMA ReducedRight ==
  ASSUME NEW v \in Vals, NEW c \in Callers, NEW d \in Callers, d # c, NEW s \in Int, NEW o1, Leaves(o1, v, d, s),
         NEW o \in (IF o1.rc = 0 THEN mpi_mod(o1.val, d, d, c) ELSE {o1})
  PROVE  /\ Unchanged(o, v, d)
         /\ o.rc = 0 => o.val[d] \in 0..(v[c] - 1) /\ (s - o.val[d]) % v[c] = 0
<1>1. d \in Numbers /\ c \in Numbers
  BY NumbersAre
<1>2. CASE o1.rc = 0
  <2>1. /\ Leaves(o, o1.val, d, o1.val[d] % o1.val[c]) /\ (o.rc = 0 => o1.val[c] > 0)
        /\ o1.val \in Vals /\ o1.val[d] = s /\ o1.val[c] = v[c] /\ v[c] \in Int
    BY <1>1, <1>2, ModLeaves DEF Leaves, Touches, Vals
  <2>2. v[c] > 0 => s % v[c] \in 0..(v[c] - 1) /\ (s - (s % v[c])) % v[c] = 0
    BY <2>1, ModRight
  <2>3. Unchanged(o, v, d)
    BY <2>1, NumbersAre DEF Leaves, Touches, Unchanged
  <2>4. QED
    BY <2>1, <2>2, <2>3 DEF Leaves
<1>3. CASE o1.rc # 0
  BY <1>3, TouchesUnchanged DEF Leaves
<1>4. QED
  BY <1>2, <1>3

\* crypto_bignum_addmod.
LEMMA AddmodRight ==
  ASSUME NEW v \in Vals, NEW a \in Callers, NEW b \in Callers, NEW c \in Callers, NEW d \in Callers, d # c,
         NEW o \in crypto_bignum_addmod(v, a, b, c, d)
  PROVE  Answers(o, "addmod", v, a, b, c, d)
<1>1. PICK o1 \in mpi_add(v, d, a, b) : o \in (IF o1.rc = 0 THEN mpi_mod(o1.val, d, d, c) ELSE {o1})
  BY DEF crypto_bignum_addmod, Then
<1>2. Leaves(o1, v, d, v[a] + v[b])
  BY NumbersAre, ArithmeticLeaves, 0 \in Int
<1>3. v[a] + v[b] \in Int
  BY NumbersAre DEF Vals
<1>4. Unchanged(o, v, d) /\ (o.rc = 0 => o.val[d] \in 0..(v[c] - 1) /\ (v[a] + v[b] - o.val[d]) % v[c] = 0)
  <2> DEFINE s == v[a] + v[b]
  <2>1. s \in Int /\ Leaves(o1, v, d, s)
    BY <1>2, <1>3
  <2> HIDE DEF s
  <2>2. Unchanged(o, v, d) /\ (o.rc = 0 => o.val[d] \in 0..(v[c] - 1) /\ (s - o.val[d]) % v[c] = 0)
    BY <1>1, <2>1, ReducedRight
  <2>3. o.rc = 0 => s - o.val[d] = v[a] + v[b] - o.val[d]
    <3>1. v[a] \in Int /\ v[b] \in Int /\ v[c] \in Int
      BY NumbersAre DEF Vals
    <3>2. QED
      BY <2>2, <3>1 DEF s
  <2>4. QED
    BY <2>2, <2>3
<1>5. QED
  BY <1>4 DEF Answers, Correct

\* crypto_bignum_mulmod and crypto_bignum_sqrmod.
LEMMA MulmodRight ==
  ASSUME NEW v \in Vals, NEW a \in Callers, NEW b \in Callers, NEW c \in Callers, NEW d \in Callers, d # c,
         NEW o \in crypto_bignum_mulmod(v, a, b, c, d), NEW fn \in {"mulmod", "sqrmod"}
  PROVE  Answers(o, fn, v, a, b, c, d)
<1>1. PICK o1 \in mpi_mul(v, d, a, b) : o \in (IF o1.rc = 0 THEN mpi_mod(o1.val, d, d, c) ELSE {o1})
  BY DEF crypto_bignum_mulmod, Then
<1>2. Leaves(o1, v, d, v[a] * v[b])
  BY NumbersAre, ArithmeticLeaves, 0 \in Int
<1>3. v[a] * v[b] \in Int
  BY NumbersAre DEF Vals
<1>4. Unchanged(o, v, d) /\ (o.rc = 0 => o.val[d] \in 0..(v[c] - 1) /\ (v[a] * v[b] - o.val[d]) % v[c] = 0)
  BY <1>1, <1>2, <1>3, ReducedRight
<1>5. QED
  BY <1>4 DEF Answers, Correct

\* A shift to the right divides by a power of two.
LEMMA ShiftLeaves ==
  ASSUME NEW v \in Vals, NEW d \in Numbers, NEW n \in Nat, NEW o \in mpi_shift_r(v, d, n)
  PROVE  /\ Leaves(o, v, d, Quotient(v[d], Power(2, n)))
         /\ Power(2, n) \in Nat \ {0} /\ v[d] \in Int /\ Quotient(v[d], Power(2, n)) \in Int
<1>1. Power(2, n) \in Nat /\ Power(2, n) > n /\ v[d] \in Int
  BY PowerGrows, 2 \in Nat DEF Vals
<1>2. Quotient(v[d], Power(2, n)) \in Int
  <2> DEFINE W == Power(2, n)
  <2>1. W \in Int /\ W # 0
    BY <1>1
  <2> HIDE DEF W
  <2>2. Quotient(v[d], W) \in Int
    BY <1>1, <2>1, QuotientRight
  <2>3. QED
    BY <2>2 DEF W
<1>3. QED
  BY <1>1, <1>2, SetsLeaves DEF mpi_shift_r

\* crypto_bignum_rshift.
LEMMA RshiftRight ==
  ASSUME NEW v \in Vals, NEW n \in Nat, v["z"] = n, NEW a \in Callers, NEW d \in Callers,
         NEW o \in crypto_bignum_rshift(v, a, n, d)
  PROVE  Answers(o, "rshift", v, a, "z", "z", d)
<1>1. PICK o1 \in mpi_copy(v, d, a) : o \in (IF o1.rc = 0 THEN mpi_shift_r(o1.val, d, n) ELSE {o1})
  BY DEF crypto_bignum_rshift, Then
<1>2. Leaves(o1, v, d, v[a]) /\ d \in Numbers /\ v[a] \in Int
  BY NumbersAre, ArithmeticLeaves, 0 \in Int DEF Vals
<1> DEFINE W == Power(2, n)
           k == Quotient(v[a], W)
<1>3. CASE o1.rc = 0
  <2>1. o1.val \in Vals /\ o1.val[d] = v[a]
    BY <1>2, <1>3 DEF Leaves, Touches
  <2>2. Leaves(o, o1.val, d, k) /\ W \in Nat \ {0}
    BY <1>1, <1>2, <1>3, <2>1, ShiftLeaves
  <2>3. Abs(W) = W
    BY <2>2 DEF Abs
  <2>4. Abs(k) * W <= Abs(v[a]) /\ Abs(v[a]) < (Abs(k) + 1) * W /\ k * v[a] >= 0
    <3> HIDE DEF W
    <3>1. W \in Int /\ W # 0 /\ W > 0
      BY <2>2
    <3>2. QED
      BY <1>2, <2>3, <3>1, QuotientRight
  <2>5. Unchanged(o, v, d)
    BY <1>2, <2>2, NumbersAre DEF Leaves, Touches, Unchanged
  <2> HIDE DEF k
  <2>6. QED
    BY <2>2, <2>4, <2>5 DEF Leaves, Answers, Correct
<1>4. CASE o1.rc # 0
  BY <1>1, <1>2, <1>4, TouchesUnchanged DEF Leaves, Answers
<1>5. QED
  BY <1>3, <1>4

-----------------------------------------------------------------------------
(* crypto_bignum_legendre *)

\* The calls that Euler has left after each of its first two.
EulerExp(v, a, p) == mpi_exp_mod(v, "tmp", a, "exp", p)
EulerShift(v, a, p) == Then(mpi_shift_r(v, "exp", 1), LAMBDA w : EulerExp(w, a, p))

\* tmp is a^((p - 1) / 2) modulo p, for an odd p.
LEMMA EulerRight ==
  ASSUME NEW v \in Vals, NEW a \in Callers, NEW p \in Callers, v[p] > 2,
         NEW o \in Euler(v, a, p), o.rc = 0
  PROVE  \E h \in Nat : v[p] = h + h + 1 /\ o.val["tmp"] = Power(v[a], h) % v[p]
<1>1. {a, p, "exp", "tmp"} \subseteq Numbers /\ {a, p} \cap {"exp", "tmp"} = {} /\ v[a] \in Int /\ v[p] \in Int
  BY NumbersAre DEF Temporaries, Callers, Vals
<1>2. PICK o1 \in mpi_sub_int(v, "exp", p, 1) :
        o \in (IF o1.rc = 0 THEN EulerShift(o1.val, a, p) ELSE {o1})
  BY Zenon DEF Euler, EulerShift, EulerExp, Then
<1>3. Leaves(o1, v, "exp", v[p] - 1)
  BY <1>1, ArithmeticLeaves, 1 \in Int
<1>4. /\ o1.val \in Vals /\ o1.val["exp"] = v[p] - 1 /\ o1.val[a] = v[a] /\ o1.val[p] = v[p]
      /\ o \in EulerShift(o1.val, a, p)
  BY <1>1, <1>2, <1>3 DEF Leaves, Touches
<1>5. PICK o2 \in mpi_shift_r(o1.val, "exp", 1) :
        o \in (IF o2.rc = 0 THEN EulerExp(o2.val, a, p) ELSE {o2})
  BY <1>4, Zenon DEF EulerShift, Then
<1> DEFINE h == Quotient(v[p] - 1, Power(2, 1))
<1>6. Leaves(o2, o1.val, "exp", h)
  BY <1>1, <1>4, ShiftLeaves, 1 \in Nat
<1>7. /\ o2.val \in Vals /\ o2.val["exp"] = h /\ o2.val[a] = v[a] /\ o2.val[p] = v[p]
      /\ o \in mpi_exp_mod(o2.val, "tmp", a, "exp", p)
  <2> HIDE DEF h
  <2>1. QED
    BY <1>1, <1>4, <1>5, <1>6 DEF Leaves, Touches, EulerExp
<1>8. o.val["tmp"] = Power(v[a], h) % v[p] /\ CanExp(o2.val, "exp", p)
  <2>1. "tmp" \notin {"exp", p}
    BY <1>1
  <2>2. Leaves(o, o2.val, "tmp", Power(o2.val[a], o2.val["exp"]) % o2.val[p]) /\ CanExp(o2.val, "exp", p)
    BY <1>1, <1>7, <2>1, ExpLeaves
  <2> HIDE DEF h
  <2>3. QED
    BY <1>7, <2>2 DEF Leaves
<1>9. h \in Nat /\ v[p] = h + h + 1
  <2>1. Power(2, 1) = 2
    <3>1. Power(2, 0) = 1 /\ Power(2, 0 + 1) = 2 * Power(2, 0)
      BY PowerStep, 2 \in Int, 0 \in Nat
    <3>2. QED
      BY <3>1
  <2> DEFINE q == Quotient(v[p] - 1, 2)
  <2>2. h = q
    BY <2>1
  <2>3. q \in Int /\ Abs(q) * Abs(2) <= Abs(v[p] - 1) /\ Abs(v[p] - 1) < (Abs(q) + 1) * Abs(2) /\ q * (v[p] - 1) >= 0
    <3>1. v[p] - 1 \in Int /\ 2 \in Int /\ 2 # 0 /\ 2 > 0
      BY <1>1
    <3>2. QED
      BY <3>1, QuotientRight
  <2>4. q >= 0 /\ v[p] % 2 = 1
    <3>1. o2.val["exp"] >= 0 /\ o2.val[p] % 2 = 1
      BY <1>8 DEF CanExp
    <3>2. QED
      BY <1>7, <2>2, <3>1
  <2> HIDE DEF q, h
  <2>5. Abs(q) = q /\ Abs(2) = 2 /\ Abs(v[p] - 1) = v[p] - 1
    BY <1>1, <2>3, <2>4 DEF Abs
  <2>6. q + q <= v[p] - 1 /\ v[p] - 1 < q + q + 2
    BY <1>1, <2>3, <2>5
  <2>7. QED
    BY <1>1, <2>2, <2>3, <2>4, <2>6
<1>10. QED
  BY <1>8, <1>9

\* crypto_bignum_legendre is the Legendre symbol.
LEMMA LegendreRight ==
  ASSUME NEW v \in Vals, NEW a \in Callers, NEW p \in Callers, Prime(v[p]), v[p] > 2,
         NEW o \in crypto_bignum_legendre(v, a, p), o.rc # -2
  PROVE  o.rc = Symbol(v[a], v[p])
<1> DEFINE P == v[p]
           k == v[a]
<1>1. PICK e \in Euler(v, a, p) : o.rc = IF e.rc = 0 THEN Selected(e.val["tmp"]) ELSE -2
  BY DEF crypto_bignum_legendre
<1>2. e.rc = 0 /\ o.rc = Selected(e.val["tmp"])
  BY <1>1
<1>3. PICK h \in Nat : P = h + h + 1 /\ e.val["tmp"] = Power(k, h) % P
  BY <1>2, EulerRight
<1>4. P \in Nat \ {0} /\ P > 2 /\ k \in Int /\ P \in Nat
  BY NumbersAre DEF Vals
<1>5. Power(k, h) \in Int
  BY <1>4, PowerStep
<1> DEFINE t == Power(k, h) % P
<1>6. t \in 0..(P - 1) /\ Congruent(t, Power(k, h), P)
  BY <1>4, <1>5, CongruentMod
<1>7. Prime(P)
  OBVIOUS
<1> HIDE DEF P, k
<1>8. Congruent(k, 0, P) <=> k % P = 0
  <2>1. 0 % P = 0
    BY <1>4
  <2>2. QED
    BY <1>4, <2>1, CongruentIs, 0 \in Int
<1>9. (\E i \in 1..(P - 1) : Congruent(i * i, k, P)) <=> k % P \in Squares(P)
  <2>1. ASSUME NEW i \in 1..(P - 1) PROVE Congruent(i * i, k, P) <=> (i * i) % P = k % P
    BY <1>4, CongruentIs, i * i \in Int
  <2>2. QED
    BY <2>1 DEF Squares
<1>10. ASSUME NEW w \in Int, Congruent(Power(k, h), w, P) PROVE Congruent(t, w, P)
  <2>1. t \in Int /\ P \in Int
    BY <1>4, <1>6
  <2> HIDE DEF t
  <2>2. QED
    BY <1>5, <1>6, <1>10, <2>1, CongruentTrans
<1>11. o.rc = IF t = 0 THEN 0 ELSE IF t = 1 THEN 1 ELSE -1
  <2> HIDE DEF t
  <2>1. Abs(t) = t
    BY <1>4, <1>6 DEF Abs
  <2>2. e.val["tmp"] = t
    BY <1>3 DEF t
  <2>3. QED
    BY <1>2, <2>1, <2>2 DEF Selected, is_zero, is_one
<1> HIDE DEF t
<1>12. CASE Congruent(k, 0, P)
  <2>1. Congruent(Power(k, h), 0, P)
    BY <1>3, <1>4, <1>7, <1>12, EulersCriterion
  <2>2. Congruent(t, 0, P) /\ 0 \in 0..(P - 1)
    BY <1>4, <1>10, <2>1
  <2>3. t = 0
    BY <1>4, <1>6, <2>2, CongruentSmall
  <2>4. QED
    BY <1>8, <1>11, <1>12, <2>3 DEF Symbol, P, k
<1>13. CASE ~Congruent(k, 0, P) /\ \E i \in 1..(P - 1) : Congruent(i * i, k, P)
  <2>1. Congruent(Power(k, h), 1, P)
    BY <1>3, <1>4, <1>7, <1>13, EulersCriterion
  <2>2. Congruent(t, 1, P) /\ 1 \in 0..(P - 1)
    BY <1>4, <1>10, <2>1
  <2>3. t = 1
    BY <1>4, <1>6, <2>2, CongruentSmall
  <2>4. QED
    BY <1>8, <1>9, <1>11, <1>13, <2>3 DEF Symbol, P, k
<1>14. CASE ~Congruent(k, 0, P) /\ \A i \in 1..(P - 1) : ~Congruent(i * i, k, P)
  <2>1. Congruent(Power(k, h), -1, P)
    BY <1>3, <1>4, <1>7, <1>14, EulersCriterion
  <2>2. Congruent(t, -1, P)
    BY <1>10, <2>1, -1 \in Int
  <2>3. Congruent(-1, P - 1, P)
    <3>1. -1 - (P - 1) = (-1) * P
      BY <1>4
    <3>2. QED
      BY <3>1, -1 \in Int DEF Congruent
  <2>4. Congruent(t, P - 1, P)
    BY <1>4, <1>6, <2>2, <2>3, CongruentTrans, -1 \in Int, t \in Int, P - 1 \in Int
  <2>5. t = P - 1
    <3>1. P - 1 \in 0..(P - 1)
      BY <1>4
    <3>2. QED
      BY <1>4, <1>6, <2>4, <3>1, CongruentSmall
  <2>6. o.rc = -1
    BY <1>4, <1>11, <2>5
  <2>7. QED
    BY <1>8, <1>9, <1>14, <2>6 DEF Symbol, P, k
<1>15. QED
  BY <1>12, <1>13, <1>14

-----------------------------------------------------------------------------
(* The curves *)

\* On the way to y^2: y2 alone has changed, and is s modulo P.
Stage(w, v, s) ==
  w \in Vals /\ (\A n \in Numbers \ {"y2"} : w[n] = v[n]) /\ Congruent(w["y2"], s, v["P"])
Reaches(o, v, s) ==
  o.val \in Vals /\ (\A n \in Numbers \ {"y2"} : o.val[n] = v[n]) /\ (o.rc = 0 => Stage(o.val, v, s))

\* A call that leaves a number congruent to s in y2 reaches s.
LEMMA LeavesReaches ==
  ASSUME NEW v \in Vals, v["P"] \in Nat \ {0}, NEW w \in Vals, \A n \in Numbers \ {"y2"} : w[n] = v[n],
         NEW k \in Int, NEW s \in Int, Congruent(k, s, v["P"]), NEW o, Leaves(o, w, "y2", k)
  PROVE  Reaches(o, v, s)
BY DEF Leaves, Touches, Reaches, Stage

\* The products, sums and differences on the way.
LEMMA StageArithmetic ==
  ASSUME NEW v \in Vals, v["P"] \in Nat \ {0}, NEW s \in Int, NEW w, Stage(w, v, s), NEW x \in Numbers \ {"y2"},
         NEW k \in Int, NEW o
  PROVE  /\ o \in mpi_mul(w, "y2", "y2", x) => Reaches(o, v, s * v[x])
         /\ o \in mpi_add(w, "y2", "y2", x) => Reaches(o, v, s + v[x])
         /\ o \in mpi_sub_int(w, "y2", "y2", k) => Reaches(o, v, s - k)
<1> DEFINE y == w["y2"]
           P == v["P"]
           f == v[x]
<1>1. /\ w \in Vals /\ "y2" \in Numbers /\ w[x] = f /\ y \in Int /\ f \in Int /\ P \in Int
      /\ (\A n \in Numbers \ {"y2"} : w[n] = v[n]) /\ Congruent(y, s, P)
  BY NumbersAre DEF Stage, Vals, Temporaries
<1>2. /\ o \in mpi_mul(w, "y2", "y2", x) => Leaves(o, w, "y2", y * f)
      /\ o \in mpi_add(w, "y2", "y2", x) => Leaves(o, w, "y2", y + f)
      /\ o \in mpi_sub_int(w, "y2", "y2", k) => Leaves(o, w, "y2", y - k)
  <2>1. x \in Numbers
    OBVIOUS
  <2>2. QED
    BY <1>1, <2>1, ArithmeticLeaves
<1>3. Congruent(f, f, P) /\ Congruent(k, k, P)
  BY <1>1, CongruentRefl
<1>4. P \in Nat \ {0}
  OBVIOUS
<1> HIDE DEF y, P, f
<1>5. Congruent(y * f, s * f, P) /\ Congruent(y + f, s + f, P) /\ Congruent(y - k, s - k, P)
  BY <1>1, <1>3, CongruentProduct, CongruentSum
<1>6. y * f \in Int /\ s * f \in Int /\ y + f \in Int /\ s + f \in Int /\ y - k \in Int /\ s - k \in Int
  BY <1>1
<1>7. /\ o \in mpi_mul(w, "y2", "y2", x) => Reaches(o, v, s * f)
      /\ o \in mpi_add(w, "y2", "y2", x) => Reaches(o, v, s + f)
      /\ o \in mpi_sub_int(w, "y2", "y2", k) => Reaches(o, v, s - k)
  BY <1>1, <1>2, <1>5, <1>6, LeavesReaches DEF P
<1>8. QED
  BY <1>7 DEF f

\* The reductions on the way.
LEMMA StageMod ==
  ASSUME NEW v \in Vals, v["P"] \in Nat \ {0}, NEW s \in Int, NEW w, Stage(w, v, s),
         NEW o \in mpi_mod(w, "y2", "y2", "P")
  PROVE  Reaches(o, v, s) /\ (o.rc = 0 => o.val["y2"] \in 0..(v["P"] - 1))
<1> DEFINE y == w["y2"]
           P == v["P"]
           t == y % P
<1>1. /\ w \in Vals /\ "y2" \in Numbers /\ "P" \in Numbers /\ w["P"] = P /\ y \in Int /\ P \in Int
      /\ (\A n \in Numbers \ {"y2"} : w[n] = v[n]) /\ Congruent(y, s, P)
  BY NumbersAre DEF Stage, Vals, Temporaries, Parameters
<1>2. Leaves(o, w, "y2", t)
  BY <1>1, ModLeaves
<1>3. t \in 0..(P - 1) /\ Congruent(t, y, P)
  BY <1>1, CongruentMod
<1>4. t \in Int /\ P \in Nat \ {0}
  BY <1>1, <1>3
<1> HIDE DEF y, t, P
<1>5. Congruent(t, s, P)
  BY <1>1, <1>3, <1>4, CongruentTrans
<1>6. Reaches(o, v, s)
  BY <1>1, <1>2, <1>4, <1>5, LeavesReaches DEF P
<1>7. QED
  BY <1>2, <1>3, <1>6 DEF Leaves, P

\* At the end y2 is also reduced.
Ends(o, v, s) ==
  /\ \A n \in Numbers \ {"y2"} : o.val[n] = v[n]
  /\ o.rc = 0 => Stage(o.val, v, s) /\ o.val["y2"] \in 0..(v["P"] - 1)

\* The calls that y_sqr_weierstrass has left.
Sqr8(v) == mpi_mod(v, "y2", "y2", "P")
Sqr7(v) == Then(mpi_add(v, "y2", "y2", "B"), LAMBDA w : Sqr8(w))
Sqr6(v) == Then(mpi_mod(v, "y2", "y2", "P"), LAMBDA w : Sqr7(w))
Sqr5(v, x) == Then(mpi_mul(v, "y2", "y2", x), LAMBDA w : Sqr6(w))
Sqr4(v, x) == Then(mpi_mod(v, "y2", "y2", "P"), LAMBDA w : Sqr5(w, x))
AddA(v, hasA) == IF hasA THEN mpi_add(v, "y2", "y2", "A") ELSE mpi_sub_int(v, "y2", "y2", 3)
Sqr3(v, x, hasA) == Then(AddA(v, hasA), LAMBDA w : Sqr4(w, x))
Sqr2(v, x, hasA) == Then(mpi_mod(v, "y2", "y2", "P"), LAMBDA w : Sqr3(w, x, hasA))

\* ((x^2 + A) x + B) modulo P, with -3 for an A that is not set.
Horner(v, x, hasA) == (v[x] * v[x] + (IF hasA THEN v["A"] ELSE -3)) * v[x] + v["B"]

\* The eight calls of y_sqr_weierstrass, from the last to the first.
LEMMA SqrReaches ==
  ASSUME NEW v \in Vals, v["P"] \in Nat \ {0}, NEW x \in Numbers \ {"y2"}, NEW hasA \in BOOLEAN,
         NEW o \in y_sqr_weierstrass(v, x, hasA)
  PROVE  Ends(o, v, Horner(v, x, hasA))
<1> DEFINE A == IF hasA THEN v["A"] ELSE -3
           s1 == v[x] * v[x]
           s2 == s1 + A
           s3 == s2 * v[x]
           s4 == s3 + v["B"]
<1>1. /\ {x, "y2", "P", "A", "B"} \subseteq Numbers /\ "A" # "y2" /\ "B" # "y2"
      /\ v[x] \in Int /\ v["A"] \in Int /\ v["B"] \in Int /\ v["P"] \in Int
  BY NumbersAre DEF Vals, Parameters, Temporaries
<1>2. s1 \in Int /\ s2 \in Int /\ s3 \in Int /\ s4 \in Int
  <2>1. s1 \in Int /\ A \in Int
    BY <1>1
  <2> HIDE DEF s1, A
  <2>2. s2 \in Int
    BY <2>1
  <2> HIDE DEF s2
  <2>3. s3 \in Int
    BY <1>1, <2>2
  <2> HIDE DEF s3
  <2>4. QED
    BY <1>1, <2>1, <2>2, <2>3
<1>3. s4 = Horner(v, x, hasA)
  BY DEF Horner
<1> HIDE DEF s1, s2, s3, s4, A
<1>4. ASSUME NEW w, Stage(w, v, s4), NEW u \in Sqr8(w)
      PROVE  Ends(u, v, s4)
  BY <1>2, <1>4, StageMod DEF Sqr8, Ends, Reaches
<1>5. ASSUME NEW w, Stage(w, v, s3), NEW u \in Sqr7(w)
      PROVE  Ends(u, v, s4)
  <2>1. PICK t \in mpi_add(w, "y2", "y2", "B") : u \in (IF t.rc = 0 THEN Sqr8(t.val) ELSE {t})
    BY Zenon DEF Sqr7, Then
  <2>2. Reaches(t, v, s4)
    <3>1. "B" \in Numbers \ {"y2"}
      BY <1>1
    <3>2. QED
      BY <1>2, <1>5, <2>1, <3>1, StageArithmetic, 0 \in Int DEF s4
  <2>3. QED
    BY <1>4, <2>1, <2>2 DEF Reaches, Ends
<1>6. ASSUME NEW w, Stage(w, v, s3), NEW u \in Sqr6(w)
      PROVE  Ends(u, v, s4)
  <2>1. PICK t \in mpi_mod(w, "y2", "y2", "P") : u \in (IF t.rc = 0 THEN Sqr7(t.val) ELSE {t})
    BY Zenon DEF Sqr6, Then
  <2>2. Reaches(t, v, s3)
    BY <1>2, <1>6, StageMod
  <2>3. QED
    BY <1>5, <2>1, <2>2 DEF Reaches, Ends
<1>7. ASSUME NEW w, Stage(w, v, s2), NEW u \in Sqr5(w, x)
      PROVE  Ends(u, v, s4)
  <2>1. PICK t \in mpi_mul(w, "y2", "y2", x) : u \in (IF t.rc = 0 THEN Sqr6(t.val) ELSE {t})
    BY Zenon DEF Sqr5, Then
  <2>2. Reaches(t, v, s3)
    BY <1>2, <1>7, <2>1, StageArithmetic, 0 \in Int DEF s3
  <2>3. QED
    BY <1>6, <2>1, <2>2 DEF Reaches, Ends
<1>8. ASSUME NEW w, Stage(w, v, s2), NEW u \in Sqr4(w, x)
      PROVE  Ends(u, v, s4)
  <2>1. PICK t \in mpi_mod(w, "y2", "y2", "P") : u \in (IF t.rc = 0 THEN Sqr5(t.val, x) ELSE {t})
    BY Zenon DEF Sqr4, Then
  <2>2. Reaches(t, v, s2)
    BY <1>2, <1>8, StageMod
  <2>3. QED
    BY <1>7, <2>1, <2>2 DEF Reaches, Ends
<1>9. ASSUME NEW w, Stage(w, v, s1), NEW u \in Sqr3(w, x, hasA)
      PROVE  Ends(u, v, s4)
  <2>1. PICK t \in AddA(w, hasA) : u \in (IF t.rc = 0 THEN Sqr4(t.val, x) ELSE {t})
    BY Zenon DEF Sqr3, Then
  <2>2. CASE hasA
    <3>1. t \in mpi_add(w, "y2", "y2", "A") /\ "A" \in Numbers \ {"y2"}
      BY <1>1, <2>1, <2>2 DEF AddA
    <3>2. Reaches(t, v, s1 + v["A"])
      BY <1>2, <1>9, <3>1, StageArithmetic, 0 \in Int
    <3>3. s2 = s1 + v["A"]
      BY <2>2 DEF s2, A
    <3>4. QED
      BY <1>8, <2>1, <3>2, <3>3 DEF Reaches, Ends
  <2>3. CASE ~hasA
    <3>1. t \in mpi_sub_int(w, "y2", "y2", 3)
      BY <2>1, <2>3 DEF AddA
    <3>2. Reaches(t, v, s1 - 3)
      BY <1>2, <1>9, <3>1, StageArithmetic, 3 \in Int
    <3>3. s2 = s1 - 3
      BY <1>2, <2>3 DEF s2, A
    <3>4. QED
      BY <1>8, <2>1, <3>2, <3>3 DEF Reaches, Ends
  <2>4. QED
    BY <2>2, <2>3
<1>10. ASSUME NEW w, Stage(w, v, s1), NEW u \in Sqr2(w, x, hasA)
       PROVE  Ends(u, v, s4)
  <2>1. PICK t \in mpi_mod(w, "y2", "y2", "P") : u \in (IF t.rc = 0 THEN Sqr3(t.val, x, hasA) ELSE {t})
    BY Zenon DEF Sqr2, Then
  <2>2. Reaches(t, v, s1)
    BY <1>2, <1>10, StageMod
  <2>3. QED
    BY <1>9, <2>1, <2>2 DEF Reaches, Ends
<1>11. PICK t \in mpi_mul(v, "y2", x, x) : o \in (IF t.rc = 0 THEN Sqr2(t.val, x, hasA) ELSE {t})
  BY Zenon DEF y_sqr_weierstrass, Sqr2, Sqr3, AddA, Sqr4, Sqr5, Sqr6, Sqr7, Sqr8, Then
<1>12. Reaches(t, v, s1)
  <2>1. Leaves(t, v, "y2", s1)
    BY <1>1, ArithmeticLeaves, 0 \in Int DEF s1
  <2>2. Congruent(s1, s1, v["P"])
    BY <1>1, <1>2, CongruentRefl
  <2>3. QED
    BY <1>2, <2>1, <2>2, LeavesReaches
<1>13. QED
  BY <1>3, <1>10, <1>11, <1>12 DEF Reaches, Ends

\* The square of y for the x of a point.
LEMMA SqrRight ==
  ASSUME NEW e \in Curves, NEW k \in Int, NEW v, v = Fresh(e, k, 0, 0),
         NEW o \in y_sqr_weierstrass(v, "x", e.hasA)
  PROVE  Answers(o, "y_sqr", v, "x", "x", "x", "y2")
<1> DEFINE P == v["P"]
           g == Horner(v, "x", e.hasA)
           c == Cubic(e, k)
<1>1. v \in Vals
  BY FreshType, 0 \in Int
<1>2. /\ P \in Nat \ {0} /\ P = e.P /\ v["x"] = k /\ v["B"] = e.B /\ e.A \in Int /\ e.B \in Int /\ e.hasA \in BOOLEAN
      /\ v["A"] = IF e.hasA THEN e.A ELSE 0
      /\ (~e.hasA => e.A = P - 3)
  BY BignumAssumption DEF Fresh
<1>3. Ends(o, v, g)
  BY <1>1, <1>2, NumbersAre, SqrReaches DEF Callers, Temporaries
<1>4. "y2" \in Numbers /\ OnCurve(e, v)
  BY <1>2, NumbersAre DEF Temporaries, OnCurve
<1>5. g \in Int /\ c \in Int /\ Congruent(c, g, P)
  <2> DEFINE A == IF e.hasA THEN v["A"] ELSE -3
             q == k * k
             m == q * k
  <2>1. q \in Int /\ A \in Int /\ q * k = m /\ m \in Int
    BY <1>2
  <2>2. g = (q + A) * k + e.B /\ c = m + e.A * k + e.B
    BY <1>2 DEF Horner, Cubic
  <2>3. A = IF e.hasA THEN e.A ELSE e.A - P
    BY <1>2
  <2> HIDE DEF A, q, m, g, c, P
  <2>4. (q + A) * k = m + A * k /\ A * k \in Int /\ e.A * k \in Int
    BY <1>2, <2>1
  <2>5. g \in Int /\ c \in Int
    BY <1>2, <2>1, <2>2, <2>4
  <2>6. c - g = e.A * k - A * k
    BY <1>2, <2>1, <2>2, <2>4
  <2>7. CASE e.hasA
    <3>1. c - g = 0 * P
      BY <1>2, <2>3, <2>4, <2>6, <2>7
    <3>2. QED
      BY <2>5, <3>1, 0 \in Int DEF Congruent
  <2>8. CASE ~e.hasA
    <3>1. e.A * k - (e.A - P) * k = k * P
      BY <1>2
    <3>2. c - g = k * P
      BY <2>3, <2>6, <2>8, <3>1
    <3>3. QED
      BY <2>5, <3>2 DEF Congruent
  <2>9. QED
    BY <1>2, <2>7, <2>8
<1>6. ASSUME o.rc = 0 PROVE o.val["y2"] \in 0..(P - 1) /\ (c - o.val["y2"]) % P = 0
  <2> DEFINE y == o.val["y2"]
  <2>1. y \in 0..(P - 1) /\ Congruent(y, g, P)
    BY <1>3, <1>6 DEF Ends, Stage
  <2>2. y \in Int /\ P \in Int
    BY <1>2, <2>1
  <2> HIDE DEF y, g, c, P
  <2>3. Congruent(c, y, P)
    BY <1>5, <2>1, <2>2, CongruentSym, CongruentTrans
  <2>4. PICK q \in Int : c - y = q * P
    BY <2>3 DEF Congruent
  <2>5. c - y = q * P + 0 /\ c - y \in Int /\ 0 \in 0..(P - 1)
    BY <1>2, <1>5, <2>2, <2>4
  <2>6. (c - y) % P = 0
    BY <1>2, <2>5, DivIs
  <2>7. QED
    BY <2>1, <2>6 DEF y
<1>7. Unchanged(o, v, "y2")
  BY <1>3, NumbersAre DEF Ends, Unchanged
<1> HIDE DEF c, g
<1>8. o.rc = 0 => Correct("y_sqr", o.val["y2"], v["x"], v["x"], v["x"], v)
  BY <1>2, <1>4, <1>6 DEF Correct, c
<1>9. QED
  BY <1>7, <1>8 DEF Answers

\* The inverse of a point.
LEMMA InvertRight ==
  ASSUME NEW e \in Curves, NEW k \in Nat, NEW v, v = Fresh(e, k, 0, 0), NEW o \in point_invert(v, "x")
  PROVE  Answers(o, "invert", v, "x", "x", "x", "x")
<1>1. v \in Vals /\ "x" \in Numbers
  BY FreshType, NumbersAre, 0 \in Int DEF Callers
<1>2. v["P"] \in Nat \ {0} /\ v["x"] = k /\ Abs(k) = k
  BY BignumAssumption DEF Fresh, Abs
<1>3. 0 % v["P"] = 0 /\ v["P"] % v["P"] = 0
  <2> DEFINE P == v["P"]
  <2>1. P \in Nat \ {0}
    BY <1>2
  <2> HIDE DEF P
  <2>2. 0 = 0 * P + 0 /\ P = 1 * P + 0 /\ 0 \in 0..(P - 1) /\ P \in Int
    BY <2>1
  <2>3. 0 % P = 0
    BY <2>1, <2>2, DivIs, 0 \in Int
  <2>4. P % P = 0
    BY <2>1, <2>2, DivIs, 1 \in Int
  <2>5. QED
    BY <2>3, <2>4 DEF P
<1>4. CASE k = 0
  <2>1. o.rc = 0 /\ o.val = v
    BY <1>2, <1>4 DEF point_invert, Done
  <2>2. (v["x"] + v["x"]) % v["P"] = 0
    BY <1>2, <1>3, <1>4
  <2>3. QED
    BY <2>1, <2>2 DEF Answers, Correct, Unchanged
<1>5. CASE k # 0 /\ k > v["P"]
  <2>1. o.rc # 0 /\ o.val = v
    BY <1>2, <1>5 DEF point_invert, Failed
  <2>2. QED
    BY <2>1 DEF Answers, Unchanged
<1>6. CASE k # 0 /\ k <= v["P"]
  <2>1. o \in Sets(v, "x", v["P"] - k) /\ v["P"] - k \in Int
    BY <1>2, <1>6 DEF point_invert
  <2>2. Leaves(o, v, "x", v["P"] - k)
    BY <1>1, <2>1, SetsLeaves
  <2>3. (v["P"] - k) + k = v["P"]
    BY <1>2
  <2>4. Correct("invert", v["P"] - k, v["x"], v["x"], v["x"], v)
    BY <1>2, <1>3, <2>3 DEF Correct
  <2>5. QED
    BY <2>2, <2>4, TouchesUnchanged DEF Leaves, Answers
<1>7. QED
  BY <1>2, <1>4, <1>5, <1>6

-----------------------------------------------------------------------------
(* crypto_bignum_to_bin *)

\* mbedtls_mpi_size: as few bytes as hold the number.
LEMMA SizeIs ==
  ASSUME NEW k \in Int
  PROVE  /\ Size(k) \in Nat /\ Power(Radix, Size(k)) > Abs(k)
         /\ \A i \in 0..(Size(k) - 1) : Power(Radix, i) <= Abs(k)
<1> DEFINE T == {n \in Nat : Power(Radix, n) > Abs(k)}
<1>1. Radix \in Nat /\ Radix >= 2 /\ Abs(k) \in Nat
  BY BignumAssumption DEF Abs
<1>2. Abs(k) \in T
  BY <1>1, PowerGrows
<1>3. PICK m \in T : \A n \in T : m <= n
  BY <1>2, Least
<1>4. m \in 0..Abs(k) /\ Power(Radix, m) > Abs(k)
  BY <1>1, <1>2, <1>3
<1>5. ASSUME NEW i \in 0..(m - 1) PROVE Power(Radix, i) <= Abs(k)
  <2>1. i \in Nat /\ i \notin T
    BY <1>3, <1>4
  <2>2. Power(Radix, i) \in Nat
    BY <1>1, <2>1, PowerGrows
  <2>3. QED
    BY <1>1, <2>1, <2>2
<1> DEFINE Good(n) == Power(Radix, n) > Abs(k) /\ \A i \in 0..(n - 1) : Power(Radix, i) <= Abs(k)
           s == CHOOSE n \in 0..Abs(k) : Good(n)
<1>6. Size(k) = s
  BY Zenon DEF Size
<1>7. s \in 0..Abs(k) /\ Good(s)
  <2>1. Good(m)
    BY <1>4, <1>5
  <2> HIDE DEF Good
  <2>2. QED
    BY <1>4, <2>1
<1> HIDE DEF s
<1>8. QED
  BY <1>1, <1>6, <1>7

\* One digit further.
LEMMA DigitStep ==
  ASSUME NEW K \in Nat, NEW W \in Nat \ {0}, NEW R \in Nat \ {0}
  PROVE  K \div W = (K \div (R * W)) * R + ((K \div W) % R)
<1> DEFINE u == K \div W
           r == K % W
           t == u \div R
           d == u % R
           Z == R * W
<1>1. u \in Int /\ r \in 0..(W - 1) /\ K = u * W + r
  BY Division
<1> HIDE DEF u, r
<1>2. t \in Int /\ d \in 0..(R - 1) /\ u = t * R + d
  BY <1>1, Division
<1> HIDE DEF t, d
<1>3. K = t * Z + (d * W + r)
  <2>1. u * W = t * Z + d * W
    <3>1. (t * R + d) * W = (t * R) * W + d * W
      BY <1>1, <1>2
    <3>2. (t * R) * W = t * (R * W)
      BY <1>2
    <3>3. QED
      BY <1>2, <3>1, <3>2
  <2>2. t * Z \in Int /\ d * W \in Int
    BY <1>2
  <2> HIDE DEF Z
  <2>3. QED
    BY <1>1, <2>1, <2>2
<1>4. d * W + r \in 0..(Z - 1) /\ Z \in Nat \ {0}
  <2>1. d * W >= 0 /\ d * W <= (R - 1) * W /\ d * W \in Int
    BY <1>2
  <2>2. (R - 1) * W = Z - W /\ Z \in Int /\ Z >= 1
    OBVIOUS
  <2> HIDE DEF Z
  <2>3. QED
    BY <1>1, <2>1, <2>2
<1> HIDE DEF Z
<1>5. K \div Z = t
  <2> DEFINE e == d * W + r
  <2>1. K = t * Z + e /\ e \in 0..(Z - 1)
    BY <1>3, <1>4
  <2> HIDE DEF e
  <2>2. K \in Int
    OBVIOUS
  <2>3. QED
    BY <1>2, <1>4, <2>1, <2>2, DivIs
<1>6. u = (K \div Z) * R + d
  <2>1. (K \div Z) * R = t * R
    BY <1>5
  <2>2. QED
    BY <1>2, <2>1
<1>7. QED
  BY <1>6 DEF u, d, Z

\* The bytes are those of the number.
LEMMA BytesAre ==
  ASSUME NEW k \in Int, NEW n \in Nat, Power(Radix, n) > Abs(k)
  PROVE  Bytes(k, n) \in Seq(Int) /\ Len(Bytes(k, n)) = n /\ NumberOf(Bytes(k, n)) = Abs(k)
<1> DEFINE K == Abs(k)
           s == Bytes(k, n)
           Part(i) == K \div Power(Radix, n - i)
           g == [i \in 0..n |-> Part(i)]
<1>1. Radix \in Nat /\ Radix >= 2 /\ Radix \in Nat \ {0} /\ K \in Nat
  BY BignumAssumption DEF Abs
<1>2. ASSUME NEW i \in Nat PROVE Power(Radix, i) \in Nat \ {0} /\ Power(Radix, i + 1) = Radix * Power(Radix, i)
  <2>1. Power(Radix, i) \in Nat /\ Power(Radix, i) > i
    BY <1>1, PowerGrows
  <2>2. Power(Radix, i + 1) = Radix * Power(Radix, i)
    BY <1>1, PowerStep, Radix \in Int
  <2>3. QED
    BY <2>1, <2>2
<1> HIDE DEF K
<1>3. ASSUME NEW i \in 0..n PROVE g[i] \in Int
  <2>1. n - i \in Nat
    OBVIOUS
  <2>2. Power(Radix, n - i) \in Nat \ {0}
    BY <1>2, <2>1
  <2>3. Part(i) \in Int
    <3> DEFINE W == Power(Radix, n - i)
    <3>1. W \in Nat \ {0} /\ K \in Int
      BY <1>1, <2>2
    <3> HIDE DEF W
    <3>2. K \div W \in Int
      BY <3>1, Division
    <3>3. QED
      BY <3>2 DEF W
  <2>4. g[i] = Part(i)
    <3> HIDE DEF Part
    <3>1. QED
      OBVIOUS
  <2>5. QED
    BY <2>3, <2>4
<1>4. s \in [1..n -> Int] /\ \A i \in 1..n : s[i] = g[i] % Radix
  <2>1. \A i \in 1..n : g[i] % Radix \in Int
    <3>1. \A i \in 1..n : g[i] \in Int
      BY <1>3
    <3> HIDE DEF g
    <3>2. QED
      BY <1>1, <3>1, Division
  <2>2. s = [i \in 1..n |-> g[i] % Radix]
    <3>1. s = [i \in 1..n |-> Part(i) % Radix]
      BY Zenon DEF Bytes, K
    <3> HIDE DEF Part, s
    <3>2. QED
      BY <3>1
  <2> HIDE DEF s, g
  <2>3. QED
    BY <2>1, <2>2
<1> HIDE DEF s
<1>5. s \in Seq(Int) /\ Len(s) = n
  BY <1>4, SeqDef
<1>6. g[0] = 0 /\ g[n] = K
  <2>1. Power(Radix, 0) = 1
    BY <1>1, PowerStep
  <2>2. K \div 1 = K
    BY <1>1
  <2>3. K \div Power(Radix, n) = 0
    <3> DEFINE W == Power(Radix, n)
    <3>1. W \in Nat \ {0} /\ K < W
      BY <1>2 DEF K
    <3> HIDE DEF W
    <3>2. K = 0 * W + K /\ K \in 0..(W - 1)
      BY <1>1, <3>1
    <3>3. K \div W = 0
      BY <1>1, <3>1, <3>2, DivIs, 0 \in Int
    <3>4. QED
      BY <3>3 DEF W
  <2>4. g[0] = K \div Power(Radix, n) /\ g[n] = K \div Power(Radix, 0)
    OBVIOUS
  <2>5. QED
    BY <2>1, <2>2, <2>3, <2>4
<1>7. ASSUME NEW i \in 1..n PROVE g[i] = g[i - 1] * Radix + s[i]
  <2> DEFINE W == Power(Radix, n - i)
  <2>1. n - i \in Nat /\ n - (i - 1) = (n - i) + 1 /\ i \in 0..n /\ i - 1 \in 0..n
    OBVIOUS
  <2>2. W \in Nat \ {0} /\ Power(Radix, n - (i - 1)) = Radix * W
    BY <1>2, <2>1
  <2>3. g[i] = K \div W /\ g[i - 1] = K \div (Radix * W)
    BY <2>1, <2>2
  <2> HIDE DEF W
  <2>4. K \div W = (K \div (Radix * W)) * Radix + ((K \div W) % Radix)
    BY <1>1, <2>2, DigitStep
  <2>5. s[i] = (K \div W) % Radix
    BY <1>4, <2>3
  <2> HIDE DEF g
  <2>6. QED
    BY <2>3, <2>4, <2>5
<1> DEFINE Sums(f) == f = [i \in 0..Len(s) |-> IF i = 0 THEN 0 ELSE f[i - 1] * Radix + s[i]]
           f == CHOOSE h : Sums(h)
<1>8. Sums(g)
  <2>1. g = [i \in 0..n |-> g[i]]
    OBVIOUS
  <2>2. \A i \in 0..n : g[i] = IF i = 0 THEN 0 ELSE g[i - 1] * Radix + s[i]
    <3> HIDE DEF g
    <3>1. QED
      BY <1>6, <1>7
  <2> HIDE DEF g
  <2>3. [i \in 0..n |-> g[i]] = [i \in 0..n |-> IF i = 0 THEN 0 ELSE g[i - 1] * Radix + s[i]]
    BY <2>2
  <2>4. QED
    BY <1>5, <2>1, <2>3
<1> HIDE DEF g
<1>9. Sums(f)
  BY <1>8
<1>10. NumberOf(s) = f[n]
  BY <1>5, Zenon DEF NumberOf
<1> DEFINE S == {i \in Nat : i <= n => f[i] = g[i]}
<1>11. 0 \in S
  <2>1. f[0] = 0
    <3> HIDE DEF f
    <3>1. QED
      BY <1>5, <1>9
  <2>2. QED
    BY <1>6, <2>1
<1> HIDE DEF f
<1>12. ASSUME NEW i \in Nat, i \in S PROVE i + 1 \in S
  <2>1. CASE i + 1 <= n
    <3>1. f[i + 1] = f[(i + 1) - 1] * Radix + s[i + 1]
      BY <1>5, <1>9, <2>1
    <3>2. g[i + 1] = g[(i + 1) - 1] * Radix + s[i + 1]
      BY <1>7, <2>1
    <3>3. (i + 1) - 1 = i /\ f[i] = g[i]
      BY <1>12, <2>1
    <3>4. QED
      BY <3>1, <3>2, <3>3
  <2>2. QED
    BY <2>1
<1>13. \A i \in Nat : i \in S
  <2> HIDE DEF S
  <2>1. QED
    BY <1>11, <1>12, Induction
<1>14. f[n] = g[n]
  BY <1>13
<1>15. QED
  BY <1>5, <1>6, <1>10, <1>14 DEF K, s

\* crypto_bignum_to_bin.
LEMMA ToBinRight ==
  ASSUME NEW v \in Vals, NEW a \in Numbers, NEW buflen \in Nat, NEW padlen \in Nat
  PROVE  LET k == v[a]
             out == crypto_bignum_to_bin(v, a, buflen, padlen)
             fits == \E n \in 0..buflen : n >= padlen /\ Power(Radix, n) > Abs(k)
         IN  /\ ~fits => out = <<>>
             /\ fits => /\ NumberOf(out[1]) = Abs(k) /\ Len(out[1]) >= padlen
                        /\ Len(out[1]) > padlen => out[1][1] # 0
<1> DEFINE k == v[a]
           m == Size(k)
           n == IF m < padlen THEN padlen ELSE m
           out == crypto_bignum_to_bin(v, a, buflen, padlen)
           fits == \E i \in 0..buflen : i >= padlen /\ Power(Radix, i) > Abs(k)
<1>1. k \in Int /\ Radix \in Nat /\ Radix >= 2 /\ Radix \in Nat \ {0} /\ Abs(k) \in Nat
  BY BignumAssumption DEF Vals, Abs
<1>2. m \in Nat /\ Power(Radix, m) > Abs(k) /\ \A i \in 0..(m - 1) : Power(Radix, i) <= Abs(k)
  BY <1>1, SizeIs
<1>3. out = IF n > buflen THEN <<>> ELSE <<Bytes(k, n)>>
  BY DEF crypto_bignum_to_bin
<1> HIDE DEF m, k
<1>4. n \in Nat /\ n >= m /\ n >= padlen /\ (n > padlen => n = m)
  BY <1>2
<1> HIDE DEF n
<1>5. Power(Radix, n) > Abs(k)
  <2>1. n - m \in Nat /\ m + (n - m) = n
    BY <1>2, <1>4
  <2>2. Power(Radix, m + (n - m)) >= Power(Radix, m)
    BY <1>1, <1>2, <2>1, PowerMonotone
  <2>3. Power(Radix, n) \in Nat /\ Power(Radix, m) \in Nat
    BY <1>1, <1>2, <1>4, PowerGrows
  <2>4. QED
    BY <1>1, <1>2, <2>1, <2>2, <2>3
<1>6. fits <=> n <= buflen
  <2>1. ASSUME n <= buflen PROVE fits
    BY <1>4, <1>5, <2>1
  <2>2. ASSUME NEW i \in 0..buflen, i >= padlen, Power(Radix, i) > Abs(k) PROVE n <= buflen
    <3>1. Power(Radix, i) \in Nat
      BY <1>1, PowerGrows
    <3>2. i \notin 0..(m - 1)
      BY <1>1, <1>2, <2>2, <3>1
    <3>3. QED
      BY <1>2, <1>4, <2>2, <3>2
  <2>3. QED
    BY <2>1, <2>2
<1>7. CASE n > buflen
  BY <1>3, <1>4, <1>6, <1>7 DEF k
<1>8. CASE n <= buflen
  <2> DEFINE s == Bytes(k, n)
  <2>1. out = <<s>> /\ fits
    BY <1>3, <1>4, <1>6, <1>8
  <2>2. s \in Seq(Int) /\ Len(s) = n /\ NumberOf(s) = Abs(k)
    BY <1>1, <1>4, <1>5, BytesAre
  <2>3. ASSUME n > padlen PROVE s[1] # 0
    <3> DEFINE W == Power(Radix, n - 1)
               q == Abs(k) \div W
    <3>1. n = m /\ n - 1 \in Nat /\ (n - 1) + 1 = n /\ n - 1 \in 0..(m - 1)
      BY <1>2, <1>4, <2>3
    <3>2. W \in Nat /\ W > n - 1 /\ Power(Radix, n) = Radix * W
      BY <1>1, <3>1, PowerGrows, PowerStep, Radix \in Int
    <3>3. W <= Abs(k) /\ Abs(k) < Radix * W
      BY <1>2, <3>1, <3>2
    <3>4. s[1] = q % Radix
      <4>1. 1 \in 1..n
        BY <1>4, <3>1
      <4>2. s[1] = (Abs(k) \div Power(Radix, n - 1)) % Radix
        BY <4>1 DEF Bytes
      <4>3. QED
        BY <4>2
    <3> HIDE DEF W, s
    <3>5. W \in Nat \ {0}
      BY <3>1, <3>2
    <3>6. q \in Int /\ Abs(k) % W \in 0..(W - 1) /\ Abs(k) = q * W + (Abs(k) % W)
      BY <1>1, <3>5, Division, Abs(k) \in Int
    <3> HIDE DEF q
    <3>7. q > 0
      <4>1. q <= 0 => q * W <= 0
        BY <3>5, <3>6
      <4>2. q * W \in Int
        BY <3>5, <3>6
      <4>3. QED
        BY <1>1, <3>3, <3>5, <3>6, <4>1, <4>2
    <3>8. q < Radix
      <4>1. q >= Radix => q * W >= Radix * W
        BY <1>1, <3>5, <3>6
      <4>2. q * W \in Int /\ Radix * W \in Int
        BY <1>1, <3>5, <3>6
      <4>3. QED
        BY <1>1, <3>3, <3>5, <3>6, <4>1, <4>2
    <3>9. q % Radix = q
      <4>1. q = 0 * Radix + q /\ q \in 0..(Radix - 1)
        BY <1>1, <3>6, <3>7, <3>8
      <4>2. QED
        BY <1>1, <3>6, <4>1, DivIs, 0 \in Int
    <3>10. QED
      BY <3>4, <3>7, <3>9
  <2>4. out[1] = s
    <3> HIDE DEF out, s
    <3>1. QED
      BY <2>1
  <2> HIDE DEF out, s, fits
  <2>5. NumberOf(out[1]) = Abs(k) /\ Len(out[1]) >= padlen /\ (Len(out[1]) > padlen => out[1][1] # 0)
    BY <1>4, <2>2, <2>3, <2>4
  <2>6. QED
    BY <2>1, <2>5 DEF out, fits, k
<1>9. QED
  BY <1>1, <1>4, <1>7, <1>8

-----------------------------------------------------------------------------
(* Every call *)

\* A call whose outcomes are all right.
LEMMA CalledRight ==
  ASSUME NEW fn, fn \notin {"none", "to_bin", "legendre"},
         NEW v, NEW a, NEW b, NEW c, NEW d, NEW os, Called(fn, v, a, b, c, d, os),
         ~(fn \in {"addmod", "mulmod", "sqrmod"} /\ d = c) /\ ~(fn = "mod" /\ d = b)
           => \A o \in os : Answers(o, fn, v, a, b, c, d)
  PROVE  BignumRight'
<1>1. PICK o \in os : call' = [fn |-> fn, v |-> v, a |-> a, b |-> b, c |-> c, d |-> d,
                               rc |-> o.rc, val |-> o.val]
  BY DEF Called
<1>2. /\ call'.fn = fn /\ call'.v = v /\ call'.a = a /\ call'.b = b /\ call'.c = c /\ call'.d = d
      /\ call'.rc = o.rc /\ call'.val = o.val
  BY <1>1
<1>3. ~Clobbers' => Answers(o, fn, v, a, b, c, d)
  BY <1>2 DEF Clobbers
<1>4. ResultRight'
  BY <1>2, <1>3 DEF ResultRight, Answers, Unchanged
<1>5. SymbolRight' /\ BytesRight'
  BY <1>2 DEF SymbolRight, BytesRight
<1>6. QED
  BY <1>4, <1>5 DEF BignumRight

\* The calls with three or four numbers.
LEMMA CallBignumRight == CallBignum => BignumRight'
<1> SUFFICES ASSUME CallBignum PROVE BignumRight'
  OBVIOUS
<1>0. PICK i \in Values, j \in Values, k \in Values, a \in Callers, b \in Callers, c \in Callers, d \in Callers :
       LET v == Fresh(AnyCurve, i, j, k)
       IN
       \/ Called("exptmod", v, a, b, c, d, crypto_bignum_exptmod(v, a, b, c, d))
       \/ Called("addmod", v, a, b, c, d, crypto_bignum_addmod(v, a, b, c, d))
       \/ Called("mulmod", v, a, b, c, d, crypto_bignum_mulmod(v, a, b, c, d))
       \/ /\ c = d
          /\ \/ Called("add", v, a, b, c, d, crypto_bignum_add(v, a, b, c))
             \/ Called("sub", v, a, b, c, d, crypto_bignum_sub(v, a, b, c))
             \/ Called("mod", v, a, b, c, d, crypto_bignum_mod(v, a, b, c))
             \/ Called("inverse", v, a, b, c, d, crypto_bignum_inverse(v, a, b, c))
             \/ Called("div", v, a, b, c, d, crypto_bignum_div(v, a, b, c))
             \/ Called("sqrmod", v, a, a, b, d, crypto_bignum_sqrmod(v, a, b, c))
  BY Zenon DEF CallBignum
<1> DEFINE v == Fresh(AnyCurve, i, j, k)
<1>1. v \in Vals
  <2>1. AnyCurve \in Curves
    BY BignumAssumption DEF AnyCurve
  <2>2. i \in Int /\ j \in Int /\ k \in Int
    BY BignumAssumption
  <2>3. QED
    BY <2>1, <2>2, FreshType
<1>2. CASE Called("exptmod", v, a, b, c, d, crypto_bignum_exptmod(v, a, b, c, d))
  BY <1>1, <1>2, ExptmodRight, CalledRight
<1>3. CASE Called("addmod", v, a, b, c, d, crypto_bignum_addmod(v, a, b, c, d))
  BY <1>1, <1>3, AddmodRight, CalledRight
<1>4. CASE Called("mulmod", v, a, b, c, d, crypto_bignum_mulmod(v, a, b, c, d))
  BY <1>1, <1>4, MulmodRight, CalledRight
<1>5. CASE c = d /\ Called("add", v, a, b, c, d, crypto_bignum_add(v, a, b, c))
  BY <1>1, <1>5, AddRight, CalledRight
<1>6. CASE c = d /\ Called("sub", v, a, b, c, d, crypto_bignum_sub(v, a, b, c))
  BY <1>1, <1>6, SubRight, CalledRight
<1>7. CASE c = d /\ Called("mod", v, a, b, c, d, crypto_bignum_mod(v, a, b, c))
  BY <1>1, <1>7, ModuloRight, CalledRight
<1>8. CASE c = d /\ Called("inverse", v, a, b, c, d, crypto_bignum_inverse(v, a, b, c))
  BY <1>1, <1>8, InverseRight, CalledRight
<1>9. CASE c = d /\ Called("div", v, a, b, c, d, crypto_bignum_div(v, a, b, c))
  BY <1>1, <1>9, DivRight, CalledRight
<1>10. CASE c = d /\ Called("sqrmod", v, a, a, b, d, crypto_bignum_sqrmod(v, a, b, c))
  <2>1. d # b => \A o \in crypto_bignum_sqrmod(v, a, b, c) : Answers(o, "sqrmod", v, a, a, b, d)
    BY <1>1, <1>10, MulmodRight DEF crypto_bignum_sqrmod
  <2>2. QED
    BY <1>10, <2>1, CalledRight
<1>11. QED
  BY <1>0, <1>2, <1>3, <1>4, <1>5, <1>6, <1>7, <1>8, <1>9, <1>10

\* A shift.
LEMMA CallShiftRight == CallShift => BignumRight'
<1> SUFFICES ASSUME NEW i \in Values, NEW j \in Values, NEW n \in 0..3, NEW a \in {"x", "y"}, NEW d \in {"x", "y"},
                    NEW v, v = [Fresh(AnyCurve, i, j, 0) EXCEPT !["z"] = n],
                    Called("rshift", v, a, "z", "z", d, crypto_bignum_rshift(v, a, n, d))
              PROVE  BignumRight'
  BY DEF CallShift
<1>1. Fresh(AnyCurve, i, j, 0) \in Vals
  <2>1. AnyCurve \in Curves
    BY BignumAssumption DEF AnyCurve
  <2>2. i \in Int /\ j \in Int /\ 0 \in Int
    BY BignumAssumption
  <2>3. QED
    BY <2>1, <2>2, FreshType
<1>2. v \in Vals /\ v["z"] = n /\ n \in Nat /\ a \in Callers /\ d \in Callers
  <2>1. "z" \in Numbers
    BY DEF Numbers, Callers
  <2>2. QED
    BY <1>1, <2>1 DEF Vals, Callers
<1>3. QED
  BY <1>2, RshiftRight, CalledRight

\* A Legendre symbol.
LEMMA CallLegendreRight == CallLegendre => BignumRight'
<1> SUFFICES ASSUME NEW i \in Values, NEW j \in Values, NEW v, v = Fresh(AnyCurve, i, j, 0),
                    Called("legendre", v, "x", "y", "y", "none", crypto_bignum_legendre(v, "x", "y"))
              PROVE  BignumRight'
  BY DEF CallLegendre
<1>1. v \in Vals
  <2>1. AnyCurve \in Curves
    BY BignumAssumption DEF AnyCurve
  <2>2. i \in Int /\ j \in Int /\ 0 \in Int
    BY BignumAssumption
  <2>3. QED
    BY <2>1, <2>2, FreshType
<1>2. PICK o \in crypto_bignum_legendre(v, "x", "y") :
        call' = [fn |-> "legendre", v |-> v, a |-> "x", b |-> "y", c |-> "y", d |-> "none",
                 rc |-> o.rc, val |-> o.val]
  BY DEF Called
<1>3. call'.fn = "legendre" /\ call'.v = v /\ call'.rc = o.rc
  BY <1>2
<1>4. Prime(v["y"]) /\ v["y"] > 2 /\ o.rc # -2 => o.rc = Symbol(v["x"], v["y"])
  <2>1. "x" \in Callers /\ "y" \in Callers
    BY DEF Callers
  <2>2. QED
    BY <1>1, <2>1, LegendreRight
<1>5. SymbolRight'
  BY <1>3, <1>4, Zenon DEF SymbolRight
<1>6. QED
  BY <1>3, <1>5 DEF BignumRight, ResultRight, BytesRight

\* A number's bytes.
LEMMA CallToBinRight == CallToBin => BignumRight'
<1> SUFFICES ASSUME NEW k \in Values, NEW buflen \in 0..4, NEW padlen \in 0..4, NEW v, v = Fresh(AnyCurve, k, 0, 0),
                    call' = [fn |-> "to_bin", k |-> k, buflen |-> buflen, padlen |-> padlen,
                             out |-> crypto_bignum_to_bin(v, "x", buflen, padlen)]
              PROVE  BignumRight'
  BY DEF CallToBin
<1>1. v \in Vals /\ v["x"] = k /\ "x" \in Numbers
  <2>1. AnyCurve \in Curves
    BY BignumAssumption DEF AnyCurve
  <2>2. k \in Int /\ 0 \in Int
    BY BignumAssumption
  <2>3. v["x"] = k /\ "x" \in Numbers
    BY DEF Fresh, Numbers, Callers
  <2>4. QED
    BY <2>1, <2>2, <2>3, FreshType
<1> DEFINE out == crypto_bignum_to_bin(v, "x", buflen, padlen)
<1>2. /\ call'.fn = "to_bin" /\ call'.k = k /\ call'.buflen = buflen /\ call'.padlen = padlen
      /\ call'.out = out
  OBVIOUS
<1>3. /\ ~(\E n \in 0..buflen : n >= padlen /\ Power(Radix, n) > Abs(k)) => out = <<>>
      /\ (\E n \in 0..buflen : n >= padlen /\ Power(Radix, n) > Abs(k)) =>
           /\ NumberOf(out[1]) = Abs(k) /\ Len(out[1]) >= padlen
           /\ Len(out[1]) > padlen => out[1][1] # 0
  <2>1. buflen \in Nat /\ padlen \in Nat
    OBVIOUS
  <2>2. QED
    BY <1>1, <2>1, ToBinRight, Zenon
<1> HIDE DEF out
<1>4. BytesRight'
  BY <1>2, <1>3, Zenon DEF BytesRight
<1>5. QED
  BY <1>2, <1>4 DEF BignumRight, ResultRight, SymbolRight

\* The equation of a curve and the inverse of a point.
LEMMA CallCurveRight == CallCurve => BignumRight'
<1> SUFFICES ASSUME NEW e \in Curves, NEW k \in 0..(2 * e.P), NEW v, v = Fresh(e, k, 0, 0),
                    \/ Called("y_sqr", v, "x", "x", "x", "y2", y_sqr_weierstrass(v, "x", e.hasA))
                    \/ Called("invert", v, "x", "x", "x", "x", point_invert(v, "x"))
              PROVE  BignumRight'
  BY DEF CallCurve
<1>1. k \in Nat /\ k \in Int
  BY BignumAssumption
<1>2. CASE Called("y_sqr", v, "x", "x", "x", "y2", y_sqr_weierstrass(v, "x", e.hasA))
  BY <1>1, <1>2, SqrRight, CalledRight
<1>3. CASE Called("invert", v, "x", "x", "x", "x", point_invert(v, "x"))
  BY <1>1, <1>3, InvertRight, CalledRight
<1>4. QED
  BY <1>2, <1>3

\* Before a call there is nothing to be right.
LEMMA NothingRight == call = Nothing => BignumRight
BY DEF Nothing, BignumRight, ResultRight, SymbolRight, BytesRight

-----------------------------------------------------------------------------
(* The theorems *)

\* Whatever numbers a caller has, and whichever of its operands are the same, a big number
\* function that succeeds leaves what it is named for in its result and changes nothing else:
\* sums, quotients, remainders, powers, inverses, shifts, the Legendre symbol for every odd
\* prime, the bytes of a number, the equation of a curve and the inverse of a point.
THEOREM BignumIsRight == CSpec => []BignumRight
<1>1. CInit => BignumRight
  BY NothingRight DEF CInit, InitBignum
<1>2. BignumRight /\ [CNext]_cvars => BignumRight'
  <2> SUFFICES ASSUME BignumRight, [CNext]_cvars PROVE BignumRight'
    OBVIOUS
  <2>1. CASE UNCHANGED call
    BY <2>1 DEF BignumRight, ResultRight, SymbolRight, BytesRight, Clobbers
  <2>2. CASE BignumReturn
    <3>1. call' = Nothing
      BY <2>2 DEF BignumReturn
    <3>2. QED
      BY <3>1 DEF Nothing, BignumRight, ResultRight, SymbolRight, BytesRight
  <2>3. CASE CallBignum
    BY <2>3, CallBignumRight
  <2>4. CASE CallShift
    BY <2>4, CallShiftRight
  <2>5. CASE CallLegendre
    BY <2>5, CallLegendreRight
  <2>6. CASE CallToBin
    BY <2>6, CallToBinRight
  <2>7. CASE CallCurve
    BY <2>7, CallCurveRight
  <2>8. QED
    BY <2>1, <2>2, <2>3, <2>4, <2>5, <2>6, <2>7 DEF CNext, cvars, BignumNext
<1>3. QED
  BY <1>1, <1>2, PTL DEF CSpec

\* Whatever else the port does meanwhile, a key that is derived and a public value that mbedtls
\* is given are right: what is shown of either alone holds of the whole port.
THEOREM CryptoKeysAreRight == CSpec => [](PrfRight /\ PeerKeyRight)
<1>1. CInit => InitPrf
  BY DEF CInit
<1>2. [CNext]_cvars => [PrfNext]_prf
  BY DEF CNext, cvars
<1>3. CSpec => PrfSpec
  BY <1>1, <1>2, PTL DEF CSpec, PrfSpec
<1>4. QED
  BY <1>3, KeysAreRight, PeerKeysAreRight, PTL

\* Nor does it lose or misuse an object: between calls the memory that is allocated is that of
\* the caller's objects, and no step takes, uses or frees what it may not, whichever calls fail.
THEOREM PortObjectsAreOwned == CSpec => []Owned
<1>1. CInit => InitObjects
  BY DEF CInit
<1>2. [CNext]_cvars => [ObjectsNext]_ovars
  BY DEF CNext, cvars
<1>3. CSpec => InitObjects /\ [][ObjectsNext]_ovars
  BY <1>1, <1>2, PTL DEF CSpec
<1>4. QED
  BY <1>3, ObjectsAreOwned, PTL
=============================================================================
