---------------------------- MODULE CryptoBignum ----------------------------
(***************************************************************************)
(* The big numbers of crypto_mbedtls_mm.c: what each function leaves in its *)
(* result and in its operands, which the caller may pass twice or more, and *)
(* what it computes them with: mbedtls functions, one after the other until *)
(* one fails.  Numbers are named by where they are: the caller's, a         *)
(* function's temporaries, a curve's parameters.                            *)
(*                                                                         *)
(* mbedtls is not under src/.  Each of its functions may fail for want of   *)
(* memory; mbedtls_mpi_exp_mod overwrites its result before it has read the *)
(* exponent and the modulus for the last time, as the code's comments say,  *)
(* and mbedtls_mpi_mod_mpi its modulus.                                     *)
(*                                                                         *)
(* Bounds: Values of the caller's numbers, Curves, Radix in place of 256.   *)
(***************************************************************************)
EXTENDS Integers, Sequences

CONSTANTS Values, Curves, Radix

Callers == {"x", "y", "z"}
Temporaries == {"R", "exp", "tmp", "y2"}
Parameters == {"P", "A", "B"}
Numbers == Callers \cup Temporaries \cup Parameters

ASSUME BignumAssumption ==
  /\ Values \subseteq Int /\ Radix \in Nat \ {0, 1} /\ Curves # {}
  /\ \A c \in Curves : c.P \in Nat /\ c.P > 3 /\ c.A \in 0..(c.P - 1) /\ c.B \in 0..(c.P - 1)
                       /\ c.hasA \in BOOLEAN /\ (~c.hasA => c.A = c.P - 3)

\* What a function may end with: rc and the numbers.
Done(v) == [rc |-> 0, val |-> v]
Failed(v) == [rc |-> -1, val |-> v]
Put(v, d, k) == [v EXCEPT ![d] = k]
Sets(v, d, k) == {Failed(v), Done(Put(v, d, k))}

\* "os || F": F runs when os has returned 0.
Then(os, F(_)) == UNION {IF o.rc = 0 THEN F(o.val) ELSE {o} : o \in os}

-----------------------------------------------------------------------------
(* mbedtls *)

Abs(k) == IF k < 0 THEN -k ELSE k
Power(a, n) == LET f[i \in 0..n] == IF i = 0 THEN 1 ELSE a * f[i - 1] IN f[n]
Quotient(a, b) == (IF (a < 0) = (b < 0) THEN 1 ELSE -1) * (Abs(a) \div Abs(b))

mpi_add(v, d, a, b) == Sets(v, d, v[a] + v[b])
mpi_sub(v, d, a, b) == Sets(v, d, v[a] - v[b])
mpi_mul(v, d, a, b) == Sets(v, d, v[a] * v[b])
mpi_sub_int(v, d, a, k) == Sets(v, d, v[a] - k)
mpi_copy(v, d, a) == Sets(v, d, v[a])
mpi_shift_r(v, d, n) == Sets(v, d, Quotient(v[d], Power(2, n)))
mpi_mod(v, d, a, m) ==
  IF v[m] <= 0 THEN {Failed(v)}
  ELSE IF d = m THEN Sets(v, d, 0) ELSE Sets(v, d, v[a] % v[m])
mpi_div(v, d, a, b) == IF v[b] # 0 THEN Sets(v, d, Quotient(v[a], v[b])) ELSE {Failed(v)}

CanExp(v, e, m) == v[e] >= 0 /\ v[m] > 0 /\ v[m] % 2 = 1
mpi_exp_mod(v, d, a, e, m) ==
  IF ~CanExp(v, e, m) THEN {Failed(v)}
  ELSE IF d \in {e, m} THEN Sets(v, d, 0) \cup Sets(v, d, 1)
  ELSE Sets(v, d, Power(v[a], v[e]) % v[m])

Inverses(k, m) == {i \in 1..(m - 1) : (k * i) % m = 1}
mpi_inv_mod(v, d, a, m) ==
  IF v[m] > 1 /\ Inverses(v[a], v[m]) # {}
  THEN Sets(v, d, CHOOSE i \in Inverses(v[a], v[m]) : TRUE) ELSE {Failed(v)}

-----------------------------------------------------------------------------
(* crypto_bignum_*: results of the calls with numbers a, b, c and result d *)

crypto_bignum_add(v, a, b, c) == mpi_add(v, c, a, b)
crypto_bignum_sub(v, a, b, c) == mpi_sub(v, c, a, b)
crypto_bignum_mod(v, a, b, c) == mpi_mod(v, c, a, b)
crypto_bignum_inverse(v, a, b, c) == mpi_inv_mod(v, c, a, b)

crypto_bignum_exptmod_Direct(v, a, b, c, d) == mpi_exp_mod(v, d, a, b, c)

crypto_bignum_exptmod(v, a, b, c, d) ==
  IF d \in {b, c}
  THEN Then(mpi_exp_mod(v, "R", a, b, c), LAMBDA w : mpi_copy(w, d, "R"))
  ELSE mpi_exp_mod(v, d, a, b, c)

crypto_bignum_div(v, a, b, c) ==
  Then(mpi_div(v, "R", a, b), LAMBDA w : mpi_copy(w, c, "R"))

crypto_bignum_addmod(v, a, b, c, d) ==
  Then(mpi_add(v, d, a, b), LAMBDA w : mpi_mod(w, d, d, c))
crypto_bignum_mulmod(v, a, b, c, d) ==
  Then(mpi_mul(v, d, a, b), LAMBDA w : mpi_mod(w, d, d, c))
crypto_bignum_sqrmod(v, a, b, c) == crypto_bignum_mulmod(v, a, a, b, c)

crypto_bignum_rshift(v, a, n, r) ==
  Then(mpi_copy(v, r, a), LAMBDA w : mpi_shift_r(w, r, n))

\* The constant-time tests look at the limbs, which have no sign.
is_zero(k) == Abs(k) = 0
is_one(k) == Abs(k) = 1

Selected(k) == IF is_zero(k) THEN 0 ELSE IF is_one(k) THEN 1 ELSE -1

\* tmp = a^((p - 1) / 2) modulo p
Euler(v, a, p) ==
  Then(mpi_sub_int(v, "exp", p, 1),  LAMBDA v1 :
  Then(mpi_shift_r(v1, "exp", 1),    LAMBDA v2 : mpi_exp_mod(v2, "tmp", a, "exp", p)))

\* The symbol is the call's result, -2 for an error.
crypto_bignum_legendre(v, a, p) ==
  {[rc |-> IF o.rc = 0 THEN Selected(o.val["tmp"]) ELSE -2, val |-> o.val] : o \in Euler(v, a, p)}

\* mbedtls_mpi_size, and the bytes of to_bin, most significant first.
Size(k) == CHOOSE n \in 0..Abs(k) : Power(Radix, n) > Abs(k)
                                    /\ \A i \in 0..(n - 1) : Power(Radix, i) <= Abs(k)
Bytes(k, n) == [i \in 1..n |-> (Abs(k) \div Power(Radix, n - i)) % Radix]

\* -1, or the number of bytes written
crypto_bignum_to_bin(v, a, buflen, padlen) ==
  LET n == IF Size(v[a]) < padlen THEN padlen ELSE Size(v[a])
  IN  IF n > buflen THEN <<>> ELSE <<Bytes(v[a], n)>>

-----------------------------------------------------------------------------
(* Curves: y^2 = x^3 + Ax + B modulo P, and the inverse of a point *)

\* mbedtls leaves A unset for the curves whose A is -3.
y_sqr_weierstrass(v, x, hasA) ==
  Then(mpi_mul(v, "y2", x, x),              LAMBDA v1 :
  Then(mpi_mod(v1, "y2", "y2", "P"),        LAMBDA v2 :
  Then(IF hasA THEN mpi_add(v2, "y2", "y2", "A")
               ELSE mpi_sub_int(v2, "y2", "y2", 3),  LAMBDA v3 :
  Then(mpi_mod(v3, "y2", "y2", "P"),        LAMBDA v4 :
  Then(mpi_mul(v4, "y2", "y2", x),          LAMBDA v5 :
  Then(mpi_mod(v5, "y2", "y2", "P"),        LAMBDA v6 :
  Then(mpi_add(v6, "y2", "y2", "B"),        LAMBDA v7 : mpi_mod(v7, "y2", "y2", "P"))))))))

\* Of a finite point of a Weierstrass curve: y is replaced; 0 is its own inverse.  (Of a
\* Montgomery curve the call is refused, and the point at infinity has no y to replace.)
point_invert(v, y) ==
  IF v[y] = 0 THEN {Done(v)}
  ELSE IF Abs(v[y]) > v["P"] THEN {Failed(v)} ELSE Sets(v, y, v["P"] - Abs(v[y]))

-----------------------------------------------------------------------------
(* A call *)

VARIABLE call   \* of the function fn: what was there before, and after

Nothing == [fn |-> "none"]
InitBignum == call = Nothing

Fresh(e, i, j, k) ==
  [x |-> i, y |-> j, z |-> k, R |-> 0, exp |-> 0, tmp |-> 0, y2 |-> 0,
   P |-> e.P, A |-> IF e.hasA THEN e.A ELSE 0, B |-> e.B]

Called(fn, v, a, b, c, d, os) ==
  \E o \in os : call' = [fn |-> fn, v |-> v, a |-> a, b |-> b, c |-> c, d |-> d,
                         rc |-> o.rc, val |-> o.val]

AnyCurve == CHOOSE c \in Curves : TRUE

CallBignum ==
  /\ call = Nothing
  /\ \E i, j, k \in Values, a, b, c, d \in Callers :
       LET v == Fresh(AnyCurve, i, j, k)
       IN  \/ Called("exptmod", v, a, b, c, d, crypto_bignum_exptmod(v, a, b, c, d))
           \/ Called("addmod", v, a, b, c, d, crypto_bignum_addmod(v, a, b, c, d))
           \/ Called("mulmod", v, a, b, c, d, crypto_bignum_mulmod(v, a, b, c, d))
           \/ /\ c = d
              /\ \/ Called("add", v, a, b, c, d, crypto_bignum_add(v, a, b, c))
                 \/ Called("sub", v, a, b, c, d, crypto_bignum_sub(v, a, b, c))
                 \/ Called("mod", v, a, b, c, d, crypto_bignum_mod(v, a, b, c))
                 \/ Called("inverse", v, a, b, c, d, crypto_bignum_inverse(v, a, b, c))
                 \/ Called("div", v, a, b, c, d, crypto_bignum_div(v, a, b, c))
                 \/ Called("sqrmod", v, a, a, b, d, crypto_bignum_sqrmod(v, a, b, c))

CallShift ==
  /\ call = Nothing
  /\ \E i, j \in Values, n \in 0..3, a, d \in {"x", "y"} :
       LET v == [Fresh(AnyCurve, i, j, 0) EXCEPT !["z"] = n]
       IN  Called("rshift", v, a, "z", "z", d, crypto_bignum_rshift(v, a, n, d))

CallLegendre ==
  /\ call = Nothing
  /\ \E i, j \in Values :
       LET v == Fresh(AnyCurve, i, j, 0)
       IN  Called("legendre", v, "x", "y", "y", "none",
                  crypto_bignum_legendre(v, "x", "y"))

CallToBin ==
  /\ call = Nothing
  /\ \E k \in Values, buflen, padlen \in 0..4 :
       LET v == Fresh(AnyCurve, k, 0, 0)
       IN  call' = [fn |-> "to_bin", k |-> k, buflen |-> buflen, padlen |-> padlen,
                    out |-> crypto_bignum_to_bin(v, "x", buflen, padlen)]

\* Points that come from a caller may have coordinates of any size.
CallCurve ==
  /\ call = Nothing
  /\ \E e \in Curves : \E k \in 0..(2 * e.P) :
       LET v == Fresh(e, k, 0, 0)
       IN  \/ Called("y_sqr", v, "x", "x", "x", "y2", y_sqr_weierstrass(v, "x", e.hasA))
           \/ Called("invert", v, "x", "x", "x", "x", point_invert(v, "x"))

\* The caller goes on.
BignumReturn == call # Nothing /\ call' = Nothing

BignumNext == BignumReturn \/ CallBignum \/ CallShift \/ CallLegendre \/ CallToBin \/ CallCurve

-----------------------------------------------------------------------------
(* What the functions are for, in terms of their operands' values *)

Squares(p) == {(i * i) % p : i \in 1..(p - 1)}
Prime(p) == p > 1 /\ \A i \in 2..(p - 1) : p % i # 0

Symbol(k, p) == IF k % p = 0 THEN 0 ELSE IF k % p \in Squares(p) THEN 1 ELSE -1

\* The curve of the numbers v, and x^3 + Ax + B.
OnCurve(e, v) == e.P = v["P"] /\ e.B = v["B"] /\ (IF e.hasA THEN e.A = v["A"] ELSE v["A"] = 0)
Cubic(e, x) == x * x * x + e.A * x + e.B

\* The number that bytes stand for, the most significant first.
NumberOf(s) ==
  LET sum[i \in 0..Len(s)] == IF i = 0 THEN 0 ELSE sum[i - 1] * Radix + s[i] IN sum[Len(s)]

\* k is the value asked for.
Correct(fn, k, a, b, c, v) ==
  /\ fn = "add" => k = a + b
  /\ fn = "sub" => k = a - b
  /\ fn = "mod" => k \in 0..(b - 1) /\ (a - k) % b = 0
  /\ fn = "div" => Abs(a - k * b) < Abs(b) /\ (a - k * b) * a >= 0
  /\ fn = "inverse" => k \in 0..(b - 1) /\ (a * k) % b = 1
  /\ fn = "addmod" => k \in 0..(c - 1) /\ (a + b - k) % c = 0
  /\ fn \in {"mulmod", "sqrmod"} => k \in 0..(c - 1) /\ (a * b - k) % c = 0
  /\ fn = "exptmod" => k \in 0..(c - 1) /\ (Power(a, b) - k) % c = 0
  /\ fn = "rshift" => /\ Abs(k) * Power(2, b) <= Abs(a)
                      /\ Abs(a) < (Abs(k) + 1) * Power(2, b) /\ k * a >= 0
  /\ fn = "y_sqr" => k \in 0..(v["P"] - 1) /\ \E e \in Curves : OnCurve(e, v) /\ (Cubic(e, a) - k) % e.P = 0
  /\ fn = "invert" => (k + a) % v["P"] = 0

\* A reduced result may not share its place with the modulus (no caller of hostap does that);
\* the functions with an intermediate may.
Clobbers ==
  \/ call.fn \in {"addmod", "mulmod", "sqrmod"} /\ call.d = call.c
  \/ call.fn = "mod" /\ call.d = call.b

\* A call that returns 0 leaves in its result what it is for, of the operands as they were,
\* also when its result is one of them; and no call, failed or not, changes an operand that
\* is not its result, nor a curve.
ResultRight ==
  call.fn \notin {"none", "to_bin", "legendre"} /\ ~Clobbers =>
    /\ call.rc = 0 => Correct(call.fn, call.val[call.d],
                              call.v[call.a], call.v[call.b], call.v[call.c], call.v)
    /\ \A n \in (Callers \cup Parameters) \ {call.d} : call.val[n] = call.v[n]

\* crypto_bignum_legendre is the Legendre symbol for every odd prime.
SymbolRight ==
  call.fn = "legendre" /\ Prime(call.v["y"]) /\ call.v["y"] > 2 /\ call.rc # -2 =>
    call.rc = Symbol(call.v["x"], call.v["y"])

\* to_bin writes the number in padlen bytes or as many as it needs, or nothing.
BytesRight ==
  call.fn = "to_bin" =>
    LET fits == \E n \in 0..call.buflen : n >= call.padlen /\ Power(Radix, n) > Abs(call.k)
    IN  IF ~fits THEN call.out = <<>>
        ELSE LET s == call.out[1]
             IN  /\ NumberOf(s) = Abs(call.k) /\ Len(s) >= call.padlen
                 /\ Len(s) > call.padlen => s[1] # 0

\* Whatever numbers and whichever of them the same, every function computes what it is named
\* for and touches nothing else (crypto_mbedtls_mm.c:803-1036, 1678-1759).
BignumRight == ResultRight /\ SymbolRight /\ BytesRight
=============================================================================
