------------------------ MODULE CryptoObjects_proofs ------------------------
(***************************************************************************)
(* What the functions of CryptoObjects own, whatever the number of objects  *)
(* a caller may have.                                                       *)
(*                                                                         *)
(* Each function is given its proof outline: the block it holds before each *)
(* of its steps and before the end it runs off (Own), and the contexts that *)
(* are its own there (Live).  StepOK says that a step takes one line of the *)
(* outline to the next, whichever way it goes; the lemmas of the first part *)
(* show this for every step of every function.  The second part shows, from *)
(* StepOK alone, that a step keeps what the outline says of the memory      *)
(* (Owns), and so that nothing leaks and nothing is used out of turn.       *)
(***************************************************************************)
EXTENDS CryptoObjects, SequenceTheorems, TLAPS

-----------------------------------------------------------------------------
(* The outline *)

None(n) == [i \in 1..n |-> {}]
Box(b) == <<{}, {b}, {b}, {b}, {b}, {b}, {}>>
BoxLive(c) == <<{}, {}, {c}, {c}, {c}, {}, {}>>

Ecdh == {"ecdh.ctx", "ecdh.grp", "ecdh.Q"}

init2Own ==
  <<{}, {}, {"ecdh"}, {"ecdh"}, {"ecdh"}, {"ecdh"}, {"ecdh"}, {"ecdh"}, {"ecdh"}, {"ecdh"},
    {"ecdh"}, {"ecdh"}, {"ecdh"}, {"ecdh"}, {"ecdh"}, {"ecdh"}, {}>>
init2Live ==
  <<{}, {}, {}, {"ecdh.ctx"}, {"ecdh.ctx", "ecdh.grp"}, Ecdh, Ecdh, Ecdh, Ecdh \cup {"d"},
    Ecdh \cup {"d"}, Ecdh, Ecdh \cup {"d"}, Ecdh, {"ecdh.ctx", "ecdh.grp"}, {"ecdh.ctx"}, {}, {}>>
peerkeyOwn ==
  <<{}, {}, {}, {}, {}, {}, {}, {}, {}, {"wpabuf"}, {"wpabuf"}, {"wpabuf"}, {}, {}, {"wpabuf"},
    {}>>
peerkeyLive ==
  <<{}, {}, {}, {"x"}, {"x"}, {"x"}, {"x"}, {}, {}, {}, {"ctr_drbg"}, {}, {"x"}, {}, {}, {}>>
derive_yOwn ==
  <<{}, {"y2"}, {"y2"}, {"y2"}, {"y2"}, {"y2"}, {"y2"}, {"y2"}, {"y2"}, {"y2"}, {"y2"}, {},
    {"y2"}, {"y2"}, {"y2"}, {}>>
derive_yLive ==
  <<{}, {"y2.mpi"}, {"y2.mpi", "exp"}, {"y2.mpi", "exp"}, {"y2.mpi", "exp"}, {"y2.mpi", "exp"},
    {"y2.mpi", "exp"}, {"y2.mpi", "exp"}, {"y2.mpi", "exp"}, {"y2.mpi"}, {}, {},
    {"y2.mpi", "exp"}, {"y2.mpi"}, {}, {}>>

Own ==
  [bn |-> <<{"bn"}, {"bn"}, {}, {}>>, y2 |-> <<{"y2"}, {"y2"}, {}, {}>>,
   aes |-> <<{"aes"}, {"aes"}, {}, {}>>, ec |-> <<{"ec"}, {"ec"}, {}, {}>>,
   point |-> <<{"point"}, {"point"}, {}, {}>>,
   ecdh |-> <<{"ecdh"}, {"ecdh"}, {"ecdh"}, {"ecdh"}, {}, {}>>,
   wpabuf |-> <<{"wpabuf"}, {}, {}>>,
   exptmod |-> None(6), legendre |-> None(9), crypto_ec_point_add |-> None(6),
   hmac_vector |-> None(7), omac1_aes_vector |-> None(9), aes_wrap |-> None(6),
   crypto_get_random |-> None(4), crypto_ec_get_a |-> None(4), crypto_unload |-> None(6),
   crypto_bignum_init |-> <<{}, {"bn"}, {"bn"}, {}>>,
   crypto_bignum_init_set |-> <<{}, {"bn"}, {"bn"}, {"bn"}, {"bn"}, {}>>,
   aes_init |-> Box("aes"), crypto_ec_point_from_bin |-> Box("point"),
   crypto_ec_point_compute_y_sqr |-> Box("y2"),
   crypto_ec_point_init |-> <<{}, {"point"}, {"point"}, {}>>,
   crypto_ec_init |-> <<{}, {}, {"ec"}, {"ec"}, {"ec"}, {"ec"}, {"ec"}, {}>>,
   crypto_ecdh_init |-> <<{}, {}, {}, {"ecdh"}, {"ecdh"}, {}, {}>>,
   crypto_ecdh_init2 |-> init2Own,
   crypto_mbedtls_keypair_gen |-> None(7),
   crypto_ecdh_get_pubkey |-> <<{}, {}, {"wpabuf"}, {}>>,
   crypto_ecdh_set_peerkey |-> peerkeyOwn,
   short_weierstrass_derive_y |-> derive_yOwn]

Live ==
  [bn |-> <<{"bn.mpi"}, {}, {}, {}>>, y2 |-> <<{"y2.mpi"}, {}, {}, {}>>,
   aes |-> <<{"aes.key"}, {}, {}, {}>>, ec |-> <<{"ec.grp"}, {}, {}, {}>>,
   point |-> <<{"point.p"}, {}, {}, {}>>,
   ecdh |-> <<Ecdh, {"ecdh.ctx", "ecdh.grp"}, {"ecdh.ctx"}, {}, {}, {}>>, wpabuf |-> None(3),
   exptmod |-> <<{}, {"R"}, {"R"}, {"R"}, {}, {}>>,
   legendre |-> <<{}, {"exp"}, {"exp", "tmp"}, {"exp", "tmp"}, {"exp", "tmp"}, {"exp", "tmp"},
                  {"exp"}, {}, {}>>,
   crypto_ec_point_add |-> <<{}, {"one"}, {"one"}, {"one"}, {}, {}>>,
   hmac_vector |-> <<{}, {"md"}, {"md"}, {"md"}, {}, {"md"}, {}>>,
   omac1_aes_vector |-> <<{}, {}, {"cipher"}, {"cipher"}, {"cipher"}, {"cipher"}, {"cipher"},
                          {}, {}>>,
   aes_wrap |-> <<{}, {"kw"}, {"kw"}, {"kw"}, {}, {}>>,
   crypto_get_random |-> <<{}, {"ctr_drbg"}, {}, {}>>, crypto_ec_get_a |-> None(4),
   crypto_unload |-> <<{}, {"ctr_drbg", "entropy"}, {"entropy"}, {}, {}, {}>>,
   crypto_bignum_init |-> <<{}, {}, {"bn.mpi"}, {}>>,
   crypto_bignum_init_set |-> <<{}, {}, {"bn.mpi"}, {"bn.mpi"}, {}, {}>>,
   aes_init |-> BoxLive("aes.key"), crypto_ec_point_from_bin |-> BoxLive("point.p"),
   crypto_ec_point_compute_y_sqr |-> BoxLive("y2.mpi"),
   crypto_ec_point_init |-> <<{}, {}, {"point.p"}, {}>>,
   crypto_ec_init |-> <<{}, {}, {}, {"ec.grp"}, {"ec.grp"}, {"ec.grp"}, {}, {}>>,
   crypto_ecdh_init |-> <<{}, {"pk"}, {"pk"}, {"pk"} \cup Ecdh, Ecdh, {"pk"}, {}>>,
   crypto_ecdh_init2 |-> init2Live,
   crypto_mbedtls_keypair_gen |-> <<{}, {}, {}, {}, {"ctr_drbg"}, {}, {}>>,
   crypto_ecdh_get_pubkey |-> None(4),
   crypto_ecdh_set_peerkey |-> peerkeyLive,
   short_weierstrass_derive_y |-> derive_yLive]

Fns == DOMAIN Program
PastEnd(fn) == Len(Program[fn]) + 1
Contents(bs) == UNION {Inside[b] : b \in bs}

\* The frames that may lie below a function's own, and the contexts that these own.
Frame(fn, pc) == [fn |-> fn, pc |-> pc]
InEcdhInit == {"crypto_mbedtls_keypair_gen", "crypto_ecdh_init2"}
InPeerKey == {"short_weierstrass_derive_y", "crypto_ec_point_compute_y_sqr"}
CallersOf(fn) ==
  IF fn = "crypto_mbedtls_keypair_gen" THEN {<<Frame("crypto_ecdh_init", 2)>>}
  ELSE IF fn = "crypto_ecdh_init2" THEN {<<Frame("crypto_ecdh_init", 3)>>}
  ELSE IF fn = "short_weierstrass_derive_y" THEN {<<Frame("crypto_ecdh_set_peerkey", 5)>>}
  ELSE IF fn = "crypto_ec_point_compute_y_sqr"
  THEN {<<>>, <<Frame("short_weierstrass_derive_y", 1), Frame("crypto_ecdh_set_peerkey", 5)>>}
  ELSE {<<>>}
Beneath(fn) ==
  IF fn \in InEcdhInit THEN {"pk"} ELSE IF fn \in InPeerKey THEN {"x"} ELSE {}
Below(fn, up) == IF up = <<>> THEN {} ELSE Beneath(fn)

\* What a function may use besides what it owns: what its callers have, and the ECDH object.
Peers == {"crypto_ecdh_get_pubkey", "crypto_ecdh_set_peerkey"}
Given(fn) ==
  {"mpi_sw_A"} \cup (IF fn = "crypto_ec_point_compute_y_sqr" THEN {} ELSE Beneath(fn))
               \cup (IF fn \in Peers THEN {"ecdh.ctx"} ELSE {})

\* What a function leaves its caller when it succeeds, and what it may allocate or free.
Result(fn) ==
  IF fn \in DOMAIN Makers THEN {Makers[fn]} ELSE IF fn = "crypto_ecdh_init2" THEN {"ecdh"} ELSE {}
Makes(fn) ==
  Result(fn) \cup (IF fn \in Blocks THEN {fn} ELSE {})
             \cup (IF fn \in {"short_weierstrass_derive_y", "crypto_ecdh_set_peerkey"}
                   THEN {"y2"} ELSE {})

-----------------------------------------------------------------------------
(* One step of an outline: program P with the blocks T and the contexts L *)

StepAt(P, q) == IF q > Len(P) THEN Fail ELSE P[q]

\* With blocks t and contexts l the function may go on at q.
FlowsTo(P, T, L, q, t, l) ==
  /\ q \in 1..(Len(P) + 1)
  /\ t = T[q] \/ (StepAt(P, q).op = "dealloc" /\ t = {})
  /\ L[q] \subseteq l /\ l \subseteq L[q] \cup Statics

\* A number is given its value right after it is initialised, but for the static one.
Flows(P, T, L, q, t, l) ==
  /\ FlowsTo(P, T, L, q, t, l)
  /\ StepAt(P, q).op = "load" => StepAt(P, q).on = {"mpi_sw_A"}

\* The calls of other functions that CryptoObjects follows
IsSub(fn, p, g) ==
  \/ fn = "crypto_ecdh_init" /\ p = 2 /\ g = "crypto_mbedtls_keypair_gen"
  \/ fn = "crypto_ecdh_init" /\ p = 3 /\ g = "crypto_ecdh_init2"
  \/ fn = "crypto_ecdh_set_peerkey" /\ p = 5 /\ g = "short_weierstrass_derive_y"
  \/ fn = "short_weierstrass_derive_y" /\ p = 1 /\ g = "crypto_ec_point_compute_y_sqr"

StepOK(fn, P, T, L, p) ==
  LET s == P[p]
      t == T[p]
      l == L[p]
  IN  /\ s.op = "malloc" =>
           /\ t = {} /\ s.on \subseteq Makes(fn)
           /\ Flows(P, T, L, p + 1, s.on, l) /\ Flows(P, T, L, s.to, {}, l)
      /\ s.op = "dealloc" =>
           /\ t = s.on /\ Contents(s.on) \cap l = {}
           /\ Flows(P, T, L, p + 1, {}, l)
      /\ s.op = "init" =>
           /\ s.on \subseteq Locals \cup Contents(t)
           /\ s.on \cap (l \cup Beneath(fn)) = {}
           /\ FlowsTo(P, T, L, p + 1, t, l \cup s.on)
           /\ StepAt(P, p + 1).op = "load" => StepAt(P, p + 1).on = s.on
      /\ s.op = "free" =>
           /\ s.on \subseteq l \cup {"mpi_sw_A"}
           /\ s.on \subseteq Locals \cup Contents(t) \cup Statics
           /\ s.on \cap Beneath(fn) = {} /\ ("mpi_sw_A" \in s.on => s.on = {"mpi_sw_A"})
           /\ s.on \cap Statics # {} => fn = "crypto_unload"
           /\ Flows(P, T, L, p + 1, t, l \ s.on)
      /\ s.op \in {"load", "call"} =>
           /\ s.on \subseteq l \cup Given(fn)
           /\ Flows(P, T, L, p + 1, t, l)
           /\ \/ Flows(P, T, L, s.to, t, l)
              \/ s.op = "load" /\ s.on \cap Statics = {} /\ Flows(P, T, L, s.to, t, l \ s.on)
      /\ s.op = "check" => Flows(P, T, L, p + 1, t, l) /\ Flows(P, T, L, s.to, t, l)
      /\ s.op = "sub" =>
           /\ t = {}
           /\ \A g \in s.on : /\ IsSub(fn, p, g)
                              /\ Flows(P, T, L, p + 1, Result(g), l \cup Contents(Result(g)))
           /\ Flows(P, T, L, s.to, {}, l)
      /\ s.op = "drbg" => Flows(P, T, L, p + 1, t, l \cup {"ctr_drbg", "entropy"})
      /\ s.op = "seeded" =>
           /\ Flows(P, T, L, p + 1, t, l \cup {"ctr_drbg", "entropy"})
           /\ Flows(P, T, L, s.to, t, l) /\ s.to = 6
      /\ s.op = "unseed" => Flows(P, T, L, p + 1, t, l)
      /\ s.op = "return" => t = Result(fn) /\ l = Contents(t)
      /\ s.op = "fail" => t = {} /\ l = {}
      /\ s.op \in {"seeded", "unseed"} => fn = "crypto_unload"
      /\ fn = "crypto_unload" =>
           \/ s.op = "seeded" /\ p = 1
           \/ s.op = "free" /\ p \in 2..4
           \/ s.op = "unseed" /\ p = 5
      /\ t \subseteq Makes(fn)

Outline(fn, P, T, L) ==
  /\ Len(P) \in Nat \ {0} /\ \A p \in 1..Len(P) : StepOK(fn, P, T, L, p)
  /\ P[1].op # "load" /\ \A p \in 1..Len(P) : L[p] \subseteq Contexts
  /\ T[1] = (IF fn \in Blocks THEN {fn} ELSE {}) /\ L[1] = Contents(T[1])
  /\ T[Len(P) + 1] = {} /\ L[Len(P) + 1] = {}

-----------------------------------------------------------------------------
(* Every step of every function keeps to its outline *)

\* The contexts by name
LEMMA ContextsAre ==
  Contexts = {"bn.mpi", "y2.mpi", "aes.key", "ec.grp", "point.p", "ecdh.ctx", "ecdh.grp", "ecdh.Q",
              "R", "exp", "tmp", "one", "d", "x", "pk", "kw", "md", "cipher", "ctr_drbg",
              "entropy", "mpi_sw_A"}
BY DEF Contexts, Inside, Blocks, Locals, Statics

\* The contents of each block
LEMMA ContentsAre ==
  /\ Contents({}) = {} /\ Contents({"bn"}) = {"bn.mpi"} /\ Contents({"y2"}) = {"y2.mpi"}
  /\ Contents({"aes"}) = {"aes.key"} /\ Contents({"ec"}) = {"ec.grp"}
  /\ Contents({"point"}) = {"point.p"} /\ Contents({"ecdh"}) = Ecdh /\ Contents({"wpabuf"}) = {}
BY DEF Contents, Inside, Ecdh

\* A call of another function
LEMMA SubFlows ==
  ASSUME NEW fn, NEW P, NEW T, NEW L, NEW p, NEW g, NEW to, P[p] = Sub(g, to), T[p] = {},
         IsSub(fn, p, g), fn # "crypto_unload", Flows(P, T, L, to, {}, L[p]),
         Flows(P, T, L, p + 1, Result(g), L[p] \cup Contents(Result(g)))
  PROVE  StepOK(fn, P, T, L, p)
BY DEF StepOK, Sub

\* What the functions called leave
LEMMA ResultsAre ==
  /\ Result("crypto_mbedtls_keypair_gen") = {} /\ Result("crypto_ecdh_init2") = {"ecdh"}
  /\ Result("short_weierstrass_derive_y") = {} /\ Result("crypto_ec_point_compute_y_sqr") = {"y2"}
BY DEF Result, Makers

\* A context in a block of its own: made ...
LEMMA BoxedFlows ==
  ASSUME NEW fn, NEW b, NEW c, Contents({b}) = {c}, c \notin Statics, c \in Contexts,
         Contents({}) = {},
         Result(fn) = {b}, Makes(fn) = {b}, c \notin Beneath(fn), fn \notin Blocks,
         fn # "crypto_unload"
  PROVE  Outline(fn, Boxed(b, c), Box(b), BoxLive(c))
<1> DEFINE P == Boxed(b, c)
           T == Box(b)
           L == BoxLive(c)
<1>1. Len(P) = 6
  BY DEF Boxed
<1>2. /\ P[1] = Malloc(b, 7) /\ P[2] = Setup(c) /\ P[3] = Calls({c}, 5) /\ P[4] = Return
      /\ P[5] = Free(c) /\ P[6] = Dealloc(b)
  BY DEF Boxed
<1>3. /\ T[1] = {} /\ T[2] = {b} /\ T[3] = {b} /\ T[4] = {b} /\ T[5] = {b} /\ T[6] = {b}
      /\ T[7] = {}
  BY DEF Box
<1>4. /\ L[1] = {} /\ L[2] = {} /\ L[3] = {c} /\ L[4] = {c} /\ L[5] = {c} /\ L[6] = {}
      /\ L[7] = {}
  BY DEF BoxLive
<1> HIDE DEF P, T, L
<1> USE <1>1, <1>2, <1>3, <1>4 DEF StepOK, Flows, FlowsTo, StepAt, Malloc, Dealloc, Setup, Calls,
          Free, Return, Fail
<1>5. StepOK(fn, P, T, L, 1)
  OBVIOUS
<1>6. StepOK(fn, P, T, L, 2)
  OBVIOUS
<1>7. StepOK(fn, P, T, L, 3)
  OBVIOUS
<1>8. StepOK(fn, P, T, L, 4)
  OBVIOUS
<1>9. StepOK(fn, P, T, L, 5)
  <2>1. {c} \cap Statics = {} /\ c # "mpi_sw_A" /\ {c} \cap Beneath(fn) = {}
    BY DEF Statics
  <2>2. QED
    BY <2>1
<1>10. StepOK(fn, P, T, L, 6)
  OBVIOUS
<1> HIDE DEF StepOK
<1>11. Outline(fn, P, T, L)
  BY <1>1, <1>2, <1>3, <1>4, <1>5, <1>6, <1>7, <1>8, <1>9, <1>10 DEF Outline
<1>12. QED
  BY <1>11 DEF P, T, L

\* ... and given back.
LEMMA UnboxedFlows ==
  ASSUME NEW b \in Blocks, NEW c, Contents({b}) = {c}, c \notin Statics, c \in Contexts,
         Contents({}) = {},
         Result(b) = {}, Makes(b) = {b}, Beneath(b) = {}, b # "crypto_unload"
  PROVE  Outline(b, Unboxed(b, c), <<{b}, {b}, {}, {}>>, <<{c}, {}, {}, {}>>)
<1> DEFINE P == Unboxed(b, c)
           T == <<{b}, {b}, {}, {}>>
           L == <<{c}, {}, {}, {}>>
<1>1. Len(P) = 3
  BY DEF Unboxed
<1>2. P[1] = Free(c) /\ P[2] = Dealloc(b) /\ P[3] = Return
  BY DEF Unboxed
<1>3. T[1] = {b} /\ T[2] = {b} /\ T[3] = {} /\ T[4] = {}
  OBVIOUS
<1>4. L[1] = {c} /\ L[2] = {} /\ L[3] = {} /\ L[4] = {}
  OBVIOUS
<1> HIDE DEF P, T, L
<1> USE <1>1, <1>2, <1>3, <1>4 DEF StepOK, Flows, FlowsTo, StepAt, Dealloc, Free, Return, Fail
<1>5. StepOK(b, P, T, L, 1)
  BY DEF Statics
<1>6. StepOK(b, P, T, L, 2)
  OBVIOUS
<1>7. StepOK(b, P, T, L, 3)
  OBVIOUS
<1> HIDE DEF StepOK
<1>8. Outline(b, P, T, L)
  BY <1>1, <1>2, <1>3, <1>4, <1>5, <1>6, <1>7 DEF Outline
<1>9. QED
  BY <1>8 DEF P, T, L

\* wpabuf
LEMMA WpabufFlows ==
  Outline("wpabuf", <<Dealloc("wpabuf"), Return>>, <<{"wpabuf"}, {}, {}>>, None(3))
<1> DEFINE P == <<Dealloc("wpabuf"), Return>>
           T == <<{"wpabuf"}, {}, {}>>
           L == None(3)
<1>1. /\ Makes("wpabuf") = {"wpabuf"} /\ Result("wpabuf") = {}
      /\ Given("wpabuf") = {"mpi_sw_A"} /\ Beneath("wpabuf") = {}
  BY DEF Makes, Result, Given, Beneath, Makers, Blocks, Inside, Peers, InEcdhInit, InPeerKey
<1>2. Len(P) = 2
  OBVIOUS
<1>3. P[1] = Dealloc("wpabuf") /\ P[2] = Return
  OBVIOUS
<1>4. T[1] = {"wpabuf"} /\ T[2] = {} /\ T[3] = {}
  BY DEF None
<1>5. L[1] = {} /\ L[2] = {} /\ L[3] = {}
  BY DEF None
<1>6. T[1] = (IF "wpabuf" \in Blocks THEN {"wpabuf"} ELSE {}) /\ L[1] = Contents(T[1])
  BY <1>4, <1>5, ContentsAre DEF Blocks, Inside, Ecdh
<1> HIDE DEF P, T, L
<1>7. L[1] \subseteq Contexts /\ L[2] \subseteq Contexts
  BY <1>5, ContextsAre DEF Ecdh
<1> USE <1>1, <1>2, <1>3, <1>4, <1>5, ContentsAre DEF StepOK, Flows, FlowsTo, StepAt,
          Malloc, Dealloc, Setup, Load, Calls, Free, Check, Sub, Drbg, IfSeeded, Unseed, Return,
          Fail,
          Ecdh, Statics, Locals
<1>8. StepOK("wpabuf", P, T, L, 1)
  OBVIOUS
<1>9. StepOK("wpabuf", P, T, L, 2)
  OBVIOUS
<1> HIDE DEF StepOK
<1>10. Outline("wpabuf", P, T, L)
  BY <1>2, <1>3, <1>4, <1>5, <1>6, <1>7, <1>8, <1>9 DEF Outline
<1>11. QED
  BY <1>10 DEF P, T, L

\* ecdh
LEMMA EcdhFlows ==
  Outline("ecdh", crypto_ecdh_deinit, <<{"ecdh"}, {"ecdh"}, {"ecdh"}, {"ecdh"}, {}, {}>>,
          <<Ecdh, {"ecdh.ctx", "ecdh.grp"}, {"ecdh.ctx"}, {}, {}, {}>>)
<1> DEFINE P == crypto_ecdh_deinit
           T == <<{"ecdh"}, {"ecdh"}, {"ecdh"}, {"ecdh"}, {}, {}>>
           L == <<Ecdh, {"ecdh.ctx", "ecdh.grp"}, {"ecdh.ctx"}, {}, {}, {}>>
<1>1. /\ Makes("ecdh") = {"ecdh"} /\ Result("ecdh") = {}
      /\ Given("ecdh") = {"mpi_sw_A"} /\ Beneath("ecdh") = {}
  BY DEF Makes, Result, Given, Beneath, Makers, Blocks, Inside, Peers, InEcdhInit, InPeerKey
<1>2. Len(P) = 5
  BY DEF crypto_ecdh_deinit
<1>3. P[1] = Free("ecdh.Q") /\ P[2] = Free("ecdh.grp") /\ P[3] = Free("ecdh.ctx") /\
      P[4] = Dealloc("ecdh") /\ P[5] = Return
  BY DEF crypto_ecdh_deinit
<1>4. T[1] = {"ecdh"} /\ T[2] = {"ecdh"} /\ T[3] = {"ecdh"} /\ T[4] = {"ecdh"} /\ T[5] = {} /\
      T[6] = {}
  BY DEF None
<1>5. L[1] = Ecdh /\ L[2] = {"ecdh.ctx", "ecdh.grp"} /\ L[3] = {"ecdh.ctx"} /\ L[4] = {} /\
      L[5] = {} /\ L[6] = {}
  BY DEF None
<1>6. T[1] = (IF "ecdh" \in Blocks THEN {"ecdh"} ELSE {}) /\ L[1] = Contents(T[1])
  BY <1>4, <1>5, ContentsAre DEF Blocks, Inside, Ecdh
<1> HIDE DEF P, T, L
<1>7. L[1] \subseteq Contexts /\ L[2] \subseteq Contexts /\ L[3] \subseteq Contexts /\
      L[4] \subseteq Contexts /\ L[5] \subseteq Contexts
  BY <1>5, ContextsAre DEF Ecdh
<1> USE <1>1, <1>2, <1>3, <1>4, <1>5, ContentsAre DEF StepOK, Flows, FlowsTo, StepAt,
          Malloc, Dealloc, Setup, Load, Calls, Free, Check, Sub, Drbg, IfSeeded, Unseed, Return,
          Fail,
          Ecdh, Statics, Locals
<1>8. StepOK("ecdh", P, T, L, 1)
  OBVIOUS
<1>9. StepOK("ecdh", P, T, L, 2)
  OBVIOUS
<1>10. StepOK("ecdh", P, T, L, 3)
  OBVIOUS
<1>11. StepOK("ecdh", P, T, L, 4)
  OBVIOUS
<1>12. StepOK("ecdh", P, T, L, 5)
  OBVIOUS
<1> HIDE DEF StepOK
<1>13. Outline("ecdh", P, T, L)
  BY <1>2, <1>3, <1>4, <1>5, <1>6, <1>7, <1>8, <1>9, <1>10, <1>11, <1>12 DEF Outline
<1>14. QED
  BY <1>13 DEF P, T, L

\* exptmod
LEMMA ExptmodFlows ==
  Outline("exptmod", with_intermediate, None(6), <<{}, {"R"}, {"R"}, {"R"}, {}, {}>>)
<1> DEFINE P == with_intermediate
           T == None(6)
           L == <<{}, {"R"}, {"R"}, {"R"}, {}, {}>>
<1>1. /\ Makes("exptmod") = {} /\ Result("exptmod") = {}
      /\ Given("exptmod") = {"mpi_sw_A"} /\ Beneath("exptmod") = {}
  BY DEF Makes, Result, Given, Beneath, Makers, Blocks, Inside, Peers, InEcdhInit, InPeerKey
<1>2. Len(P) = 5
  BY DEF with_intermediate
<1>3. P[1] = Setup("R") /\ P[2] = Calls({"R"}, 4) /\ P[3] = Check(4) /\ P[4] = Free("R") /\
      P[5] = Return
  BY DEF with_intermediate
<1>4. T[1] = {} /\ T[2] = {} /\ T[3] = {} /\ T[4] = {} /\ T[5] = {} /\ T[6] = {}
  BY DEF None
<1>5. L[1] = {} /\ L[2] = {"R"} /\ L[3] = {"R"} /\ L[4] = {"R"} /\ L[5] = {} /\ L[6] = {}
  BY DEF None
<1>6. T[1] = (IF "exptmod" \in Blocks THEN {"exptmod"} ELSE {}) /\ L[1] = Contents(T[1])
  BY <1>4, <1>5, ContentsAre DEF Blocks, Inside, Ecdh
<1> HIDE DEF P, T, L
<1>7. L[1] \subseteq Contexts /\ L[2] \subseteq Contexts /\ L[3] \subseteq Contexts /\
      L[4] \subseteq Contexts /\ L[5] \subseteq Contexts
  BY <1>5, ContextsAre DEF Ecdh
<1> USE <1>1, <1>2, <1>3, <1>4, <1>5, ContentsAre DEF StepOK, Flows, FlowsTo, StepAt,
          Malloc, Dealloc, Setup, Load, Calls, Free, Check, Sub, Drbg, IfSeeded, Unseed, Return,
          Fail,
          Ecdh, Statics, Locals
<1>8. StepOK("exptmod", P, T, L, 1)
  OBVIOUS
<1>9. StepOK("exptmod", P, T, L, 2)
  OBVIOUS
<1>10. StepOK("exptmod", P, T, L, 3)
  OBVIOUS
<1>11. StepOK("exptmod", P, T, L, 4)
  OBVIOUS
<1>12. StepOK("exptmod", P, T, L, 5)
  OBVIOUS
<1> HIDE DEF StepOK
<1>13. Outline("exptmod", P, T, L)
  BY <1>2, <1>3, <1>4, <1>5, <1>6, <1>7, <1>8, <1>9, <1>10, <1>11, <1>12 DEF Outline
<1>14. QED
  BY <1>13 DEF P, T, L

\* legendre
LEMMA LegendreFlows ==
  Outline("legendre", legendre, None(9),
          <<{}, {"exp"}, {"exp", "tmp"}, {"exp", "tmp"}, {"exp", "tmp"}, {"exp", "tmp"}, {"exp"},
            {}, {}>>)
<1> DEFINE P == legendre
           T == None(9)
           L == <<{}, {"exp"}, {"exp", "tmp"}, {"exp", "tmp"}, {"exp", "tmp"}, {"exp", "tmp"},
                  {"exp"}, {}, {}>>
<1>1. /\ Makes("legendre") = {} /\ Result("legendre") = {}
      /\ Given("legendre") = {"mpi_sw_A"} /\ Beneath("legendre") = {}
  BY DEF Makes, Result, Given, Beneath, Makers, Blocks, Inside, Peers, InEcdhInit, InPeerKey
<1>2. Len(P) = 8
  BY DEF legendre
<1>3. P[1] = Setup("exp") /\ P[2] = Setup("tmp") /\ P[3] = Calls({"exp"}, 6) /\
      P[4] = Calls({"exp"}, 6) /\ P[5] = Calls({"tmp"}, 6) /\ P[6] = Free("tmp") /\
      P[7] = Free("exp") /\ P[8] = Return
  BY DEF legendre
<1>4. T[1] = {} /\ T[2] = {} /\ T[3] = {} /\ T[4] = {} /\ T[5] = {} /\ T[6] = {} /\ T[7] = {} /\
      T[8] = {} /\ T[9] = {}
  BY DEF None
<1>5. L[1] = {} /\ L[2] = {"exp"} /\ L[3] = {"exp", "tmp"} /\ L[4] = {"exp", "tmp"} /\
      L[5] = {"exp", "tmp"} /\ L[6] = {"exp", "tmp"} /\ L[7] = {"exp"} /\ L[8] = {} /\ L[9] = {}
  BY DEF None
<1>6. T[1] = (IF "legendre" \in Blocks THEN {"legendre"} ELSE {}) /\ L[1] = Contents(T[1])
  BY <1>4, <1>5, ContentsAre DEF Blocks, Inside, Ecdh
<1> HIDE DEF P, T, L
<1>7. L[1] \subseteq Contexts /\ L[2] \subseteq Contexts /\ L[3] \subseteq Contexts /\
      L[4] \subseteq Contexts /\ L[5] \subseteq Contexts /\ L[6] \subseteq Contexts /\
      L[7] \subseteq Contexts /\ L[8] \subseteq Contexts
  BY <1>5, ContextsAre DEF Ecdh
<1> USE <1>1, <1>2, <1>3, <1>4, <1>5, ContentsAre DEF StepOK, Flows, FlowsTo, StepAt,
          Malloc, Dealloc, Setup, Load, Calls, Free, Check, Sub, Drbg, IfSeeded, Unseed, Return,
          Fail,
          Ecdh, Statics, Locals
<1>8. StepOK("legendre", P, T, L, 1)
  OBVIOUS
<1>9. StepOK("legendre", P, T, L, 2)
  OBVIOUS
<1>10. StepOK("legendre", P, T, L, 3)
  OBVIOUS
<1>11. StepOK("legendre", P, T, L, 4)
  OBVIOUS
<1>12. StepOK("legendre", P, T, L, 5)
  OBVIOUS
<1>13. StepOK("legendre", P, T, L, 6)
  OBVIOUS
<1>14. StepOK("legendre", P, T, L, 7)
  OBVIOUS
<1>15. StepOK("legendre", P, T, L, 8)
  OBVIOUS
<1> HIDE DEF StepOK
<1>16. Outline("legendre", P, T, L)
  BY <1>2, <1>3, <1>4, <1>5, <1>6, <1>7, <1>8, <1>9, <1>10, <1>11, <1>12, <1>13, <1>14,
     <1>15 DEF Outline
<1>17. QED
  BY <1>16 DEF P, T, L

\* crypto_ec_point_add
LEMMA EcPointAddFlows ==
  Outline("crypto_ec_point_add", crypto_ec_point_add, None(6),
          <<{}, {"one"}, {"one"}, {"one"}, {}, {}>>)
<1> DEFINE P == crypto_ec_point_add
           T == None(6)
           L == <<{}, {"one"}, {"one"}, {"one"}, {}, {}>>
<1>1. /\ Makes("crypto_ec_point_add") = {} /\ Result("crypto_ec_point_add") = {}
      /\ Given("crypto_ec_point_add") = {"mpi_sw_A"} /\ Beneath("crypto_ec_point_add") = {}
  BY DEF Makes, Result, Given, Beneath, Makers, Blocks, Inside, Peers, InEcdhInit, InPeerKey
<1>2. Len(P) = 5
  BY DEF crypto_ec_point_add
<1>3. P[1] = Setup("one") /\ P[2] = Load("one", 4) /\ P[3] = Check(4) /\ P[4] = Free("one") /\
      P[5] = Return
  BY DEF crypto_ec_point_add
<1>4. T[1] = {} /\ T[2] = {} /\ T[3] = {} /\ T[4] = {} /\ T[5] = {} /\ T[6] = {}
  BY DEF None
<1>5. L[1] = {} /\ L[2] = {"one"} /\ L[3] = {"one"} /\ L[4] = {"one"} /\ L[5] = {} /\ L[6] = {}
  BY DEF None
<1>6. /\ T[1] = (IF "crypto_ec_point_add" \in Blocks THEN {"crypto_ec_point_add"} ELSE {})
      /\ L[1] = Contents(T[1])
  BY <1>4, <1>5, ContentsAre DEF Blocks, Inside, Ecdh
<1> HIDE DEF P, T, L
<1>7. L[1] \subseteq Contexts /\ L[2] \subseteq Contexts /\ L[3] \subseteq Contexts /\
      L[4] \subseteq Contexts /\ L[5] \subseteq Contexts
  BY <1>5, ContextsAre DEF Ecdh
<1> USE <1>1, <1>2, <1>3, <1>4, <1>5, ContentsAre DEF StepOK, Flows, FlowsTo, StepAt,
          Malloc, Dealloc, Setup, Load, Calls, Free, Check, Sub, Drbg, IfSeeded, Unseed, Return,
          Fail,
          Ecdh, Statics, Locals
<1>8. StepOK("crypto_ec_point_add", P, T, L, 1)
  OBVIOUS
<1>9. StepOK("crypto_ec_point_add", P, T, L, 2)
  OBVIOUS
<1>10. StepOK("crypto_ec_point_add", P, T, L, 3)
  OBVIOUS
<1>11. StepOK("crypto_ec_point_add", P, T, L, 4)
  OBVIOUS
<1>12. StepOK("crypto_ec_point_add", P, T, L, 5)
  OBVIOUS
<1> HIDE DEF StepOK
<1>13. Outline("crypto_ec_point_add", P, T, L)
  BY <1>2, <1>3, <1>4, <1>5, <1>6, <1>7, <1>8, <1>9, <1>10, <1>11, <1>12 DEF Outline
<1>14. QED
  BY <1>13 DEF P, T, L

\* hmac_vector
LEMMA HmacVectorFlows ==
  Outline("hmac_vector", hmac_vector, None(7), <<{}, {"md"}, {"md"}, {"md"}, {}, {"md"}, {}>>)
<1> DEFINE P == hmac_vector
           T == None(7)
           L == <<{}, {"md"}, {"md"}, {"md"}, {}, {"md"}, {}>>
<1>1. /\ Makes("hmac_vector") = {} /\ Result("hmac_vector") = {}
      /\ Given("hmac_vector") = {"mpi_sw_A"} /\ Beneath("hmac_vector") = {}
  BY DEF Makes, Result, Given, Beneath, Makers, Blocks, Inside, Peers, InEcdhInit, InPeerKey
<1>2. Len(P) = 6
  BY DEF hmac_vector
<1>3. P[1] = Setup("md") /\ P[2] = Calls({"md"}, 6) /\ P[3] = Calls({"md"}, 4) /\
      P[4] = Free("md") /\ P[5] = Return /\ P[6] = Free("md")
  BY DEF hmac_vector
<1>4. T[1] = {} /\ T[2] = {} /\ T[3] = {} /\ T[4] = {} /\ T[5] = {} /\ T[6] = {} /\ T[7] = {}
  BY DEF None
<1>5. L[1] = {} /\ L[2] = {"md"} /\ L[3] = {"md"} /\ L[4] = {"md"} /\ L[5] = {} /\
      L[6] = {"md"} /\ L[7] = {}
  BY DEF None
<1>6. T[1] = (IF "hmac_vector" \in Blocks THEN {"hmac_vector"} ELSE {}) /\ L[1] = Contents(T[1])
  BY <1>4, <1>5, ContentsAre DEF Blocks, Inside, Ecdh
<1> HIDE DEF P, T, L
<1>7. L[1] \subseteq Contexts /\ L[2] \subseteq Contexts /\ L[3] \subseteq Contexts /\
      L[4] \subseteq Contexts /\ L[5] \subseteq Contexts /\ L[6] \subseteq Contexts
  BY <1>5, ContextsAre DEF Ecdh
<1> USE <1>1, <1>2, <1>3, <1>4, <1>5, ContentsAre DEF StepOK, Flows, FlowsTo, StepAt,
          Malloc, Dealloc, Setup, Load, Calls, Free, Check, Sub, Drbg, IfSeeded, Unseed, Return,
          Fail,
          Ecdh, Statics, Locals
<1>8. StepOK("hmac_vector", P, T, L, 1)
  OBVIOUS
<1>9. StepOK("hmac_vector", P, T, L, 2)
  OBVIOUS
<1>10. StepOK("hmac_vector", P, T, L, 3)
  OBVIOUS
<1>11. StepOK("hmac_vector", P, T, L, 4)
  OBVIOUS
<1>12. StepOK("hmac_vector", P, T, L, 5)
  OBVIOUS
<1>13. StepOK("hmac_vector", P, T, L, 6)
  OBVIOUS
<1> HIDE DEF StepOK
<1>14. Outline("hmac_vector", P, T, L)
  BY <1>2, <1>3, <1>4, <1>5, <1>6, <1>7, <1>8, <1>9, <1>10, <1>11, <1>12, <1>13 DEF Outline
<1>15. QED
  BY <1>14 DEF P, T, L

\* omac1_aes_vector
LEMMA Omac1AesVectorFlows ==
  Outline("omac1_aes_vector", omac1_aes_vector, None(9),
          <<{}, {}, {"cipher"}, {"cipher"}, {"cipher"}, {"cipher"}, {"cipher"}, {}, {}>>)
<1> DEFINE P == omac1_aes_vector
           T == None(9)
           L == <<{}, {}, {"cipher"}, {"cipher"}, {"cipher"}, {"cipher"}, {"cipher"}, {}, {}>>
<1>1. /\ Makes("omac1_aes_vector") = {} /\ Result("omac1_aes_vector") = {}
      /\ Given("omac1_aes_vector") = {"mpi_sw_A"} /\ Beneath("omac1_aes_vector") = {}
  BY DEF Makes, Result, Given, Beneath, Makers, Blocks, Inside, Peers, InEcdhInit, InPeerKey
<1>2. Len(P) = 8
  BY DEF omac1_aes_vector
<1>3. P[1] = Check(9) /\ P[2] = Setup("cipher") /\ P[3] = Calls({"cipher"}, 7) /\
      P[4] = Calls({"cipher"}, 7) /\ P[5] = Calls({"cipher"}, 7) /\
      P[6] = Calls({"cipher"}, 7) /\ P[7] = Free("cipher") /\ P[8] = Return
  BY DEF omac1_aes_vector
<1>4. T[1] = {} /\ T[2] = {} /\ T[3] = {} /\ T[4] = {} /\ T[5] = {} /\ T[6] = {} /\ T[7] = {} /\
      T[8] = {} /\ T[9] = {}
  BY DEF None
<1>5. L[1] = {} /\ L[2] = {} /\ L[3] = {"cipher"} /\ L[4] = {"cipher"} /\ L[5] = {"cipher"} /\
      L[6] = {"cipher"} /\ L[7] = {"cipher"} /\ L[8] = {} /\ L[9] = {}
  BY DEF None
<1>6. /\ T[1] = (IF "omac1_aes_vector" \in Blocks THEN {"omac1_aes_vector"} ELSE {})
      /\ L[1] = Contents(T[1])
  BY <1>4, <1>5, ContentsAre DEF Blocks, Inside, Ecdh
<1> HIDE DEF P, T, L
<1>7. L[1] \subseteq Contexts /\ L[2] \subseteq Contexts /\ L[3] \subseteq Contexts /\
      L[4] \subseteq Contexts /\ L[5] \subseteq Contexts /\ L[6] \subseteq Contexts /\
      L[7] \subseteq Contexts /\ L[8] \subseteq Contexts
  BY <1>5, ContextsAre DEF Ecdh
<1> USE <1>1, <1>2, <1>3, <1>4, <1>5, ContentsAre DEF StepOK, Flows, FlowsTo, StepAt,
          Malloc, Dealloc, Setup, Load, Calls, Free, Check, Sub, Drbg, IfSeeded, Unseed, Return,
          Fail,
          Ecdh, Statics, Locals
<1>8. StepOK("omac1_aes_vector", P, T, L, 1)
  OBVIOUS
<1>9. StepOK("omac1_aes_vector", P, T, L, 2)
  OBVIOUS
<1>10. StepOK("omac1_aes_vector", P, T, L, 3)
  OBVIOUS
<1>11. StepOK("omac1_aes_vector", P, T, L, 4)
  OBVIOUS
<1>12. StepOK("omac1_aes_vector", P, T, L, 5)
  OBVIOUS
<1>13. StepOK("omac1_aes_vector", P, T, L, 6)
  OBVIOUS
<1>14. StepOK("omac1_aes_vector", P, T, L, 7)
  OBVIOUS
<1>15. StepOK("omac1_aes_vector", P, T, L, 8)
  OBVIOUS
<1> HIDE DEF StepOK
<1>16. Outline("omac1_aes_vector", P, T, L)
  BY <1>2, <1>3, <1>4, <1>5, <1>6, <1>7, <1>8, <1>9, <1>10, <1>11, <1>12, <1>13, <1>14,
     <1>15 DEF Outline
<1>17. QED
  BY <1>16 DEF P, T, L

\* aes_wrap
LEMMA AesWrapFlows ==
  Outline("aes_wrap", aes_wrap, None(6), <<{}, {"kw"}, {"kw"}, {"kw"}, {}, {}>>)
<1> DEFINE P == aes_wrap
           T == None(6)
           L == <<{}, {"kw"}, {"kw"}, {"kw"}, {}, {}>>
<1>1. /\ Makes("aes_wrap") = {} /\ Result("aes_wrap") = {}
      /\ Given("aes_wrap") = {"mpi_sw_A"} /\ Beneath("aes_wrap") = {}
  BY DEF Makes, Result, Given, Beneath, Makers, Blocks, Inside, Peers, InEcdhInit, InPeerKey
<1>2. Len(P) = 5
  BY DEF aes_wrap
<1>3. P[1] = Setup("kw") /\ P[2] = Calls({"kw"}, 4) /\ P[3] = Calls({"kw"}, 4) /\
      P[4] = Free("kw") /\ P[5] = Return
  BY DEF aes_wrap
<1>4. T[1] = {} /\ T[2] = {} /\ T[3] = {} /\ T[4] = {} /\ T[5] = {} /\ T[6] = {}
  BY DEF None
<1>5. L[1] = {} /\ L[2] = {"kw"} /\ L[3] = {"kw"} /\ L[4] = {"kw"} /\ L[5] = {} /\ L[6] = {}
  BY DEF None
<1>6. T[1] = (IF "aes_wrap" \in Blocks THEN {"aes_wrap"} ELSE {}) /\ L[1] = Contents(T[1])
  BY <1>4, <1>5, ContentsAre DEF Blocks, Inside, Ecdh
<1> HIDE DEF P, T, L
<1>7. L[1] \subseteq Contexts /\ L[2] \subseteq Contexts /\ L[3] \subseteq Contexts /\
      L[4] \subseteq Contexts /\ L[5] \subseteq Contexts
  BY <1>5, ContextsAre DEF Ecdh
<1> USE <1>1, <1>2, <1>3, <1>4, <1>5, ContentsAre DEF StepOK, Flows, FlowsTo, StepAt,
          Malloc, Dealloc, Setup, Load, Calls, Free, Check, Sub, Drbg, IfSeeded, Unseed, Return,
          Fail,
          Ecdh, Statics, Locals
<1>8. StepOK("aes_wrap", P, T, L, 1)
  OBVIOUS
<1>9. StepOK("aes_wrap", P, T, L, 2)
  OBVIOUS
<1>10. StepOK("aes_wrap", P, T, L, 3)
  OBVIOUS
<1>11. StepOK("aes_wrap", P, T, L, 4)
  OBVIOUS
<1>12. StepOK("aes_wrap", P, T, L, 5)
  OBVIOUS
<1> HIDE DEF StepOK
<1>13. Outline("aes_wrap", P, T, L)
  BY <1>2, <1>3, <1>4, <1>5, <1>6, <1>7, <1>8, <1>9, <1>10, <1>11, <1>12 DEF Outline
<1>14. QED
  BY <1>13 DEF P, T, L

\* crypto_get_random
LEMMA GetRandomFlows ==
  Outline("crypto_get_random", crypto_get_random, None(4), <<{}, {"ctr_drbg"}, {}, {}>>)
<1> DEFINE P == crypto_get_random
           T == None(4)
           L == <<{}, {"ctr_drbg"}, {}, {}>>
<1>1. /\ Makes("crypto_get_random") = {} /\ Result("crypto_get_random") = {}
      /\ Given("crypto_get_random") = {"mpi_sw_A"} /\ Beneath("crypto_get_random") = {}
  BY DEF Makes, Result, Given, Beneath, Makers, Blocks, Inside, Peers, InEcdhInit, InPeerKey
<1>2. Len(P) = 3
  BY DEF crypto_get_random
<1>3. P[1] = Drbg /\ P[2] = Calls({"ctr_drbg"}, 3) /\ P[3] = Return
  BY DEF crypto_get_random
<1>4. T[1] = {} /\ T[2] = {} /\ T[3] = {} /\ T[4] = {}
  BY DEF None
<1>5. L[1] = {} /\ L[2] = {"ctr_drbg"} /\ L[3] = {} /\ L[4] = {}
  BY DEF None
<1>6. /\ T[1] = (IF "crypto_get_random" \in Blocks THEN {"crypto_get_random"} ELSE {})
      /\ L[1] = Contents(T[1])
  BY <1>4, <1>5, ContentsAre DEF Blocks, Inside, Ecdh
<1> HIDE DEF P, T, L
<1>7. L[1] \subseteq Contexts /\ L[2] \subseteq Contexts /\ L[3] \subseteq Contexts
  BY <1>5, ContextsAre DEF Ecdh
<1> USE <1>1, <1>2, <1>3, <1>4, <1>5, ContentsAre DEF StepOK, Flows, FlowsTo, StepAt,
          Malloc, Dealloc, Setup, Load, Calls, Free, Check, Sub, Drbg, IfSeeded, Unseed, Return,
          Fail,
          Ecdh, Statics, Locals
<1>8. StepOK("crypto_get_random", P, T, L, 1)
  OBVIOUS
<1>9. StepOK("crypto_get_random", P, T, L, 2)
  OBVIOUS
<1>10. StepOK("crypto_get_random", P, T, L, 3)
  OBVIOUS
<1> HIDE DEF StepOK
<1>11. Outline("crypto_get_random", P, T, L)
  BY <1>2, <1>3, <1>4, <1>5, <1>6, <1>7, <1>8, <1>9, <1>10 DEF Outline
<1>12. QED
  BY <1>11 DEF P, T, L

\* crypto_ec_get_a
LEMMA EcGetAFlows ==
  Outline("crypto_ec_get_a", crypto_ec_get_a, None(4), None(4))
<1> DEFINE P == crypto_ec_get_a
           T == None(4)
           L == None(4)
<1>1. /\ Makes("crypto_ec_get_a") = {} /\ Result("crypto_ec_get_a") = {}
      /\ Given("crypto_ec_get_a") = {"mpi_sw_A"} /\ Beneath("crypto_ec_get_a") = {}
  BY DEF Makes, Result, Given, Beneath, Makers, Blocks, Inside, Peers, InEcdhInit, InPeerKey
<1>2. Len(P) = 3
  BY DEF crypto_ec_get_a
<1>3. P[1] = Check(4) /\ P[2] = Load("mpi_sw_A", 4) /\ P[3] = Return
  BY DEF crypto_ec_get_a
<1>4. T[1] = {} /\ T[2] = {} /\ T[3] = {} /\ T[4] = {}
  BY DEF None
<1>5. L[1] = {} /\ L[2] = {} /\ L[3] = {} /\ L[4] = {}
  BY DEF None
<1>6. /\ T[1] = (IF "crypto_ec_get_a" \in Blocks THEN {"crypto_ec_get_a"} ELSE {})
      /\ L[1] = Contents(T[1])
  BY <1>4, <1>5, ContentsAre DEF Blocks, Inside, Ecdh
<1> HIDE DEF P, T, L
<1>7. L[1] \subseteq Contexts /\ L[2] \subseteq Contexts /\ L[3] \subseteq Contexts
  BY <1>5, ContextsAre DEF Ecdh
<1> USE <1>1, <1>2, <1>3, <1>4, <1>5, ContentsAre DEF StepOK, Flows, FlowsTo, StepAt,
          Malloc, Dealloc, Setup, Load, Calls, Free, Check, Sub, Drbg, IfSeeded, Unseed, Return,
          Fail,
          Ecdh, Statics, Locals
<1>8. StepOK("crypto_ec_get_a", P, T, L, 1)
  OBVIOUS
<1>9. StepOK("crypto_ec_get_a", P, T, L, 2)
  OBVIOUS
<1>10. StepOK("crypto_ec_get_a", P, T, L, 3)
  OBVIOUS
<1> HIDE DEF StepOK
<1>11. Outline("crypto_ec_get_a", P, T, L)
  BY <1>2, <1>3, <1>4, <1>5, <1>6, <1>7, <1>8, <1>9, <1>10 DEF Outline
<1>12. QED
  BY <1>11 DEF P, T, L

\* crypto_unload
LEMMA UnloadFlows ==
  Outline("crypto_unload", crypto_unload, None(6),
          <<{}, {"ctr_drbg", "entropy"}, {"entropy"}, {}, {}, {}>>)
<1> DEFINE P == crypto_unload
           T == None(6)
           L == <<{}, {"ctr_drbg", "entropy"}, {"entropy"}, {}, {}, {}>>
<1>1. /\ Makes("crypto_unload") = {} /\ Result("crypto_unload") = {}
      /\ Given("crypto_unload") = {"mpi_sw_A"} /\ Beneath("crypto_unload") = {}
  BY DEF Makes, Result, Given, Beneath, Makers, Blocks, Inside, Peers, InEcdhInit, InPeerKey
<1>2. Len(P) = 5
  BY DEF crypto_unload
<1>3. P[1] = IfSeeded(6) /\ P[2] = Free("ctr_drbg") /\ P[3] = Free("entropy") /\
      P[4] = Free("mpi_sw_A") /\ P[5] = Unseed
  BY DEF crypto_unload
<1>4. T[1] = {} /\ T[2] = {} /\ T[3] = {} /\ T[4] = {} /\ T[5] = {} /\ T[6] = {}
  BY DEF None
<1>5. L[1] = {} /\ L[2] = {"ctr_drbg", "entropy"} /\ L[3] = {"entropy"} /\ L[4] = {} /\
      L[5] = {} /\ L[6] = {}
  BY DEF None
<1>6. T[1] = (IF "crypto_unload" \in Blocks THEN {"crypto_unload"} ELSE {}) /\ L[1] = Contents(T[1])
  BY <1>4, <1>5, ContentsAre DEF Blocks, Inside, Ecdh
<1> HIDE DEF P, T, L
<1>7. L[1] \subseteq Contexts /\ L[2] \subseteq Contexts /\ L[3] \subseteq Contexts /\
      L[4] \subseteq Contexts /\ L[5] \subseteq Contexts
  BY <1>5, ContextsAre DEF Ecdh
<1> USE <1>1, <1>2, <1>3, <1>4, <1>5, ContentsAre DEF StepOK, Flows, FlowsTo, StepAt,
          Malloc, Dealloc, Setup, Load, Calls, Free, Check, Sub, Drbg, IfSeeded, Unseed, Return,
          Fail,
          Ecdh, Statics, Locals
<1>8. StepOK("crypto_unload", P, T, L, 1)
  OBVIOUS
<1>9. StepOK("crypto_unload", P, T, L, 2)
  OBVIOUS
<1>10. StepOK("crypto_unload", P, T, L, 3)
  OBVIOUS
<1>11. StepOK("crypto_unload", P, T, L, 4)
  OBVIOUS
<1>12. StepOK("crypto_unload", P, T, L, 5)
  OBVIOUS
<1> HIDE DEF StepOK
<1>13. Outline("crypto_unload", P, T, L)
  BY <1>2, <1>3, <1>4, <1>5, <1>6, <1>7, <1>8, <1>9, <1>10, <1>11, <1>12 DEF Outline
<1>14. QED
  BY <1>13 DEF P, T, L

\* crypto_bignum_init
LEMMA BignumInitFlows ==
  Outline("crypto_bignum_init", crypto_bignum_init, <<{}, {"bn"}, {"bn"}, {}>>,
          <<{}, {}, {"bn.mpi"}, {}>>)
<1> DEFINE P == crypto_bignum_init
           T == <<{}, {"bn"}, {"bn"}, {}>>
           L == <<{}, {}, {"bn.mpi"}, {}>>
<1>1. /\ Makes("crypto_bignum_init") = {"bn"} /\ Result("crypto_bignum_init") = {"bn"}
      /\ Given("crypto_bignum_init") = {"mpi_sw_A"} /\ Beneath("crypto_bignum_init") = {}
  BY DEF Makes, Result, Given, Beneath, Makers, Blocks, Inside, Peers, InEcdhInit, InPeerKey
<1>2. Len(P) = 3
  BY DEF crypto_bignum_init
<1>3. P[1] = Malloc("bn", 4) /\ P[2] = Setup("bn.mpi") /\ P[3] = Return
  BY DEF crypto_bignum_init
<1>4. T[1] = {} /\ T[2] = {"bn"} /\ T[3] = {"bn"} /\ T[4] = {}
  BY DEF None
<1>5. L[1] = {} /\ L[2] = {} /\ L[3] = {"bn.mpi"} /\ L[4] = {}
  BY DEF None
<1>6. /\ T[1] = (IF "crypto_bignum_init" \in Blocks THEN {"crypto_bignum_init"} ELSE {})
      /\ L[1] = Contents(T[1])
  BY <1>4, <1>5, ContentsAre DEF Blocks, Inside, Ecdh
<1> HIDE DEF P, T, L
<1>7. L[1] \subseteq Contexts /\ L[2] \subseteq Contexts /\ L[3] \subseteq Contexts
  BY <1>5, ContextsAre DEF Ecdh
<1> USE <1>1, <1>2, <1>3, <1>4, <1>5, ContentsAre DEF StepOK, Flows, FlowsTo, StepAt,
          Malloc, Dealloc, Setup, Load, Calls, Free, Check, Sub, Drbg, IfSeeded, Unseed, Return,
          Fail,
          Ecdh, Statics, Locals
<1>8. StepOK("crypto_bignum_init", P, T, L, 1)
  OBVIOUS
<1>9. StepOK("crypto_bignum_init", P, T, L, 2)
  OBVIOUS
<1>10. StepOK("crypto_bignum_init", P, T, L, 3)
  OBVIOUS
<1> HIDE DEF StepOK
<1>11. Outline("crypto_bignum_init", P, T, L)
  BY <1>2, <1>3, <1>4, <1>5, <1>6, <1>7, <1>8, <1>9, <1>10 DEF Outline
<1>12. QED
  BY <1>11 DEF P, T, L

\* crypto_bignum_init_set
LEMMA BignumInitSetFlows ==
  Outline("crypto_bignum_init_set", crypto_bignum_init_set,
          <<{}, {"bn"}, {"bn"}, {"bn"}, {"bn"}, {}>>, <<{}, {}, {"bn.mpi"}, {"bn.mpi"}, {}, {}>>)
<1> DEFINE P == crypto_bignum_init_set
           T == <<{}, {"bn"}, {"bn"}, {"bn"}, {"bn"}, {}>>
           L == <<{}, {}, {"bn.mpi"}, {"bn.mpi"}, {}, {}>>
<1>1. /\ Makes("crypto_bignum_init_set") = {"bn"} /\ Result("crypto_bignum_init_set") = {"bn"}
      /\ Given("crypto_bignum_init_set") = {"mpi_sw_A"} /\ Beneath("crypto_bignum_init_set") = {}
  BY DEF Makes, Result, Given, Beneath, Makers, Blocks, Inside, Peers, InEcdhInit, InPeerKey
<1>2. Len(P) = 5
  BY DEF crypto_bignum_init_set
<1>3. P[1] = Malloc("bn", 5) /\ P[2] = Setup("bn.mpi") /\ P[3] = Load("bn.mpi", 5) /\
      P[4] = Return /\ P[5] = Dealloc("bn")
  BY DEF crypto_bignum_init_set
<1>4. T[1] = {} /\ T[2] = {"bn"} /\ T[3] = {"bn"} /\ T[4] = {"bn"} /\ T[5] = {"bn"} /\ T[6] = {}
  BY DEF None
<1>5. L[1] = {} /\ L[2] = {} /\ L[3] = {"bn.mpi"} /\ L[4] = {"bn.mpi"} /\ L[5] = {} /\ L[6] = {}
  BY DEF None
<1>6. /\ T[1] = (IF "crypto_bignum_init_set" \in Blocks THEN {"crypto_bignum_init_set"} ELSE {})
      /\ L[1] = Contents(T[1])
  BY <1>4, <1>5, ContentsAre DEF Blocks, Inside, Ecdh
<1> HIDE DEF P, T, L
<1>7. L[1] \subseteq Contexts /\ L[2] \subseteq Contexts /\ L[3] \subseteq Contexts /\
      L[4] \subseteq Contexts /\ L[5] \subseteq Contexts
  BY <1>5, ContextsAre DEF Ecdh
<1> USE <1>1, <1>2, <1>3, <1>4, <1>5, ContentsAre DEF StepOK, Flows, FlowsTo, StepAt,
          Malloc, Dealloc, Setup, Load, Calls, Free, Check, Sub, Drbg, IfSeeded, Unseed, Return,
          Fail,
          Ecdh, Statics, Locals
<1>8. StepOK("crypto_bignum_init_set", P, T, L, 1)
  OBVIOUS
<1>9. StepOK("crypto_bignum_init_set", P, T, L, 2)
  OBVIOUS
<1>10. StepOK("crypto_bignum_init_set", P, T, L, 3)
  OBVIOUS
<1>11. StepOK("crypto_bignum_init_set", P, T, L, 4)
  OBVIOUS
<1>12. StepOK("crypto_bignum_init_set", P, T, L, 5)
  OBVIOUS
<1> HIDE DEF StepOK
<1>13. Outline("crypto_bignum_init_set", P, T, L)
  BY <1>2, <1>3, <1>4, <1>5, <1>6, <1>7, <1>8, <1>9, <1>10, <1>11, <1>12 DEF Outline
<1>14. QED
  BY <1>13 DEF P, T, L

\* crypto_ec_point_init
LEMMA EcPointInitFlows ==
  Outline("crypto_ec_point_init", crypto_ec_point_init, <<{}, {"point"}, {"point"}, {}>>,
          <<{}, {}, {"point.p"}, {}>>)
<1> DEFINE P == crypto_ec_point_init
           T == <<{}, {"point"}, {"point"}, {}>>
           L == <<{}, {}, {"point.p"}, {}>>
<1>1. /\ Makes("crypto_ec_point_init") = {"point"} /\ Result("crypto_ec_point_init") = {"point"}
      /\ Given("crypto_ec_point_init") = {"mpi_sw_A"} /\ Beneath("crypto_ec_point_init") = {}
  BY DEF Makes, Result, Given, Beneath, Makers, Blocks, Inside, Peers, InEcdhInit, InPeerKey
<1>2. Len(P) = 3
  BY DEF crypto_ec_point_init
<1>3. P[1] = Malloc("point", 4) /\ P[2] = Setup("point.p") /\ P[3] = Return
  BY DEF crypto_ec_point_init
<1>4. T[1] = {} /\ T[2] = {"point"} /\ T[3] = {"point"} /\ T[4] = {}
  BY DEF None
<1>5. L[1] = {} /\ L[2] = {} /\ L[3] = {"point.p"} /\ L[4] = {}
  BY DEF None
<1>6. /\ T[1] = (IF "crypto_ec_point_init" \in Blocks THEN {"crypto_ec_point_init"} ELSE {})
      /\ L[1] = Contents(T[1])
  BY <1>4, <1>5, ContentsAre DEF Blocks, Inside, Ecdh
<1> HIDE DEF P, T, L
<1>7. L[1] \subseteq Contexts /\ L[2] \subseteq Contexts /\ L[3] \subseteq Contexts
  BY <1>5, ContextsAre DEF Ecdh
<1> USE <1>1, <1>2, <1>3, <1>4, <1>5, ContentsAre DEF StepOK, Flows, FlowsTo, StepAt,
          Malloc, Dealloc, Setup, Load, Calls, Free, Check, Sub, Drbg, IfSeeded, Unseed, Return,
          Fail,
          Ecdh, Statics, Locals
<1>8. StepOK("crypto_ec_point_init", P, T, L, 1)
  OBVIOUS
<1>9. StepOK("crypto_ec_point_init", P, T, L, 2)
  OBVIOUS
<1>10. StepOK("crypto_ec_point_init", P, T, L, 3)
  OBVIOUS
<1> HIDE DEF StepOK
<1>11. Outline("crypto_ec_point_init", P, T, L)
  BY <1>2, <1>3, <1>4, <1>5, <1>6, <1>7, <1>8, <1>9, <1>10 DEF Outline
<1>12. QED
  BY <1>11 DEF P, T, L

\* crypto_ec_init
LEMMA EcInitFlows ==
  Outline("crypto_ec_init", crypto_ec_init,
          <<{}, {}, {"ec"}, {"ec"}, {"ec"}, {"ec"}, {"ec"}, {}>>,
          <<{}, {}, {}, {"ec.grp"}, {"ec.grp"}, {"ec.grp"}, {}, {}>>)
<1> DEFINE P == crypto_ec_init
           T == <<{}, {}, {"ec"}, {"ec"}, {"ec"}, {"ec"}, {"ec"}, {}>>
           L == <<{}, {}, {}, {"ec.grp"}, {"ec.grp"}, {"ec.grp"}, {}, {}>>
<1>1. /\ Makes("crypto_ec_init") = {"ec"} /\ Result("crypto_ec_init") = {"ec"}
      /\ Given("crypto_ec_init") = {"mpi_sw_A"} /\ Beneath("crypto_ec_init") = {}
  BY DEF Makes, Result, Given, Beneath, Makers, Blocks, Inside, Peers, InEcdhInit, InPeerKey
<1>2. Len(P) = 7
  BY DEF crypto_ec_init
<1>3. P[1] = Check(8) /\ P[2] = Malloc("ec", 8) /\ P[3] = Setup("ec.grp") /\
      P[4] = Calls({"ec.grp"}, 6) /\ P[5] = Return /\ P[6] = Free("ec.grp") /\
      P[7] = Dealloc("ec")
  BY DEF crypto_ec_init
<1>4. T[1] = {} /\ T[2] = {} /\ T[3] = {"ec"} /\ T[4] = {"ec"} /\ T[5] = {"ec"} /\
      T[6] = {"ec"} /\ T[7] = {"ec"} /\ T[8] = {}
  BY DEF None
<1>5. L[1] = {} /\ L[2] = {} /\ L[3] = {} /\ L[4] = {"ec.grp"} /\ L[5] = {"ec.grp"} /\
      L[6] = {"ec.grp"} /\ L[7] = {} /\ L[8] = {}
  BY DEF None
<1>6. /\ T[1] = (IF "crypto_ec_init" \in Blocks THEN {"crypto_ec_init"} ELSE {})
      /\ L[1] = Contents(T[1])
  BY <1>4, <1>5, ContentsAre DEF Blocks, Inside, Ecdh
<1> HIDE DEF P, T, L
<1>7. L[1] \subseteq Contexts /\ L[2] \subseteq Contexts /\ L[3] \subseteq Contexts /\
      L[4] \subseteq Contexts /\ L[5] \subseteq Contexts /\ L[6] \subseteq Contexts /\
      L[7] \subseteq Contexts
  BY <1>5, ContextsAre DEF Ecdh
<1> USE <1>1, <1>2, <1>3, <1>4, <1>5, ContentsAre DEF StepOK, Flows, FlowsTo, StepAt,
          Malloc, Dealloc, Setup, Load, Calls, Free, Check, Sub, Drbg, IfSeeded, Unseed, Return,
          Fail,
          Ecdh, Statics, Locals
<1>8. StepOK("crypto_ec_init", P, T, L, 1)
  OBVIOUS
<1>9. StepOK("crypto_ec_init", P, T, L, 2)
  OBVIOUS
<1>10. StepOK("crypto_ec_init", P, T, L, 3)
  OBVIOUS
<1>11. StepOK("crypto_ec_init", P, T, L, 4)
  OBVIOUS
<1>12. StepOK("crypto_ec_init", P, T, L, 5)
  OBVIOUS
<1>13. StepOK("crypto_ec_init", P, T, L, 6)
  OBVIOUS
<1>14. StepOK("crypto_ec_init", P, T, L, 7)
  OBVIOUS
<1> HIDE DEF StepOK
<1>15. Outline("crypto_ec_init", P, T, L)
  BY <1>2, <1>3, <1>4, <1>5, <1>6, <1>7, <1>8, <1>9, <1>10, <1>11, <1>12, <1>13, <1>14 DEF Outline
<1>16. QED
  BY <1>15 DEF P, T, L

\* crypto_mbedtls_keypair_gen
LEMMA MbedtlsKeypairGenFlows ==
  Outline("crypto_mbedtls_keypair_gen", crypto_mbedtls_keypair_gen, None(7),
          <<{}, {}, {}, {}, {"ctr_drbg"}, {}, {}>>)
<1> DEFINE P == crypto_mbedtls_keypair_gen
           T == None(7)
           L == <<{}, {}, {}, {}, {"ctr_drbg"}, {}, {}>>
<1>1. /\ Makes("crypto_mbedtls_keypair_gen") = {} /\ Result("crypto_mbedtls_keypair_gen") = {}
      /\ Given("crypto_mbedtls_keypair_gen") = {"mpi_sw_A", "pk"}
      /\ Beneath("crypto_mbedtls_keypair_gen") = {"pk"}
  BY DEF Makes, Result, Given, Beneath, Makers, Blocks, Inside, Peers, InEcdhInit, InPeerKey
<1>2. Len(P) = 6
  BY DEF crypto_mbedtls_keypair_gen
<1>3. P[1] = Check(7) /\ P[2] = Check(7) /\ P[3] = Calls({"pk"}, 7) /\ P[4] = Drbg /\
      P[5] = Calls({"pk", "ctr_drbg"}, 7) /\ P[6] = Return
  BY DEF crypto_mbedtls_keypair_gen
<1>4. T[1] = {} /\ T[2] = {} /\ T[3] = {} /\ T[4] = {} /\ T[5] = {} /\ T[6] = {} /\ T[7] = {}
  BY DEF None
<1>5. L[1] = {} /\ L[2] = {} /\ L[3] = {} /\ L[4] = {} /\ L[5] = {"ctr_drbg"} /\ L[6] = {} /\
      L[7] = {}
  BY DEF None
<1>6. /\ T[1] = (IF "crypto_mbedtls_keypair_gen" \in Blocks THEN {"crypto_mbedtls_keypair_gen"} ELSE {})
      /\ L[1] = Contents(T[1])
  BY <1>4, <1>5, ContentsAre DEF Blocks, Inside, Ecdh
<1> HIDE DEF P, T, L
<1>7. L[1] \subseteq Contexts /\ L[2] \subseteq Contexts /\ L[3] \subseteq Contexts /\
      L[4] \subseteq Contexts /\ L[5] \subseteq Contexts /\ L[6] \subseteq Contexts
  BY <1>5, ContextsAre DEF Ecdh
<1> USE <1>1, <1>2, <1>3, <1>4, <1>5, ContentsAre DEF StepOK, Flows, FlowsTo, StepAt,
          Malloc, Dealloc, Setup, Load, Calls, Free, Check, Sub, Drbg, IfSeeded, Unseed, Return,
          Fail,
          Ecdh, Statics, Locals
<1>8. StepOK("crypto_mbedtls_keypair_gen", P, T, L, 1)
  OBVIOUS
<1>9. StepOK("crypto_mbedtls_keypair_gen", P, T, L, 2)
  OBVIOUS
<1>10. StepOK("crypto_mbedtls_keypair_gen", P, T, L, 3)
  OBVIOUS
<1>11. StepOK("crypto_mbedtls_keypair_gen", P, T, L, 4)
  OBVIOUS
<1>12. StepOK("crypto_mbedtls_keypair_gen", P, T, L, 5)
  OBVIOUS
<1>13. StepOK("crypto_mbedtls_keypair_gen", P, T, L, 6)
  OBVIOUS
<1> HIDE DEF StepOK
<1>14. Outline("crypto_mbedtls_keypair_gen", P, T, L)
  BY <1>2, <1>3, <1>4, <1>5, <1>6, <1>7, <1>8, <1>9, <1>10, <1>11, <1>12, <1>13 DEF Outline
<1>15. QED
  BY <1>14 DEF P, T, L

\* crypto_ecdh_init2
LEMMA EcdhInit2Flows ==
  Outline("crypto_ecdh_init2", crypto_ecdh_init2, init2Own, init2Live)
<1> DEFINE P == crypto_ecdh_init2
           T == init2Own
           L == init2Live
<1>1. /\ Makes("crypto_ecdh_init2") = {"ecdh"} /\ Result("crypto_ecdh_init2") = {"ecdh"}
      /\ Given("crypto_ecdh_init2") = {"mpi_sw_A", "pk"} /\ Beneath("crypto_ecdh_init2") = {"pk"}
  BY DEF Makes, Result, Given, Beneath, Makers, Blocks, Inside, Peers, InEcdhInit, InPeerKey
<1>2. Len(P) = 16
  BY DEF crypto_ecdh_init2
<1>3. P[1] = Check(17) /\ P[2] = Malloc("ecdh", 17) /\ P[3] = Setup("ecdh.ctx") /\
      P[4] = Setup("ecdh.grp") /\ P[5] = Setup("ecdh.Q") /\ P[6] = Calls({"ecdh.ctx"}, 13) /\
      P[7] = Calls({"ecdh.ctx"}, 13) /\ P[8] = Setup("d") /\
      P[9] = Calls({"ecdh.grp", "d", "ecdh.Q"}, 12) /\ P[10] = Free("d") /\ P[11] = Return /\
      P[12] = Free("d") /\ P[13] = Free("ecdh.Q") /\ P[14] = Free("ecdh.grp") /\
      P[15] = Free("ecdh.ctx") /\ P[16] = Dealloc("ecdh")
  BY DEF crypto_ecdh_init2
<1>4. T[1] = {} /\ T[2] = {} /\ T[3] = {"ecdh"} /\ T[4] = {"ecdh"} /\ T[5] = {"ecdh"} /\
      T[6] = {"ecdh"} /\ T[7] = {"ecdh"} /\ T[8] = {"ecdh"} /\ T[9] = {"ecdh"} /\
      T[10] = {"ecdh"} /\ T[11] = {"ecdh"} /\ T[12] = {"ecdh"} /\ T[13] = {"ecdh"} /\
      T[14] = {"ecdh"} /\ T[15] = {"ecdh"} /\ T[16] = {"ecdh"} /\ T[17] = {}
  BY DEF None, init2Own
<1>5. L[1] = {} /\ L[2] = {} /\ L[3] = {} /\ L[4] = {"ecdh.ctx"} /\
      L[5] = {"ecdh.ctx", "ecdh.grp"} /\ L[6] = Ecdh /\ L[7] = Ecdh /\ L[8] = Ecdh /\
      L[9] = Ecdh \cup {"d"} /\ L[10] = Ecdh \cup {"d"} /\ L[11] = Ecdh /\
      L[12] = Ecdh \cup {"d"} /\ L[13] = Ecdh /\ L[14] = {"ecdh.ctx", "ecdh.grp"} /\
      L[15] = {"ecdh.ctx"} /\ L[16] = {} /\ L[17] = {}
  BY DEF None, init2Live
<1>6. /\ T[1] = (IF "crypto_ecdh_init2" \in Blocks THEN {"crypto_ecdh_init2"} ELSE {})
      /\ L[1] = Contents(T[1])
  BY <1>4, <1>5, ContentsAre DEF Blocks, Inside, Ecdh
<1> HIDE DEF P, T, L
<1>7. L[1] \subseteq Contexts /\ L[2] \subseteq Contexts /\ L[3] \subseteq Contexts /\
      L[4] \subseteq Contexts /\ L[5] \subseteq Contexts /\ L[6] \subseteq Contexts /\
      L[7] \subseteq Contexts /\ L[8] \subseteq Contexts /\ L[9] \subseteq Contexts /\
      L[10] \subseteq Contexts /\ L[11] \subseteq Contexts /\ L[12] \subseteq Contexts /\
      L[13] \subseteq Contexts /\ L[14] \subseteq Contexts /\ L[15] \subseteq Contexts /\
      L[16] \subseteq Contexts
  BY <1>5, ContextsAre DEF Ecdh
<1> USE <1>1, <1>2, <1>3, <1>4, <1>5, ContentsAre DEF StepOK, Flows, FlowsTo, StepAt,
          Malloc, Dealloc, Setup, Load, Calls, Free, Check, Sub, Drbg, IfSeeded, Unseed, Return,
          Fail,
          Ecdh, Statics, Locals
<1>8. StepOK("crypto_ecdh_init2", P, T, L, 1)
  OBVIOUS
<1>9. StepOK("crypto_ecdh_init2", P, T, L, 2)
  OBVIOUS
<1>10. StepOK("crypto_ecdh_init2", P, T, L, 3)
  OBVIOUS
<1>11. StepOK("crypto_ecdh_init2", P, T, L, 4)
  OBVIOUS
<1>12. StepOK("crypto_ecdh_init2", P, T, L, 5)
  OBVIOUS
<1>13. StepOK("crypto_ecdh_init2", P, T, L, 6)
  OBVIOUS
<1>14. StepOK("crypto_ecdh_init2", P, T, L, 7)
  OBVIOUS
<1>15. StepOK("crypto_ecdh_init2", P, T, L, 8)
  OBVIOUS
<1>16. StepOK("crypto_ecdh_init2", P, T, L, 9)
  OBVIOUS
<1>17. StepOK("crypto_ecdh_init2", P, T, L, 10)
  OBVIOUS
<1>18. StepOK("crypto_ecdh_init2", P, T, L, 11)
  OBVIOUS
<1>19. StepOK("crypto_ecdh_init2", P, T, L, 12)
  OBVIOUS
<1>20. StepOK("crypto_ecdh_init2", P, T, L, 13)
  OBVIOUS
<1>21. StepOK("crypto_ecdh_init2", P, T, L, 14)
  OBVIOUS
<1>22. StepOK("crypto_ecdh_init2", P, T, L, 15)
  OBVIOUS
<1>23. StepOK("crypto_ecdh_init2", P, T, L, 16)
  OBVIOUS
<1> HIDE DEF StepOK
<1>24. Outline("crypto_ecdh_init2", P, T, L)
  BY <1>2, <1>3, <1>4, <1>5, <1>6, <1>7, <1>8, <1>9, <1>10, <1>11, <1>12, <1>13, <1>14, <1>15,
     <1>16, <1>17, <1>18, <1>19, <1>20, <1>21, <1>22, <1>23 DEF Outline
<1>25. QED
  BY <1>24 DEF P, T, L

\* crypto_ecdh_init
LEMMA EcdhInitFlows ==
  Outline("crypto_ecdh_init", crypto_ecdh_init, <<{}, {}, {}, {"ecdh"}, {"ecdh"}, {}, {}>>,
          <<{}, {"pk"}, {"pk"}, {"pk"} \cup Ecdh, Ecdh, {"pk"}, {}>>)
<1> DEFINE P == crypto_ecdh_init
           T == <<{}, {}, {}, {"ecdh"}, {"ecdh"}, {}, {}>>
           L == <<{}, {"pk"}, {"pk"}, {"pk"} \cup Ecdh, Ecdh, {"pk"}, {}>>
<1>1. /\ Makes("crypto_ecdh_init") = {"ecdh"} /\ Result("crypto_ecdh_init") = {"ecdh"}
      /\ Given("crypto_ecdh_init") = {"mpi_sw_A"} /\ Beneath("crypto_ecdh_init") = {}
  BY DEF Makes, Result, Given, Beneath, Makers, Blocks, Inside, Peers, InEcdhInit, InPeerKey
<1>2. Len(P) = 6
  BY DEF crypto_ecdh_init
<1>3. P[1] = Setup("pk") /\ P[2] = Sub("crypto_mbedtls_keypair_gen", 6) /\
      P[3] = Sub("crypto_ecdh_init2", 6) /\ P[4] = Free("pk") /\ P[5] = Return /\
      P[6] = Free("pk")
  BY DEF crypto_ecdh_init
<1>4. T[1] = {} /\ T[2] = {} /\ T[3] = {} /\ T[4] = {"ecdh"} /\ T[5] = {"ecdh"} /\ T[6] = {} /\
      T[7] = {}
  BY DEF None
<1>5. L[1] = {} /\ L[2] = {"pk"} /\ L[3] = {"pk"} /\ L[4] = {"pk"} \cup Ecdh /\ L[5] = Ecdh /\
      L[6] = {"pk"} /\ L[7] = {}
  BY DEF None
<1>6. /\ T[1] = (IF "crypto_ecdh_init" \in Blocks THEN {"crypto_ecdh_init"} ELSE {})
      /\ L[1] = Contents(T[1])
  BY <1>4, <1>5, ContentsAre DEF Blocks, Inside, Ecdh
<1> HIDE DEF P, T, L
<1>7. L[1] \subseteq Contexts /\ L[2] \subseteq Contexts /\ L[3] \subseteq Contexts /\
      L[4] \subseteq Contexts /\ L[5] \subseteq Contexts /\ L[6] \subseteq Contexts
  BY <1>5, ContextsAre DEF Ecdh
<1> USE <1>1, <1>2, <1>3, <1>4, <1>5, ContentsAre DEF StepOK, Flows, FlowsTo, StepAt,
          Malloc, Dealloc, Setup, Load, Calls, Free, Check, Sub, Drbg, IfSeeded, Unseed, Return,
          Fail,
          Ecdh, Statics, Locals
<1>8. StepOK("crypto_ecdh_init", P, T, L, 1)
  OBVIOUS
<1>9. StepOK("crypto_ecdh_init", P, T, L, 2)
  <2>1. Flows(P, T, L, 2 + 1, {}, L[2] \cup Contents({}))
    OBVIOUS
  <2>2. Flows(P, T, L, 6, {}, L[2])
    OBVIOUS
  <2> HIDE DEF StepOK, Flows, Sub
  <2>3. /\ IsSub("crypto_ecdh_init", 2, "crypto_mbedtls_keypair_gen")
        /\ Result("crypto_mbedtls_keypair_gen") = {}
    BY ResultsAre DEF IsSub
  <2>4. QED
    BY ONLY <1>3, <1>4, <2>1, <2>2, <2>3, SubFlows
<1>10. StepOK("crypto_ecdh_init", P, T, L, 3)
  <2>1. Flows(P, T, L, 3 + 1, {"ecdh"}, L[3] \cup Contents({"ecdh"}))
    OBVIOUS
  <2>2. Flows(P, T, L, 6, {}, L[3])
    OBVIOUS
  <2> HIDE DEF StepOK, Flows, Sub
  <2>3. IsSub("crypto_ecdh_init", 3, "crypto_ecdh_init2") /\ Result("crypto_ecdh_init2") = {"ecdh"}
    BY ResultsAre DEF IsSub
  <2>4. QED
    BY ONLY <1>3, <1>4, <2>1, <2>2, <2>3, SubFlows
<1>11. StepOK("crypto_ecdh_init", P, T, L, 4)
  OBVIOUS
<1>12. StepOK("crypto_ecdh_init", P, T, L, 5)
  OBVIOUS
<1>13. StepOK("crypto_ecdh_init", P, T, L, 6)
  OBVIOUS
<1> HIDE DEF StepOK
<1>14. Outline("crypto_ecdh_init", P, T, L)
  BY <1>2, <1>3, <1>4, <1>5, <1>6, <1>7, <1>8, <1>9, <1>10, <1>11, <1>12, <1>13 DEF Outline
<1>15. QED
  BY <1>14 DEF P, T, L

\* crypto_ecdh_get_pubkey
LEMMA EcdhGetPubkeyFlows ==
  Outline("crypto_ecdh_get_pubkey", crypto_ecdh_get_pubkey, <<{}, {}, {"wpabuf"}, {}>>, None(4))
<1> DEFINE P == crypto_ecdh_get_pubkey
           T == <<{}, {}, {"wpabuf"}, {}>>
           L == None(4)
<1>1. /\ Makes("crypto_ecdh_get_pubkey") = {"wpabuf"}
      /\ Result("crypto_ecdh_get_pubkey") = {"wpabuf"}
      /\ Given("crypto_ecdh_get_pubkey") = {"mpi_sw_A", "ecdh.ctx"}
      /\ Beneath("crypto_ecdh_get_pubkey") = {}
  BY DEF Makes, Result, Given, Beneath, Makers, Blocks, Inside, Peers, InEcdhInit, InPeerKey
<1>2. Len(P) = 3
  BY DEF crypto_ecdh_get_pubkey
<1>3. P[1] = Check(4) /\ P[2] = Malloc("wpabuf", 4) /\ P[3] = Return
  BY DEF crypto_ecdh_get_pubkey
<1>4. T[1] = {} /\ T[2] = {} /\ T[3] = {"wpabuf"} /\ T[4] = {}
  BY DEF None
<1>5. L[1] = {} /\ L[2] = {} /\ L[3] = {} /\ L[4] = {}
  BY DEF None
<1>6. /\ T[1] = (IF "crypto_ecdh_get_pubkey" \in Blocks THEN {"crypto_ecdh_get_pubkey"} ELSE {})
      /\ L[1] = Contents(T[1])
  BY <1>4, <1>5, ContentsAre DEF Blocks, Inside, Ecdh
<1> HIDE DEF P, T, L
<1>7. L[1] \subseteq Contexts /\ L[2] \subseteq Contexts /\ L[3] \subseteq Contexts
  BY <1>5, ContextsAre DEF Ecdh
<1> USE <1>1, <1>2, <1>3, <1>4, <1>5, ContentsAre DEF StepOK, Flows, FlowsTo, StepAt,
          Malloc, Dealloc, Setup, Load, Calls, Free, Check, Sub, Drbg, IfSeeded, Unseed, Return,
          Fail,
          Ecdh, Statics, Locals
<1>8. StepOK("crypto_ecdh_get_pubkey", P, T, L, 1)
  OBVIOUS
<1>9. StepOK("crypto_ecdh_get_pubkey", P, T, L, 2)
  OBVIOUS
<1>10. StepOK("crypto_ecdh_get_pubkey", P, T, L, 3)
  OBVIOUS
<1> HIDE DEF StepOK
<1>11. Outline("crypto_ecdh_get_pubkey", P, T, L)
  BY <1>2, <1>3, <1>4, <1>5, <1>6, <1>7, <1>8, <1>9, <1>10 DEF Outline
<1>12. QED
  BY <1>11 DEF P, T, L

\* short_weierstrass_derive_y
LEMMA ShortWeierstrassDeriveYFlows ==
  Outline("short_weierstrass_derive_y", short_weierstrass_derive_y,
          derive_yOwn, derive_yLive)
<1> DEFINE P == short_weierstrass_derive_y
           T == derive_yOwn
           L == derive_yLive
<1>1. /\ Makes("short_weierstrass_derive_y") = {"y2"} /\ Result("short_weierstrass_derive_y") = {}
      /\ Given("short_weierstrass_derive_y") = {"mpi_sw_A", "x"}
      /\ Beneath("short_weierstrass_derive_y") = {"x"}
  BY DEF Makes, Result, Given, Beneath, Makers, Blocks, Inside, Peers, InEcdhInit, InPeerKey
<1>2. Len(P) = 15
  BY DEF short_weierstrass_derive_y
<1>3. P[1] = Sub("crypto_ec_point_compute_y_sqr", 16) /\ P[2] = Setup("exp") /\
      P[3] = Check(13) /\ P[4] = Calls({"exp"}, 13) /\ P[5] = Calls({"exp"}, 13) /\
      P[6] = Calls({"x"}, 13) /\ P[7] = Check(9) /\ P[8] = Calls({"x"}, 13) /\
      P[9] = Free("exp") /\ P[10] = Free("y2.mpi") /\ P[11] = Dealloc("y2") /\ P[12] = Return /\
      P[13] = Free("exp") /\ P[14] = Free("y2.mpi") /\ P[15] = Dealloc("y2")
  BY DEF short_weierstrass_derive_y
<1>4. T[1] = {} /\ T[2] = {"y2"} /\ T[3] = {"y2"} /\ T[4] = {"y2"} /\ T[5] = {"y2"} /\
      T[6] = {"y2"} /\ T[7] = {"y2"} /\ T[8] = {"y2"} /\ T[9] = {"y2"} /\ T[10] = {"y2"} /\
      T[11] = {"y2"} /\ T[12] = {} /\ T[13] = {"y2"} /\ T[14] = {"y2"} /\ T[15] = {"y2"} /\
      T[16] = {}
  BY DEF None, derive_yOwn
<1>5. L[1] = {} /\ L[2] = {"y2.mpi"} /\ L[3] = {"y2.mpi", "exp"} /\ L[4] = {"y2.mpi", "exp"} /\
      L[5] = {"y2.mpi", "exp"} /\ L[6] = {"y2.mpi", "exp"} /\ L[7] = {"y2.mpi", "exp"} /\
      L[8] = {"y2.mpi", "exp"} /\ L[9] = {"y2.mpi", "exp"} /\ L[10] = {"y2.mpi"} /\
      L[11] = {} /\ L[12] = {} /\ L[13] = {"y2.mpi", "exp"} /\ L[14] = {"y2.mpi"} /\
      L[15] = {} /\ L[16] = {}
  BY DEF None, derive_yLive
<1>6. /\ T[1] = (IF "short_weierstrass_derive_y" \in Blocks THEN {"short_weierstrass_derive_y"} ELSE {})
      /\ L[1] = Contents(T[1])
  BY <1>4, <1>5, ContentsAre DEF Blocks, Inside, Ecdh
<1> HIDE DEF P, T, L
<1>7. L[1] \subseteq Contexts /\ L[2] \subseteq Contexts /\ L[3] \subseteq Contexts /\
      L[4] \subseteq Contexts /\ L[5] \subseteq Contexts /\ L[6] \subseteq Contexts /\
      L[7] \subseteq Contexts /\ L[8] \subseteq Contexts /\ L[9] \subseteq Contexts /\
      L[10] \subseteq Contexts /\ L[11] \subseteq Contexts /\ L[12] \subseteq Contexts /\
      L[13] \subseteq Contexts /\ L[14] \subseteq Contexts /\ L[15] \subseteq Contexts
  BY <1>5, ContextsAre DEF Ecdh
<1> USE <1>1, <1>2, <1>3, <1>4, <1>5, ContentsAre DEF StepOK, Flows, FlowsTo, StepAt,
          Malloc, Dealloc, Setup, Load, Calls, Free, Check, Sub, Drbg, IfSeeded, Unseed, Return,
          Fail,
          Ecdh, Statics, Locals
<1>8. StepOK("short_weierstrass_derive_y", P, T, L, 1)
  <2>1. Flows(P, T, L, 1 + 1, {"y2"}, L[1] \cup Contents({"y2"}))
    OBVIOUS
  <2>2. Flows(P, T, L, 16, {}, L[1])
    OBVIOUS
  <2> HIDE DEF StepOK, Flows, Sub
  <2>3. /\ IsSub("short_weierstrass_derive_y", 1, "crypto_ec_point_compute_y_sqr")
        /\ Result("crypto_ec_point_compute_y_sqr") = {"y2"}
    BY ResultsAre DEF IsSub
  <2>4. QED
    BY ONLY <1>3, <1>4, <2>1, <2>2, <2>3, SubFlows
<1>9. StepOK("short_weierstrass_derive_y", P, T, L, 2)
  OBVIOUS
<1>10. StepOK("short_weierstrass_derive_y", P, T, L, 3)
  OBVIOUS
<1>11. StepOK("short_weierstrass_derive_y", P, T, L, 4)
  OBVIOUS
<1>12. StepOK("short_weierstrass_derive_y", P, T, L, 5)
  OBVIOUS
<1>13. StepOK("short_weierstrass_derive_y", P, T, L, 6)
  OBVIOUS
<1>14. StepOK("short_weierstrass_derive_y", P, T, L, 7)
  OBVIOUS
<1>15. StepOK("short_weierstrass_derive_y", P, T, L, 8)
  OBVIOUS
<1>16. StepOK("short_weierstrass_derive_y", P, T, L, 9)
  OBVIOUS
<1>17. StepOK("short_weierstrass_derive_y", P, T, L, 10)
  OBVIOUS
<1>18. StepOK("short_weierstrass_derive_y", P, T, L, 11)
  OBVIOUS
<1>19. StepOK("short_weierstrass_derive_y", P, T, L, 12)
  OBVIOUS
<1>20. StepOK("short_weierstrass_derive_y", P, T, L, 13)
  OBVIOUS
<1>21. StepOK("short_weierstrass_derive_y", P, T, L, 14)
  OBVIOUS
<1>22. StepOK("short_weierstrass_derive_y", P, T, L, 15)
  OBVIOUS
<1> HIDE DEF StepOK
<1>23. Outline("short_weierstrass_derive_y", P, T, L)
  BY <1>2, <1>3, <1>4, <1>5, <1>6, <1>7, <1>8, <1>9, <1>10, <1>11, <1>12, <1>13, <1>14, <1>15,
     <1>16, <1>17, <1>18, <1>19, <1>20, <1>21, <1>22 DEF Outline
<1>24. QED
  BY <1>23 DEF P, T, L

\* crypto_ecdh_set_peerkey
LEMMA EcdhSetPeerkeyFlows ==
  Outline("crypto_ecdh_set_peerkey", crypto_ecdh_set_peerkey, peerkeyOwn,
          peerkeyLive)
<1> DEFINE P == crypto_ecdh_set_peerkey
           T == peerkeyOwn
           L == peerkeyLive
<1>1. /\ Makes("crypto_ecdh_set_peerkey") = {"wpabuf", "y2"}
      /\ Result("crypto_ecdh_set_peerkey") = {"wpabuf"}
      /\ Given("crypto_ecdh_set_peerkey") = {"mpi_sw_A", "ecdh.ctx"}
      /\ Beneath("crypto_ecdh_set_peerkey") = {}
  BY DEF Makes, Result, Given, Beneath, Makers, Blocks, Inside, Peers, InEcdhInit, InPeerKey
<1>2. Len(P) = 15
  BY DEF crypto_ecdh_set_peerkey
<1>3. P[1] = Check(14) /\ P[2] = Check(8) /\ P[3] = Setup("x") /\ P[4] = Load("x", 13) /\
      P[5] = Sub("short_weierstrass_derive_y", 13) /\ P[6] = Check(13) /\ P[7] = Free("x") /\
      P[8] = Calls({"ecdh.ctx"}, 14) /\ P[9] = Malloc("wpabuf", 14) /\ P[10] = Drbg /\
      P[11] = Calls({"ecdh.ctx", "ctr_drbg"}, 15) /\ P[12] = Return /\ P[13] = Free("x") /\
      P[14] = Fail /\ P[15] = Dealloc("wpabuf")
  BY DEF crypto_ecdh_set_peerkey
<1>4. T[1] = {} /\ T[2] = {} /\ T[3] = {} /\ T[4] = {} /\ T[5] = {} /\ T[6] = {} /\ T[7] = {} /\
      T[8] = {} /\ T[9] = {} /\ T[10] = {"wpabuf"} /\ T[11] = {"wpabuf"} /\
      T[12] = {"wpabuf"} /\ T[13] = {} /\ T[14] = {} /\ T[15] = {"wpabuf"} /\ T[16] = {}
  BY DEF None, peerkeyOwn
<1>5. L[1] = {} /\ L[2] = {} /\ L[3] = {} /\ L[4] = {"x"} /\ L[5] = {"x"} /\ L[6] = {"x"} /\
      L[7] = {"x"} /\ L[8] = {} /\ L[9] = {} /\ L[10] = {} /\ L[11] = {"ctr_drbg"} /\
      L[12] = {} /\ L[13] = {"x"} /\ L[14] = {} /\ L[15] = {} /\ L[16] = {}
  BY DEF None, peerkeyLive
<1>6. /\ T[1] = (IF "crypto_ecdh_set_peerkey" \in Blocks THEN {"crypto_ecdh_set_peerkey"} ELSE {})
      /\ L[1] = Contents(T[1])
  BY <1>4, <1>5, ContentsAre DEF Blocks, Inside, Ecdh
<1> HIDE DEF P, T, L
<1>7. L[1] \subseteq Contexts /\ L[2] \subseteq Contexts /\ L[3] \subseteq Contexts /\
      L[4] \subseteq Contexts /\ L[5] \subseteq Contexts /\ L[6] \subseteq Contexts /\
      L[7] \subseteq Contexts /\ L[8] \subseteq Contexts /\ L[9] \subseteq Contexts /\
      L[10] \subseteq Contexts /\ L[11] \subseteq Contexts /\ L[12] \subseteq Contexts /\
      L[13] \subseteq Contexts /\ L[14] \subseteq Contexts /\ L[15] \subseteq Contexts
  BY <1>5, ContextsAre DEF Ecdh
<1> USE <1>1, <1>2, <1>3, <1>4, <1>5, ContentsAre DEF StepOK, Flows, FlowsTo, StepAt,
          Malloc, Dealloc, Setup, Load, Calls, Free, Check, Sub, Drbg, IfSeeded, Unseed, Return,
          Fail,
          Ecdh, Statics, Locals
<1>8. StepOK("crypto_ecdh_set_peerkey", P, T, L, 1)
  OBVIOUS
<1>9. StepOK("crypto_ecdh_set_peerkey", P, T, L, 2)
  OBVIOUS
<1>10. StepOK("crypto_ecdh_set_peerkey", P, T, L, 3)
  OBVIOUS
<1>11. StepOK("crypto_ecdh_set_peerkey", P, T, L, 4)
  OBVIOUS
<1>12. StepOK("crypto_ecdh_set_peerkey", P, T, L, 5)
  <2>1. Flows(P, T, L, 5 + 1, {}, L[5] \cup Contents({}))
    OBVIOUS
  <2>2. Flows(P, T, L, 13, {}, L[5])
    OBVIOUS
  <2> HIDE DEF StepOK, Flows, Sub
  <2>3. /\ IsSub("crypto_ecdh_set_peerkey", 5, "short_weierstrass_derive_y")
        /\ Result("short_weierstrass_derive_y") = {}
    BY ResultsAre DEF IsSub
  <2>4. QED
    BY ONLY <1>3, <1>4, <2>1, <2>2, <2>3, SubFlows
<1>13. StepOK("crypto_ecdh_set_peerkey", P, T, L, 6)
  OBVIOUS
<1>14. StepOK("crypto_ecdh_set_peerkey", P, T, L, 7)
  OBVIOUS
<1>15. StepOK("crypto_ecdh_set_peerkey", P, T, L, 8)
  OBVIOUS
<1>16. StepOK("crypto_ecdh_set_peerkey", P, T, L, 9)
  OBVIOUS
<1>17. StepOK("crypto_ecdh_set_peerkey", P, T, L, 10)
  OBVIOUS
<1>18. StepOK("crypto_ecdh_set_peerkey", P, T, L, 11)
  OBVIOUS
<1>19. StepOK("crypto_ecdh_set_peerkey", P, T, L, 12)
  OBVIOUS
<1>20. StepOK("crypto_ecdh_set_peerkey", P, T, L, 13)
  OBVIOUS
<1>21. StepOK("crypto_ecdh_set_peerkey", P, T, L, 14)
  OBVIOUS
<1>22. StepOK("crypto_ecdh_set_peerkey", P, T, L, 15)
  OBVIOUS
<1> HIDE DEF StepOK
<1>23. Outline("crypto_ecdh_set_peerkey", P, T, L)
  BY <1>2, <1>3, <1>4, <1>5, <1>6, <1>7, <1>8, <1>9, <1>10, <1>11, <1>12, <1>13, <1>14, <1>15,
     <1>16, <1>17, <1>18, <1>19, <1>20, <1>21, <1>22 DEF Outline
<1>24. QED
  BY <1>23 DEF P, T, L

\* Every function has the outline of its name.
LEMMA Outlined == \A fn \in Fns : Outline(fn, Program[fn], Own[fn], Live[fn])
<1> DEFINE Has(fn) == Outline(fn, Program[fn], Own[fn], Live[fn])
<1>1. Has("bn") /\ Has("y2") /\ Has("aes") /\ Has("ec") /\ Has("point")
  <2>1. \A b \in {"bn", "y2", "aes", "ec", "point"} :
          b \in Blocks /\ Result(b) = {} /\ Makes(b) = {b} /\ Beneath(b) = {} /\ b # "crypto_unload"
    BY DEF Blocks, Inside, Result, Makes, Beneath, Makers, InEcdhInit, InPeerKey
  <2>2. /\ Outline("bn", Unboxed("bn", "bn.mpi"), <<{"bn"}, {"bn"}, {}, {}>>, <<{"bn.mpi"}, {},
                   {}, {}>>)
        /\ Outline("y2", Unboxed("y2", "y2.mpi"), <<{"y2"}, {"y2"}, {}, {}>>, <<{"y2.mpi"}, {},
                   {}, {}>>)
        /\ Outline("aes", Unboxed("aes", "aes.key"), <<{"aes"}, {"aes"}, {}, {}>>, <<{"aes.key"},
                   {}, {}, {}>>)
        /\ Outline("ec", Unboxed("ec", "ec.grp"), <<{"ec"}, {"ec"}, {}, {}>>, <<{"ec.grp"}, {},
                   {}, {}>>)
        /\ Outline("point", Unboxed("point", "point.p"), <<{"point"}, {"point"}, {}, {}>>,
                   <<{"point.p"}, {}, {}, {}>>)
    BY <2>1, ContentsAre, ContextsAre, UnboxedFlows DEF Statics
  <2>3. QED
    BY <2>2 DEF Program, Own, Live
<1>2. Has("aes_init") /\ Has("crypto_ec_point_from_bin") /\ Has("crypto_ec_point_compute_y_sqr")
  <2>1. \A fn \in {"aes_init", "crypto_ec_point_from_bin", "crypto_ec_point_compute_y_sqr"} :
          fn \notin Blocks /\ fn # "crypto_unload" /\ Beneath(fn) \subseteq {"x"}
    BY DEF Blocks, Inside, Beneath, InEcdhInit, InPeerKey
  <2>2. /\ Result("aes_init") = {"aes"} /\ Makes("aes_init") = {"aes"}
        /\ Result("crypto_ec_point_from_bin") = {"point"}
        /\ Makes("crypto_ec_point_from_bin") = {"point"}
        /\ Result("crypto_ec_point_compute_y_sqr") = {"y2"}
        /\ Makes("crypto_ec_point_compute_y_sqr") = {"y2"}
    BY DEF Result, Makes, Makers, Blocks, Inside
  <2>3. /\ Outline("aes_init", aes_init, Box("aes"), BoxLive("aes.key"))
        /\ Outline("crypto_ec_point_from_bin", crypto_ec_point_from_bin, Box("point"),
                   BoxLive("point.p"))
        /\ Outline("crypto_ec_point_compute_y_sqr", crypto_ec_point_compute_y_sqr, Box("y2"),
                   BoxLive("y2.mpi"))
    BY <2>1, <2>2, ContentsAre, ContextsAre, BoxedFlows
       DEF Statics, aes_init, crypto_ec_point_from_bin, crypto_ec_point_compute_y_sqr
  <2>4. QED
    BY <2>3 DEF Program, Own, Live
<1>3. Has("wpabuf") /\ Has("ecdh") /\ Has("exptmod") /\ Has("legendre") /\
      Has("crypto_ec_point_add")
  BY WpabufFlows, EcdhFlows, ExptmodFlows, LegendreFlows, EcPointAddFlows
     DEF Program, Own, Live
<1>4. Has("hmac_vector") /\ Has("omac1_aes_vector") /\ Has("aes_wrap") /\
      Has("crypto_get_random") /\ Has("crypto_ec_get_a")
  BY HmacVectorFlows, Omac1AesVectorFlows, AesWrapFlows, GetRandomFlows, EcGetAFlows
     DEF Program, Own, Live
<1>5. Has("crypto_unload") /\ Has("crypto_bignum_init") /\ Has("crypto_bignum_init_set") /\
      Has("crypto_ec_point_init") /\ Has("crypto_ec_init")
  BY UnloadFlows, BignumInitFlows, BignumInitSetFlows, EcPointInitFlows, EcInitFlows
     DEF Program, Own, Live
<1>6. Has("crypto_mbedtls_keypair_gen") /\ Has("crypto_ecdh_init2") /\
      Has("crypto_ecdh_init") /\ Has("crypto_ecdh_get_pubkey") /\
      Has("short_weierstrass_derive_y")
  BY MbedtlsKeypairGenFlows, EcdhInit2Flows, EcdhInitFlows, EcdhGetPubkeyFlows,
     ShortWeierstrassDeriveYFlows
     DEF Program, Own, Live
<1>7. Has("crypto_ecdh_set_peerkey")
  BY EcdhSetPeerkeyFlows
     DEF Program, Own, Live
<1> HIDE DEF Has
<1>8. \A fn \in Fns : Has(fn)
  BY <1>1, <1>2, <1>3, <1>4, <1>5, <1>6, <1>7 DEF Fns, Program
<1>9. QED
  BY <1>8 DEF Has

-----------------------------------------------------------------------------
(* The invariant *)

\* What is in the caller's hands and not being given back.
Kept == IF Running THEN held \ {Fn} ELSE held

Types ==
  /\ held \subseteq Blocks /\ block \subseteq Blocks
  /\ ctx \in [Contexts -> {"raw", "empty", "full"}] /\ ctr_drbg_init_state \in {0, 1}

\* Who is running and who waits for it; none of them makes what the caller has.
Frames ==
  Running =>
    /\ stack = <<Frame(Fn, At)>> \o Tail(stack)
    /\ Fn \in Fns /\ At \in 1..PastEnd(Fn) /\ Tail(stack) \in CallersOf(Fn)
    /\ Makes(Fn) \cap Kept = {}
    /\ \A i \in 1..Len(Tail(stack)) : Makes(Tail(stack)[i].fn) \cap Kept = {}
    /\ Fn \in Peers \/ (Fn \in InPeerKey /\ Tail(stack) # <<>>) => "ecdh" \in Kept

Lives == IF Running THEN Live[Fn][At] \cup Below(Fn, Tail(stack)) ELSE {}

\* The memory is that of the caller's objects and what the outline says.
Memory ==
  /\ \/ block = Kept \cup (IF Running THEN Own[Fn][At] ELSE {})
     \/ Running /\ Now.op = "dealloc" /\ block = Kept
  /\ \A c \in Contexts : ctx[c] = "full" => c \in Contents(Kept) \cup Statics \cup Lives
  /\ \A c \in Contents(Kept) \cup Lives \cup {"mpi_sw_A"} : ctx[c] # "raw"
  /\ Running /\ Now.op = "load" /\ Now.on # {"mpi_sw_A"} => \A c \in Now.on : ctx[c] # "full"

\* A generator that counts as seeded is, but while crypto_unload takes it down.
Seeded ==
  ctr_drbg_init_state = 1 /\ ~(Running /\ Fn = "crypto_unload" /\ At \in 2..5) =>
    \A c \in {"ctr_drbg", "entropy"} : ctx[c] # "raw"

Owns == Types /\ Frames /\ Memory /\ Seeded


-----------------------------------------------------------------------------
(* Blocks, contents and frames *)

\* The contents of different blocks are different, and none is a local or a static object.
LEMMA ContentsApart ==
  /\ \A bs : bs \subseteq Blocks => Contents(bs) \cap (Locals \cup Statics) = {}
  /\ \A as, bs : as \cap bs = {} /\ as \subseteq Blocks /\ bs \subseteq Blocks =>
       Contents(as) \cap Contents(bs) = {}
  /\ \A as, bs : Contents(as \cup bs) = Contents(as) \cup Contents(bs)
  /\ \A bs : bs \subseteq Blocks => Contents(bs) \subseteq Contexts
  /\ Locals \cap Statics = {} /\ Locals \subseteq Contexts /\ Statics \subseteq Contexts
<1>1. \A bs : bs \subseteq Blocks => Contents(bs) \cap (Locals \cup Statics) = {}
  <2>1. \A b \in Blocks : Inside[b] \cap (Locals \cup Statics) = {}
    BY DEF Inside, Blocks, Locals, Statics
  <2>2. QED
    BY <2>1 DEF Contents
<1>2. \A a, b \in Blocks : a # b => Inside[a] \cap Inside[b] = {}
  BY DEF Inside, Blocks
<1>3. \A as, bs : as \cap bs = {} /\ as \subseteq Blocks /\ bs \subseteq Blocks =>
        Contents(as) \cap Contents(bs) = {}
  <2> SUFFICES ASSUME NEW as, NEW bs, as \cap bs = {}, as \subseteq Blocks, bs \subseteq Blocks,
                      NEW c, c \in Contents(as), c \in Contents(bs)
               PROVE  FALSE
    OBVIOUS
  <2>1. PICK a \in as : c \in Inside[a]
    BY DEF Contents
  <2>2. PICK b \in bs : c \in Inside[b]
    BY DEF Contents
  <2>3. QED
    BY <1>2, <2>1, <2>2
<1>4. \A as, bs : Contents(as \cup bs) = Contents(as) \cup Contents(bs)
  BY DEF Contents
<1>5. \A bs : bs \subseteq Blocks => Contents(bs) \subseteq Contexts
  BY DEF Contents, Contexts
<1>6. Locals \cap Statics = {}
  BY DEF Locals, Statics
<1>7. Locals \subseteq Contexts /\ Statics \subseteq Contexts
  BY DEF Contexts
<1>8. QED
  BY <1>1, <1>3, <1>4, <1>5, <1>6, <1>7

\* A function makes blocks only, among them its result.
LEMMA MakesBlocks ==
  \A fn \in Fns : Makes(fn) \subseteq Blocks /\ Result(fn) \subseteq Makes(fn)
BY DEF Makes, Result, Makers, Blocks, Inside

\* What a function finds below its frame are locals.
LEMMA BeneathLocals ==
  \A fn, up : Below(fn, up) \subseteq Beneath(fn) /\ Beneath(fn) \subseteq Locals
BY DEF Below, Beneath, Locals

\* A frame put on others is on top of them.
LEMMA OnTop ==
  ASSUME NEW f \in Fns, NEW q \in Nat, NEW g \in Fns, NEW up \in CallersOf(g)
  PROVE  LET st == <<Frame(f, q)>> \o up
         IN  /\ st # <<>> /\ Head(st) = Frame(f, q) /\ Tail(st) = up
             /\ Head(st).fn = f /\ Head(st).pc = q
<1>1. up \in Seq([fn : Fns, pc : Nat])
  <2>1. {"crypto_ecdh_init", "crypto_ecdh_set_peerkey", "short_weierstrass_derive_y"} \subseteq Fns
    BY DEF Fns, Program
  <2> DEFINE S == [fn : Fns, pc : Nat]
  <2>2. \A fn, pc : fn \in Fns /\ pc \in Nat => Frame(fn, pc) \in S
    BY DEF Frame
  <2>3. /\ Frame("crypto_ecdh_init", 2) \in S /\ Frame("crypto_ecdh_init", 3) \in S
        /\ Frame("crypto_ecdh_set_peerkey", 5) \in S
        /\ Frame("short_weierstrass_derive_y", 1) \in S
    BY <2>1, <2>2
  <2> HIDE DEF S
  <2>4. <<>> \in Seq(S) /\ \A a, b \in S : <<a>> \in Seq(S) /\ <<a, b>> \in Seq(S)
    OBVIOUS
  <2>5. \/ up = <<>> \/ up = <<Frame("crypto_ecdh_init", 2)>>
        \/ up = <<Frame("crypto_ecdh_init", 3)>> \/ up = <<Frame("crypto_ecdh_set_peerkey", 5)>>
        \/ up = <<Frame("short_weierstrass_derive_y", 1), Frame("crypto_ecdh_set_peerkey", 5)>>
    BY DEF CallersOf
  <2>6. up \in Seq(S)
    BY <2>3, <2>4, <2>5, Zenon
  <2>7. QED
    BY <2>6 DEF S
<1>2. Frame(f, q) \in [fn : Fns, pc : Nat]
  BY DEF Frame
<1>3. QED
  BY <1>1, <1>2 DEF Frame

-----------------------------------------------------------------------------
(* One step *)

\* After a step f is at q, above up, with blocks t and contexts l besides K, the caller's.
After(f, q, up, t, l, K) ==
  /\ stack' = <<Frame(f, q)>> \o up /\ block' = K \cup t
  /\ FlowsTo(Program[f], Own[f], Live[f], q, t, l)
  /\ \A c \in Contexts :
       ctx'[c] = "full" => c \in Contents(K) \cup Statics \cup l \cup Below(f, up)
  /\ \A c \in Contents(K) \cup l \cup Below(f, up) \cup {"mpi_sw_A"} : ctx'[c] # "raw"
  /\ StepAt(Program[f], q).op = "load" =>
       \/ StepAt(Program[f], q).on = {"mpi_sw_A"}
       \/ \A c \in StepAt(Program[f], q).on : ctx'[c] # "full"

\* So it is where its outline says.
LEMMA Arrive ==
  ASSUME NEW f \in Fns, NEW q, NEW up \in CallersOf(f), NEW t, NEW l, NEW K, K = held' \ {f},
         Makes(f) \cap K = {}, \A i \in 1..Len(up) : Makes(up[i].fn) \cap K = {},
         f \in Peers \/ (f \in InPeerKey /\ up # <<>>) => "ecdh" \in K, After(f, q, up, t, l, K)
  PROVE  Running' /\ Fn' = f /\ At' = q /\ Frames' /\ Memory'
<1>1. Len(Program[f]) \in Nat
  BY Outlined DEF Outline
<1>2. q \in 1..PastEnd(f) /\ q \in Nat
  BY <1>1 DEF After, FlowsTo, PastEnd
<1>3. Running' /\ Fn' = f /\ At' = q /\ Tail(stack') = up
  BY <1>2, OnTop DEF After, Running, Fn, At
<1>4. Kept' = K
  BY <1>3 DEF Kept
<1>5. Now' = StepAt(Program[f], q)
  BY <1>3 DEF Now, StepAt
<1>6. Frames'
  BY <1>2, <1>3, <1>4 DEF After, Frames
<1>7. /\ Lives' = Live[f][q] \cup Below(f, up)
      /\ (IF Running' THEN Own[Fn'][At'] ELSE {}) = Own[f][q]
  BY <1>3 DEF Lives
<1> DEFINE T == Own[f]
           L == Live[f]
           s == StepAt(Program[f], q)
<1>8. /\ t = T[q] \/ (s.op = "dealloc" /\ t = {})
      /\ L[q] \subseteq l /\ l \subseteq L[q] \cup Statics
  BY DEF After, FlowsTo
<1> HIDE DEF T, L, s
<1>9. Memory'
  <2>1. \/ block' = K \cup T[q]
        \/ s.op = "dealloc" /\ block' = K
    BY <1>8 DEF After
  <2>2. \A c \in Contexts :
          ctx'[c] = "full" => c \in Contents(K) \cup Statics \cup (L[q] \cup Below(f, up))
    BY <1>8 DEF After
  <2>3. \A c \in Contents(K) \cup (L[q] \cup Below(f, up)) \cup {"mpi_sw_A"} : ctx'[c] # "raw"
    BY <1>8 DEF After
  <2>4. s.op = "load" /\ s.on # {"mpi_sw_A"} => \A c \in s.on : ctx'[c] # "full"
    BY DEF After, s
  <2>5. QED
    BY <1>3, <1>4, <1>5, <1>7, <2>1, <2>2, <2>3, <2>4, Zenon DEF Memory, T, L, s
<1>10. QED
  BY <1>3, <1>6, <1>9

\* Where a function is at step s, with K the caller's and up below it.
Here(f, p, up, K, s) ==
  /\ f \in Fns /\ up \in CallersOf(f) /\ K = held \ {f} /\ p \in 1..Len(Program[f])
  /\ stack = <<Frame(f, p)>> \o up /\ Fn = f /\ At = p /\ Tail(stack) = up
  /\ Now = s /\ s = Program[f][p] /\ StepOK(f, Program[f], Own[f], Live[f], p)
  /\ Makes(f) \cap K = {} /\ (\A i \in 1..Len(up) : Makes(up[i].fn) \cap K = {})
  /\ f \in Peers \/ (f \in InPeerKey /\ up # <<>>) => "ecdh" \in K
  /\ \/ block = K \cup Own[f][p]
     \/ s.op = "dealloc" /\ block = K
  /\ \A c \in Contexts :
       ctx[c] = "full" => c \in Contents(K) \cup Statics \cup Live[f][p] \cup Below(f, up)
  /\ \A c \in Contents(K) \cup Live[f][p] \cup Below(f, up) \cup {"mpi_sw_A"} : ctx[c] # "raw"
  /\ s.op = "load" /\ s.on # {"mpi_sw_A"} => \A c \in s.on : ctx[c] # "full"

\* A function that runs and has not come to its end is at a step of its outline.
LEMMA IsHere ==
  ASSUME Owns, Running, Now.op # "fail"
  PROVE  \E f, p, up, K, s : Here(f, p, up, K, s)
<1>1. PICK f, p, up, K, s : f = Fn /\ p = At /\ up = Tail(stack) /\ K = Kept /\ s = Now
  OBVIOUS
<1>2. Len(Program[f]) \in Nat /\ f \in Fns /\ up \in CallersOf(f)
  BY <1>1, Outlined DEF Outline, Owns, Frames
<1>3. p \in 1..Len(Program[f])
  <2>1. p \in 1..(Len(Program[f]) + 1)
    BY <1>1 DEF Owns, Frames, PastEnd
  <2>2. ~(p > Len(Program[f]))
    BY <1>1 DEF Now, Fail
  <2>3. QED
    BY <1>2, <2>1, <2>2
<1>4. K = held \ {f} /\ stack = <<Frame(f, p)>> \o up /\ s = Program[f][p]
  BY <1>1, <1>2, <1>3 DEF Owns, Frames, Kept, Now
<1>5. StepOK(f, Program[f], Own[f], Live[f], p)
  BY <1>2, <1>3, Outlined DEF Outline
<1>6. /\ Makes(f) \cap K = {} /\ (\A i \in 1..Len(up) : Makes(up[i].fn) \cap K = {})
      /\ f \in Peers \/ (f \in InPeerKey /\ up # <<>>) => "ecdh" \in K
  BY <1>1 DEF Owns, Frames
<1>7. Lives = Live[f][p] \cup Below(f, up) /\ (IF Running THEN Own[Fn][At] ELSE {}) = Own[f][p]
  BY <1>1 DEF Lives
<1>8. /\ \/ block = K \cup Own[f][p]
         \/ s.op = "dealloc" /\ block = K
      /\ \A c \in Contexts :
           ctx[c] = "full" => c \in Contents(K) \cup Statics \cup (Live[f][p] \cup Below(f, up))
      /\ \A c \in Contents(K) \cup (Live[f][p] \cup Below(f, up)) \cup {"mpi_sw_A"} : ctx[c] # "raw"
      /\ s.op = "load" /\ s.on # {"mpi_sw_A"} => \A c \in s.on : ctx[c] # "full"
  BY <1>1, <1>7, Zenon DEF Owns, Memory
<1>9. Here(f, p, up, K, s)
  BY <1>1, <1>2, <1>3, <1>4, <1>5, <1>6, <1>8 DEF Here
<1>10. QED
  BY <1>9

\* A function goes on from where it is.
LEMMA Goes ==
  ASSUME NEW f, NEW p, NEW up, NEW K, NEW s, Here(f, p, up, K, s), NEW q, NEW t, NEW l,
         held' = held, After(f, q, up, t, l, K)
  PROVE  Running' /\ Fn' = f /\ At' = q /\ Frames' /\ Memory'
<1>1. /\ f \in Fns /\ up \in CallersOf(f) /\ K = held' \ {f} /\ Makes(f) \cap K = {}
      /\ \A i \in 1..Len(up) : Makes(up[i].fn) \cap K = {}
      /\ f \in Peers \/ (f \in InPeerKey /\ up # <<>>) => "ecdh" \in K
  BY DEF Here
<1>2. QED
  BY <1>1, Arrive

\* With the contexts as they are, it may do so with some fewer that are not full.
LEMMA GoesOn ==
  ASSUME NEW f, NEW p, NEW up, NEW K, NEW s, Here(f, p, up, K, s), NEW q, NEW t, NEW l,
         stack' = <<Frame(f, q)>> \o up, ctx' = ctx, block' = K \cup t,
         l \subseteq Live[f][p], \A c \in Live[f][p] \ l : ctx[c] # "full",
         Flows(Program[f], Own[f], Live[f], q, t, l)
  PROVE  After(f, q, up, t, l, K)
<1>1. /\ FlowsTo(Program[f], Own[f], Live[f], q, t, l)
      /\ StepAt(Program[f], q).op = "load" => StepAt(Program[f], q).on = {"mpi_sw_A"}
  BY DEF Flows
<1>2. /\ \A c \in Contexts :
           ctx'[c] = "full" => c \in Contents(K) \cup Statics \cup l \cup Below(f, up)
      /\ \A c \in Contents(K) \cup l \cup Below(f, up) \cup {"mpi_sw_A"} : ctx'[c] # "raw"
  BY DEF Here
<1>3. QED
  BY <1>1, <1>2 DEF After

\* The generator is not touched: it is as seeded as it was.
LEMMA SeededStays ==
  ASSUME Owns, Fn # "crypto_unload", Running, Running', Fn' = Fn,
         UNCHANGED ctr_drbg_init_state,
         \A c \in {"ctr_drbg", "entropy"} : ctx[c] # "raw" => ctx'[c] # "raw"
  PROVE  Seeded'
BY DEF Owns, Seeded

\* The frame after a step within a function
LEMMA NextFrame ==
  ASSUME NEW f, NEW p, NEW up, NEW K, NEW s, Here(f, p, up, K, s)
  PROVE  \A q : Next1(q) = <<Frame(f, q)>> \o up
BY DEF Here, Next1, Frame

\* A block that is taken was free.
LEMMA AllocateOwns ==
  ASSUME Owns, Running, Allocate
  PROVE  Owns'
<1>1. PICK f, p, up, K, s : Here(f, p, up, K, s)
  BY IsHere DEF Allocate
<1> DEFINE P == Program[f]
           T == Own[f]
           L == Live[f]
<1>2. s.op = "malloc" /\ Now = s /\ Fn = f /\ At = p /\ held' = held /\ ctx' = ctx
  BY <1>1 DEF Allocate, Here
<1>3. /\ T[p] = {} /\ s.on \subseteq Makes(f) /\ f # "crypto_unload"
      /\ Flows(P, T, L, p + 1, s.on, L[p]) /\ Flows(P, T, L, s.to, {}, L[p])
  BY <1>1, <1>2 DEF Here, StepOK
<1>4. block = K
  BY <1>1, <1>2, <1>3 DEF Here
<1>5. PICK q, t : /\ stack' = <<Frame(f, q)>> \o up /\ block' = K \cup t
                  /\ Flows(P, T, L, q, t, L[p]) /\ t \subseteq Makes(f)
  BY <1>1, <1>2, <1>3, <1>4, NextFrame DEF Allocate
<1>6. Running' /\ Fn' = f /\ Frames' /\ Memory'
  <2>1. After(f, q, up, t, L[p], K)
    BY <1>1, <1>2, <1>5, GoesOn
  <2>2. QED
    BY <1>1, <1>2, <2>1, Goes
<1>7. Types'
  BY <1>1, <1>2, <1>4, <1>5, MakesBlocks DEF Here, Types, Owns, Allocate
<1>8. Seeded'
  BY <1>2, <1>3, <1>6, SeededStays DEF Allocate
<1>9. QED
  BY <1>6, <1>7, <1>8 DEF Owns

\* A block that is given back takes its contents along, and nothing else.
LEMMA DeallocateOwns ==
  ASSUME Owns, Running, Deallocate
  PROVE  Owns'
<1>1. PICK f, p, up, K, s : Here(f, p, up, K, s)
  BY IsHere DEF Deallocate
<1> DEFINE P == Program[f]
           T == Own[f]
           L == Live[f]
<1>2. s.op = "dealloc" /\ Now = s /\ Fn = f /\ At = p /\ held' = held
  BY <1>1 DEF Deallocate, Here
<1>3. /\ T[p] = s.on /\ T[p] \subseteq Makes(f) /\ f # "crypto_unload"
      /\ Contents(s.on) \cap L[p] = {} /\ Flows(P, T, L, p + 1, {}, L[p])
  BY <1>1, <1>2 DEF Here, StepOK
<1>4. /\ stack' = <<Frame(f, p + 1)>> \o up /\ block' = block \ s.on
      /\ ctx' = [c \in Contexts |-> IF c \in Contents(s.on) THEN "raw" ELSE ctx[c]]
  BY <1>1, <1>2, NextFrame DEF Deallocate, Contents
<1>5. K \cap s.on = {} /\ K \subseteq Blocks /\ s.on \subseteq Blocks
  BY <1>1, <1>3, MakesBlocks DEF Here, Owns, Types
<1>6. block' = K \cup {}
  BY <1>1, <1>3, <1>4, <1>5 DEF Here
<1>7. Contents(s.on) \cap (Contents(K) \cup L[p] \cup Below(f, up) \cup Statics) = {}
  BY <1>3, <1>5, ContentsApart, BeneathLocals
<1>8. "mpi_sw_A" \in Statics /\ "ctr_drbg" \in Statics /\ "entropy" \in Statics
  BY DEF Statics
<1>9. /\ Contents(K) \subseteq Contexts /\ Below(f, up) \subseteq Contexts
      /\ Statics \subseteq Contexts
      /\ L[p] \subseteq Contexts
  BY <1>1, <1>5, ContentsApart, BeneathLocals, Outlined DEF Here, Outline
<1>10. \A c \in Contexts : ctx'[c] = IF c \in Contents(s.on) THEN "raw" ELSE ctx[c]
  BY <1>4
<1>11. After(f, p + 1, up, {}, L[p], K)
  <2>1. /\ FlowsTo(P, T, L, p + 1, {}, L[p])
        /\ StepAt(P, p + 1).op = "load" => StepAt(P, p + 1).on = {"mpi_sw_A"}
    BY <1>3 DEF Flows
  <2>2. \A c \in Contexts :
          ctx'[c] = "full" => c \in Contents(K) \cup Statics \cup L[p] \cup Below(f, up)
    BY <1>1, <1>10 DEF Here
  <2>3. \A c \in Contents(K) \cup L[p] \cup Below(f, up) \cup {"mpi_sw_A"} : ctx'[c] # "raw"
    <3> SUFFICES ASSUME NEW c \in Contents(K) \cup L[p] \cup Below(f, up) \cup {"mpi_sw_A"}
                 PROVE  ctx'[c] # "raw"
      OBVIOUS
    <3>1. c \in Contexts /\ c \notin Contents(s.on)
      BY <1>7, <1>8, <1>9
    <3>2. ctx[c] # "raw"
      BY <1>1 DEF Here
    <3>3. QED
      BY <1>10, <3>1, <3>2
  <2>4. QED
    BY <1>4, <1>6, <2>1, <2>2, <2>3 DEF After
<1>12. Running' /\ Fn' = f /\ Frames' /\ Memory'
  BY <1>1, <1>2, <1>11, Goes
<1>13. Types'
  BY <1>2, <1>4 DEF Types, Owns, Deallocate
<1>14. Seeded'
  BY <1>2, <1>3, <1>7, <1>8, <1>9, <1>10, <1>12, SeededStays DEF Deallocate
<1>15. QED
  BY <1>12, <1>13, <1>14 DEF Owns

\* What a function is given is in the caller's hands or below it, or is mpi_sw_A.
LEMMA GivenIs ==
  ASSUME NEW f, NEW p, NEW up, NEW K, NEW s, Here(f, p, up, K, s)
  PROVE  Given(f) \subseteq Contents(K) \cup {"mpi_sw_A"} \cup Below(f, up)
<1>1. f \in Peers => "ecdh.ctx" \in Contents(K)
  <2>1. f \in Peers => "ecdh" \in K
    BY DEF Here
  <2>2. "ecdh.ctx" \in Inside["ecdh"]
    BY DEF Inside
  <2>3. QED
    BY <2>1, <2>2 DEF Contents
<1>2. f # "crypto_ec_point_compute_y_sqr" => Beneath(f) \subseteq Below(f, up)
  <2>1. f \in Fns /\ up \in CallersOf(f)
    BY DEF Here
  <2>2. CASE f \in {"crypto_mbedtls_keypair_gen", "crypto_ecdh_init2", "short_weierstrass_derive_y"}
    <3>1. up # <<>>
      BY <2>1, <2>2 DEF CallersOf
    <3>2. QED
      BY <3>1 DEF Below
  <2>3. CASE f \notin {"crypto_mbedtls_keypair_gen", "crypto_ecdh_init2", "short_weierstrass_derive_y"}
    BY <2>3 DEF Beneath, InEcdhInit, InPeerKey
  <2>4. QED
    BY <2>2, <2>3
<1>3. QED
  BY <1>1, <1>2 DEF Given

\* Every context that a function has to do with is one.
LEMMA HereContexts ==
  ASSUME NEW f, NEW p, NEW up, NEW K, NEW s, Owns, Here(f, p, up, K, s)
  PROVE  /\ Contents(K) \subseteq Contexts /\ Live[f][p] \subseteq Contexts
         /\ Below(f, up) \subseteq Contexts /\ Statics \subseteq Contexts
         /\ K \subseteq Blocks /\ "mpi_sw_A" \in Statics
<1>1. K \subseteq Blocks
  BY DEF Here, Owns, Types
<1>2. Live[f][p] \subseteq Contexts
  BY Outlined DEF Outline, Here
<1>3. "mpi_sw_A" \in Statics
  BY DEF Statics
<1>4. QED
  BY <1>1, <1>2, <1>3, ContentsApart, BeneathLocals

\* What Becomes leaves a context.
LEMMA BecomesIs ==
  ASSUME NEW cs, NEW v
  PROVE  \A c \in Contexts : Becomes(cs, v)[c] = IF c \in cs THEN v ELSE ctx[c]
BY DEF Becomes

\* A context is initialised where nothing is lost.
LEMMA SetupOwns ==
  ASSUME Owns, Running, UseContext, Now.op = "init"
  PROVE  Owns'
<1>1. PICK f, p, up, K, s : Here(f, p, up, K, s)
  BY IsHere
<1> DEFINE P == Program[f]
           T == Own[f]
           L == Live[f]
<1>2. /\ s.op = "init" /\ Now = s /\ Fn = f /\ At = p /\ held' = held /\ block' = block
      /\ ctr_drbg_init_state' = ctr_drbg_init_state
  BY <1>1 DEF UseContext, Here
<1>3. /\ s.on \subseteq Locals \cup Contents(T[p]) /\ s.on \cap (L[p] \cup Beneath(f)) = {}
      /\ FlowsTo(P, T, L, p + 1, T[p], L[p] \cup s.on) /\ f # "crypto_unload"
      /\ StepAt(P, p + 1).op = "load" => StepAt(P, p + 1).on = s.on
      /\ T[p] \subseteq Makes(f)
  BY <1>1, <1>2 DEF Here, StepOK
<1>4. ctx' = Becomes(s.on, "empty") /\ stack' = <<Frame(f, p + 1)>> \o up
  BY <1>1, <1>2, NextFrame DEF UseContext
<1>5. \A c \in Contexts : ctx'[c] = IF c \in s.on THEN "empty" ELSE ctx[c]
  BY <1>4, BecomesIs
<1>6. block' = K \cup T[p]
  BY <1>1, <1>2 DEF Here
<1>7. s.on \cap Statics = {} /\ s.on \subseteq Contexts
  <2>1. T[p] \subseteq Blocks
    BY <1>1, <1>3, MakesBlocks DEF Here
  <2>2. QED
    BY <1>3, <2>1, ContentsApart
<1>8. After(f, p + 1, up, T[p], L[p] \cup s.on, K)
  <2>1. \A c \in Contexts :
          ctx'[c] = "full" => c \in Contents(K) \cup Statics \cup (L[p] \cup s.on) \cup Below(f, up)
    BY <1>1, <1>5 DEF Here
  <2>2. \A c \in Contents(K) \cup (L[p] \cup s.on) \cup Below(f, up) \cup {"mpi_sw_A"} :
          ctx'[c] # "raw"
    <3> SUFFICES ASSUME NEW c \in Contents(K) \cup (L[p] \cup s.on) \cup Below(f, up) \cup {"mpi_sw_A"}
                 PROVE  ctx'[c] # "raw"
      OBVIOUS
    <3>1. c \in Contexts
      BY <1>1, <1>7, HereContexts
    <3>2. c \notin s.on => ctx[c] # "raw"
      BY <1>1 DEF Here
    <3>3. QED
      BY <1>5, <3>1, <3>2
  <2>3. StepAt(P, p + 1).op = "load" => \A c \in StepAt(P, p + 1).on : ctx'[c] # "full"
    BY <1>3, <1>5, <1>7
  <2>4. QED
    BY <1>3, <1>4, <1>6, <2>1, <2>2, <2>3 DEF After
<1>9. Running' /\ Fn' = f /\ Frames' /\ Memory'
  BY <1>1, <1>2, <1>8, Goes
<1>10. Types'
  BY <1>2, <1>4 DEF Types, Owns, Becomes
<1>11. Seeded'
  <2>1. {"ctr_drbg", "entropy"} \subseteq Statics
    BY DEF Statics
  <2>2. \A c \in {"ctr_drbg", "entropy"} : ctx'[c] = ctx[c]
    BY <1>1, <1>5, <1>7, <2>1, HereContexts
  <2>3. QED
    BY <1>2, <1>3, <1>9, <2>2, SeededStays
<1>12. QED
  BY <1>9, <1>10, <1>11 DEF Owns

\* A context is freed by the function it is of, the generator's by crypto_unload.
LEMMA FreeOwns ==
  ASSUME Owns, Running, UseContext, Now.op = "free"
  PROVE  Owns'
<1>1. PICK f, p, up, K, s : Here(f, p, up, K, s)
  BY IsHere
<1> DEFINE P == Program[f]
           T == Own[f]
           L == Live[f]
<1>2. /\ s.op = "free" /\ Now = s /\ Fn = f /\ At = p /\ held' = held /\ block' = block
      /\ ctr_drbg_init_state' = ctr_drbg_init_state
  BY <1>1 DEF UseContext, Here
<1>3. /\ s.on \subseteq Locals \cup Contents(T[p]) \cup Statics /\ s.on \cap Beneath(f) = {}
      /\ "mpi_sw_A" \in s.on => s.on = {"mpi_sw_A"}
      /\ s.on \cap Statics # {} => f = "crypto_unload"
      /\ f = "crypto_unload" => p \in 2..4
      /\ Flows(P, T, L, p + 1, T[p], L[p] \ s.on) /\ T[p] \subseteq Makes(f)
  BY <1>1, <1>2 DEF Here, StepOK
<1>4. PICK v : /\ v \in {"empty", "raw"} /\ (s.on = {"mpi_sw_A"} => v = "empty")
               /\ ctx' = Becomes(s.on, v) /\ stack' = <<Frame(f, p + 1)>> \o up
  <2>1. s.on = {"mpi_sw_A"} => s.on \subseteq Mpis
    BY DEF Mpis
  <2>2. stack' = <<Frame(f, p + 1)>> \o up
    BY <1>1, <1>2, NextFrame DEF UseContext
  <2>3. ctx' = Becomes(s.on, IF s.on \subseteq Mpis THEN "empty" ELSE "raw")
    BY <1>2 DEF UseContext
  <2>4. QED
    BY <2>1, <2>2, <2>3
<1>5. \A c \in Contexts : ctx'[c] = IF c \in s.on THEN v ELSE ctx[c]
  BY <1>4, BecomesIs
<1>6. block' = K \cup T[p]
  BY <1>1, <1>2 DEF Here
<1>7. s.on \cap (Contents(K) \cup Below(f, up)) = {}
  <2>1. T[p] \subseteq Blocks /\ K \subseteq Blocks /\ T[p] \cap K = {}
    <3>1. K \subseteq Blocks
      BY <1>1, HereContexts
    <3>2. QED
      BY <1>1, <1>3, <3>1, MakesBlocks DEF Here
  <2>2. QED
    BY <1>3, <2>1, ContentsApart, BeneathLocals
<1>8. After(f, p + 1, up, T[p], L[p] \ s.on, K)
  <2>1. \A c \in Contexts :
          ctx'[c] = "full" => c \in Contents(K) \cup Statics \cup (L[p] \ s.on) \cup Below(f, up)
    BY <1>1, <1>4, <1>5 DEF Here
  <2>2. \A c \in Contents(K) \cup (L[p] \ s.on) \cup Below(f, up) \cup {"mpi_sw_A"} :
          ctx'[c] # "raw"
    <3> SUFFICES ASSUME NEW c \in Contents(K) \cup (L[p] \ s.on) \cup Below(f, up) \cup {"mpi_sw_A"}
                 PROVE  ctx'[c] # "raw"
      OBVIOUS
    <3>1. c \in Contexts /\ ctx[c] # "raw"
      <4>1. c \in Contexts
        BY <1>1, HereContexts
      <4>2. ctx[c] # "raw"
        BY <1>1 DEF Here
      <4>3. QED
        BY <4>1, <4>2
    <3>2. c \in s.on => c = "mpi_sw_A"
      BY <1>7
    <3>3. QED
      BY <1>3, <1>4, <1>5, <3>1, <3>2
  <2>3. /\ FlowsTo(P, T, L, p + 1, T[p], L[p] \ s.on)
        /\ StepAt(P, p + 1).op = "load" => StepAt(P, p + 1).on = {"mpi_sw_A"}
    BY <1>3 DEF Flows
  <2>4. QED
    BY <1>4, <1>6, <2>1, <2>2, <2>3 DEF After
<1>9. Running' /\ Fn' = f /\ At' = p + 1 /\ Frames' /\ Memory'
  BY <1>1, <1>2, <1>8, Goes
<1>10. Types'
  BY <1>2, <1>4 DEF Types, Owns, Becomes
<1>11. Seeded'
  <2>1. CASE f = "crypto_unload"
    BY <1>3, <1>9, <2>1 DEF Seeded
  <2>2. CASE f # "crypto_unload"
    <3>1. {"ctr_drbg", "entropy"} \subseteq Statics
      BY DEF Statics
    <3>2. \A c \in {"ctr_drbg", "entropy"} : ctx'[c] = ctx[c]
      BY <1>1, <1>3, <1>5, <2>2, <3>1, HereContexts
    <3>3. QED
      BY <1>2, <1>9, <2>2, <3>2, SeededStays
  <2>3. QED
    BY <2>1, <2>2
<1>12. QED
  BY <1>9, <1>10, <1>11 DEF Owns

\* A call on a context finds it initialised, and may leave memory in it even when it fails.
LEMMA LoadOwns ==
  ASSUME Owns, Running, UseContext, Now.op \in {"load", "call"}
  PROVE  Owns'
<1>1. PICK f, p, up, K, s : Here(f, p, up, K, s)
  BY IsHere
<1> DEFINE P == Program[f]
           T == Own[f]
           L == Live[f]
<1>2. /\ s.op \in {"load", "call"} /\ Now = s /\ Fn = f /\ At = p /\ held' = held
      /\ block' = block /\ ctr_drbg_init_state' = ctr_drbg_init_state
  BY <1>1 DEF UseContext, Here
<1>3. /\ s.on \subseteq L[p] \cup Given(f) /\ f # "crypto_unload"
      /\ Flows(P, T, L, p + 1, T[p], L[p])
      /\ \/ Flows(P, T, L, s.to, T[p], L[p])
         \/ s.op = "load" /\ s.on \cap Statics = {} /\ Flows(P, T, L, s.to, T[p], L[p] \ s.on)
  BY <1>1, <1>2 DEF Here, StepOK
<1>4. block' = K \cup T[p]
  BY <1>1, <1>2 DEF Here
<1>5. PICK q, l, cs : /\ stack' = <<Frame(f, q)>> \o up /\ cs \subseteq s.on
                      /\ ctx' = Becomes(cs, "full") /\ Flows(P, T, L, q, T[p], l)
                      /\ \/ l = L[p]
                         \/ l = L[p] \ s.on /\ cs = {} /\ \A c \in s.on : ctx[c] # "full"
  <2>1. CASE ctx' = Becomes(s.on, "full") /\ stack' = Next1(p + 1)
    BY <1>1, <1>3, <2>1, NextFrame
  <2>2. CASE s.op = "load" /\ UNCHANGED ctx /\ stack' = Next1(s.to)
    <3>1. ctx' = Becomes({}, "full")
      BY <2>2 DEF Becomes, Owns, Types
    <3>2. stack' = <<Frame(f, s.to)>> \o up
      BY <1>1, <2>2, NextFrame
    <3>3. CASE Flows(P, T, L, s.to, T[p], L[p])
      BY <3>1, <3>2, <3>3
    <3>4. CASE s.on \cap Statics = {} /\ Flows(P, T, L, s.to, T[p], L[p] \ s.on)
      <4>1. s.on # {"mpi_sw_A"}
        BY <3>4 DEF Statics
      <4>2. \A c \in s.on : ctx[c] # "full"
        BY <1>1, <2>2, <4>1 DEF Here
      <4>3. QED
        BY <3>1, <3>2, <3>4, <4>2
    <3>5. QED
      BY <1>3, <3>3, <3>4
  <2>3. CASE /\ s.op = "call" /\ stack' = Next1(s.to)
             /\ \E cs \in SUBSET s.on : ctx' = Becomes(cs, "full")
    <3>1. Flows(P, T, L, s.to, T[p], L[p])
      BY <1>3, <2>3
    <3>2. QED
      BY <1>1, <2>3, <3>1, NextFrame
  <2>4. QED
    BY <1>2, <2>1, <2>2, <2>3 DEF UseContext
<1>6. \A c \in Contexts : ctx'[c] = IF c \in cs THEN "full" ELSE ctx[c]
  BY <1>5, BecomesIs
<1>7. s.on \subseteq L[p] \cup Contents(K) \cup Statics \cup Below(f, up)
  <2>1. "mpi_sw_A" \in Statics
    BY DEF Statics
  <2>2. QED
    BY <1>1, <1>3, <2>1, GivenIs
<1>8. After(f, q, up, T[p], l, K)
  <2>1. \A c \in Contexts :
          ctx'[c] = "full" => c \in Contents(K) \cup Statics \cup l \cup Below(f, up)
    <3> SUFFICES ASSUME NEW c \in Contexts, ctx'[c] = "full"
                 PROVE  c \in Contents(K) \cup Statics \cup l \cup Below(f, up)
      OBVIOUS
    <3>1. CASE c \in cs
      BY <1>5, <1>7, <3>1
    <3>2. CASE c \notin cs
      <4>1. ctx[c] = "full"
        BY <1>6, <3>2
      <4>2. c \in Contents(K) \cup Statics \cup L[p] \cup Below(f, up)
        BY <1>1, <4>1 DEF Here
      <4>3. QED
        BY <1>5, <4>1, <4>2
    <3>3. QED
      BY <3>1, <3>2
  <2>2. \A c \in Contents(K) \cup l \cup Below(f, up) \cup {"mpi_sw_A"} : ctx'[c] # "raw"
    <3> SUFFICES ASSUME NEW c \in Contents(K) \cup l \cup Below(f, up) \cup {"mpi_sw_A"}
                 PROVE  ctx'[c] # "raw"
      OBVIOUS
    <3>1. c \in Contents(K) \cup L[p] \cup Below(f, up) \cup {"mpi_sw_A"}
      BY <1>5
    <3>2. c \in Contexts
      BY <1>1, <3>1, HereContexts
    <3>3. ctx[c] # "raw"
      BY <1>1, <3>1 DEF Here
    <3>4. QED
      BY <1>6, <3>2, <3>3
  <2>3. /\ FlowsTo(P, T, L, q, T[p], l)
        /\ StepAt(P, q).op = "load" => StepAt(P, q).on = {"mpi_sw_A"}
    BY <1>5 DEF Flows
  <2>4. QED
    BY <1>4, <1>5, <2>1, <2>2, <2>3 DEF After
<1>9. Running' /\ Fn' = f /\ Frames' /\ Memory'
  BY <1>1, <1>2, <1>8, Goes
<1>10. Types'
  BY <1>2, <1>5 DEF Types, Owns, Becomes
<1>11. Seeded'
  <2>1. {"ctr_drbg", "entropy"} \subseteq Contexts
    BY ContextsAre
  <2>2. \A c \in {"ctr_drbg", "entropy"} : ctx[c] # "raw" => ctx'[c] # "raw"
    BY <1>6, <2>1
  <2>3. QED
    BY <1>2, <1>3, <1>9, <2>2, SeededStays
<1>12. QED
  BY <1>9, <1>10, <1>11 DEF Owns

\* Whatever is done with a context, the outline is kept.
LEMMA UseContextOwns ==
  ASSUME Owns, Running, UseContext
  PROVE  Owns'
BY SetupOwns, FreeOwns, LoadOwns DEF UseContext

\* A condition, either way
LEMMA CheckOwns ==
  ASSUME Owns, Running, Decide, Now.op = "check"
  PROVE  Owns'
<1>1. PICK f, p, up, K, s : Here(f, p, up, K, s)
  BY IsHere
<1> DEFINE P == Program[f]
           T == Own[f]
           L == Live[f]
<1>2. /\ s.op = "check" /\ Now = s /\ Fn = f /\ At = p /\ held' = held /\ ctx' = ctx
      /\ block' = block /\ ctr_drbg_init_state' = ctr_drbg_init_state
  BY <1>1 DEF Decide, Here
<1>3. /\ f # "crypto_unload" /\ Flows(P, T, L, p + 1, T[p], L[p])
      /\ Flows(P, T, L, s.to, T[p], L[p])
  BY <1>1, <1>2 DEF Here, StepOK
<1>4. PICK q : stack' = <<Frame(f, q)>> \o up /\ Flows(P, T, L, q, T[p], L[p])
  BY <1>1, <1>2, <1>3, NextFrame DEF Decide
<1>5. block' = K \cup T[p]
  BY <1>1, <1>2 DEF Here
<1>6. After(f, q, up, T[p], L[p], K)
  BY <1>1, <1>2, <1>4, <1>5, GoesOn
<1>7. Running' /\ Fn' = f /\ Frames' /\ Memory'
  BY <1>1, <1>2, <1>6, Goes
<1>8. Types' /\ Seeded'
  BY <1>2, <1>3, <1>7, SeededStays DEF Owns, Types
<1>9. QED
  BY <1>7, <1>8 DEF Owns

\* crypto_unload begins with a generator that is seeded, or has none to take down.
LEMMA IfSeededOwns ==
  ASSUME Owns, Running, Decide, Now.op = "seeded"
  PROVE  Owns'
<1>1. PICK f, p, up, K, s : Here(f, p, up, K, s)
  BY IsHere
<1> DEFINE P == Program[f]
           T == Own[f]
           L == Live[f]
<1>2. /\ s.op = "seeded" /\ Now = s /\ Fn = f /\ At = p /\ held' = held /\ ctx' = ctx
      /\ block' = block /\ ctr_drbg_init_state' = ctr_drbg_init_state
      /\ stack' = Next1(IF ctr_drbg_init_state = 1 THEN p + 1 ELSE s.to)
  BY <1>1 DEF Decide, Here
<1>3. /\ f = "crypto_unload" /\ p = 1 /\ s.to = 6 /\ Flows(P, T, L, s.to, T[p], L[p])
      /\ Flows(P, T, L, p + 1, T[p], L[p] \cup {"ctr_drbg", "entropy"})
  BY <1>1, <1>2 DEF Here, StepOK
<1>4. block' = K \cup T[p]
  BY <1>1, <1>2 DEF Here
<1>5. CASE ctr_drbg_init_state = 1
  <2>1. \A c \in {"ctr_drbg", "entropy"} : ctx[c] # "raw"
    BY <1>2, <1>3, <1>5 DEF Owns, Seeded
  <2>2. stack' = <<Frame(f, p + 1)>> \o up
    BY <1>1, <1>2, <1>5, NextFrame
  <2>3. After(f, p + 1, up, T[p], L[p] \cup {"ctr_drbg", "entropy"}, K)
    <3>1. /\ FlowsTo(P, T, L, p + 1, T[p], L[p] \cup {"ctr_drbg", "entropy"})
          /\ StepAt(P, p + 1).op = "load" => StepAt(P, p + 1).on = {"mpi_sw_A"}
      BY <1>3 DEF Flows
    <3>2. \A c \in Contexts :
            ctx'[c] = "full" => c \in Contents(K) \cup Statics
                                       \cup (L[p] \cup {"ctr_drbg", "entropy"}) \cup Below(f, up)
      BY <1>1, <1>2 DEF Here
    <3>3. \A c \in Contents(K) \cup (L[p] \cup {"ctr_drbg", "entropy"}) \cup Below(f, up)
                     \cup {"mpi_sw_A"} : ctx'[c] # "raw"
      BY <1>1, <1>2, <2>1 DEF Here
    <3>4. QED
      BY <1>4, <2>2, <3>1, <3>2, <3>3 DEF After
  <2>4. Running' /\ Fn' = f /\ At' = p + 1 /\ Frames' /\ Memory'
    BY <1>1, <1>2, <2>3, Goes
  <2>5. QED
    BY <1>2, <1>3, <2>4 DEF Owns, Types, Seeded
<1>6. CASE ctr_drbg_init_state # 1
  <2>1. stack' = <<Frame(f, s.to)>> \o up
    BY <1>1, <1>2, <1>6, NextFrame
  <2>2. After(f, s.to, up, T[p], L[p], K)
    BY <1>1, <1>2, <1>3, <1>4, <2>1, GoesOn
  <2>3. Running' /\ Frames' /\ Memory'
    BY <1>1, <1>2, <2>2, Goes
  <2>4. QED
    BY <1>2, <1>6, <2>3 DEF Owns, Types, Seeded
<1>7. QED
  BY <1>5, <1>6

\* A generator that fails to be seeded holds nothing.
LEMMA GeneratorOwns ==
  ASSUME Owns, Running, Generator
  PROVE  Owns'
<1>1. PICK f, p, up, K, s : Here(f, p, up, K, s)
  BY IsHere DEF Generator
<1> DEFINE P == Program[f]
           T == Own[f]
           L == Live[f]
<1>2. /\ Now = s /\ Fn = f /\ At = p /\ held' = held /\ block' = block
      /\ stack' = <<Frame(f, p + 1)>> \o up
  <2>1. Now = s /\ Fn = f /\ At = p /\ held' = held /\ block' = block /\ stack' = Next1(p + 1)
    BY <1>1 DEF Generator, Here
  <2>2. QED
    BY <1>1, <2>1, NextFrame
<1>3. {"ctr_drbg", "entropy"} \subseteq Contexts /\ {"ctr_drbg", "entropy"} \subseteq Statics
  BY ContextsAre DEF Statics
<1>4. CASE s.op = "unseed"
  <2>1. f = "crypto_unload" /\ p = 5 /\ Flows(P, T, L, p + 1, T[p], L[p])
    BY <1>1, <1>4 DEF Here, StepOK
  <2>2. block' = K \cup T[p]
    BY <1>1, <1>2, <1>4 DEF Here
  <2>3. ctx' = ctx /\ ctr_drbg_init_state' = 0
    BY <1>2, <1>4 DEF Generator
  <2>4. After(f, p + 1, up, T[p], L[p], K)
    BY <1>1, <1>2, <2>1, <2>2, <2>3, GoesOn
  <2>5. Running' /\ Frames' /\ Memory'
    BY <1>1, <1>2, <2>4, Goes
  <2>6. QED
    BY <1>2, <2>3, <2>5 DEF Owns, Types, Seeded
<1>5. CASE s.op = "drbg"
  <2> DEFINE l == L[p] \cup {"ctr_drbg", "entropy"}
  <2>1. f # "crypto_unload" /\ Flows(P, T, L, p + 1, T[p], l)
    BY <1>1, <1>5 DEF Here, StepOK
  <2>2. block' = K \cup T[p]
    BY <1>1, <1>2, <1>5 DEF Here
  <2>3. /\ \A c \in Contexts : c \in {"ctr_drbg", "entropy"} \/ ctx'[c] = ctx[c]
        /\ \A c \in {"ctr_drbg", "entropy"} : ctx'[c] # "raw"
        /\ ctx' \in [Contexts -> {"raw", "empty", "full"}] /\ ctr_drbg_init_state' \in {0, 1}
    <3>1. CASE ctr_drbg_init_state = 1
      <4>1. ctx' = ctx /\ ctr_drbg_init_state' = ctr_drbg_init_state
        BY <1>2, <1>5, <3>1 DEF Generator
      <4>2. QED
        BY <1>2, <2>1, <3>1, <4>1 DEF Owns, Seeded, Types
    <3>2. CASE ctr_drbg_init_state # 1
      <4>1. PICK v \in {"full", "empty"} : ctx' = Becomes({"ctr_drbg", "entropy"}, v)
        BY <1>2, <1>5, <3>2 DEF Generator
      <4>2. ctr_drbg_init_state' \in {0, 1}
        BY <1>2, <1>5, <3>2 DEF Generator, Owns, Types
      <4>3. \A c \in Contexts : ctx'[c] = IF c \in {"ctr_drbg", "entropy"} THEN v ELSE ctx[c]
        BY <4>1, BecomesIs
      <4>4. ctx' \in [Contexts -> {"raw", "empty", "full"}]
        BY <4>1 DEF Becomes, Owns, Types
      <4>5. QED
        BY <1>3, <4>2, <4>3, <4>4
    <3>3. QED
      BY <3>1, <3>2
  <2>4. After(f, p + 1, up, T[p], l, K)
    <3>1. /\ FlowsTo(P, T, L, p + 1, T[p], l)
          /\ StepAt(P, p + 1).op = "load" => StepAt(P, p + 1).on = {"mpi_sw_A"}
      BY <2>1 DEF Flows
    <3>2. \A c \in Contexts :
            ctx'[c] = "full" => c \in Contents(K) \cup Statics \cup l \cup Below(f, up)
      BY <1>1, <1>3, <2>3 DEF Here
    <3>3. \A c \in Contents(K) \cup l \cup Below(f, up) \cup {"mpi_sw_A"} : ctx'[c] # "raw"
      <4> SUFFICES ASSUME NEW c \in Contents(K) \cup l \cup Below(f, up) \cup {"mpi_sw_A"},
                          c \notin {"ctr_drbg", "entropy"}
                   PROVE  ctx'[c] # "raw"
        BY <2>3
      <4>1. c \in Contexts
        BY <1>1, HereContexts
      <4>2. ctx[c] # "raw"
        BY <1>1 DEF Here
      <4>3. QED
        BY <2>3, <4>1, <4>2
    <3>4. QED
      BY <1>2, <2>2, <3>1, <3>2, <3>3 DEF After
  <2>5. Running' /\ Frames' /\ Memory'
    BY <1>1, <1>2, <2>4, Goes
  <2>6. QED
    BY <1>2, <2>3, <2>5 DEF Owns, Types, Seeded
<1>6. QED
  BY <1>2, <1>4, <1>5 DEF Generator

\* Two frames, one put on the other
LEMMA Pair == ASSUME NEW x, NEW y PROVE <<x>> \o <<y>> = <<x, y>>
<1> DEFINE S == {x, y}
           u == <<x>> \o <<y>>
           v == <<x, y>>
<1>1. <<x>> \in Seq(S) /\ <<y>> \in Seq(S) /\ v \in Seq(S)
  OBVIOUS
<1>2. Len(<<x>>) = 1 /\ Len(<<y>>) = 1 /\ Len(v) = 2
  OBVIOUS
<1>3. <<x>>[1] = x /\ <<y>>[1] = y /\ v[1] = x /\ v[2] = y
  OBVIOUS
<1>4. u \in Seq(S) /\ Len(u) = 2
  BY <1>1, <1>2, ConcatProperties
<1>5. u[1] = x /\ u[2] = y
  BY <1>1, <1>2, <1>3, ConcatProperties
<1> HIDE DEF u, v, S
<1>6. \A i \in 1..2 : u[i] = v[i]
  BY <1>3, <1>5
<1>7. u = v
  BY <1>1, <1>2, <1>4, <1>6, SeqEqual
<1>8. QED
  BY <1>7 DEF u, v

\* A frame below goes on at another step when the one above it is gone.
Move(up, q) == [up EXCEPT ![1].pc = q]

\* It is the frame with that step.
LEMMA Moved ==
  ASSUME NEW g, NEW pc, NEW q, NEW y
  PROVE  /\ Move(<<Frame(g, pc)>>, q) = <<Frame(g, q)>>
         /\ Move(<<Frame(g, pc), y>>, q) = <<Frame(g, q), y>>
<1>1. Move(<<Frame(g, pc)>>, q) = <<Frame(g, q)>>
  BY DEF Frame, Move
<1>2. Move(<<Frame(g, pc), y>>, q) = <<Frame(g, q), y>>
  BY DEF Frame, Move
<1>3. QED
  BY <1>1, <1>2, Zenon

\* What is known of the caller g, at pc above rest, where it waits for f.
Waits(g, pc, f, rest, up) ==
  /\ up \in CallersOf(f) /\ up # <<>> /\ Head(up) = Frame(g, pc)
  /\ \A q : Move(up, q) = <<Frame(g, q)>> \o rest
  /\ Below(f, up) = Live[g][pc] \cup Below(g, rest)
  /\ Len(up) \in Nat \ {0} /\ up[1] = Frame(g, pc)
  /\ \A i \in 1..Len(up) : up[i].fn = g \/ \E j \in 1..Len(rest) : up[i].fn = rest[j].fn
  /\ \A j \in 1..Len(rest) : \E i \in 1..Len(up) : up[i].fn = rest[j].fn

\* The calls of other functions: who calls, what it owns meanwhile, and what is below.
LEMMA SubIs ==
  ASSUME NEW g, NEW pc, NEW f, NEW rest, IsSub(g, pc, f), rest \in CallersOf(g),
         NEW up, up = <<Frame(g, pc)>> \o rest
  PROVE  Waits(g, pc, f, rest, up)
<1>1. CASE \/ g = "crypto_ecdh_init" /\ pc = 2 /\ f = "crypto_mbedtls_keypair_gen"
           \/ g = "crypto_ecdh_init" /\ pc = 3 /\ f = "crypto_ecdh_init2"
           \/ g = "crypto_ecdh_set_peerkey" /\ pc = 5 /\ f = "short_weierstrass_derive_y"
  <2>1. rest = <<>>
    BY <1>1 DEF CallersOf
  <2>2. up = <<Frame(g, pc)>>
    BY <2>1
  <2>3. up \in CallersOf(f)
    BY <1>1, <2>2 DEF CallersOf
  <2>4. Live[g][pc] = Beneath(f)
    <3>1. /\ Live["crypto_ecdh_init"][2] = {"pk"} /\ Live["crypto_ecdh_init"][3] = {"pk"}
          /\ Live["crypto_ecdh_set_peerkey"][5] = {"x"}
      BY DEF Live, peerkeyLive
    <3>2. QED
      BY <1>1, <3>1 DEF Beneath, InEcdhInit, InPeerKey
  <2>5. up # <<>> /\ Head(up) = Frame(g, pc) /\ Len(up) = 1 /\ up[1] = Frame(g, pc)
    BY <2>2
  <2>6. \A q : Move(up, q) = <<Frame(g, q)>>
    <3>1. \A q : Move(<<Frame(g, pc)>>, q) = <<Frame(g, q)>>
      BY Moved
    <3>2. QED
      BY <2>2, <3>1
  <2>7. \A q : <<Frame(g, q)>> \o rest = <<Frame(g, q)>>
    BY <2>1
  <2>8. QED
    BY <2>1, <2>3, <2>4, <2>5, <2>6, <2>7 DEF Below, Frame, Waits
<1>2. CASE g = "short_weierstrass_derive_y" /\ pc = 1 /\ f = "crypto_ec_point_compute_y_sqr"
  <2> DEFINE a(q) == Frame(g, q)
             b == Frame("crypto_ecdh_set_peerkey", 5)
  <2>1. rest = <<b>>
    BY <1>2 DEF CallersOf
  <2> HIDE DEF a, b
  <2>2. \A q : <<a(q)>> \o rest = <<a(q), b>>
    BY <2>1, Pair, Zenon
  <2>3. up = <<a(pc), b>>
    BY <2>2 DEF a
  <2>4. up \in CallersOf(f)
    BY <1>2, <2>3 DEF CallersOf, a, b
  <2>5. up # <<>> /\ Head(up) = a(pc) /\ Len(up) = 2 /\ up[1] = a(pc) /\ up[2] = b
    <3>1. \A x, y : <<x, y>> # <<>> /\ Head(<<x, y>>) = x /\ Len(<<x, y>>) = 2
      OBVIOUS
    <3>2. \A x, y : <<x, y>>[1] = x /\ <<x, y>>[2] = y
      OBVIOUS
    <3>3. QED
      BY <2>3, <3>1, <3>2, Zenon
  <2>6. \A q : Move(up, q) = <<a(q), b>>
    <3>1. \A q : Move(<<a(pc), b>>, q) = <<a(q), b>>
      BY Moved DEF a
    <3>2. QED
      BY <2>3, <3>1
  <2>7. Live[g][pc] = {}
    BY <1>2 DEF Live, derive_yLive
  <2>8. Below(f, up) = {"x"} /\ Below(g, rest) = {"x"}
    BY <1>2, <2>1, <2>5 DEF Below, Beneath, InEcdhInit, InPeerKey
  <2>9. Len(rest) = 1 /\ rest[1] = b
    BY <2>1
  <2>10. /\ \A i \in 1..Len(up) : up[i].fn = g \/ up[i].fn = rest[1].fn
         /\ \A j \in 1..Len(rest) : up[2].fn = rest[j].fn
    BY <2>5, <2>9 DEF a, Frame
  <2>11. QED
    BY <2>2, <2>4, <2>5, <2>6, <2>7, <2>8, <2>9, <2>10 DEF a, Frame, Waits
<1>3. QED
  BY <1>1, <1>2 DEF IsSub

\* Neither is an object's own function, the callee makes what its caller may make, and a
\* callee of crypto_ecdh_set_peerkey's is known as such.
LEMMA SubFns ==
  ASSUME NEW g, NEW pc, NEW f, IsSub(g, pc, f)
  PROVE  /\ g \in Fns /\ f \in Fns /\ g \notin Blocks /\ f \notin Blocks /\ f \notin Peers
         /\ g # "crypto_unload" /\ f # "crypto_unload" /\ Makes(f) \subseteq Makes(g)
         /\ f \in InPeerKey <=> g \in Peers \cup InPeerKey
         /\ g \in InPeerKey <=> g = "short_weierstrass_derive_y"
         /\ pc \in 1..Len(Program[g]) /\ Program[g][pc].op = "sub" /\ Program[g][pc].on = {f}
<1>1. /\ g \in Fns /\ f \in Fns /\ g \notin Blocks /\ f \notin Blocks /\ f \notin Peers
      /\ g # "crypto_unload" /\ f # "crypto_unload"
      /\ f \in InPeerKey <=> g \in Peers \cup InPeerKey
      /\ g \in InPeerKey <=> g = "short_weierstrass_derive_y"
  BY DEF IsSub, Fns, Program, Blocks, Inside, Peers, InPeerKey
<1>2. Makes(f) \subseteq Makes(g)
  BY DEF IsSub, Makes, Result, Makers, Blocks, Inside
<1>3. pc \in 1..Len(Program[g]) /\ Program[g][pc].op = "sub" /\ Program[g][pc].on = {f}
  <2>1. /\ Program["crypto_ecdh_init"] = crypto_ecdh_init
        /\ Program["crypto_ecdh_set_peerkey"] = crypto_ecdh_set_peerkey
        /\ Program["short_weierstrass_derive_y"] = short_weierstrass_derive_y
    BY DEF Program
  <2>2. \A h, to : Sub(h, to).op = "sub" /\ Sub(h, to).on = {h}
    BY DEF Sub
  <2>3. /\ Len(crypto_ecdh_init) = 6 /\ crypto_ecdh_init[2] = Sub("crypto_mbedtls_keypair_gen", 6)
        /\ crypto_ecdh_init[3] = Sub("crypto_ecdh_init2", 6)
    BY DEF crypto_ecdh_init
  <2>4. /\ Len(crypto_ecdh_set_peerkey) = 15
        /\ crypto_ecdh_set_peerkey[5] = Sub("short_weierstrass_derive_y", 13)
    BY DEF crypto_ecdh_set_peerkey
  <2>5. /\ Len(short_weierstrass_derive_y) = 15
        /\ short_weierstrass_derive_y[1] = Sub("crypto_ec_point_compute_y_sqr", 16)
    BY DEF short_weierstrass_derive_y
  <2>6. CASE g = "crypto_ecdh_init" /\ pc = 2 /\ f = "crypto_mbedtls_keypair_gen"
    BY <2>1, <2>2, <2>3, <2>6
  <2>7. CASE g = "crypto_ecdh_init" /\ pc = 3 /\ f = "crypto_ecdh_init2"
    BY <2>1, <2>2, <2>3, <2>7
  <2>8. CASE g = "crypto_ecdh_set_peerkey" /\ pc = 5 /\ f = "short_weierstrass_derive_y"
    <3>1. /\ Program[g] = crypto_ecdh_set_peerkey
          /\ Program[g][pc] = Sub("short_weierstrass_derive_y", 13)
      BY <2>1, <2>4, <2>8
    <3>2. QED
      BY <2>2, <2>4, <2>8, <3>1
  <2>9. CASE g = "short_weierstrass_derive_y" /\ pc = 1 /\ f = "crypto_ec_point_compute_y_sqr"
    BY <2>1, <2>2, <2>5, <2>9
  <2>10. QED
    BY <2>6, <2>7, <2>8, <2>9 DEF IsSub
<1>4. QED
  BY <1>1, <1>2, <1>3

\* How a function begins.
LEMMA FirstStep ==
  ASSUME NEW f \in Fns
  PROVE  /\ FlowsTo(Program[f], Own[f], Live[f], 1, Own[f][1], Live[f][1])
         /\ StepAt(Program[f], 1).op # "load"
         /\ Own[f][1] = (IF f \in Blocks THEN {f} ELSE {}) /\ Live[f][1] = Contents(Own[f][1])
<1> DEFINE P == Program[f]
           T == Own[f]
           L == Live[f]
<1>1. Outline(f, P, T, L)
  BY Outlined
<1> HIDE DEF P, T, L
<1>2. /\ Len(P) \in Nat \ {0} /\ P[1].op # "load"
      /\ T[1] = (IF f \in Blocks THEN {f} ELSE {}) /\ L[1] = Contents(T[1])
  BY <1>1 DEF Outline
<1>3. StepAt(P, 1) = P[1]
  BY <1>2 DEF StepAt
<1>4. FlowsTo(P, T, L, 1, T[1], L[1])
  BY <1>2 DEF FlowsTo
<1>5. QED
  BY <1>2, <1>3, <1>4 DEF P, T, L

\* A function that is called has nothing yet; what its caller owns is below it.
LEMMA SubOwns ==
  ASSUME Owns, Running, Decide, Now.op = "sub"
  PROVE  Owns'
<1>1. PICK f, p, up, K, s : Here(f, p, up, K, s)
  BY IsHere
<1>0. PICK st : st = <<Frame(f, p)>> \o up
  OBVIOUS
<1>2. /\ s.op = "sub" /\ Now = s /\ Fn = f /\ At = p /\ held' = held /\ ctx' = ctx
      /\ block' = block /\ ctr_drbg_init_state' = ctr_drbg_init_state /\ stack = st
  BY <1>0, <1>1 DEF Decide, Here
<1>3. PICK g \in s.on : stack' = <<Frame(g, 1)>> \o st
  BY <1>2 DEF Decide, Frame
<1>4. Own[f][p] = {} /\ IsSub(f, p, g)
  BY <1>1, <1>2, <1>3 DEF Here, StepOK
<1>5. /\ f \in Fns /\ up \in CallersOf(f) /\ K = held \ {f} /\ Makes(f) \cap K = {}
      /\ \A i \in 1..Len(up) : Makes(up[i].fn) \cap K = {}
      /\ f \in Peers \/ (f \in InPeerKey /\ up # <<>>) => "ecdh" \in K
  BY <1>1 DEF Here
<1>6. /\ g \in Fns /\ g \notin Blocks /\ f \notin Blocks /\ g \notin Peers
      /\ f # "crypto_unload" /\ g # "crypto_unload" /\ Makes(g) \subseteq Makes(f)
      /\ g \in InPeerKey => f \in Peers \/ f = "short_weierstrass_derive_y"
  BY <1>4, SubFns
<1>7. /\ st \in CallersOf(g) /\ Below(g, st) = Live[f][p] \cup Below(f, up)
      /\ \A i \in 1..Len(st) : st[i].fn = f \/ \E j \in 1..Len(up) : st[i].fn = up[j].fn
  <2>1. Waits(f, p, g, up, st)
    BY <1>0, <1>4, <1>5, SubIs
  <2>2. QED
    BY <2>1 DEF Waits
<1>8. K = held' \ {g} /\ Makes(g) \cap K = {}
      /\ \A i \in 1..Len(st) : Makes(st[i].fn) \cap K = {}
  BY <1>2, <1>5, <1>6, <1>7 DEF Owns, Types
<1>9. g \in Peers \/ (g \in InPeerKey /\ st # <<>>) => "ecdh" \in K
  <2>1. f = "short_weierstrass_derive_y" => f \in InPeerKey /\ up # <<>>
    BY <1>5 DEF CallersOf, InPeerKey
  <2>2. QED
    BY <1>5, <1>6, <2>1
<1>10. After(g, 1, st, {}, {}, K)
  <2>1. Own[g][1] = {} /\ Live[g][1] = {}
    BY <1>6, FirstStep, ContentsAre
  <2>2. /\ FlowsTo(Program[g], Own[g], Live[g], 1, {}, {})
        /\ StepAt(Program[g], 1).op # "load"
    BY <1>6, <2>1, FirstStep
  <2>3. block' = K \cup {}
    BY <1>1, <1>2, <1>4 DEF Here
  <2>4. /\ \A c \in Contexts :
             ctx'[c] = "full" => c \in Contents(K) \cup Statics \cup {} \cup Below(g, st)
        /\ \A c \in Contents(K) \cup {} \cup Below(g, st) \cup {"mpi_sw_A"} : ctx'[c] # "raw"
    BY <1>1, <1>2, <1>7 DEF Here
  <2>5. QED
    BY <1>3, <2>2, <2>3, <2>4 DEF After
<1>11. Running' /\ Fn' = g /\ Frames' /\ Memory'
  BY <1>6, <1>7, <1>8, <1>9, <1>10, Arrive
<1>12. Types' /\ Seeded'
  BY <1>2, <1>6, <1>11 DEF Owns, Types, Seeded
<1>13. QED
  BY <1>11, <1>12 DEF Owns

\* What a caller does next has no bearing on what is owned, but for the calls.
LEMMA DecideOwns ==
  ASSUME Owns, Running, Decide
  PROVE  Owns'
BY CheckOwns, IfSeededOwns, SubOwns DEF Decide

\* Where f ends, with t what it leaves, it owns nothing else.
EndsWith(f, up, K, t) ==
  /\ f \in Fns /\ up \in CallersOf(f) /\ K = held \ {f} /\ Fn = f /\ Tail(stack) = up
  /\ t = (IF Now.op = "return" THEN Result(f) ELSE {}) /\ block = K \cup t
  /\ Makes(f) \cap K = {} /\ (\A i \in 1..Len(up) : Makes(up[i].fn) \cap K = {})
  /\ f \in Peers \/ (f \in InPeerKey /\ up # <<>>) => "ecdh" \in K
  /\ \A c \in Contexts :
       ctx[c] = "full" => c \in Contents(K) \cup Statics \cup Contents(t) \cup Below(f, up)
  /\ \A c \in Contents(K) \cup Contents(t) \cup Below(f, up) \cup {"mpi_sw_A"} : ctx[c] # "raw"
  /\ ctr_drbg_init_state = 1 => \A c \in {"ctr_drbg", "entropy"} : ctx[c] # "raw"

\* A function that ends, by a return or by running off, has come to such a place.
LEMMA EndsSo ==
  ASSUME Owns, Running, Now.op \in {"return", "fail"}
  PROVE  \E f, up, K, t : EndsWith(f, up, K, t)
<1>1. PICK f, p, up, K, t : /\ f = Fn /\ p = At /\ up = Tail(stack) /\ K = Kept
                            /\ t = (IF Now.op = "return" THEN Result(f) ELSE {})
  OBVIOUS
<1>2. f \in Fns /\ up \in CallersOf(f) /\ p \in 1..PastEnd(f) /\ K = held \ {f}
  BY <1>1 DEF Owns, Frames, Kept
<1> DEFINE P == Program[f]
           T == Own[f]
           L == Live[f]
<1>3. Outline(f, P, T, L)
  BY <1>2, Outlined
<1>4. Now = (IF p > Len(P) THEN Fail ELSE P[p]) /\ p \in 1..(Len(P) + 1)
  BY <1>1, <1>2 DEF Now, PastEnd
<1>5. f = "crypto_unload" => Len(P) = 5
  BY DEF Program, crypto_unload
<1> HIDE DEF P, T, L
<1>6. T[p] = t /\ L[p] = Contents(t) /\ (f = "crypto_unload" => p \notin 2..5)
  <2>1. Len(P) \in Nat
    BY <1>3 DEF Outline
  <2>2. CASE p > Len(P)
    <3>1. p = Len(P) + 1 /\ Now = Fail
      BY <1>4, <2>1, <2>2
    <3>2. T[p] = {} /\ L[p] = {}
      BY <1>3, <3>1 DEF Outline
    <3>3. t = {} /\ Contents(t) = {}
      BY <1>1, <3>1, ContentsAre DEF Fail
    <3>4. QED
      BY <1>5, <3>1, <3>2, <3>3
  <2>3. CASE ~(p > Len(P))
    <3>1. p \in 1..Len(P) /\ Now = P[p]
      BY <1>4, <2>1, <2>3
    <3>2. StepOK(f, P, T, L, p)
      BY <1>3, <3>1 DEF Outline
    <3>3. f # "crypto_unload"
      BY <3>1, <3>2 DEF StepOK
    <3>4. CASE Now.op = "return"
      BY <1>1, <3>1, <3>2, <3>3, <3>4 DEF StepOK
    <3>5. CASE Now.op = "fail"
      <4>1. T[p] = {} /\ L[p] = {}
        BY <3>1, <3>2, <3>5 DEF StepOK
      <4>2. t = {}
        BY <1>1, <3>5
      <4>3. QED
        BY <3>3, <4>1, <4>2, ContentsAre
    <3>6. QED
      BY <3>4, <3>5
  <2>4. QED
    BY <2>2, <2>3
<1>7. /\ Makes(f) \cap K = {} /\ (\A i \in 1..Len(up) : Makes(up[i].fn) \cap K = {})
      /\ f \in Peers \/ (f \in InPeerKey /\ up # <<>>) => "ecdh" \in K
  BY <1>1 DEF Owns, Frames
<1>8. Lives = L[p] \cup Below(f, up) /\ (IF Running THEN Own[Fn][At] ELSE {}) = T[p]
  BY <1>1 DEF Lives, L, T
<1>9. /\ block = K \cup t
      /\ \A c \in Contexts :
           ctx[c] = "full" => c \in Contents(K) \cup Statics \cup (Contents(t) \cup Below(f, up))
      /\ \A c \in Contents(K) \cup (Contents(t) \cup Below(f, up)) \cup {"mpi_sw_A"} :
           ctx[c] # "raw"
  <2>1. Now.op # "dealloc"
    OBVIOUS
  <2>2. QED
    BY <1>1, <1>6, <1>8, <2>1 DEF Owns, Memory
<1>10. ctr_drbg_init_state = 1 => \A c \in {"ctr_drbg", "entropy"} : ctx[c] # "raw"
  BY <1>1, <1>6 DEF Owns, Seeded
<1>11. EndsWith(f, up, K, t)
  BY <1>1, <1>2, <1>7, <1>9, <1>10 DEF EndsWith
<1>12. QED
  BY <1>11

\* Who waits for a function waits at a call of it.
LEMMA UpIs ==
  ASSUME NEW f \in Fns, NEW up \in CallersOf(f), up # <<>>
  PROVE  \E g, pc, rest : Waits(g, pc, f, rest, up) /\ IsSub(g, pc, f) /\ rest \in CallersOf(g)
<1>1. \A x : <<x>> \o <<>> = <<x>>
  OBVIOUS
<1>2. /\ <<>> \in CallersOf("crypto_ecdh_init") /\ <<>> \in CallersOf("crypto_ecdh_set_peerkey")
      /\ <<Frame("crypto_ecdh_set_peerkey", 5)>> \in CallersOf("short_weierstrass_derive_y")
  BY DEF CallersOf
<1>3. \E g, pc, rest : /\ IsSub(g, pc, f) /\ rest \in CallersOf(g)
                       /\ up = <<Frame(g, pc)>> \o rest
  <2>1. CASE f = "crypto_mbedtls_keypair_gen"
    <3>1. up = <<Frame("crypto_ecdh_init", 2)>> \o <<>>
      BY <1>1, <2>1 DEF CallersOf
    <3>2. QED
      BY <1>2, <2>1, <3>1 DEF IsSub
  <2>2. CASE f = "crypto_ecdh_init2"
    <3>1. up = <<Frame("crypto_ecdh_init", 3)>> \o <<>>
      BY <1>1, <2>2 DEF CallersOf
    <3>2. QED
      BY <1>2, <2>2, <3>1 DEF IsSub
  <2>3. CASE f = "short_weierstrass_derive_y"
    <3>1. up = <<Frame("crypto_ecdh_set_peerkey", 5)>> \o <<>>
      BY <1>1, <2>3 DEF CallersOf
    <3>2. QED
      BY <1>2, <2>3, <3>1 DEF IsSub
  <2>4. CASE f = "crypto_ec_point_compute_y_sqr"
    <3>1. up = <<Frame("short_weierstrass_derive_y", 1), Frame("crypto_ecdh_set_peerkey", 5)>>
      BY <2>4 DEF CallersOf
    <3>2. up = <<Frame("short_weierstrass_derive_y", 1)>> \o <<Frame("crypto_ecdh_set_peerkey", 5)>>
      BY <3>1, Pair
    <3>3. QED
      BY <1>2, <2>4, <3>2 DEF IsSub
  <2>5. QED
    BY <2>1, <2>2, <2>3, <2>4 DEF CallersOf
<1>4. PICK g, pc, rest : /\ IsSub(g, pc, f) /\ rest \in CallersOf(g)
                         /\ up = <<Frame(g, pc)>> \o rest
  BY <1>3
<1>5. Waits(g, pc, f, rest, up)
  BY <1>4, SubIs
<1>6. QED
  BY <1>4, <1>5

\* What is left when the last function ends is in the caller's hands.
LEMMA LastOwns ==
  ASSUME Owns, Running, Finish, Tail(stack) = <<>>
  PROVE  Owns'
<1>1. PICK f, up, K, t : EndsWith(f, up, K, t)
  BY EndsSo DEF Finish
<1>2. /\ f \in Fns /\ K = held \ {f} /\ Fn = f /\ up = <<>> /\ <<>> \in CallersOf(f)
      /\ t = (IF Now.op = "return" THEN Result(f) ELSE {})
      /\ block = K \cup t
  BY <1>1 DEF EndsWith
<1>3. /\ stack' = <<>> /\ block' = block /\ ctx' = ctx
      /\ ctr_drbg_init_state' = ctr_drbg_init_state
      /\ held' = IF f \in held THEN held \ {f}
                 ELSE IF Now.op = "return" /\ f \in DOMAIN Makers THEN held \cup {Makers[f]}
                 ELSE held
  BY <1>2 DEF Finish
<1>4. held' = K \cup t
  <2>1. f \in Blocks => Result(f) = {}
    BY DEF Result, Blocks, Inside, Makers
  <2>2. f \in held => f \in Blocks
    BY DEF Owns, Types
  <2>3. f # "crypto_ecdh_init2"
    BY <1>2 DEF CallersOf
  <2>4. Result(f) = (IF f \in DOMAIN Makers THEN {Makers[f]} ELSE {})
    BY <2>3 DEF Result
  <2>5. CASE f \in held
    BY <1>2, <1>3, <2>1, <2>2, <2>5
  <2>6. CASE f \notin held
    BY <1>2, <1>3, <2>4, <2>6
  <2>7. QED
    BY <2>5, <2>6
<1>5. ~Running' /\ Kept' = held' /\ Lives' = {}
  BY <1>3 DEF Running, Kept, Lives
<1>6. Types'
  BY <1>2, <1>3, <1>4 DEF Owns, Types
<1>7. Frames' /\ Seeded'
  BY <1>1, <1>3, <1>5 DEF Frames, Seeded, EndsWith
<1>8. Memory'
  <2>1. Below(f, up) = {}
    BY <1>2 DEF Below
  <2>2. Contents(held') = Contents(K) \cup Contents(t)
    BY <1>4, ContentsApart
  <2>3. /\ block' = held'
        /\ \A c \in Contexts : ctx'[c] = "full" => c \in Contents(held') \cup Statics
        /\ \A c \in Contents(held') \cup {"mpi_sw_A"} : ctx'[c] # "raw"
    BY <1>1, <1>2, <1>3, <1>4, <2>1, <2>2 DEF EndsWith
  <2>4. QED
    BY <1>5, <2>3 DEF Memory
<1>9. QED
  BY <1>6, <1>7, <1>8 DEF Owns

\* What is left when a function that was called ends is its caller's.
LEMMA BackOwns ==
  ASSUME Owns, Running, Finish, Tail(stack) # <<>>
  PROVE  Owns'
<1>1. PICK f, up, K, t : EndsWith(f, up, K, t)
  BY EndsSo DEF Finish
<1>2. /\ f \in Fns /\ up \in CallersOf(f) /\ K = held \ {f} /\ Fn = f /\ up = Tail(stack)
      /\ t = (IF Now.op = "return" THEN Result(f) ELSE {})
      /\ block = K \cup t /\ up # <<>>
      /\ \A i \in 1..Len(up) : Makes(up[i].fn) \cap K = {}
      /\ f \in InPeerKey /\ up # <<>> => "ecdh" \in K
  BY <1>1 DEF EndsWith
<1>3. PICK g, pc, rest : Waits(g, pc, f, rest, up) /\ IsSub(g, pc, f) /\ rest \in CallersOf(g)
  BY <1>2, UpIs
<1> DEFINE P == Program[g]
           T == Own[g]
           L == Live[g]
           q == IF Now.op = "return" THEN pc + 1 ELSE P[pc].to
           l == L[pc] \cup Contents(t)
<1>4. /\ g \in Fns /\ g \notin Blocks /\ f \notin Blocks /\ g # "crypto_unload"
      /\ g \in Peers \cup InPeerKey => f \in InPeerKey
      /\ pc \in 1..Len(P) /\ P[pc].op = "sub" /\ P[pc].on = {f}
  BY <1>3, SubFns
<1>5. /\ held' = held /\ block' = block /\ ctx' = ctx
      /\ ctr_drbg_init_state' = ctr_drbg_init_state
  BY <1>2 DEF Finish
<1>6. stack' = <<Frame(g, q)>> \o rest
  <2>1. stack' = [up EXCEPT ![1].pc = IF Now.op = "return" THEN @ + 1
                                      ELSE Program[Head(up).fn][@].to]
    BY <1>2 DEF Finish
  <2>2. up[1].pc = pc /\ Head(up).fn = g
    BY <1>3 DEF Waits, Frame
  <2>3. stack' = Move(up, q)
    BY <2>1, <2>2 DEF Move
  <2>4. QED
    BY <1>3, <2>3 DEF Waits
<1>7. Flows(P, T, L, q, t, l)
  <2>1. StepOK(g, P, T, L, pc)
    BY <1>4, Outlined DEF Outline
  <2> HIDE DEF P, T, L
  <2>2. /\ Flows(P, T, L, pc + 1, Result(f), L[pc] \cup Contents(Result(f)))
        /\ Flows(P, T, L, P[pc].to, {}, L[pc])
    BY <1>4, <2>1 DEF StepOK
  <2>3. L[pc] \cup Contents({}) = L[pc]
    BY ContentsAre
  <2>4. QED
    BY <1>2, <2>2, <2>3
<1> HIDE DEF q
<1>8. After(g, q, rest, t, l, K)
  <2>1. Below(f, up) = L[pc] \cup Below(g, rest)
    BY <1>3 DEF Waits
  <2>2. /\ FlowsTo(P, T, L, q, t, l)
        /\ StepAt(P, q).op = "load" => StepAt(P, q).on = {"mpi_sw_A"}
    BY <1>7 DEF Flows
  <2>3. /\ \A c \in Contexts :
             ctx'[c] = "full" => c \in Contents(K) \cup Statics \cup l \cup Below(g, rest)
        /\ \A c \in Contents(K) \cup l \cup Below(g, rest) \cup {"mpi_sw_A"} : ctx'[c] # "raw"
    BY <1>1, <1>5, <2>1 DEF EndsWith
  <2>4. QED
    BY <1>2, <1>5, <1>6, <2>2, <2>3 DEF After
<1>9. /\ K = held' \ {g} /\ Makes(g) \cap K = {}
      /\ \A i \in 1..Len(rest) : Makes(rest[i].fn) \cap K = {}
      /\ g \in Peers \/ (g \in InPeerKey /\ rest # <<>>) => "ecdh" \in K
  <2>1. K = held' \ {g}
    BY <1>2, <1>4, <1>5 DEF Owns, Types
  <2>2. Makes(g) \cap K = {}
    <3>1. 1 \in 1..Len(up) /\ up[1].fn = g
      BY <1>3 DEF Waits, Frame
    <3>2. QED
      BY <1>2, <3>1
  <2>3. \A i \in 1..Len(rest) : Makes(rest[i].fn) \cap K = {}
    BY <1>2, <1>3 DEF Waits
  <2>4. QED
    BY <1>2, <1>4, <2>1, <2>2, <2>3
<1>10. Running' /\ Fn' = g /\ Frames' /\ Memory'
  BY <1>3, <1>4, <1>8, <1>9, Arrive
<1>11. Types'
  BY <1>5 DEF Owns, Types
<1>12. Seeded'
  BY <1>1, <1>4, <1>5, <1>10 DEF Seeded, EndsWith
<1>13. QED
  BY <1>10, <1>11, <1>12 DEF Owns

\* A caller begins a function with what it has.
LEMMA BeginOwns ==
  ASSUME Owns, Begin
  PROVE  Owns'
<1>1. PICK f \in DOMAIN Makers \cup Others \cup held :
        /\ f \in DOMAIN Makers => Makers[f] \notin held
        /\ f \in Peers => "ecdh" \in held
        /\ f = "crypto_ecdh_set_peerkey" => "y2" \notin held
        /\ stack' = <<Frame(f, 1)>>
  BY DEF Begin, Peers, Frame
<1>2. /\ ~Running /\ held' = held /\ block' = block /\ ctx' = ctx
      /\ ctr_drbg_init_state' = ctr_drbg_init_state
  BY DEF Begin
<1>3. held \subseteq Blocks /\ Kept = held /\ Lives = {}
  BY <1>2 DEF Owns, Types, Kept, Lives
<1>4. f \in DOMAIN Makers \cup Others \cup Blocks
  BY <1>1, <1>3
<1>5. /\ f \in Fns /\ <<>> \in CallersOf(f)
      /\ f \in Blocks => f \notin DOMAIN Makers \cup Others \cup Peers
      /\ f # "crypto_ecdh_init2" /\ f # "short_weierstrass_derive_y"
  <2>1. f \notin {"crypto_mbedtls_keypair_gen", "crypto_ecdh_init2", "short_weierstrass_derive_y"}
    BY <1>4 DEF Makers, Others, Blocks, Inside
  <2>2. <<>> \in CallersOf(f)
    BY <2>1 DEF CallersOf
  <2>3. f \in Fns
    BY <1>4 DEF Fns, Program, Makers, Others, Blocks, Inside
  <2>4. f \in Blocks => f \notin DOMAIN Makers \cup Others \cup Peers
    BY DEF Makers, Others, Blocks, Inside, Peers
  <2>5. QED
    BY <2>1, <2>2, <2>3, <2>4
<1>6. PICK K, t : K = held \ {f} /\ t = Own[f][1]
  OBVIOUS
<1>7. /\ FlowsTo(Program[f], Own[f], Live[f], 1, t, Contents(t))
      /\ StepAt(Program[f], 1).op # "load" /\ t = (IF f \in Blocks THEN {f} ELSE {})
  BY <1>5, <1>6, FirstStep
<1>8. held = K \cup t
  <2>1. f \in Blocks <=> f \in held
    BY <1>1, <1>3, <1>5
  <2>2. QED
    BY <1>6, <1>7, <2>1
<1>9. Contents(held) = Contents(K) \cup Contents(t)
  BY <1>8, ContentsApart
<1>10. /\ block = held
       /\ \A c \in Contexts : ctx[c] = "full" => c \in Contents(held) \cup Statics
       /\ \A c \in Contents(held) \cup {"mpi_sw_A"} : ctx[c] # "raw"
  BY <1>2, <1>3 DEF Owns, Memory
<1>11. After(f, 1, <<>>, t, Contents(t), K)
  <2>1. stack' = <<Frame(f, 1)>> \o <<>>
    BY <1>1
  <2>2. Below(f, <<>>) = {}
    BY DEF Below
  <2>3. /\ \A c \in Contexts :
             ctx'[c] = "full" => c \in Contents(K) \cup Statics \cup Contents(t) \cup Below(f, <<>>)
        /\ \A c \in Contents(K) \cup Contents(t) \cup Below(f, <<>>) \cup {"mpi_sw_A"} :
             ctx'[c] # "raw"
    BY <1>2, <1>9, <1>10, <2>2
  <2>4. QED
    BY <1>2, <1>7, <1>8, <1>10, <2>1, <2>3 DEF After
<1>12. Makes(f) \cap K = {}
  <2>1. CASE f \in Blocks
    <3>1. Result(f) = {} /\ Makes(f) = {f}
      BY <1>5, <2>1 DEF Makes, Result, Peers
    <3>2. QED
      BY <1>6, <3>1
  <2>2. CASE f = "crypto_ecdh_set_peerkey"
    <3>1. Makes(f) = {"wpabuf", "y2"} /\ Makers[f] = "wpabuf" /\ f \in DOMAIN Makers
      BY <2>2 DEF Makes, Result, Makers, Blocks, Inside
    <3>2. QED
      BY <1>1, <1>6, <2>2, <3>1
  <2>3. CASE f \notin Blocks /\ f # "crypto_ecdh_set_peerkey"
    <3>1. Makes(f) = (IF f \in DOMAIN Makers THEN {Makers[f]} ELSE {})
      BY <1>5, <2>3 DEF Makes, Result
    <3>2. QED
      BY <1>1, <1>6, <3>1
  <2>4. QED
    BY <2>1, <2>2, <2>3
<1>13. f \in Peers => "ecdh" \in K
  BY <1>1, <1>5, <1>6 DEF Peers, Blocks, Inside
<1>14. Running' /\ Fn' = f /\ Frames' /\ Memory'
  <2>1. K = held' \ {f} /\ \A i \in 1..Len(<<>>) : Makes(<<>>[i].fn) \cap K = {}
    BY <1>2, <1>6
  <2>2. f \in Peers \/ (f \in InPeerKey /\ <<>> # <<>>) => "ecdh" \in K
    BY <1>13
  <2>3. QED
    BY <1>5, <1>11, <1>12, <2>1, <2>2, Arrive
<1>15. Types'
  BY <1>2 DEF Owns, Types
<1>16. Seeded'
  BY <1>2 DEF Owns, Seeded
<1>17. QED
  BY <1>14, <1>15, <1>16 DEF Owns

-----------------------------------------------------------------------------
(* Every step keeps to what is owned, and so no object is lost or misused *)

\* The caller begins with nothing in its hands.
LEMMA InitOwns == InitObjects => Owns
<1> SUFFICES ASSUME InitObjects
             PROVE  Owns
  OBVIOUS
<1>1. ~Running /\ Kept = {} /\ Lives = {}
  BY DEF InitObjects, Running, Kept, Lives
<1>2. "mpi_sw_A" \in Contexts /\ "mpi_sw_A" \in Statics
  BY ContextsAre DEF Statics
<1>3. /\ \A c \in Contexts : ctx[c] = "full" => c \in Contents({}) \cup Statics
      /\ \A c \in Contents({}) \cup {"mpi_sw_A"} : ctx[c] # "raw"
  BY <1>2, ContentsAre DEF InitObjects
<1>4. Types /\ Seeded
  BY DEF InitObjects, Types, Seeded
<1>5. QED
  BY <1>1, <1>3, <1>4 DEF Owns, Frames, Memory, InitObjects

\* No step, in whatever function and whichever way it goes, leaves the outline.
LEMMA NextOwns == Owns /\ [ObjectsNext]_ovars => Owns'
<1>1. ASSUME Owns, Begin
      PROVE  Owns'
  BY <1>1, BeginOwns
<1>2. ASSUME Owns, Running, Allocate
      PROVE  Owns'
  BY <1>2, AllocateOwns
<1>3. ASSUME Owns, Running, Deallocate
      PROVE  Owns'
  BY <1>3, DeallocateOwns
<1>4. ASSUME Owns, Running, UseContext
      PROVE  Owns'
  BY <1>4, UseContextOwns
<1>5. ASSUME Owns, Running, Decide
      PROVE  Owns'
  BY <1>5, DecideOwns
<1>6. ASSUME Owns, Running, Generator
      PROVE  Owns'
  BY <1>6, GeneratorOwns
<1>7. ASSUME Owns, Running, Finish
      PROVE  Owns'
  BY <1>7, LastOwns, BackOwns
<1>8. ASSUME Owns, UNCHANGED ovars
      PROVE  Owns'
  <2>1. /\ stack' = stack /\ block' = block /\ ctx' = ctx /\ held' = held
        /\ ctr_drbg_init_state' = ctr_drbg_init_state
    BY <1>8 DEF ovars
  <2>2. Running' = Running /\ Fn' = Fn /\ At' = At /\ Now' = Now
    BY <2>1 DEF Running, Fn, At, Now
  <2>3. Kept' = Kept /\ Lives' = Lives
    BY <2>1, <2>2 DEF Kept, Lives
  <2>4. Types' /\ Seeded'
    BY <1>8, <2>1, <2>2 DEF Owns, Types, Seeded
  <2>5. Frames'
    BY <1>8, <2>1, <2>2, <2>3 DEF Owns, Frames
  <2>6. Memory'
    BY <1>8, <2>1, <2>2, <2>3 DEF Owns, Memory
  <2>7. QED
    BY <2>4, <2>5, <2>6 DEF Owns
<1>9. QED
  BY <1>1, <1>2, <1>3, <1>4, <1>5, <1>6, <1>7, <1>8 DEF ObjectsNext

\* A step finds a block free where it takes one, a context without memory where it
\* initialises one or gives back its block, and an initialised one where it uses or frees it.
LEMMA OwnsSafe == Owns => SafeUse
<1> SUFFICES ASSUME Owns, Running, Now.op # "fail"
             PROVE  SafeUse
  BY DEF SafeUse
<1>1. PICK f, p, up, K, s : Here(f, p, up, K, s)
  BY IsHere
<1>2. StepOK(f, Program[f], Own[f], Live[f], p) /\ s = Program[f][p] /\ Now = s
  BY <1>1 DEF Here
<1>3. /\ Contents(K) \subseteq Contexts /\ Live[f][p] \subseteq Contexts
      /\ Below(f, up) \subseteq Contexts /\ Statics \subseteq Contexts /\ K \subseteq Blocks
  BY <1>1, HereContexts
<1>4. Own[f][p] \subseteq Makes(f) /\ Makes(f) \subseteq Blocks /\ Makes(f) \cap K = {}
  BY <1>1, <1>2, MakesBlocks DEF Here, StepOK
<1>5. ASSUME s.op = "malloc"
      PROVE  s.on \cap block = {}
  <2>1. Own[f][p] = {} /\ s.on \subseteq Makes(f)
    BY <1>2, <1>5 DEF StepOK
  <2>2. block = K
    BY <1>1, <1>5, <2>1 DEF Here
  <2>3. QED
    BY <1>4, <2>1, <2>2
<1>6. ASSUME s.op = "init", NEW c \in s.on
      PROVE  ctx[c] # "full"
  <2>1. /\ s.on \subseteq Locals \cup Contents(Own[f][p])
        /\ s.on \cap (Live[f][p] \cup Beneath(f)) = {}
    BY <1>2, <1>6 DEF StepOK
  <2>2. c \notin Contents(K) \cup Statics \cup Live[f][p] \cup Below(f, up) /\ c \in Contexts
    <3>1. Own[f][p] \subseteq Blocks /\ Own[f][p] \cap K = {}
      BY <1>4
    <3>2. c \notin Contents(K) \cup Statics /\ c \in Contexts
      BY <1>3, <1>6, <2>1, <3>1, ContentsApart
    <3>3. c \notin Live[f][p] \cup Below(f, up)
      BY <1>6, <2>1, BeneathLocals
    <3>4. QED
      BY <3>2, <3>3
  <2>3. QED
    BY <1>1, <2>2 DEF Here
<1>7. ASSUME s.op = "dealloc", NEW b \in s.on, NEW c \in Inside[b]
      PROVE  ctx[c] # "full"
  <2>1. Own[f][p] = s.on /\ Contents(s.on) \cap Live[f][p] = {} /\ c \in Contents(s.on)
    BY <1>2, <1>7 DEF StepOK, Contents
  <2>2. s.on \subseteq Blocks /\ s.on \cap K = {}
    BY <1>4, <2>1
  <2>3. Contents(s.on) \cap (Contents(K) \cup Statics \cup Below(f, up)) = {} /\ c \in Contexts
    BY <1>3, <2>1, <2>2, ContentsApart, BeneathLocals
  <2>4. QED
    BY <1>1, <2>1, <2>3 DEF Here
<1>8. ASSUME s.op \in {"load", "call", "free"}, NEW c \in s.on
      PROVE  ctx[c] # "raw"
  <2>1. s.on \subseteq Live[f][p] \cup Given(f) \cup {"mpi_sw_A"}
    BY <1>2, <1>8 DEF StepOK
  <2>2. Given(f) \subseteq Contents(K) \cup Below(f, up) \cup {"mpi_sw_A"}
    BY <1>1, GivenIs
  <2>3. QED
    BY <1>1, <1>8, <2>1, <2>2 DEF Here
<1>9. QED
  BY <1>2, <1>5, <1>6, <1>7, <1>8 DEF SafeUse

\* Between calls only the caller's objects have memory; within them no step is out of turn.
LEMMA OwnsOwned == Owns => Owned
<1>1. Owns => NoLeak
  <2> SUFFICES ASSUME Owns, ~Running
               PROVE  block = held /\ \A c \in Contexts \ Mine : ctx[c] # "full"
    BY DEF NoLeak
  <2>1. Kept = held /\ Lives = {} /\ Mine = Contents(held) \cup Statics
    BY DEF Kept, Lives, Mine, Contents
  <2>2. QED
    BY <2>1 DEF Owns, Memory
<1>2. QED
  BY <1>1, OwnsSafe DEF Owned

\* The objects of the crypto port: whichever calls fail, and however many objects the caller
\* has at a time, each failure path gives back all that was taken and nothing that was not
\* (crypto_mbedtls_mm.c:199-246, 755-801, 1112-1400, 1521-1661, 1796-1831).
THEOREM ObjectsAreOwned == InitObjects /\ [][ObjectsNext]_ovars => []Owned
<1>1. InitObjects /\ [][ObjectsNext]_ovars => []Owns
  BY InitOwns, NextOwns, PTL
<1>2. QED
  BY <1>1, OwnsOwned, PTL

=============================================================================
