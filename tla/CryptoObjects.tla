--------------------------- MODULE CryptoObjects ---------------------------
(***************************************************************************)
(* Who owns what in crypto_mbedtls_mm.c.  Each function is the sequence of  *)
(* the steps that allocate a block, initialise an mbedtls context, give it  *)
(* contents, free it, call another function or return; a step that fails    *)
(* goes on at its label.  What the contents are is CryptoBignum's matter.   *)
(*                                                                         *)
(* mbedtls is not under src/.  A call on a context may fail after it has    *)
(* taken memory for it; mbedtls_mpi_read_binary and mbedtls_mpi_lset, which *)
(* only grow the number, fail before.  mbedtls_mpi_free leaves the number   *)
(* as mbedtls_mpi_init does, the other contexts may not be used once freed. *)
(* A generator whose seeding failed holds nothing.                          *)
(*                                                                         *)
(* Bound: MaxHeld objects in the caller's hands.                            *)
(***************************************************************************)
EXTENDS Integers, Sequences, FiniteSets

CONSTANT MaxHeld

ASSUME MaxHeldAssumption == MaxHeld \in Nat \ {0}

\* The blocks of mmosal_malloc and wpabuf_alloc, with the contexts in them.
Inside == [bn |-> {"bn.mpi"}, y2 |-> {"y2.mpi"}, aes |-> {"aes.key"}, ec |-> {"ec.grp"},
           point |-> {"point.p"}, ecdh |-> {"ecdh.ctx", "ecdh.grp", "ecdh.Q"}, wpabuf |-> {}]
Blocks == DOMAIN Inside
Locals == {"R", "exp", "tmp", "one", "d", "x", "pk", "kw", "md", "cipher"}
Statics == {"ctr_drbg", "entropy", "mpi_sw_A"}
Contexts == (UNION {Inside[b] : b \in Blocks}) \cup Locals \cup Statics
Mpis == {"bn.mpi", "y2.mpi", "R", "exp", "tmp", "one", "d", "x", "mpi_sw_A"}

-----------------------------------------------------------------------------
(* Steps.  "to" is the place in the same function where a failure goes. *)

Malloc(b, to) == [op |-> "malloc", on |-> {b}, to |-> to]
Dealloc(b) == [op |-> "dealloc", on |-> {b}, to |-> 0]
Setup(c) == [op |-> "init", on |-> {c}, to |-> 0]
Load(c, to) == [op |-> "load", on |-> {c}, to |-> to]
Calls(cs, to) == [op |-> "call", on |-> cs, to |-> to]
Free(c) == [op |-> "free", on |-> {c}, to |-> 0]
Check(to) == [op |-> "check", on |-> {}, to |-> to]
Sub(fn, to) == [op |-> "sub", on |-> {fn}, to |-> to]
Drbg == [op |-> "drbg", on |-> {}, to |-> 0]
IfSeeded(to) == [op |-> "seeded", on |-> {}, to |-> to]
Unseed == [op |-> "unseed", on |-> {}, to |-> 0]
Return == [op |-> "return", on |-> {}, to |-> 0]   \* with success
Fail == [op |-> "fail", on |-> {}, to |-> 0]       \* as at the end of a function

crypto_bignum_init == <<Malloc("bn", 4), Setup("bn.mpi"), Return>>

\* crypto_bignum_init_set and crypto_bignum_init_uint; mmosal_free(NULL) does nothing.
crypto_bignum_init_set ==
  <<Malloc("bn", 5), Setup("bn.mpi"), Load("bn.mpi", 5), Return, Dealloc("bn")>>

\* A context in a block of its own
Boxed(b, c) == <<Malloc(b, 7), Setup(c), Calls({c}, 5), Return, Free(c), Dealloc(b)>>

aes_init == Boxed("aes", "aes.key")                    \* for either direction
crypto_ec_point_from_bin == Boxed("point", "point.p")
crypto_ec_point_compute_y_sqr == Boxed("y2", "y2.mpi")
crypto_ec_point_init == <<Malloc("point", 4), Setup("point.p"), Return>>

crypto_ec_init ==
  <<Check(8), Malloc("ec", 8), Setup("ec.grp"), Calls({"ec.grp"}, 6), Return,
    Free("ec.grp"), Dealloc("ec")>>

crypto_mbedtls_keypair_gen ==
  <<Check(7), Check(7), Calls({"pk"}, 7), Drbg, Calls({"pk", "ctr_drbg"}, 7), Return>>

crypto_ecdh_init2 ==
  <<Check(17), Malloc("ecdh", 17), Setup("ecdh.ctx"), Setup("ecdh.grp"), Setup("ecdh.Q"),
    Calls({"ecdh.ctx"}, 13), Calls({"ecdh.ctx"}, 13),
    Setup("d"), Calls({"ecdh.grp", "d", "ecdh.Q"}, 12), Free("d"), Return, Free("d"),
    Free("ecdh.Q"), Free("ecdh.grp"), Free("ecdh.ctx"), Dealloc("ecdh")>>

crypto_ecdh_init_KeepPk ==
  <<Setup("pk"), Sub("crypto_mbedtls_keypair_gen", 5), Sub("crypto_ecdh_init2", 5),
    Return, Free("pk")>>

crypto_ecdh_init ==
  <<Setup("pk"), Sub("crypto_mbedtls_keypair_gen", 6), Sub("crypto_ecdh_init2", 6),
    Free("pk"), Return, Free("pk")>>

crypto_ecdh_get_pubkey == <<Check(4), Malloc("wpabuf", 4), Return>>

\* y from x for the mbedtls that cannot
short_weierstrass_derive_y ==
  <<Sub("crypto_ec_point_compute_y_sqr", 16), Setup("exp"), Check(13), Calls({"exp"}, 13),
    Calls({"exp"}, 13), Calls({"x"}, 13), Check(9), Calls({"x"}, 13),
    Free("exp"), Free("y2.mpi"), Dealloc("y2"), Return,
    Free("exp"), Free("y2.mpi"), Dealloc("y2")>>

\* The checks: of len, of the kind of curve or of mbedtls, of the octets of y.
crypto_ecdh_set_peerkey ==
  <<Check(14), Check(8), Setup("x"), Load("x", 13), Sub("short_weierstrass_derive_y", 13),
    Check(13), Free("x"), Calls({"ecdh.ctx"}, 14), Malloc("wpabuf", 14),
    Drbg, Calls({"ecdh.ctx", "ctr_drbg"}, 15), Return, Free("x"), Fail, Dealloc("wpabuf")>>

\* Functions that only have temporaries; exptmod and div have the same
with_intermediate == <<Setup("R"), Calls({"R"}, 4), Check(4), Free("R"), Return>>
legendre ==
  <<Setup("exp"), Setup("tmp"), Calls({"exp"}, 6), Calls({"exp"}, 6), Calls({"tmp"}, 6),
    Free("tmp"), Free("exp"), Return>>
crypto_ec_point_add == <<Setup("one"), Load("one", 4), Check(4), Free("one"), Return>>
hmac_vector == <<Setup("md"), Calls({"md"}, 6), Calls({"md"}, 4), Free("md"), Return, Free("md")>>
omac1_aes_vector ==
  <<Check(9), Setup("cipher"), Calls({"cipher"}, 7), Calls({"cipher"}, 7),
    Calls({"cipher"}, 7), Calls({"cipher"}, 7), Free("cipher"), Return>>
aes_wrap == <<Setup("kw"), Calls({"kw"}, 4), Calls({"kw"}, 4), Free("kw"), Return>>

crypto_get_random == <<Drbg, Calls({"ctr_drbg"}, 3), Return>>
crypto_ec_get_a == <<Check(4), Load("mpi_sw_A", 4), Return>>
crypto_unload ==
  <<IfSeeded(6), Free("ctr_drbg"), Free("entropy"), Free("mpi_sw_A"), Unseed>>

\* crypto_bignum_deinit, aes_*_deinit, crypto_ec_deinit, crypto_ec_point_deinit
Unboxed(b, c) == <<Free(c), Dealloc(b), Return>>
crypto_ecdh_deinit ==
  <<Free("ecdh.Q"), Free("ecdh.grp"), Free("ecdh.ctx"), Dealloc("ecdh"), Return>>

-----------------------------------------------------------------------------
(* The functions a caller has: those that make an object, with what is in    *)
(* the caller's hands when they succeed, those that end it, and the others. *)

Makers == [crypto_bignum_init |-> "bn", crypto_bignum_init_set |-> "bn", aes_init |-> "aes",
           crypto_ec_point_from_bin |-> "point", crypto_ec_point_compute_y_sqr |-> "y2",
           crypto_ec_point_init |-> "point", crypto_ec_init |-> "ec", crypto_ecdh_init |-> "ecdh",
           crypto_ecdh_get_pubkey |-> "wpabuf", crypto_ecdh_set_peerkey |-> "wpabuf"]

Others == {"exptmod", "legendre", "crypto_ec_point_add", "hmac_vector", "omac1_aes_vector",
           "aes_wrap", "crypto_get_random", "crypto_ec_get_a", "crypto_unload"}

\* Every function; a kind of object stands for the function that ends it.
Program ==
  [bn |-> Unboxed("bn", "bn.mpi"), y2 |-> Unboxed("y2", "y2.mpi"),
   aes |-> Unboxed("aes", "aes.key"), ec |-> Unboxed("ec", "ec.grp"),
   point |-> Unboxed("point", "point.p"), ecdh |-> crypto_ecdh_deinit,
   wpabuf |-> <<Dealloc("wpabuf"), Return>>,
   exptmod |-> with_intermediate, legendre |-> legendre,
   crypto_ec_point_add |-> crypto_ec_point_add, hmac_vector |-> hmac_vector,
   omac1_aes_vector |-> omac1_aes_vector, aes_wrap |-> aes_wrap,
   crypto_get_random |-> crypto_get_random, crypto_ec_get_a |-> crypto_ec_get_a,
   crypto_unload |-> crypto_unload,
   crypto_bignum_init |-> crypto_bignum_init, crypto_bignum_init_set |-> crypto_bignum_init_set,
   aes_init |-> aes_init, crypto_ec_point_from_bin |-> crypto_ec_point_from_bin,
   crypto_ec_point_compute_y_sqr |-> crypto_ec_point_compute_y_sqr,
   crypto_ec_point_init |-> crypto_ec_point_init, crypto_ec_init |-> crypto_ec_init,
   crypto_ecdh_init |-> crypto_ecdh_init, crypto_ecdh_init2 |-> crypto_ecdh_init2,
   crypto_mbedtls_keypair_gen |-> crypto_mbedtls_keypair_gen,
   crypto_ecdh_get_pubkey |-> crypto_ecdh_get_pubkey,
   crypto_ecdh_set_peerkey |-> crypto_ecdh_set_peerkey,
   short_weierstrass_derive_y |-> short_weierstrass_derive_y]

VARIABLES
  stack,    \* the functions that run, the innermost first, with the step each is at
  block,    \* the blocks that are allocated
  ctx,      \* what each context is: "raw", "empty" once initialised, "full" with memory
  held,     \* the objects in the caller's hands
  ctr_drbg_init_state

ovars == <<stack, block, ctx, held, ctr_drbg_init_state>>

InitObjects ==
  /\ stack = <<>> /\ block = {} /\ held = {} /\ ctr_drbg_init_state = 0
  /\ ctx = [c \in Contexts |-> IF c = "mpi_sw_A" THEN "empty" ELSE "raw"]

Fn == Head(stack).fn
At == Head(stack).pc
Running == stack # <<>>
Now == IF At > Len(Program[Fn]) THEN Fail ELSE Program[Fn][At]
Next1(pc) == <<[fn |-> Fn, pc |-> pc]>> \o Tail(stack)

\* One block of each kind at a time; the calls on an ECDH context need one.
Begin ==
  /\ ~Running
  /\ \E fn \in DOMAIN Makers \cup Others \cup held :
       /\ fn \in DOMAIN Makers => Makers[fn] \notin held /\ Cardinality(held) < MaxHeld
       /\ fn \in {"crypto_ecdh_get_pubkey", "crypto_ecdh_set_peerkey"} => "ecdh" \in held
       /\ fn = "crypto_ecdh_set_peerkey" => "y2" \notin held
       /\ stack' = <<[fn |-> fn, pc |-> 1]>>
  /\ UNCHANGED <<block, ctx, held, ctr_drbg_init_state>>

\* What a step does when it succeeds and when it fails.
Allocate ==
  /\ Now.op = "malloc"
  /\ \/ block' = block \cup Now.on /\ stack' = Next1(At + 1)
     \/ block' = block /\ stack' = Next1(Now.to)
  /\ UNCHANGED <<ctx, held, ctr_drbg_init_state>>

Deallocate ==
  /\ Now.op = "dealloc"
  /\ block' = block \ Now.on /\ stack' = Next1(At + 1)
  /\ ctx' = [c \in Contexts |-> IF \E b \in Now.on : c \in Inside[b] THEN "raw" ELSE ctx[c]]
  /\ UNCHANGED <<held, ctr_drbg_init_state>>

Becomes(cs, s) == [c \in Contexts |-> IF c \in cs THEN s ELSE ctx[c]]

UseContext ==
  /\ \/ Now.op = "init" /\ ctx' = Becomes(Now.on, "empty") /\ stack' = Next1(At + 1)
     \/ Now.op = "free" /\ stack' = Next1(At + 1)
        /\ ctx' = Becomes(Now.on, IF Now.on \subseteq Mpis THEN "empty" ELSE "raw")
     \/ Now.op \in {"load", "call"} /\ ctx' = Becomes(Now.on, "full") /\ stack' = Next1(At + 1)
     \/ Now.op = "load" /\ UNCHANGED ctx /\ stack' = Next1(Now.to)
     \/ Now.op = "call" /\ stack' = Next1(Now.to)
        /\ \E cs \in SUBSET Now.on : ctx' = Becomes(cs, "full")
  /\ UNCHANGED <<block, held, ctr_drbg_init_state>>

\* Conditions on what this module leaves out may go either way.
Decide ==
  /\ \/ Now.op = "check" /\ \E pc \in {At + 1, Now.to} : stack' = Next1(pc)
     \/ Now.op = "seeded" /\ stack' = Next1(IF ctr_drbg_init_state = 1 THEN At + 1 ELSE Now.to)
     \/ Now.op = "sub" /\ \E fn \in Now.on : stack' = <<[fn |-> fn, pc |-> 1]>> \o stack
  /\ UNCHANGED <<block, ctx, held, ctr_drbg_init_state>>

\* crypto_mbedtls_ctr_drbg: initialised on first use, and again after a seeding that failed.
Generator ==
  /\ \/ /\ Now.op = "drbg" /\ ctr_drbg_init_state = 1
        /\ UNCHANGED <<ctx, ctr_drbg_init_state>>
     \/ /\ Now.op = "drbg" /\ ctr_drbg_init_state = 0
        /\ \/ ctx' = Becomes({"ctr_drbg", "entropy"}, "full") /\ ctr_drbg_init_state' = 1
           \/ ctx' = Becomes({"ctr_drbg", "entropy"}, "empty") /\ UNCHANGED ctr_drbg_init_state
     \/ Now.op = "unseed" /\ ctr_drbg_init_state' = 0 /\ UNCHANGED ctx
  /\ stack' = Next1(At + 1)
  /\ UNCHANGED <<block, held>>

Finish ==
  LET ok == Now.op = "return"
      up == Tail(stack)
  IN  /\ Now.op \in {"return", "fail"}
      /\ IF up = <<>>
         THEN /\ stack' = <<>>
              /\ held' = IF Fn \in held THEN held \ {Fn}
                         ELSE IF ok /\ Fn \in DOMAIN Makers THEN held \cup {Makers[Fn]} ELSE held
         ELSE /\ stack' = [up EXCEPT ![1].pc = IF ok THEN @ + 1
                                               ELSE Program[Head(up).fn][@].to]
              /\ UNCHANGED held
      /\ UNCHANGED <<block, ctx, ctr_drbg_init_state>>

ObjectsNext ==
  \/ Begin
  \/ Running /\ (Allocate \/ Deallocate \/ UseContext \/ Decide \/ Generator \/ Finish)

-----------------------------------------------------------------------------
(* Properties *)

Mine == (UNION {Inside[b] : b \in held}) \cup Statics

\* Between calls, the memory that is allocated is that of the objects in the caller's hands.
NoLeak == ~Running => block = held /\ \A c \in Contexts \ Mine : ctx[c] # "full"

\* No step touches a context that is not initialised or no longer is, takes a block or
\* initialises a context over one that still has its memory, or gives back a block before its
\* contents.
SafeUse ==
  Running =>
    /\ Now.op = "malloc" => Now.on \cap block = {}
    /\ Now.op = "init" => \A c \in Now.on : ctx[c] # "full"
    /\ Now.op = "dealloc" => \A b \in Now.on : \A c \in Inside[b] : ctx[c] # "full"
    /\ Now.op \in {"load", "call", "free"} => \A c \in Now.on : ctx[c] # "raw"

\* Each failure path frees all that was taken and nothing that was not, no temporary outlives
\* its function, and the generator is seeded again after crypto_unload before it is used
\* (crypto_mbedtls_mm.c:199-246, 755-801, 1112-1400, 1521-1661, 1796-1831).
Owned == NoLeak /\ SafeUse
=============================================================================
