----------------------------- MODULE FailureLog -----------------------------
(***************************************************************************)
(* The failure records of the OSAL (mmosal_shim_freertos_esp32.c): a ring  *)
(* of MAX_FAILURE_RECORDS records in RAM that survives a warm reset, the   *)
(* logger that tasks call when an assertion fails, and the dump that the   *)
(* next boot (or, in a HALT_ON_ASSERT build, the failing task) prints.     *)
(*                                                                         *)
(* Every load and store of preserved_failure_info that another task or a   *)
(* reset can separate from the next one is a step.  The ring is not        *)
(* protected by any lock, and a reset can hit between any two steps.       *)
(*                                                                         *)
(* Bounds: MaxFailures caps the calls of mmosal_log_failure_info, so that  *)
(* the uint32_t counters never wrap upwards; WORD stands for 2^32, where   *)
(* the unsigned subtraction of the dump would wrap.                        *)
(***************************************************************************)
EXTENDS Integers, Sequences, FiniteSets

CONSTANTS Tasks,         \* tasks that may report a failure
          BootHook,      \* the ESP_SYSTEM_INIT_FN that runs before any task
          MaxFailures,   \* bound: calls of mmosal_log_failure_info
          HaltOnAssert,  \* HALT_ON_ASSERT is defined
          Noise,         \* counter values a power loss may leave in RAM
          WORD           \* modulus of the unsigned counters (2^32)

MAX_FAILURE_RECORDS == 4

ASSUME ActorsAssumption == IsFiniteSet(Tasks) /\ BootHook \notin Tasks
ASSUME BoundAssumption ==
  /\ MaxFailures \in Nat
  /\ WORD \in Nat
  /\ Noise \subseteq 0..MaxFailures
  /\ MaxFailures + MAX_FAILURE_RECORDS <= WORD
ASSUME BuildAssumption == HaltOnAssert \in BOOLEAN

Actors   == Tasks \cup {BootHook}
Failures == 1..MaxFailures
Garbage  == 0                       \* a record that no memcpy has completed
Ordinals == 0..MaxFailures
Slots    == 0..MAX_FAILURE_RECORDS - 1

\* Wherever a name ends in _ and a word, the operator is a defect the code might
\* have had, which the properties below are required to notice.
Slot_LooseMask(n) == n % (MAX_FAILURE_RECORDS - 1)
Slot(n) == n % MAX_FAILURE_RECORDS \* FAST_MOD

VARIABLES
  magic,      \* preserved_failure_info.magic = ASSERT_INFO_MAGIC
  count,      \* .failure_count
  displayed,  \* .displayed_failure_count
  info,       \* .info, each record named by the call that wrote it
  pc,         \* where each task, and the boot hook, is
  cur,        \* the failure a task is logging
  rec,        \* the logger's local record_num, before FAST_MOD
  dump,       \* the dump's locals: first_failure_num, new_failure_count, offset
  printed,    \* what an actor's last dump has printed since the last reset
  \* history, read by no step
  calls,      \* calls of mmosal_log_failure_info so far
  at,         \* ordinal -> the last failure to reserve it since magic was set
  whole,      \* failures whose record was copied to the end since power-on
  acked       \* failures printed by a dump that ran to its end

preserved == <<magic, count, displayed, info>>
locals    == <<cur, rec, dump, printed>>
history   == <<calls, at, whole, acked>>
vars      == <<preserved, pc, locals, history>>

NoDump == [first |-> 0, new |-> 0, offset |-> 0]

Init ==
  /\ magic = FALSE
  /\ count \in Noise /\ displayed \in Noise
  /\ info = [s \in Slots |-> Garbage]
  /\ pc = [a \in Actors |-> IF a = BootHook THEN "boot" ELSE "idle"]
  /\ cur = [t \in Tasks |-> Garbage]
  /\ rec = [t \in Tasks |-> 0]
  /\ dump = [a \in Actors |-> NoDump]
  /\ printed = [a \in Actors |-> <<>>]
  /\ calls = 0
  /\ at = [n \in Ordinals |-> Garbage]
  /\ whole = {}
  /\ acked = {}

Goto(a, from, to) == pc[a] = from /\ pc' = [pc EXCEPT ![a] = to]
Running == pc[BootHook] = "up"

-----------------------------------------------------------------------------
(* mmosal_log_failure_info *)

\* The call: the test of the magic number.
LogFailure(t) ==
  /\ Running /\ calls < MaxFailures
  /\ Goto(t, "idle", IF magic THEN "mark" ELSE "clear")
  /\ calls' = calls + 1
  /\ cur' = [cur EXCEPT ![t] = calls + 1]
  /\ UNCHANGED <<preserved, rec, dump, printed, at, whole, acked>>

ClearCounters_KeepDisplayed(t) ==
  /\ Goto(t, "clear", "mark")
  /\ count' = 0
  /\ UNCHANGED <<magic, displayed, info, locals, history>>

\* The records were not valid: both counters restart.  The two stores are one step:
\* a reset between them is undone, since the magic number is not set yet.
ClearCounters(t) ==
  /\ Goto(t, "clear", "mark")
  /\ count' = 0 /\ displayed' = 0
  /\ UNCHANGED <<magic, info, locals, history>>

SetMagic(t) ==
  /\ Goto(t, "mark", "load")
  /\ magic' = TRUE
  /\ UNCHANGED <<count, displayed, info, locals, history>>

\* record_num is computed from the counter, which is loaded once (it is not volatile) ...
LoadCount(t) ==
  /\ Goto(t, "load", "bump")
  /\ rec' = [rec EXCEPT ![t] = count]
  /\ UNCHANGED <<preserved, cur, dump, printed, history>>

\* ... which failure_count++ then stores back plus one.
BumpCount(t) ==
  /\ Goto(t, "bump", "copy")
  /\ count' = rec[t] + 1
  /\ at' = [at EXCEPT ![rec[t]] = cur[t]]
  /\ UNCHANGED <<magic, displayed, info, locals, calls, whole, acked>>

\* memcpy into the record: while it runs the record is neither old nor new.
CopyBegin(t) ==
  /\ Goto(t, "copy", "copying")
  /\ info' = [info EXCEPT ![Slot(rec[t])] = Garbage]
  /\ UNCHANGED <<magic, count, displayed, locals, history>>

\* The caller either goes on or is an assertion, which calls mmosal_impl_assert.
CopyEnd(t) ==
  /\ \E next \in {"idle", "assert"} : Goto(t, "copying", next)
  /\ info' = [info EXCEPT ![Slot(rec[t])] = cur[t]]
  /\ whole' = whole \cup {cur[t]}
  /\ UNCHANGED <<magic, count, displayed, locals, calls, at, acked>>

-----------------------------------------------------------------------------
(* mmosal_dump_failure_info, run by the boot hook or by a halting task *)

\* failure_count - displayed_failure_count in unsigned arithmetic.
Unshown == IF displayed <= count THEN count - displayed
                                 ELSE WORD - (displayed - count)

\* What a dump is about to print: where it starts and how many records.
Window_Unlimited == [first |-> displayed, new |-> Unshown, offset |-> 0]

Window_FromDisplayed ==
  [first |-> displayed, offset |-> 0,
   new |-> IF Unshown >= MAX_FAILURE_RECORDS THEN MAX_FAILURE_RECORDS ELSE Unshown]

Window_DropOldest ==
  IF Unshown >= MAX_FAILURE_RECORDS
  THEN [first |-> Slot(count + 1), new |-> MAX_FAILURE_RECORDS - 1, offset |-> 0]
  ELSE [first |-> displayed, new |-> Unshown, offset |-> 0]

Window ==
  IF Unshown >= MAX_FAILURE_RECORDS
  THEN [first |-> Slot(count), new |-> MAX_FAILURE_RECORDS, offset |-> 0]
  ELSE [first |-> displayed, new |-> Unshown, offset |-> 0]

DumpBegin(a) ==
  /\ Goto(a, "dump", "dumping")
  /\ dump' = [dump EXCEPT ![a] = Window]
  /\ printed' = [printed EXCEPT ![a] = <<>>]
  /\ UNCHANGED <<preserved, cur, rec, history>>

DumpRecord(a) ==
  LET number == dump[a].first + dump[a].offset
  IN /\ pc[a] = "dumping" /\ dump[a].offset < dump[a].new
     /\ printed' = [printed EXCEPT ![a] =
          Append(@, [number |-> number, failure |-> info[Slot(number)]])]
     /\ dump' = [dump EXCEPT ![a].offset = @ + 1]
     /\ UNCHANGED <<preserved, pc, cur, rec, history>>

DumpEnd_NotMarked(a) ==
  /\ dump[a].offset >= dump[a].new
  /\ Goto(a, "dumping", IF a = BootHook THEN "up" ELSE "halted")
  /\ acked' = acked \cup {printed[a][i].failure : i \in 1..Len(printed[a])}
  /\ UNCHANGED <<preserved, locals, calls, at, whole>>

\* The boot hook returns and the system starts; a task halts the core.
DumpEnd(a) ==
  /\ dump[a].offset >= dump[a].new
  /\ Goto(a, "dumping", IF a = BootHook THEN "up" ELSE "halted")
  /\ displayed' = count
  /\ acked' = acked \cup {printed[a][i].failure : i \in 1..Len(printed[a])}
  /\ UNCHANGED <<magic, count, info, locals, calls, at, whole>>

-----------------------------------------------------------------------------
(* mmosal_impl_assert, resets and the boot hook *)

\* HALT_ON_ASSERT: dump if the records are valid, then stop on a breakpoint.
HaltAssert(t) ==
  /\ HaltOnAssert
  /\ Goto(t, "assert", IF magic THEN "dump" ELSE "halted")
  /\ UNCHANGED <<preserved, locals, history>>

\* A reset stops every task wherever it is; RAM keeps its contents.
Restart ==
  /\ pc' = [a \in Actors |-> IF a = BootHook THEN "boot" ELSE "idle"]
  /\ printed' = [a \in Actors |-> <<>>]
  /\ dump' = [a \in Actors |-> NoDump]
  /\ cur' = [t \in Tasks |-> Garbage]
  /\ rec' = [t \in Tasks |-> 0]

\* Otherwise: mmhal_reset() after a delay in which the other tasks go on.
ResetAssert(t) ==
  /\ ~HaltOnAssert
  /\ pc[t] = "assert"
  /\ Restart
  /\ UNCHANGED <<preserved, history>>

\* A watchdog, a brown-out or the reset button, at any moment.
WarmReset ==
  /\ Restart
  /\ UNCHANGED <<preserved, history>>

\* .noinit memory holds anything after a power loss.
PowerLoss ==
  /\ Restart
  /\ magic' = FALSE
  /\ count' \in Noise /\ displayed' \in Noise
  /\ info' = [s \in Slots |-> Garbage]
  /\ at' = [n \in Ordinals |-> Garbage]
  /\ whole' = {}
  /\ UNCHANGED <<calls, acked>>

BootSystem_Skip ==
  /\ Goto(BootHook, "boot", "up")
  /\ UNCHANGED <<preserved, locals, history>>

\* The hook dumps only records the magic number marks as valid.
BootSystem ==
  /\ Goto(BootHook, "boot", IF magic THEN "dump" ELSE "up")
  /\ UNCHANGED <<preserved, locals, history>>

-----------------------------------------------------------------------------
\* The rest of a call that has begun.
Logging(t) ==
  \/ ClearCounters(t) \/ SetMagic(t) \/ LoadCount(t)
  \/ BumpCount(t) \/ CopyBegin(t) \/ CopyEnd(t)

LogStep(t) == LogFailure(t) \/ Logging(t)

AssertStep(t) == HaltAssert(t) \/ ResetAssert(t)

DumpStep(a) == DumpBegin(a) \/ DumpRecord(a) \/ DumpEnd(a)

Next ==
  \/ \E t \in Tasks : LogStep(t) \/ AssertStep(t)
  \/ \E a \in Actors : DumpStep(a)
  \/ BootSystem \/ WarmReset \/ PowerLoss

Spec == Init /\ [][Next]_vars

\* The hook runs as part of the boot, and the scheduler runs a task that is inside a
\* call.  No task has to report a failure.
Fairness ==
  /\ WF_vars(BootSystem)
  /\ \A a \in Actors : WF_vars(DumpStep(a))
  /\ \A t \in Tasks : WF_vars(Logging(t)) /\ WF_vars(AssertStep(t))

FairSpec == Spec /\ Fairness

-----------------------------------------------------------------------------
Points == {"idle", "clear", "mark", "load", "bump", "copy", "copying", "assert",
           "dump", "dumping", "halted", "boot", "up"}
DumpLocals == [first : Ordinals \cup Slots, new : 0..MAX_FAILURE_RECORDS,
               offset : 0..MAX_FAILURE_RECORDS]
Lines == [number : Nat, failure : Failures \cup {Garbage}]

\* Each variable stays in its range: the counters never pass the number of calls, and
\* a dump never goes round the ring twice.
TypeOK ==
  /\ magic \in BOOLEAN
  /\ count \in Ordinals /\ displayed \in Ordinals
  /\ info \in [Slots -> Failures \cup {Garbage}]
  /\ pc \in [Actors -> Points]
  /\ cur \in [Tasks -> Failures \cup {Garbage}]
  /\ rec \in [Tasks -> Ordinals]
  /\ dump \in [Actors -> DumpLocals]
  /\ printed \in [Actors -> Seq(Lines)]
  /\ calls \in Ordinals
  /\ at \in [Ordinals -> Failures \cup {Garbage}]
  /\ whole \subseteq Failures
  /\ acked \subseteq Failures \cup {Garbage}

\* While the records are valid, no interleaving of loggers and resets makes
\* displayed_failure_count overtake failure_count, so the unsigned difference a
\* dump starts from never wraps (lines 78-86).  Needs ~HaltOnAssert: a halting
\* task dumps while another task is between its load and its store.
DifferenceNeverWraps == magic => displayed <= count

Recent == {n \in Ordinals : n < count /\ count <= n + MAX_FAILURE_RECORDS}

\* With one task logging: whatever resets came in between, a record copied to the
\* end and not yet pushed out by four newer reservations is still in its slot.
RecentKept == magic => \A n \in Recent : at[n] \in whole => info[Slot(n)] = at[n]

\* With one task logging: a dump prints the newest unshown records, oldest first;
\* its i-th line is the failure that reserved the i-th ordinal of the window,
\* unless a reset cut the copy of that record short.
DumpInOrder ==
  \A a \in Actors : pc[a] = "dumping" =>
    \A i \in 1..Len(printed[a]) :
      LET n == count - dump[a].new + i - 1
      IN n \in Ordinals /\ (at[n] \in whole => printed[a][i].failure = at[n])

\* With one task logging: a boot that completes has printed every whole record that
\* was still in the ring and that no earlier dump had acknowledged.
BootReportsAll ==
  [][DumpEnd(BootHook) =>
       \A n \in Recent : at[n] \in whole => at[n] \in acked']_vars

\* With one task logging: once a dump has run to its end, none of the whole records
\* it printed is printed again as if it were new, whatever resets follow.
PrintedOnce ==
  [][\A a \in Actors :
       DumpRecord(a) => LET n == count - dump[a].new + dump[a].offset
                        IN at[n] \in whole => at[n] \notin acked]_vars

\* "Magic number, to check if the info is valid": when a boot finds the magic number,
\* each record it prints is one that a logger copied to the end.
MagicMeansValid ==
  pc[BootHook] = "dumping" =>
    \A i \in 1..Len(printed[BootHook]) :
      LET n == count - dump[BootHook].new + i - 1
      IN printed[BootHook][i].failure = at[n] /\ at[n] \in whole

\* With one task logging: if resets from outside end, a failed assertion is followed by
\* a boot that prints its record, unless a power loss erased it first.  That other
\* failures follow is no excuse: the dump precedes them.
AssertionReported ==
  <>[][~(WarmReset \/ PowerLoss)]_vars =>
    \A t \in Tasks : \A f \in Failures :
      (pc[t] = "assert" /\ cur[t] = f) ~>
        (f \in acked \/ f \notin whole)
=============================================================================
