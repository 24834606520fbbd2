------------------------- MODULE FailureLog_proofs -------------------------
(***************************************************************************)
(* Machine-checked proofs about the OSAL failure records (FailureLog).     *)
(***************************************************************************)
EXTENDS FailureLog, FiniteSetTheorems, TLAPS

TaskPoints == {"idle", "clear", "mark", "load", "bump", "copy", "copying",
               "assert", "dump", "dumping", "halted"}

\* The tasks that have called the logger and not yet stored the counter.
Reserving == {t \in Tasks : pc[t] \in {"clear", "mark", "load", "bump"}}

\* Where the actors can be, and what an invalid magic number says of them.
ControlOK ==
  /\ pc[BootHook] \in {"boot", "dump", "dumping", "up"}
  /\ ~magic => pc[BootHook] \notin {"dump", "dumping"}
  /\ \A t \in Tasks :
       /\ pc[t] \in TaskPoints
       /\ pc[t] # "idle" => Running /\ cur[t] # Garbage
       /\ ~HaltOnAssert => pc[t] \notin {"dump", "dumping", "halted"}
       /\ ~magic => pc[t] \in {"idle", "clear", "mark"}
       /\ ~magic /\ pc[t] = "mark" => count = 0 /\ displayed = 0

\* Every value the counter can still take is covered by a call that was made.
CallsBound ==
  /\ Cardinality(Reserving) <= calls
  /\ magic => count + Cardinality(Reserving) <= calls
  /\ \A t \in Tasks : pc[t] = "bump" => rec[t] + Cardinality(Reserving) <= calls

-----------------------------------------------------------------------------
\* The tasks are finitely many, so those reserving a record can be counted.
LEMMA ReservingFinite ==
  IsFiniteSet(Reserving) /\ Cardinality(Reserving) \in Nat
<1>1. IsFiniteSet(Reserving)
  BY ActorsAssumption, FS_Subset, Reserving \subseteq Tasks DEF Reserving
<1> QED BY <1>1, FS_CardinalityType

\* Before the first boot no actor has started and the records are not valid.
LEMMA ControlInit == Init => ControlOK
BY ActorsAssumption DEF Init, ControlOK, TaskPoints, Actors, Running

\* No step takes an actor to a point its code does not have, and only a logger
\* validates the records, after it has seen both counters at zero.
LEMMA ControlNext == TypeOK /\ ControlOK /\ [Next]_vars => ControlOK'
<1> SUFFICES ASSUME TypeOK, ControlOK, [Next]_vars PROVE ControlOK'
  OBVIOUS
<1> USE ActorsAssumption, BuildAssumption
<1> USE DEF ControlOK, TaskPoints, TypeOK, Points, Actors, Running, Goto, preserved, locals,
            history, Ordinals, Garbage
<1>1. ASSUME NEW t \in Tasks, LogFailure(t) PROVE ControlOK'
  BY <1>1 DEF LogFailure
<1>2. ASSUME NEW t \in Tasks, ClearCounters(t) PROVE ControlOK'
  BY <1>2 DEF ClearCounters
<1>3. ASSUME NEW t \in Tasks, SetMagic(t) PROVE ControlOK'
  BY <1>3 DEF SetMagic
<1>4. ASSUME NEW t \in Tasks, LoadCount(t) PROVE ControlOK'
  BY <1>4 DEF LoadCount
<1>5. ASSUME NEW t \in Tasks, BumpCount(t) PROVE ControlOK'
  BY <1>5 DEF BumpCount
<1>6. ASSUME NEW t \in Tasks, CopyBegin(t) PROVE ControlOK'
  BY <1>6 DEF CopyBegin
<1>7. ASSUME NEW t \in Tasks, CopyEnd(t) PROVE ControlOK'
  BY <1>7 DEF CopyEnd
<1>8. ASSUME NEW t \in Tasks, HaltAssert(t) PROVE ControlOK'
  BY <1>8 DEF HaltAssert
<1>9. ASSUME Restart PROVE ControlOK'
  BY <1>9 DEF Restart
<1>10. ASSUME NEW a \in Actors, DumpBegin(a) PROVE ControlOK'
  BY <1>10 DEF DumpBegin
<1>11. ASSUME NEW a \in Actors, DumpRecord(a) PROVE ControlOK'
  BY <1>11 DEF DumpRecord
<1>12. ASSUME NEW a \in Actors, DumpEnd(a) PROVE ControlOK'
  BY <1>12 DEF DumpEnd
<1>13. ASSUME BootSystem PROVE ControlOK'
  BY <1>13 DEF BootSystem
<1>14. CASE UNCHANGED vars
  BY <1>14 DEF vars
<1> QED
  BY <1>1, <1>2, <1>3, <1>4, <1>5, <1>6, <1>7, <1>8, <1>9, <1>10, <1>11, <1>12, <1>13,
     <1>14 DEF Next, LogStep, Logging, AssertStep, DumpStep, ResetAssert, WarmReset, PowerLoss

\* Nothing has been logged, so nothing is counted.
LEMMA CallsInit == Init => CallsBound
<1> SUFFICES ASSUME Init PROVE CallsBound
  OBVIOUS
<1>1. Reserving = {}
  BY ActorsAssumption DEF Init, Reserving, Actors
<1>2. Cardinality(Reserving) = 0
  BY <1>1, FS_EmptySet
<1> QED BY <1>2, ActorsAssumption DEF Init, CallsBound, Actors

\* Each step of a logger consumes its own call: the counter plus the tasks that may
\* still store to it never exceeds the calls made.
LEMMA CallsNext ==
  TypeOK /\ ControlOK /\ CallsBound /\ [Next]_vars => CallsBound'
<1> SUFFICES ASSUME TypeOK, ControlOK, CallsBound, [Next]_vars PROVE CallsBound'
  OBVIOUS
<1> USE ActorsAssumption
<1> USE DEF CallsBound, ControlOK, TaskPoints, TypeOK, Actors, Ordinals, Running, Goto,
            preserved, locals, history
<1>0. IsFiniteSet(Reserving) /\ Cardinality(Reserving) \in Nat
  BY ReservingFinite
<1>1. ASSUME NEW t \in Tasks, LogFailure(t) PROVE CallsBound'
  <2>1. t \notin Reserving /\ Reserving' = Reserving \cup {t}
    BY <1>1 DEF LogFailure, Reserving
  <2>2. Cardinality(Reserving') = Cardinality(Reserving) + 1
    BY <1>0, <2>1, FS_AddElement
  <2> QED BY <1>0, <1>1, <2>2 DEF LogFailure
<1>2. ASSUME NEW t \in Tasks, BumpCount(t) PROVE CallsBound'
  <2>1. t \in Reserving /\ Reserving' = Reserving \ {t}
    BY <1>2 DEF BumpCount, Reserving
  <2>2. Cardinality(Reserving') = Cardinality(Reserving) - 1
    BY <1>0, <2>1, FS_RemoveElement
  <2> QED BY <1>0, <1>2, <2>2 DEF BumpCount
<1>3. ASSUME Restart, magic' => magic, UNCHANGED calls, magic' => UNCHANGED count
      PROVE CallsBound'
  <2>1. Reserving' = {}
    BY <1>3 DEF Restart, Reserving
  <2>2. Cardinality(Reserving') = 0
    BY <2>1, FS_EmptySet
  <2> QED BY <1>0, <1>3, <2>2 DEF Restart
<1>4. ASSUME Reserving' = Reserving, UNCHANGED <<magic, count, calls, rec>>,
             \A t \in Tasks : pc'[t] = "bump" => pc[t] = "bump"
      PROVE CallsBound'
  BY <1>0, <1>4
<1>5. ASSUME NEW t \in Tasks, ClearCounters(t) PROVE CallsBound'
  <2>1. Reserving' = Reserving
    BY <1>5 DEF ClearCounters, Reserving
  <2> QED BY <1>0, <1>5, <2>1 DEF ClearCounters
<1>6. ASSUME NEW t \in Tasks, SetMagic(t) PROVE CallsBound'
  <2>1. Reserving' = Reserving
    BY <1>6 DEF SetMagic, Reserving
  <2> QED BY <1>0, <1>6, <2>1 DEF SetMagic
<1>7. ASSUME NEW t \in Tasks, LoadCount(t) PROVE CallsBound'
  <2>1. Reserving' = Reserving
    BY <1>7 DEF LoadCount, Reserving
  <2> QED BY <1>0, <1>7, <2>1 DEF LoadCount
<1>8. ASSUME NEW t \in Tasks, CopyBegin(t) \/ CopyEnd(t) \/ HaltAssert(t)
      PROVE CallsBound'
  BY <1>4, <1>8 DEF CopyBegin, CopyEnd, HaltAssert, Reserving
<1>9. ASSUME NEW a \in Actors, DumpStep(a) PROVE CallsBound'
  BY <1>4, <1>9 DEF DumpStep, DumpBegin, DumpRecord, DumpEnd, Reserving
<1>10. CASE BootSystem
  BY <1>4, <1>10 DEF BootSystem, Reserving
<1>11. CASE WarmReset \/ PowerLoss \/ \E t \in Tasks : ResetAssert(t)
  BY <1>3, <1>11 DEF WarmReset, PowerLoss, ResetAssert
<1>12. CASE UNCHANGED vars
  BY <1>4, <1>12 DEF vars, Reserving
<1> QED
  BY <1>1, <1>2, <1>5, <1>6, <1>7, <1>8, <1>9, <1>10, <1>11, <1>12
     DEF Next, LogStep, Logging, AssertStep

\* The locals of a dump that has not started are in range.
LEMMA NoDumpType == NoDump \in DumpLocals
BY BoundAssumption DEF NoDump, DumpLocals, Ordinals, Slots, MAX_FAILURE_RECORDS

\* A dump that has a record left stays within its window after one more.
LEMMA DumpAdvances ==
  ASSUME NEW d \in DumpLocals, d.offset < d.new
  PROVE  [d EXCEPT !.offset = d.offset + 1] \in DumpLocals
BY DEF DumpLocals, MAX_FAILURE_RECORDS

\* The slot a dump reads exists.
LEMMA DumpReads ==
  ASSUME NEW d \in DumpLocals
  PROVE  d.first + d.offset \in Nat /\ Slot(d.first + d.offset) \in Slots
BY BoundAssumption DEF DumpLocals, Slot, Slots, Ordinals, MAX_FAILURE_RECORDS

\* Power-on leaves every variable in its range.
LEMMA TypeInit == Init => TypeOK
<1> SUFFICES ASSUME Init PROVE TypeOK
  OBVIOUS
<1> USE ActorsAssumption, BoundAssumption
<1> USE DEF Init, Ordinals, Failures, Garbage, Actors
<1>1. pc \in [Actors -> Points]
  BY DEF Points
<1>2. printed \in [Actors -> Seq(Lines)] /\ dump \in [Actors -> DumpLocals]
  BY NoDumpType
<1>3. info \in [Slots -> Failures \cup {Garbage}] /\ cur \in [Tasks -> Failures \cup {Garbage}]
  OBVIOUS
<1>4. rec \in [Tasks -> Ordinals] /\ at \in [Ordinals -> Failures \cup {Garbage}]
  OBVIOUS
<1>5. count \in Ordinals /\ displayed \in Ordinals /\ calls \in Ordinals
  OBVIOUS
<1>6. magic \in BOOLEAN /\ whole \subseteq Failures /\ acked \subseteq Failures \cup {Garbage}
  OBVIOUS
<1> HIDE DEF Init, Ordinals, Failures, Garbage, Actors
<1> QED BY <1>1, <1>2, <1>3, <1>4, <1>5, <1>6 DEF TypeOK

\* Every step of loggers, dumps and resets keeps every variable in its range.
LEMMA TypeNext ==
  TypeOK /\ ControlOK /\ CallsBound /\ [Next]_vars => TypeOK'
<1> SUFFICES ASSUME TypeOK, ControlOK, CallsBound, [Next]_vars PROVE TypeOK'
  OBVIOUS
<1> USE ActorsAssumption, BoundAssumption, BuildAssumption
<1> USE DEF TypeOK, Points, Actors, Ordinals, Failures, Garbage, Slots,
            MAX_FAILURE_RECORDS, Goto, preserved, locals, history
<1>1. ASSUME NEW t \in Tasks, LogStep(t) PROVE TypeOK'
  <2>1. CASE LogFailure(t)
    BY <2>1 DEF LogFailure
  <2>2. CASE ClearCounters(t)
    BY <2>2 DEF ClearCounters
  <2>3. CASE SetMagic(t)
    BY <2>3 DEF SetMagic
  <2>4. CASE LoadCount(t)
    BY <2>4 DEF LoadCount
  <2>5. CASE BumpCount(t)
    <3>1. t \in Reserving
      BY <2>5 DEF BumpCount, Reserving
    <3>2. Cardinality(Reserving) # 0
      BY <3>1, ReservingFinite, FS_EmptySet
    <3>3. rec[t] + 1 \in Ordinals
      BY <2>5, <3>2, ReservingFinite DEF BumpCount, CallsBound
    <3> QED BY <2>5, <3>3 DEF BumpCount
  <2>6. CASE CopyBegin(t)
    BY <2>6 DEF CopyBegin
  <2>7. CASE CopyEnd(t)
    <3>1. cur[t] \in Failures
      BY <2>7 DEF CopyEnd, ControlOK
    <3>2. pc' \in [Actors -> Points]
      BY <2>7 DEF CopyEnd
    <3> QED BY <2>7, <3>1, <3>2 DEF CopyEnd
  <2> QED BY <1>1, <2>1, <2>2, <2>3, <2>4, <2>5, <2>6, <2>7 DEF LogStep, Logging
<1>2. ASSUME NEW t \in Tasks, HaltAssert(t) PROVE TypeOK'
  BY <1>2 DEF HaltAssert
<1>3. ASSUME NEW a \in Actors, DumpBegin(a) PROVE TypeOK'
  <2>1. Window \in DumpLocals
    BY DEF Window, Unshown, Slot, DumpLocals
  <2>2. dump' \in [Actors -> DumpLocals]
    BY <1>3, <2>1 DEF DumpBegin
  <2>3. printed' \in [Actors -> Seq(Lines)]
    BY <1>3 DEF DumpBegin
  <2> QED BY <1>3, <2>2, <2>3 DEF DumpBegin
<1>4. ASSUME NEW a \in Actors, DumpRecord(a) PROVE TypeOK'
  <2> DEFINE number == dump[a].first + dump[a].offset
             line == [number |-> number, failure |-> info[Slot(number)]]
  <2>1. number \in Nat /\ Slot(number) \in Slots
    BY DumpReads
  <2> HIDE DEF number
  <2>a. line \in Lines
    BY <2>1 DEF Lines
  <2>2. printed' = [printed EXCEPT ![a] = Append(printed[a], line)]
    BY <1>4 DEF DumpRecord, number
  <2> HIDE DEF line
  <2>3. printed' \in [Actors -> Seq(Lines)]
    BY <2>a, <2>2
  <2>4. dump' = [dump EXCEPT ![a] = [dump[a] EXCEPT !.offset = dump[a].offset + 1]]
    BY <1>4 DEF DumpRecord
  <2>5. [dump[a] EXCEPT !.offset = dump[a].offset + 1] \in DumpLocals
    BY <1>4, DumpAdvances DEF DumpRecord
  <2>6. dump' \in [Actors -> DumpLocals]
    BY <2>4, <2>5
  <2> QED BY <1>4, <2>3, <2>6 DEF DumpRecord
<1>5. ASSUME NEW a \in Actors, DumpEnd(a) PROVE TypeOK'
  <2>1. \A i \in 1..Len(printed[a]) : printed[a][i] \in Lines
    OBVIOUS
  <2>2. \A line \in Lines : line.failure \in Failures \cup {Garbage}
    BY DEF Lines
  <2> DEFINE shown == {printed[a][i].failure : i \in 1..Len(printed[a])}
  <2>3. shown \subseteq Failures \cup {Garbage}
    BY <2>1, <2>2
  <2>5. acked' = acked \cup shown
    BY <1>5 DEF DumpEnd
  <2> HIDE DEF shown
  <2>6. acked' \subseteq Failures \cup {Garbage}
    BY <2>3, <2>5
  <2>4. pc' \in [Actors -> Points] /\ displayed' \in Ordinals
    BY <1>5 DEF DumpEnd
  <2> QED BY <1>5, <2>4, <2>6 DEF DumpEnd
<1>6. CASE BootSystem
  BY <1>6 DEF BootSystem
<1>7. CASE WarmReset \/ PowerLoss \/ \E t \in Tasks : ResetAssert(t)
  <2>1. ASSUME Restart
        PROVE  /\ pc' \in [Actors -> Points] /\ cur' \in [Tasks -> Failures \cup {Garbage}]
               /\ rec' \in [Tasks -> Ordinals] /\ dump' \in [Actors -> DumpLocals]
               /\ printed' \in [Actors -> Seq(Lines)]
    BY <2>1, NoDumpType DEF Restart
  <2>2. CASE PowerLoss
    BY <2>1, <2>2 DEF PowerLoss
  <2>3. CASE WarmReset \/ \E t \in Tasks : ResetAssert(t)
    BY <2>1, <2>3 DEF WarmReset, ResetAssert
  <2> QED BY <1>7, <2>2, <2>3
<1>8. CASE UNCHANGED vars
  BY <1>8 DEF vars
<1> QED
  BY <1>1, <1>2, <1>3, <1>4, <1>5, <1>6, <1>7, <1>8 DEF Next, AssertStep, DumpStep

\* What every build and every number of tasks satisfies.
BaseInv == TypeOK /\ ControlOK /\ CallsBound

\* The three facts together are inductive.
LEMMA BaseInvariant == Spec => []BaseInv
<1>1. Init => BaseInv
  BY ControlInit, CallsInit, TypeInit DEF BaseInv
<1>2. BaseInv /\ [Next]_vars => BaseInv'
  BY ControlNext, CallsNext, TypeNext DEF BaseInv
<1> QED BY <1>1, <1>2, PTL DEF Spec

\* Whatever tasks fail at the same time and whatever resets follow, the counters stay
\* within the number of calls made, and every local of the dump stays within the ring.
THEOREM TypeCorrect == Spec => []TypeOK
BY BaseInvariant, PTL DEF BaseInv

-----------------------------------------------------------------------------
\* The store of a stale counter is at least what a dump has already acknowledged.
NoWrapInv ==
  /\ DifferenceNeverWraps
  /\ \A t \in Tasks : pc[t] = "bump" => displayed <= rec[t]

\* After a reset no task is anywhere.
LEMMA RestartIdle == Restart => \A t \in Tasks : pc'[t] = "idle"
BY ActorsAssumption DEF Restart, Actors

\* No step lets displayed_failure_count pass failure_count, in a build where only the
\* boot hook dumps.
LEMMA NoWrapNext ==
  ASSUME ~HaltOnAssert, BaseInv, NoWrapInv, [Next]_vars
  PROVE  NoWrapInv'
<1> USE ActorsAssumption
<1> USE DEF BaseInv, TypeOK, ControlOK, NoWrapInv, DifferenceNeverWraps, Actors, Points, Ordinals,
            Running, Goto, preserved, locals, history
<1>1. ASSUME NEW t \in Tasks, LogFailure(t) \/ ClearCounters(t) \/ SetMagic(t)
      PROVE  NoWrapInv'
  BY <1>1 DEF LogFailure, ClearCounters, SetMagic
<1>2. ASSUME NEW t \in Tasks, LoadCount(t)
      PROVE  NoWrapInv'
  BY <1>2 DEF LoadCount
<1>3. ASSUME NEW t \in Tasks, BumpCount(t)
      PROVE  NoWrapInv'
  BY <1>3 DEF BumpCount
<1>4. ASSUME NEW t \in Tasks, CopyBegin(t) \/ CopyEnd(t) \/ HaltAssert(t)
      PROVE  NoWrapInv'
  BY <1>4 DEF CopyBegin, CopyEnd, HaltAssert
<1>5. ASSUME NEW a \in Actors, DumpBegin(a) \/ DumpRecord(a)
      PROVE  NoWrapInv'
  BY <1>5 DEF DumpBegin, DumpRecord
<1>6. ASSUME NEW a \in Actors, DumpEnd(a)
      PROVE  NoWrapInv'
  <2>1. a = BootHook /\ \A t \in Tasks : pc[t] = "idle"
    BY <1>6 DEF DumpEnd
  <2> QED BY <1>6, <2>1 DEF DumpEnd
<1>7. CASE BootSystem
  BY <1>7 DEF BootSystem
<1>8. CASE WarmReset \/ PowerLoss \/ \E t \in Tasks : ResetAssert(t)
  <2>1. \A t \in Tasks : pc'[t] = "idle"
    BY <1>8, RestartIdle DEF WarmReset, PowerLoss, ResetAssert
  <2>2. CASE PowerLoss
    BY <2>1, <2>2 DEF PowerLoss
  <2>3. CASE WarmReset \/ \E t \in Tasks : ResetAssert(t)
    BY <2>1, <2>3 DEF WarmReset, ResetAssert
  <2> QED BY <1>8, <2>2, <2>3
<1>9. CASE UNCHANGED vars
  BY <1>9 DEF vars
<1> QED
  BY <1>1, <1>2, <1>3, <1>4, <1>5, <1>6, <1>7, <1>8, <1>9
     DEF Next, LogStep, Logging, AssertStep, DumpStep

\* In the build that resets on an assertion, however many tasks fail at once, the
\* unsigned difference the boot's dump computes is never that of a larger number.
THEOREM NoWrap == ASSUME ~HaltOnAssert PROVE Spec => []DifferenceNeverWraps
<1>1. Init => NoWrapInv
  BY ActorsAssumption DEF Init, NoWrapInv, DifferenceNeverWraps, Actors
<1>2. BaseInv /\ NoWrapInv /\ [Next]_vars => NoWrapInv'
  BY NoWrapNext
<1>3. NoWrapInv => DifferenceNeverWraps
  BY DEF NoWrapInv
<1> QED BY <1>1, <1>2, <1>3, BaseInvariant, PTL DEF Spec

-----------------------------------------------------------------------------
(* One task logging *)

SingleLogger == \A s, t \in Tasks : s = t

\* Where the one logger's record is on its way from the call to the ring.
LoggerInv ==
  /\ magic => displayed <= count
  /\ \A n \in Ordinals : at[n] <= calls
  /\ \A f \in whole : f <= calls
  /\ \A t \in Tasks :
       /\ pc[t] # "idle" => cur[t] = calls
       /\ pc[t] \in {"clear", "mark", "load", "bump"} =>
            cur[t] \notin whole /\ \A n \in Ordinals : at[n] # cur[t]
       /\ pc[t] = "bump" => rec[t] = count
       /\ pc[t] \in {"copy", "copying"} =>
            /\ cur[t] \notin whole
            /\ count = rec[t] + 1
            /\ displayed <= rec[t]
            /\ at[rec[t]] = cur[t]
            /\ \A n \in Ordinals : n # rec[t] => at[n] # cur[t]

\* What an unfinished dump knows of the window it prints.
DumpInv ==
  \A a \in Actors : pc[a] = "dumping" =>
    /\ magic
    /\ dump[a].new = IF count - displayed >= 4 THEN 4 ELSE count - displayed
    /\ dump[a].first = IF count - displayed >= 4 THEN Slot(count) ELSE displayed
    /\ Len(printed[a]) = dump[a].offset
    /\ dump[a].offset <= dump[a].new

\* While one actor dumps nobody else touches the records.
DumpAlone ==
  \A a, b \in Actors : pc[a] \in {"dump", "dumping"} /\ a # b => pc[b] \in {"idle", "up"}

\* With one task, a dump runs while every other actor is idle or past its boot.
LEMMA DumpIsAlone == ASSUME SingleLogger, BaseInv PROVE DumpAlone
BY ActorsAssumption DEF SingleLogger, BaseInv, ControlOK, DumpAlone, Actors, Running, TypeOK

\* With one task, every step keeps what the logger knows of its own record.
LEMMA LoggerNext ==
  ASSUME SingleLogger, BaseInv, LoggerInv, [Next]_vars
  PROVE  LoggerInv'
<1> USE ActorsAssumption
<1> USE DEF SingleLogger, BaseInv, TypeOK, ControlOK, LoggerInv, Actors, Points, Ordinals,
            Running, Goto, preserved, locals, history
<1>1. ASSUME NEW t \in Tasks, LogFailure(t) PROVE LoggerInv'
  <2>1. cur'[t] = calls + 1 /\ calls' = calls + 1 /\ UNCHANGED <<magic, count, displayed, at, whole>>
    BY <1>1 DEF LogFailure
  <2>2. pc'[t] \in {"mark", "clear"} /\ \A s \in Tasks : s = t
    BY <1>1 DEF LogFailure
  <2>3. \A n \in Ordinals : at[n] \in Nat /\ at[n] <= calls
    BY BoundAssumption DEF Failures, Garbage
  <2>4. \A f \in whole : f \in Nat /\ f <= calls
    BY BoundAssumption DEF Failures
  <2>5. calls + 1 \notin whole /\ \A n \in Ordinals : at[n] # calls + 1
    BY <2>3, <2>4
  <2>6. magic' => displayed' <= count'
    BY <2>1
  <2>7. (\A n \in Ordinals : at[n] <= calls)' /\ (\A f \in whole : f <= calls)'
    BY <2>1, <2>3, <2>4
  <2> QED BY <2>1, <2>2, <2>5, <2>6, <2>7
<1>2. ASSUME NEW t \in Tasks, ClearCounters(t) PROVE LoggerInv'
  BY <1>2 DEF ClearCounters
<1>3. ASSUME NEW t \in Tasks, SetMagic(t) PROVE LoggerInv'
  BY <1>3 DEF SetMagic
<1>4. ASSUME NEW t \in Tasks, LoadCount(t) PROVE LoggerInv'
  BY <1>4 DEF LoadCount
<1>5. ASSUME NEW t \in Tasks, BumpCount(t) PROVE LoggerInv'
  BY <1>5 DEF BumpCount
<1>6. ASSUME NEW t \in Tasks, CopyBegin(t) PROVE LoggerInv'
  BY <1>6 DEF CopyBegin
<1>7. ASSUME NEW t \in Tasks, CopyEnd(t) PROVE LoggerInv'
  BY <1>7 DEF CopyEnd
<1>8. ASSUME NEW t \in Tasks, HaltAssert(t) PROVE LoggerInv'
  BY <1>8 DEF HaltAssert
<1>9. ASSUME NEW a \in Actors, DumpBegin(a) PROVE LoggerInv'
  BY <1>9 DEF DumpBegin
<1>10. ASSUME NEW a \in Actors, DumpRecord(a) PROVE LoggerInv'
  BY <1>10 DEF DumpRecord
<1>11. ASSUME NEW a \in Actors, DumpEnd(a) PROVE LoggerInv'
  BY <1>11 DEF DumpEnd
<1>12. CASE BootSystem
  BY <1>12 DEF BootSystem
<1>13. CASE WarmReset \/ \E t \in Tasks : ResetAssert(t)
  <2>1. \A t \in Tasks : pc'[t] = "idle"
    BY <1>13, RestartIdle DEF WarmReset, ResetAssert
  <2>2. UNCHANGED <<magic, count, displayed, calls, at, whole>>
    BY <1>13 DEF WarmReset, ResetAssert
  <2> QED BY <2>1, <2>2
<1>14. CASE PowerLoss
  BY <1>14 DEF PowerLoss, Restart, Garbage
<1>15. CASE UNCHANGED vars
  BY <1>15 DEF vars
<1> QED
  BY <1>1, <1>2, <1>3, <1>4, <1>5, <1>6, <1>7, <1>8, <1>9, <1>10, <1>11, <1>12, <1>13,
     <1>14, <1>15 DEF Next, LogStep, Logging, AssertStep, DumpStep

\* Fewer than four ordinals apart, two failures have different slots.
LEMMA SlotInjective ==
  ASSUME NEW m \in Nat, NEW n \in Nat, m < n, n < m + MAX_FAILURE_RECORDS
  PROVE  Slot(m) # Slot(n)
BY DEF Slot, MAX_FAILURE_RECORDS

\* Of the ordinals still in the ring, only the newest has the newest slot.
LEMMA RecentSlots ==
  ASSUME BaseInv, NEW r \in Ordinals, r = count - 1
  PROVE  \A n \in Recent : n # r => Slot(n) # Slot(r)
<1> SUFFICES ASSUME NEW n \in Recent, n # r PROVE Slot(n) # Slot(r)
  OBVIOUS
<1>1. n \in Nat /\ r \in Nat /\ n < r /\ r < n + MAX_FAILURE_RECORDS
  BY BoundAssumption DEF Recent, Ordinals, BaseInv, TypeOK, MAX_FAILURE_RECORDS
<1> QED BY <1>1, SlotInjective

\* With one task, no step overwrites a whole record that is still in the ring.
LEMMA RecentKeptNext ==
  ASSUME SingleLogger, BaseInv, LoggerInv, RecentKept, [Next]_vars
  PROVE  RecentKept'
<1> USE ActorsAssumption, BoundAssumption
<1> USE DEF RecentKept, Recent, Goto, preserved, locals, history
<1> USE DEF BaseInv, TypeOK, Ordinals, Slots, Slot, MAX_FAILURE_RECORDS
<1>1. ASSUME UNCHANGED <<count, info, at, whole>>, magic' => magic PROVE RecentKept'
  BY <1>1
<1>2. ASSUME NEW t \in Tasks, LogFailure(t) \/ LoadCount(t) \/ HaltAssert(t) PROVE RecentKept'
  BY <1>1, <1>2 DEF LogFailure, LoadCount, HaltAssert
<1>3. ASSUME NEW t \in Tasks, ClearCounters(t) PROVE RecentKept'
  BY <1>3 DEF ClearCounters
<1>4. ASSUME NEW t \in Tasks, SetMagic(t) PROVE RecentKept'
  BY <1>4 DEF SetMagic, ControlOK
<1>5. ASSUME NEW t \in Tasks, BumpCount(t) PROVE RecentKept'
  <2>1. rec[t] = count /\ count' = count + 1 /\ cur[t] \notin whole
    BY <1>5 DEF BumpCount, LoggerInv
  <2> QED BY <1>5, <2>1 DEF BumpCount
<1>6. ASSUME NEW t \in Tasks, CopyBegin(t) PROVE RecentKept'
  <2>1. rec[t] = count - 1 /\ at[rec[t]] \notin whole
    BY <1>6 DEF CopyBegin, LoggerInv
  <2>2. \A n \in Recent : n # rec[t] => Slot(n) # Slot(rec[t])
    BY <2>1, RecentSlots
  <2> QED BY <1>6, <2>1, <2>2 DEF CopyBegin
<1>7. ASSUME NEW t \in Tasks, CopyEnd(t) PROVE RecentKept'
  <2>1. rec[t] = count - 1 /\ at[rec[t]] = cur[t]
    BY <1>7 DEF CopyEnd, LoggerInv
  <2>2. \A n \in Recent : n # rec[t] => Slot(n) # Slot(rec[t])
    BY <2>1, RecentSlots
  <2>3. \A n \in Ordinals : n # rec[t] => at[n] # cur[t]
    BY <1>7 DEF CopyEnd, LoggerInv
  <2>4. /\ UNCHANGED <<magic, count, at>> /\ whole' = whole \cup {cur[t]}
        /\ info' = [info EXCEPT ![Slot(rec[t])] = cur[t]]
    BY <1>7 DEF CopyEnd
  <2>5. Recent' = Recent /\ \A n \in Recent : n \in Ordinals /\ Slot(n) \in Slots
    BY <2>4
  <2>6. ASSUME magic, NEW n \in Recent, at[n] \in whole \cup {cur[t]} PROVE info'[Slot(n)] = at[n]
    <3>1. CASE n = rec[t]
      BY <2>1, <2>4, <2>5, <3>1
    <3>2. CASE n # rec[t]
      BY <2>2, <2>3, <2>4, <2>5, <2>6, <3>2
    <3> QED BY <3>1, <3>2
  <2> HIDE DEF Recent
  <2> QED BY <2>4, <2>5, <2>6
<1>8. ASSUME NEW a \in Actors, DumpStep(a) PROVE RecentKept'
  BY <1>1, <1>8 DEF DumpStep, DumpBegin, DumpRecord, DumpEnd
<1>9. CASE BootSystem \/ WarmReset \/ \E t \in Tasks : ResetAssert(t)
  BY <1>1, <1>9 DEF BootSystem, WarmReset, ResetAssert
<1>10. CASE PowerLoss
  BY <1>10 DEF PowerLoss
<1>11. CASE UNCHANGED vars
  BY <1>1, <1>11 DEF vars
<1> QED
  BY <1>2, <1>3, <1>4, <1>5, <1>6, <1>7, <1>8, <1>9, <1>10, <1>11
     DEF Next, LogStep, Logging, AssertStep

\* The i-th record of the window is read from the slot of the ordinal it stands for.
LEMMA WindowSlot ==
  ASSUME BaseInv, LoggerInv, DumpInv, NEW a \in Actors, pc[a] = "dumping",
         dump[a].offset < dump[a].new
  PROVE  LET n == count - dump[a].new + dump[a].offset
         IN n \in Recent /\ displayed <= n /\ Slot(dump[a].first + dump[a].offset) = Slot(n)
<1> DEFINE new == dump[a].new
           off == dump[a].offset
           n == count - new + off
<1>1. dump[a] \in DumpLocals
  BY DEF BaseInv, TypeOK
<1>2. off \in 0..4 /\ off < new /\ count \in Ordinals /\ displayed \in Ordinals /\ displayed <= count
  BY <1>1 DEF DumpLocals, MAX_FAILURE_RECORDS, BaseInv, TypeOK, LoggerInv, DumpInv
<1>3. CASE count - displayed >= 4
  <2>1. new = 4 /\ dump[a].first = count % 4
    BY <1>3 DEF DumpInv, Slot, MAX_FAILURE_RECORDS
  <2>2. ((count % 4) + off) % 4 = (count - 4 + off) % 4
    BY <1>2, <1>3, BoundAssumption DEF Ordinals
  <2> QED BY <1>2, <1>3, <2>1, <2>2, BoundAssumption
             DEF Recent, Ordinals, Slot, MAX_FAILURE_RECORDS
<1>4. CASE ~(count - displayed >= 4)
  <2>1. new = count - displayed /\ dump[a].first = displayed
    BY <1>4 DEF DumpInv
  <2>2. n = displayed + off
    BY <1>2, <2>1, BoundAssumption DEF Ordinals
  <2> QED BY <1>2, <1>4, <2>1, <2>2, BoundAssumption
             DEF Recent, Ordinals, Slot, MAX_FAILURE_RECORDS
<1> QED BY <1>3, <1>4

\* Steps of anybody else leave what a dumping actor relies on alone.
LEMMA DumpUndisturbed ==
  ASSUME SingleLogger, BaseInv, [Next]_vars, NEW a \in Actors,
         pc[a] = "dumping", pc'[a] = "dumping"
  PROVE  /\ UNCHANGED <<magic, count, displayed, info, at, whole, acked>>
         /\ \/ DumpRecord(a)
            \/ UNCHANGED <<dump, printed>>
<1> USE ActorsAssumption
<1> USE DEF BaseInv, TypeOK, Actors, Goto, preserved, locals, history
<1>0. \A b \in Actors : b # a => pc[b] \in {"idle", "up"}
  BY DumpIsAlone DEF DumpAlone
<1>7. \A t \in Tasks : pc[t] = "idle" => ~Running \/ a \in Tasks
  BY <1>0 DEF Running
<1>1. ASSUME NEW t \in Tasks, LogStep(t) PROVE FALSE
  <2>1. t # a
    BY <1>1 DEF LogStep, Logging, LogFailure, ClearCounters, SetMagic, LoadCount, BumpCount, CopyBegin, CopyEnd
  <2>2. pc[t] = "idle" /\ LogFailure(t)
    BY <1>0, <1>1, <2>1, ControlOK
       DEF LogStep, Logging, LogFailure, ClearCounters, SetMagic, LoadCount, BumpCount, CopyBegin, CopyEnd, ControlOK
  <2>3. a \in Tasks
    BY <2>2, <1>7 DEF LogFailure
  <2> QED BY <2>1, <2>3 DEF SingleLogger
<1>2. ASSUME NEW t \in Tasks, AssertStep(t) PROVE FALSE
  <2>1. t # a /\ pc[t] = "assert"
    BY <1>2 DEF AssertStep, HaltAssert, ResetAssert
  <2> QED BY <1>0, <2>1
<1>3. ASSUME NEW b \in Actors, DumpStep(b) PROVE DumpRecord(a)
  <2>1. b = a
    BY <1>0, <1>3 DEF DumpStep, DumpBegin, DumpRecord, DumpEnd
  <2> QED BY <1>3, <2>1 DEF DumpStep, DumpBegin, DumpEnd
<1>4. ASSUME BootSystem PROVE FALSE
  <2>1. a # BootHook /\ pc[BootHook] = "boot"
    BY <1>4 DEF BootSystem
  <2> QED BY <1>0, <2>1
<1>5. ASSUME Restart PROVE FALSE
  BY <1>5 DEF Restart
<1>6. ASSUME DumpRecord(a) PROVE UNCHANGED <<magic, count, displayed, info, at, whole, acked>>
  BY <1>6 DEF DumpRecord
<1> QED
  BY <1>1, <1>2, <1>3, <1>4, <1>5, <1>6 DEF Next, WarmReset, PowerLoss, vars

\* A dump that a step starts: only DumpBegin reaches "dumping".
LEMMA DumpStarts ==
  ASSUME BaseInv, [Next]_vars, NEW a \in Actors, pc[a] # "dumping", pc'[a] = "dumping"
  PROVE  DumpBegin(a)
<1> USE ActorsAssumption
<1> USE DEF BaseInv, TypeOK, Actors, Goto, preserved, locals, history
<1>1. ASSUME NEW t \in Tasks, LogStep(t) \/ AssertStep(t) PROVE FALSE
  BY <1>1 DEF LogStep, Logging, LogFailure, ClearCounters, SetMagic, LoadCount, BumpCount, CopyBegin,
              CopyEnd, AssertStep, HaltAssert, ResetAssert, Restart
<1>2. ASSUME NEW b \in Actors, DumpStep(b) PROVE DumpBegin(a)
  BY <1>2 DEF DumpStep, DumpBegin, DumpRecord, DumpEnd
<1>3. ASSUME BootSystem \/ WarmReset \/ PowerLoss PROVE FALSE
  BY <1>3 DEF BootSystem, WarmReset, PowerLoss, Restart
<1> QED BY <1>1, <1>2, <1>3 DEF Next, vars

\* With one task, every step keeps a dump within the window it computed.
LEMMA DumpInvNext ==
  ASSUME SingleLogger, BaseInv, LoggerInv, DumpInv, [Next]_vars
  PROVE  DumpInv'
<1> SUFFICES ASSUME NEW a \in Actors, pc'[a] = "dumping"
             PROVE  /\ magic'
                    /\ dump'[a].new = IF count' - displayed' >= 4 THEN 4 ELSE count' - displayed'
                    /\ dump'[a].first = IF count' - displayed' >= 4 THEN Slot(count') ELSE displayed'
                    /\ Len(printed'[a]) = dump'[a].offset
                    /\ dump'[a].offset <= dump'[a].new
  BY DEF DumpInv, Slot
<1> USE DEF BaseInv, TypeOK, MAX_FAILURE_RECORDS
<1>1. CASE pc[a] # "dumping"
  <2>1. DumpBegin(a)
    BY <1>1, DumpStarts
  <2>2. magic
    BY <2>1 DEF DumpBegin, Goto, ControlOK, TaskPoints, Actors
  <2>3. dump'[a] = Window /\ printed'[a] = <<>> /\ UNCHANGED <<magic, count, displayed>>
    BY <2>1 DEF DumpBegin, preserved
  <2>4. displayed <= count
    BY <2>2 DEF LoggerInv
  <2>5. Unshown = count - displayed
    BY <2>4 DEF Unshown
  <2> QED BY <2>2, <2>3, <2>4, <2>5, BoundAssumption DEF Window, Ordinals
<1>2. CASE pc[a] = "dumping" /\ UNCHANGED <<dump, printed>>
  BY <1>2, DumpUndisturbed DEF DumpInv
<1>3. CASE pc[a] = "dumping" /\ DumpRecord(a)
  <2>1. UNCHANGED <<magic, count, displayed>>
    BY <1>3, DumpUndisturbed
  <2>2. dump'[a] = [dump[a] EXCEPT !.offset = dump[a].offset + 1]
    BY <1>3 DEF DumpRecord
  <2>3. Len(printed'[a]) = Len(printed[a]) + 1
    BY <1>3 DEF DumpRecord, Lines
  <2>4. dump[a] \in DumpLocals
    OBVIOUS
  <2>5. /\ dump'[a].offset = dump[a].offset + 1 /\ dump'[a].new = dump[a].new
        /\ dump'[a].first = dump[a].first
    BY <2>2, <2>4 DEF DumpLocals
  <2>6. dump[a].offset < dump[a].new /\ dump[a].offset \in 0..4 /\ dump[a].new \in 0..4
    BY <1>3, <2>4 DEF DumpRecord, DumpLocals
  <2> HIDE DEF TypeOK
  <2> QED BY <1>3, <2>1, <2>3, <2>5, <2>6 DEF DumpInv
<1> QED BY <1>1, <1>2, <1>3, DumpUndisturbed

\* With one task, the line a dump adds is the record of the ordinal it stands for.
LEMMA DumpInOrderNext ==
  ASSUME SingleLogger, BaseInv, LoggerInv, DumpInv, RecentKept, DumpInOrder, [Next]_vars
  PROVE  DumpInOrder'
<1> SUFFICES ASSUME NEW a \in Actors, pc'[a] = "dumping", NEW i \in 1..Len(printed'[a])
             PROVE  LET n == count' - dump'[a].new + i - 1
                    IN n \in Ordinals /\ (at'[n] \in whole' => printed'[a][i].failure = at'[n])
  BY DEF DumpInOrder
<1> USE DEF BaseInv
<1>1. CASE pc[a] # "dumping"
  BY <1>1, DumpStarts DEF DumpBegin, TypeOK
<1>2. CASE pc[a] = "dumping" /\ UNCHANGED <<dump, printed>>
  BY <1>2, DumpUndisturbed DEF DumpInOrder
<1>3. CASE pc[a] = "dumping" /\ DumpRecord(a)
  <2> DEFINE num == dump[a].first + dump[a].offset
             n == count - dump[a].new + dump[a].offset
             line == [number |-> num, failure |-> info[Slot(num)]]
  <2>1. UNCHANGED <<count, at, whole>>
    BY <1>3, DumpUndisturbed
  <2>2. dump[a] \in DumpLocals /\ printed[a] \in Seq(Lines)
    BY DEF TypeOK
  <2>3. dump'[a].new = dump[a].new
    BY <1>3, <2>2 DEF DumpRecord, TypeOK, DumpLocals
  <2>4. printed'[a] = Append(printed[a], line)
    BY <1>3 DEF DumpRecord, TypeOK
  <2>5. n \in Recent /\ Slot(num) = Slot(n) /\ magic
    BY <1>3, WindowSlot DEF DumpRecord, DumpInv
  <2>6. at[n] \in whole => line.failure = at[n]
    BY <2>5 DEF RecentKept
  <2>7. Len(printed[a]) = dump[a].offset
    BY <1>3 DEF DumpInv
  <2>8. CASE i = Len(printed[a]) + 1
    <3>1. count - dump[a].new + i - 1 = n
      BY <2>2, <2>7, <2>8 DEF DumpLocals, TypeOK, Ordinals, MAX_FAILURE_RECORDS
    <3>2. printed'[a][i] = line
      BY <2>2, <2>4, <2>8
    <3>3. n \in Ordinals
      BY <2>5 DEF Recent
    <3> QED BY <2>1, <2>3, <2>6, <3>1, <3>2, <3>3
  <2>9. CASE i # Len(printed[a]) + 1
    <3>1. i \in 1..Len(printed[a]) /\ printed'[a][i] = printed[a][i]
      BY <2>2, <2>4, <2>9
    <3> QED BY <1>3, <2>1, <2>3, <3>1 DEF DumpInOrder
  <2> QED BY <2>8, <2>9
<1> QED BY <1>1, <1>2, <1>3, DumpUndisturbed

SingleInv == BaseInv /\ LoggerInv /\ DumpInv /\ RecentKept /\ DumpInOrder

\* With one task, all of these hold of every reachable state.
LEMMA SingleInvariant == ASSUME SingleLogger PROVE Spec => []SingleInv
<1>1. Init => LoggerInv /\ DumpInv /\ RecentKept /\ DumpInOrder
  <2> SUFFICES ASSUME Init PROVE LoggerInv /\ DumpInv /\ RecentKept /\ DumpInOrder
    OBVIOUS
  <2>1. ~magic /\ (\A a \in Actors : pc[a] # "dumping") /\ \A t \in Tasks : pc[t] = "idle"
    BY ActorsAssumption DEF Init, Actors
  <2>2. (\A n \in Ordinals : at[n] <= calls) /\ \A f \in whole : f <= calls
    BY DEF Init, Garbage
  <2> QED BY <2>1, <2>2 DEF LoggerInv, DumpInv, RecentKept, DumpInOrder
<1>2. ASSUME BaseInv, LoggerInv, DumpInv, RecentKept, DumpInOrder, [Next]_vars
      PROVE  LoggerInv' /\ DumpInv' /\ RecentKept' /\ DumpInOrder'
  BY <1>2, LoggerNext, DumpInvNext, RecentKeptNext, DumpInOrderNext
<1>3. Spec => [](LoggerInv /\ DumpInv /\ RecentKept /\ DumpInOrder)
  BY <1>1, <1>2, BaseInvariant, PTL DEF Spec
<1> QED BY <1>3, BaseInvariant, PTL DEF SingleInv

\* While failures are logged by one task at a time, a record that was copied to the end
\* survives every reset that keeps RAM, until four newer failures reserve a slot.
THEOREM RecordsKept == ASSUME SingleLogger PROVE Spec => []RecentKept
BY SingleInvariant, PTL DEF SingleInv

\* ... and each dump, at boot or on a halt, prints the newest of them oldest first.
THEOREM DumpsInOrder == ASSUME SingleLogger PROVE Spec => []DumpInOrder
BY SingleInvariant, PTL DEF SingleInv

-----------------------------------------------------------------------------
(* What completed dumps have acknowledged, one task logging *)

AckInv ==
  /\ \A f \in acked : f <= calls
  /\ \A s \in Slots : info[s] <= calls
  /\ \A a \in Actors : \A i \in 1..Len(printed[a]) : printed[a][i].failure <= calls
  /\ \A t \in Tasks : pc[t] \in {"clear", "mark", "load", "bump", "copy", "copying"} =>
       cur[t] \notin acked
  /\ magic => \A n \in Ordinals :
       displayed <= n /\ n < count /\ at[n] \in whole => at[n] \notin acked
  /\ magic => \A n \in Recent : n < displayed /\ at[n] \in whole => at[n] \in acked

\* A dump that ends has printed the whole unacknowledged part of the ring.
LEMMA DumpComplete ==
  ASSUME SingleInv, NEW a \in Actors, DumpEnd(a), NEW n \in Recent, displayed <= n,
         at[n] \in whole
  PROVE  at[n] \in acked'
<1> USE DEF SingleInv, BaseInv
<1> DEFINE new == dump[a].new
           i == n - (count - new) + 1
<1>1. pc[a] = "dumping" /\ dump[a].offset >= new
  BY DEF DumpEnd, Goto
<1>2. dump[a] \in DumpLocals /\ count \in Ordinals /\ displayed \in Ordinals
  BY DEF TypeOK
<1>3. /\ new = IF count - displayed >= 4 THEN 4 ELSE count - displayed
      /\ Len(printed[a]) = new
  BY <1>1, <1>2 DEF DumpInv, DumpLocals, MAX_FAILURE_RECORDS
<1>a. n \in Nat /\ n < count /\ count <= n + 4 /\ count \in Nat /\ displayed \in Nat
  BY <1>2, BoundAssumption DEF Recent, Ordinals, MAX_FAILURE_RECORDS
<1>b. new \in Nat /\ count - new <= n
  BY <1>3, <1>a
<1> HIDE DEF new
<1>4. i \in 1..Len(printed[a]) /\ count - new + i - 1 = n
  BY <1>3, <1>a, <1>b
<1>5. printed[a][i].failure = at[n]
  BY <1>1, <1>4 DEF DumpInOrder, new
<1> QED BY <1>4, <1>5 DEF DumpEnd

\* With one task, every step keeps the acknowledged failures apart from the rest.
LEMMA AckNext ==
  ASSUME SingleLogger, SingleInv, AckInv, [Next]_vars
  PROVE  AckInv'
<1> USE ActorsAssumption, BoundAssumption
<1> USE DEF SingleInv, BaseInv, TypeOK, AckInv, Actors, Goto, preserved, locals, history
<1>1. ASSUME NEW t \in Tasks, LogFailure(t) PROVE AckInv'
  <2>1. /\ calls' = calls + 1 /\ cur'[t] = calls + 1
        /\ UNCHANGED <<magic, count, displayed, info, printed, at, whole, acked>>
    BY <1>1 DEF LogFailure
  <2>2. \A s \in Tasks : s = t
    BY DEF SingleLogger
  <2>3. calls + 1 \notin acked
    BY DEF Ordinals
  <2>a. \A f \in Failures \cup {Garbage} : f <= calls => f <= calls + 1
    BY DEF Ordinals, Failures, Garbage
  <2>4. (\A f \in acked : f <= calls)' /\ (\A s \in Slots : info[s] <= calls)'
    BY <2>1, <2>a
  <2>5. \A a \in Actors : \A i \in 1..Len(printed[a]) : printed[a][i] \in Lines
    OBVIOUS
  <2>b. \A line \in Lines : line.failure \in Failures \cup {Garbage}
    BY DEF Lines
  <2>6. \A a \in Actors : \A i \in 1..Len(printed[a]) : printed[a][i].failure <= calls + 1
    BY <2>5, <2>a, <2>b
  <2> QED BY <2>1, <2>2, <2>3, <2>4, <2>6 DEF Recent
<1>2. ASSUME NEW t \in Tasks, ClearCounters(t) PROVE AckInv'
  BY <1>2 DEF ClearCounters, Recent, Ordinals
<1>3. ASSUME NEW t \in Tasks, SetMagic(t) PROVE AckInv'
  BY <1>3 DEF SetMagic, ControlOK, Recent, Ordinals
<1>4. ASSUME NEW t \in Tasks, LoadCount(t) PROVE AckInv'
  BY <1>4 DEF LoadCount, Recent
<1>5. ASSUME NEW t \in Tasks, BumpCount(t) PROVE AckInv'
  <2>1. rec[t] = count /\ count' = count + 1 /\ cur[t] \notin whole /\ magic /\ displayed <= count
    BY <1>5 DEF BumpCount, LoggerInv, ControlOK
  <2>2. /\ UNCHANGED <<magic, displayed, info, calls, cur, printed, whole, acked>>
        /\ at' = [at EXCEPT ![count] = cur[t]]
    BY <1>5, <2>1 DEF BumpCount
  <2>3. (magic => \A n \in Ordinals :
           displayed <= n /\ n < count /\ at[n] \in whole => at[n] \notin acked)'
    BY <2>1, <2>2 DEF Ordinals
  <2>4. (magic => \A n \in Recent : n < displayed /\ at[n] \in whole => at[n] \in acked)'
    BY <2>1, <2>2 DEF Recent, Ordinals, MAX_FAILURE_RECORDS
  <2> QED BY <1>5, <2>2, <2>3, <2>4 DEF BumpCount
<1>6. ASSUME NEW t \in Tasks, CopyBegin(t) PROVE AckInv'
  BY <1>6 DEF CopyBegin, Recent, Garbage, Ordinals, Slots
<1>7. ASSUME NEW t \in Tasks, CopyEnd(t) PROVE AckInv'
  <2>1. /\ cur[t] = calls /\ cur[t] \notin acked /\ count = rec[t] + 1 /\ displayed <= rec[t]
        /\ \A n \in Ordinals : n # rec[t] => at[n] # cur[t]
    BY <1>7 DEF CopyEnd, LoggerInv
  <2>2. /\ UNCHANGED <<magic, count, displayed, calls, cur, printed, at, acked>>
        /\ whole' = whole \cup {cur[t]}
        /\ info' = [info EXCEPT ![Slot(rec[t])] = cur[t]]
    BY <1>7 DEF CopyEnd
  <2>3. \A s \in Slots : info'[s] <= calls
    BY <2>1, <2>2 DEF Ordinals
  <2>4. (magic => \A n \in Ordinals :
           displayed <= n /\ n < count /\ at[n] \in whole => at[n] \notin acked)'
    BY <2>1, <2>2
  <2>5. (magic => \A n \in Recent : n < displayed /\ at[n] \in whole => at[n] \in acked)'
    BY <2>1, <2>2 DEF Recent, Ordinals
  <2> QED BY <1>7, <2>1, <2>2, <2>3, <2>4, <2>5 DEF CopyEnd
<1>8. ASSUME NEW t \in Tasks, HaltAssert(t) PROVE AckInv'
  BY <1>8 DEF HaltAssert, Recent
<1>9. ASSUME NEW a \in Actors, DumpBegin(a) PROVE AckInv'
  BY <1>9 DEF DumpBegin, Recent
<1>10. ASSUME NEW a \in Actors, DumpRecord(a) PROVE AckInv'
  <2> DEFINE num == dump[a].first + dump[a].offset
             line == [number |-> num, failure |-> info[Slot(num)]]
  <2>1. /\ UNCHANGED <<magic, count, displayed, info, pc, cur, calls, at, whole, acked>>
        /\ printed' = [printed EXCEPT ![a] = Append(printed[a], line)]
    BY <1>10 DEF DumpRecord
  <2>2. line.failure <= calls
    BY DumpReads
  <2>3. ASSUME NEW b \in Actors, NEW i \in 1..Len(printed'[b])
        PROVE  printed'[b][i].failure <= calls
    BY <2>1, <2>2
  <2> HIDE DEF line
  <2> QED BY <2>1, <2>3 DEF Recent
<1>11. ASSUME NEW a \in Actors, DumpEnd(a) PROVE AckInv'
  <2>1. /\ UNCHANGED <<magic, count, info, printed, cur, calls, at, whole>>
        /\ displayed' = count
        /\ acked' = acked \cup {printed[a][i].failure : i \in 1..Len(printed[a])}
    BY <1>11 DEF DumpEnd
  <2>2. \A f \in acked' : f <= calls'
    BY <2>1
  <2>3. \A t \in Tasks : pc'[t] \notin {"clear", "mark", "load", "bump", "copy", "copying"}
    BY <1>11, DumpIsAlone DEF DumpEnd, DumpAlone
  <2>4. \A n \in Recent : at[n] \in whole => at[n] \in acked'
    <3>1. ASSUME NEW n \in Recent, at[n] \in whole, n < displayed PROVE at[n] \in acked'
      BY <1>11, <2>1, <3>1 DEF DumpEnd, DumpInv
    <3> QED BY <1>11, <3>1, DumpComplete DEF Recent, Ordinals
  <2>5. (magic => \A n \in Ordinals :
           displayed <= n /\ n < count /\ at[n] \in whole => at[n] \notin acked)'
    BY <2>1 DEF Ordinals
  <2>6. (magic => \A n \in Recent : n < displayed /\ at[n] \in whole => at[n] \in acked)'
    BY <2>1, <2>4 DEF Recent
  <2> QED BY <2>1, <2>2, <2>3, <2>5, <2>6
<1>12. CASE BootSystem
  BY <1>12 DEF BootSystem, Recent
<1>13. ASSUME Restart PROVE /\ \A t \in Tasks : pc'[t] = "idle"
                            /\ \A a \in Actors : Len(printed'[a]) = 0
  BY <1>13, RestartIdle DEF Restart
<1>14. CASE WarmReset \/ \E t \in Tasks : ResetAssert(t)
  <2>1. UNCHANGED <<magic, count, displayed, info, calls, at, whole, acked>> /\ Restart
    BY <1>14 DEF WarmReset, ResetAssert
  <2> QED BY <1>13, <2>1 DEF Recent
<1>15. CASE PowerLoss
  BY <1>13, <1>15 DEF PowerLoss, Garbage, Ordinals
<1>16. CASE UNCHANGED vars
  BY <1>16 DEF vars, Recent
<1> QED
  BY <1>1, <1>2, <1>3, <1>4, <1>5, <1>6, <1>7, <1>8, <1>9, <1>10, <1>11, <1>12, <1>14,
     <1>15, <1>16 DEF Next, LogStep, Logging, AssertStep, DumpStep

\* With one task, the acknowledged failures are those below the displayed count.
LEMMA AckInvariant == ASSUME SingleLogger PROVE Spec => []AckInv
<1>1. Init => AckInv
  <2> SUFFICES ASSUME Init PROVE AckInv
    OBVIOUS
  <2>1. ~magic /\ acked = {} /\ calls = 0 /\ \A t \in Tasks : pc[t] = "idle"
    BY ActorsAssumption DEF Init, Actors
  <2>2. \A s \in Slots : info[s] = 0
    BY DEF Init, Garbage
  <2>3. \A a \in Actors : Len(printed[a]) = 0
    BY DEF Init
  <2> QED BY <2>1, <2>2, <2>3 DEF AckInv
<1>2. SingleInv /\ AckInv /\ [Next]_vars => AckInv'
  BY AckNext
<1> QED BY <1>1, <1>2, SingleInvariant, PTL DEF Spec

\* While failures are logged by one task at a time, a boot whose dump runs to its end
\* has printed each whole record of the ring that no earlier dump had.
THEOREM BootsReportAll == ASSUME SingleLogger PROVE Spec => BootReportsAll
<1>1. ASSUME SingleInv, AckInv, DumpEnd(BootHook), NEW n \in Recent, at[n] \in whole
      PROVE  at[n] \in acked'
  <2>1. CASE displayed <= n
    BY <1>1, <2>1, DumpComplete DEF Actors
  <2>2. CASE n < displayed
    BY <1>1, <2>2 DEF AckInv, SingleInv, DumpInv, DumpEnd, Goto, Actors
  <2>3. displayed \in Ordinals /\ n \in Ordinals
    BY <1>1 DEF SingleInv, BaseInv, TypeOK, Recent
  <2>4. displayed <= n \/ n < displayed
    BY <2>3, BoundAssumption DEF Ordinals
  <2> QED BY <2>1, <2>2, <2>4
<1>2. SingleInv /\ AckInv =>
        (DumpEnd(BootHook) => \A n \in Recent : at[n] \in whole => at[n] \in acked')
  BY <1>1
<1> QED BY <1>2, SingleInvariant, AckInvariant, PTL DEF BootReportsAll

\* ... and never prints again what a completed dump acknowledged.
THEOREM NothingPrintedTwice == ASSUME SingleLogger PROVE Spec => PrintedOnce
<1>1. ASSUME SingleInv, AckInv, NEW a \in Actors, DumpRecord(a),
             at[count - dump[a].new + dump[a].offset] \in whole
      PROVE  at[count - dump[a].new + dump[a].offset] \notin acked
  <2> DEFINE n == count - dump[a].new + dump[a].offset
  <2>1. n \in Recent /\ displayed <= n /\ magic
    BY <1>1, WindowSlot DEF DumpRecord, DumpInv, SingleInv
  <2> QED BY <1>1, <2>1 DEF AckInv, Recent
<1>2. SingleInv /\ AckInv =>
        \A a \in Actors :
          DumpRecord(a) => LET n == count - dump[a].new + dump[a].offset
                           IN at[n] \in whole => at[n] \notin acked
  BY <1>1
<1> QED BY <1>2, SingleInvariant, AckInvariant, PTL DEF PrintedOnce
=============================================================================
