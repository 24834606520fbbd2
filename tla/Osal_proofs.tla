---------------------------- MODULE Osal_proofs ----------------------------
(***************************************************************************)
(* Proofs about Osal, for any periods and any tasks: a timer in force has   *)
(* its own period, nothing is called back after a stop on one core, and the *)
(* argument of a new task has one owner.                                    *)
(*                                                                         *)
(* PeriodInForce and NothingAfterStop are of one step back: the second      *)
(* holds because an armed alarm belongs to a live timer that is not quiet   *)
(* (AlarmOwned), on any number of cores.  ArgOwned follows from where the   *)
(* creator and the task are (Handover).                                     *)
(***************************************************************************)
EXTENDS Osal, TLAPS

TimerTypeOK ==
  /\ cores \in {1, 2}
  /\ timer \in [live : BOOLEAN, auto : BOOLEAN, period : Nat]
  /\ esp \in [made : BOOLEAN, armed : BOOLEAN, left : Int, period : Nat]
  /\ caller \in {"idle", "restart", "delete", "free"}
  /\ phase \in {"idle", "taken", "in"}

AlarmOwned == esp.armed => timer.live /\ ~quiet /\ caller \notin {"delete", "free"}

TimerInv == TimerTypeOK /\ AlarmOwned /\ PeriodInForce /\ NothingAfterStop

-----------------------------------------------------------------------------
(* The timer *)

\* A fresh timer (mmosal_timer_create has not been called) satisfies the invariant.
LEMMA TimerStarts == InitTimer => TimerInv
  BY DEF InitTimer, TimerInv, TimerTypeOK, AlarmOwned, PeriodInForce, NothingAfterStop,
         NoTimer, NoEsp

\* Arming keeps the record of esp_timer well formed (esp_timer_start_once, _periodic).
LEMMA ArmedType ==
  ASSUME TimerTypeOK, NEW p \in Nat
  PROVE  Armed(p) \in [made : BOOLEAN, armed : BOOLEAN, left : Int, period : Nat]
  BY DEF Armed, TimerTypeOK

\* mmosal_timer_start, whoever calls it on a live timer that nobody deletes.
LEMMA StartKeeps ==
  ASSUME TimerTypeOK, AlarmOwned, PeriodInForce,
         timer.live, caller \notin {"delete", "free"}, caller' = caller,
         phase' \in {"idle", "taken", "in"}, mmosal_timer_start
  PROVE  TimerTypeOK' /\ AlarmOwned' /\ PeriodInForce'
<1>1. TimerTypeOK'
  <2>1. CASE esp.armed
    BY <2>1 DEF mmosal_timer_start, TimerTypeOK
  <2>2. CASE ~esp.armed
    <3>1. timer.period \in Nat
      BY DEF TimerTypeOK
    <3> QED BY <2>2, <3>1, ArmedType DEF mmosal_timer_start, TimerTypeOK
  <2> QED BY <2>1, <2>2
<1>2. AlarmOwned'
  BY DEF mmosal_timer_start, Armed, TimerTypeOK, AlarmOwned
<1>3. PeriodInForce'
  BY DEF mmosal_timer_start, Armed, TimerTypeOK, PeriodInForce
<1> QED BY <1>1, <1>2, <1>3

\* mmosal_timer_stop, likewise.
LEMMA StopKeeps ==
  ASSUME TimerTypeOK, AlarmOwned, PeriodInForce, caller' = caller,
         phase' \in {"idle", "taken", "in"}, mmosal_timer_stop
  PROVE  TimerTypeOK' /\ AlarmOwned' /\ PeriodInForce'
  BY DEF mmosal_timer_stop, Disarmed, TimerTypeOK, AlarmOwned, PeriodInForce

\* mmosal_timer_create keeps the invariant.
LEMMA CreateKeeps == ASSUME TimerInv, mmosal_timer_create PROVE TimerInv'
<1> USE DEF TimerInv
<1>1. TimerTypeOK'
  <2>1. CASE UNCHANGED <<timer, esp, quiet>>
    BY <2>1 DEF mmosal_timer_create, TimerTypeOK
  <2>2. ASSUME NEW p \in Periods, NEW auto \in BOOLEAN,
               timer' = [live |-> TRUE, auto |-> auto, period |-> p],
               esp' = [NoEsp EXCEPT !.made = TRUE]
        PROVE  TimerTypeOK'
    <3>1. p \in Nat
      BY TimerAssumption
    <3>2. UNCHANGED <<cores, caller, phase>>
      BY DEF mmosal_timer_create
    <3>3. esp' \in [made : BOOLEAN, armed : BOOLEAN, left : Int, period : Nat]
      <4>1. NoEsp \in [made : BOOLEAN, armed : BOOLEAN, left : Int, period : Nat]
        BY DEF NoEsp
      <4> QED BY <2>2, <4>1
    <3>4. timer' \in [live : BOOLEAN, auto : BOOLEAN, period : Nat]
      BY <2>2, <3>1
    <3> QED BY <3>2, <3>3, <3>4 DEF TimerTypeOK
  <2> QED BY <2>1, <2>2 DEF mmosal_timer_create
<1>2. AlarmOwned'
  BY DEF mmosal_timer_create, NoEsp, AlarmOwned
<1>3. PeriodInForce' /\ NothingAfterStop'
  BY DEF mmosal_timer_create, NoEsp, PeriodInForce, NothingAfterStop
<1> QED BY <1>1, <1>2, <1>3

\* The owner keeps it: on one core it does not run between an alarm and its callback.
LEMMA OwnerKeeps == ASSUME TimerInv, Owner PROVE TimerInv'
<1> USE DEF TimerInv
<1>1. NothingAfterStop'
  <2>1. phase' = phase /\ cores' = cores
    BY DEF Owner, OwnerStarts, OwnerStops, OwnerChanges, DeleteStop, DeleteHandle, DeleteFree,
           mmosal_timer_start, mmosal_timer_stop
  <2>2. cores = 1 => phase = "idle"
    BY DEF Owner, OwnerRuns
  <2> QED BY <2>1, <2>2 DEF NothingAfterStop
<1>2. CASE OwnerStarts
  BY <1>1, <1>2, StartKeeps DEF Owner, OwnerStarts, TimerTypeOK
<1>3. CASE OwnerStops
  BY <1>1, <1>3, StopKeeps DEF OwnerStops, TimerTypeOK
<1>4. CASE OwnerChanges
  <2>1. TimerTypeOK'
    <3>1. ASSUME NEW p \in Periods, StorePeriod(p), UNCHANGED <<cores, esp, phase>>,
                 caller' = "restart"
          PROVE  TimerTypeOK'
      BY <3>1, TimerAssumption DEF StorePeriod, TimerTypeOK
    <3>2. ASSUME Restart(timer.period), UNCHANGED <<cores, timer, phase>>, caller' = "idle"
          PROVE  TimerTypeOK'
      BY <3>2, ArmedType DEF Restart, TimerTypeOK
    <3> QED BY <1>4, <3>1, <3>2 DEF OwnerChanges
  <2>2. AlarmOwned'
    BY <1>4 DEF OwnerChanges, StorePeriod, Restart, Armed, TimerTypeOK, AlarmOwned
  <2>3. PeriodInForce'
    BY <1>4 DEF OwnerChanges, StorePeriod, Restart, Armed, TimerTypeOK, PeriodInForce
  <2> QED BY <1>1, <2>1, <2>2, <2>3
<1>5. CASE DeleteStop
  BY <1>1, <1>5 DEF DeleteStop, Disarmed, TimerTypeOK, AlarmOwned, PeriodInForce
<1>6. CASE DeleteHandle
  BY <1>1, <1>6 DEF DeleteHandle, NoEsp, TimerTypeOK, AlarmOwned, PeriodInForce
<1>7. CASE DeleteFree
  BY <1>1, <1>7 DEF DeleteFree, NoTimer, TimerTypeOK, AlarmOwned, PeriodInForce
<1> QED BY <1>2, <1>3, <1>4, <1>5, <1>6, <1>7 DEF Owner

\* The esp_timer task keeps it: the alarm it takes is one that is owned.
LEMMA TakeDueKeeps == ASSUME TimerInv, TakeDue PROVE TimerInv'
<1> USE DEF TimerInv
<1>1. TimerTypeOK'
  <2>1. CASE esp.period = 0
    BY <2>1 DEF TakeDue, Disarmed, TimerTypeOK
  <2>2. CASE esp.period # 0
    <3> DEFINE k == IF (-esp.left) \div esp.period > 1 THEN esp.period ELSE esp.left + esp.period
    <3>1. k \in Int
      BY DEF TimerTypeOK
    <3>2. esp' = [esp EXCEPT !.left = k]
      BY <2>2 DEF TakeDue
    <3> QED BY <3>1, <3>2 DEF TakeDue, TimerTypeOK
  <2> QED BY <2>1, <2>2
<1>2. esp'.armed => esp.armed /\ esp.period # 0 /\ esp'.period = esp.period
                    /\ (esp'.left = esp.period \/ esp'.left = esp.left + esp.period)
  BY DEF TakeDue, Disarmed, TimerTypeOK
<1>3. AlarmOwned' /\ NothingAfterStop'
  BY <1>2 DEF TakeDue, AlarmOwned, NothingAfterStop
<1>4. PeriodInForce'
  BY <1>2 DEF TakeDue, PeriodInForce, TimerTypeOK
<1> QED BY <1>1, <1>3, <1>4

\* So does the callback, which may use the timer it is given.
LEMMA CallbackKeeps == ASSUME TimerInv, Callback PROVE TimerInv'
<1> USE DEF TimerInv
<1>1. NothingAfterStop'
  BY DEF Callback, NothingAfterStop
<1>2. phase' \in {"idle", "taken", "in"} /\ caller' = caller
  BY DEF Callback
<1>3. CASE UNCHANGED <<cores, timer, esp, promised, quiet, changes>>
  BY <1>1, <1>2, <1>3 DEF TimerTypeOK, AlarmOwned, PeriodInForce
<1>4. CASE timer.live /\ caller \notin {"delete", "free"} /\ mmosal_timer_start
  BY <1>1, <1>2, <1>4, StartKeeps
<1>5. CASE mmosal_timer_stop
  BY <1>1, <1>2, <1>5, StopKeeps
<1>6. ASSUME NEW p \in Periods, StorePeriod(p), Restart(p), UNCHANGED <<cores, promised, quiet>>
      PROVE  TimerInv'
  BY <1>1, <1>2, <1>6, TimerAssumption
     DEF StorePeriod, Restart, Armed, TimerTypeOK, AlarmOwned, PeriodInForce
<1> QED BY <1>3, <1>4, <1>5, <1>6 DEF Callback

\* Every step of the owner, of the timer task and of time keeps the invariant.
LEMMA TimerKeeps == ASSUME TimerInv, [TimerNext]_tvars PROVE TimerInv'
<1>1. CASE mmosal_timer_create
  BY <1>1, CreateKeeps
<1>2. CASE Owner
  BY <1>2, OwnerKeeps
<1>3. CASE TakeDue
  BY <1>3, TakeDueKeeps
<1>4. CASE internal_timer_callback
  BY <1>4 DEF internal_timer_callback, TimerInv, TimerTypeOK, AlarmOwned, PeriodInForce,
              NothingAfterStop
<1>5. CASE Callback
  BY <1>5, CallbackKeeps
<1>6. CASE Tick
  BY <1>6 DEF Tick, TimerInv, TimerTypeOK, AlarmOwned, PeriodInForce, NothingAfterStop
<1>7. CASE UNCHANGED tvars
  BY <1>7 DEF tvars, TimerInv, TimerTypeOK, AlarmOwned, PeriodInForce, NothingAfterStop
<1> QED BY <1>1, <1>2, <1>3, <1>4, <1>5, <1>6, <1>7 DEF TimerNext, TimerTask

-----------------------------------------------------------------------------
(* The tasks *)

Ran == {"runs", "ended", "deleted", "reaped"}

TasksTypeOK ==
  /\ creator \in [Tasks -> {"idle", "filled", "created", "failed", "returned", "null"}]
  /\ task \in [Tasks -> {"none", "ready", "copied"} \cup Ran]
  /\ arg \in [Tasks -> {"none", "live", "freed"}]
  /\ frees \in [Tasks -> Nat]

\* Where the creator and the task are tells who has the block.
Handover(t) ==
  /\ creator[t] = "idle" => task[t] = "none" /\ arg[t] = "none" /\ frees[t] = 0
  /\ creator[t] \in {"filled", "failed"} => task[t] = "none" /\ arg[t] = "live" /\ frees[t] = 0
  /\ creator[t] = "null" => task[t] = "none" /\ frees[t] = IF arg[t] = "none" THEN 0 ELSE 1
  /\ creator[t] \in {"created", "returned"} => task[t] # "none"
  /\ task[t] \in {"ready", "copied"} => arg[t] = "live" /\ frees[t] = 0
  /\ task[t] \in Ran => frees[t] = 1

TasksInv == TasksTypeOK /\ \A t \in Tasks : Handover(t)

\* No task has been created yet.
LEMMA TasksStart == InitTasks => TasksInv
  BY DEF InitTasks, TasksInv, TasksTypeOK, Handover, Ran

\* A step on one creation leaves the others as they are (mmosal_task_create, _main, _join).
LEMMA TasksKeep == ASSUME TasksInv, [TasksNext]_kvars PROVE TasksInv'
<1>1. CASE UNCHANGED kvars
  BY <1>1 DEF kvars, TasksInv, TasksTypeOK, Handover
<1>2. ASSUME NEW t \in Tasks,
             \/ Again(t) \/ AllocateArg(t) \/ xTaskCreate(t) \/ CreateReturns(t)
             \/ mmosal_task_main(t) \/ IdleTask(t) \/ mmosal_task_join(t)
      PROVE  TasksInv'
  <2> USE <1>2 DEF TasksInv
  <2>1. TasksTypeOK'
    BY DEF TasksTypeOK, Ran, Again, AllocateArg, xTaskCreate, CreateReturns, mmosal_task_main,
           IdleTask, mmosal_task_join, mmosal_free
  <2>2. ASSUME NEW u \in Tasks, u # t PROVE Handover(u)'
    <3>1. creator'[u] = creator[u] /\ task'[u] = task[u] /\ arg'[u] = arg[u]
          /\ frees'[u] = frees[u]
      BY <2>2 DEF TasksTypeOK, Again, AllocateArg, xTaskCreate, CreateReturns, mmosal_task_main,
           IdleTask, mmosal_task_join, mmosal_free
    <3> QED BY <3>1, <2>2 DEF Handover
  <2>3. Handover(t)'
    <3>1. CASE Again(t)
      BY <3>1 DEF Again, TasksTypeOK, Handover, Ran
    <3>2. CASE AllocateArg(t)
      BY <3>2 DEF AllocateArg, TasksTypeOK, Handover, Ran
    <3>3. CASE xTaskCreate(t)
      BY <3>3 DEF xTaskCreate, TasksTypeOK, Handover, Ran
    <3>4. CASE CreateReturns(t)
      BY <3>4 DEF CreateReturns, mmosal_free, TasksTypeOK, Handover, Ran
    <3>5. CASE mmosal_task_main(t)
      BY <3>5 DEF mmosal_task_main, mmosal_free, TasksTypeOK, Handover, Ran
    <3>6. CASE IdleTask(t)
      BY <3>6 DEF IdleTask, TasksTypeOK, Handover, Ran
    <3>7. CASE mmosal_task_join(t)
      BY <3>7 DEF mmosal_task_join, TasksTypeOK, Handover, Ran
    <3> QED BY <3>1, <3>2, <3>3, <3>4, <3>5, <3>6, <3>7
  <2> QED BY <2>1, <2>2, <2>3
<1> QED BY <1>1, <1>2 DEF TasksNext

\* Handover is what ArgOwned needs.
LEMMA HandoverOwns == TasksInv => ArgOwned
  BY DEF TasksInv, TasksTypeOK, Handover, ArgOwned, Ran

-----------------------------------------------------------------------------
(* Theorems *)

\* Both invariants hold in every behaviour of the shim.
LEMMA Invariance == OsSpec => [](TimerInv /\ TasksInv)
<1>1. OsInit => TimerInv /\ TasksInv
  BY TimerStarts, TasksStart DEF OsInit
<1>2. TimerInv /\ TasksInv /\ [OsNext]_osvars => (TimerInv /\ TasksInv)'
  <2> SUFFICES ASSUME TimerInv, TasksInv, [OsNext]_osvars PROVE TimerInv' /\ TasksInv'
    OBVIOUS
  <2>1. [TimerNext]_tvars /\ [TasksNext]_kvars
    BY DEF OsNext, osvars
  <2> QED BY <2>1, TimerKeeps, TasksKeep
<1> QED BY <1>1, <1>2, PTL DEF OsSpec

\* An armed alarm has the period of its timer, but in the moment between the two stores of
\* mmosal_timer_change_period.
THEOREM PeriodsInForce == OsSpec => []PeriodInForce
<1>1. TimerInv => PeriodInForce
  BY DEF TimerInv
<1> QED BY <1>1, Invariance, PTL

\* On one core, once mmosal_timer_stop or mmosal_timer_delete has returned nothing is called
\* back until the next start.
THEOREM SilentAfterStop == OsSpec => []NothingAfterStop
<1>1. TimerInv => NothingAfterStop
  BY DEF TimerInv
<1> QED BY <1>1, Invariance, PTL

\* The block mmosal_task_create hands to mmosal_task_main is there when it is read and is
\* freed once.
THEOREM ArgumentOwned == OsSpec => []ArgOwned
  BY Invariance, HandoverOwns, PTL
=============================================================================
