----------------------------- MODULE OsalTimer -----------------------------
(***************************************************************************)
(* The timers of mmosal_shim_freertos_esp32.c over esp_timer: one timer,    *)
(* the task that owns it and the esp_timer task that calls it back.         *)
(*                                                                         *)
(* esp_timer is not under src/.  Its functions are atomic (a lock): start   *)
(* fails on an armed timer, stop and restart on one that is not, delete on  *)
(* an armed one.  Its task takes a timer that is due, which disarms it or   *)
(* sets its next alarm, drops the lock and then calls.  It has a higher     *)
(* priority than the owner and a callback does not block, so on one core    *)
(* the owner does nothing between the taking and the end of the callback;   *)
(* with two cores it does.                                                  *)
(*                                                                         *)
(* Bounds: Periods, MaxLate ticks a due timer may wait, MaxChanges of  *)
(* the period (a timer that is changed over and over need never expire).    *)
(***************************************************************************)
EXTENDS Integers

CONSTANTS Periods, MaxLate, MaxChanges

ASSUME TimerAssumption ==
  Periods \subseteq Nat \ {0} /\ MaxLate \in Nat /\ MaxChanges \in Nat

VARIABLES
  cores,
  timer,      \* struct mmosal_timer: allocated, auto_reload, period_us
  esp,        \* what esp_timer keeps: created, armed, left until the alarm, period if it repeats
  caller,     \* where the owner is in a function of more than one step
  phase,      \* the esp_timer task: "idle", "taken" from the list, "in" the callback
  promised,   \* a start has succeeded and there has been no callback and no stop since
  quiet,      \* a stop has succeeded and there has been no start since
  changes

tvars == <<cores, timer, esp, caller, phase, promised, quiet, changes>>

NoTimer == [live |-> FALSE, auto |-> FALSE, period |-> 0]
NoEsp == [made |-> FALSE, armed |-> FALSE, left |-> 0, period |-> 0]

InitTimer ==
  /\ cores \in {1, 2} /\ timer = NoTimer /\ esp = NoEsp /\ caller = "idle" /\ phase = "idle"
  /\ promised = FALSE /\ quiet = FALSE /\ changes = 0

\* esp_timer_start_periodic or _once, _stop and _restart: what they leave, and whether they succeed.
Armed(p) == [made |-> esp.made, armed |-> TRUE, left |-> p,
             period |-> IF timer.auto THEN p ELSE 0]
Disarmed == [esp EXCEPT !.armed = FALSE]

OwnerRuns == cores = 1 => phase = "idle"
Counted == changes < MaxChanges /\ changes' = changes + 1

mmosal_timer_create ==
  /\ OwnerRuns /\ caller = "idle" /\ ~timer.live /\ ~esp.made /\ phase = "idle"
  /\ \/ \E p \in Periods, auto \in BOOLEAN :
          /\ timer' = [live |-> TRUE, auto |-> auto, period |-> p]
          /\ esp' = [NoEsp EXCEPT !.made = TRUE]
          /\ quiet' = FALSE
     \/ UNCHANGED <<timer, esp, quiet>>        \* no memory, or esp_timer_create failed
  /\ UNCHANGED <<cores, caller, phase, promised, changes>>

mmosal_timer_start ==
  /\ IF esp.armed THEN UNCHANGED <<esp, promised, quiet>>
     ELSE esp' = Armed(timer.period) /\ promised' = TRUE /\ quiet' = FALSE
  /\ UNCHANGED <<cores, timer, changes>>

mmosal_timer_stop_Reports ==
  /\ IF esp.armed THEN UNCHANGED esp /\ promised' = FALSE /\ quiet' = TRUE
     ELSE UNCHANGED <<esp, promised, quiet>>
  /\ UNCHANGED <<cores, timer, changes>>

mmosal_timer_stop ==
  /\ IF esp.armed THEN esp' = Disarmed /\ promised' = FALSE /\ quiet' = TRUE
     ELSE UNCHANGED <<esp, promised, quiet>>
  /\ UNCHANGED <<cores, timer, changes>>

\* mmosal_timer_change_period: the period is kept also when the timer does not run.
StorePeriod(p) == timer' = [timer EXCEPT !.period = p]
Restart_Stopped(p) == esp' = Disarmed
Restart_Alarm(p) == esp' = IF esp.armed THEN [esp EXCEPT !.left = p] ELSE esp

Restart(p) == esp' = IF esp.armed THEN Armed(p) ELSE esp

\* What the owner calls.
OwnerStarts == caller = "idle" /\ mmosal_timer_start /\ UNCHANGED <<caller, phase>>
OwnerStops == caller = "idle" /\ mmosal_timer_stop /\ UNCHANGED <<caller, phase>>

OwnerChanges ==
  \/ /\ caller = "idle" /\ Counted /\ \E p \in Periods : StorePeriod(p)
     /\ caller' = "restart"
     /\ UNCHANGED <<cores, esp, phase, promised, quiet>>
  \/ /\ caller = "restart" /\ Restart(timer.period)
     /\ caller' = "idle"
     /\ UNCHANGED <<cores, timer, phase, promised, quiet, changes>>

\* mmosal_timer_delete, step by step; nobody else looks at the results.
DeleteStop ==
  /\ caller = "idle"
  /\ esp' = Disarmed /\ promised' = FALSE /\ quiet' = TRUE
  /\ caller' = "delete"
  /\ UNCHANGED <<cores, timer, phase, changes>>

DeleteHandle ==
  /\ caller = "delete" /\ caller' = "free"
  /\ esp' = IF esp.armed THEN esp ELSE NoEsp
  /\ UNCHANGED <<cores, timer, phase, promised, quiet, changes>>

DeleteFree ==
  /\ caller = "free" /\ caller' = "idle" /\ timer' = NoTimer
  /\ UNCHANGED <<cores, esp, phase, promised, quiet, changes>>

Owner ==
  /\ OwnerRuns /\ timer.live
  /\ OwnerStarts \/ OwnerStops \/ OwnerChanges \/ DeleteStop \/ DeleteHandle \/ DeleteFree

\* The esp_timer task; a repeating timer that is late by more than a period skips.
TakeDue ==
  /\ phase = "idle" /\ esp.armed /\ esp.left <= 0
  /\ phase' = "taken"
  /\ esp' = IF esp.period = 0 THEN Disarmed
            ELSE [esp EXCEPT !.left = IF (-@) \div esp.period > 1 THEN esp.period ELSE @ + esp.period]
  /\ UNCHANGED <<cores, timer, caller, promised, quiet, changes>>

internal_timer_callback ==
  /\ phase = "taken" /\ phase' = "in" /\ promised' = FALSE
  /\ UNCHANGED <<cores, timer, esp, caller, quiet, changes>>

\* The callback reads its argument and may use the timer it is given, which the owner
\* does not delete meanwhile.
Callback ==
  /\ phase = "in" /\ phase' = "idle"
  /\ \/ UNCHANGED <<cores, timer, esp, promised, quiet, changes>>
     \/ timer.live /\ caller \notin {"delete", "free"}
        /\ \/ mmosal_timer_start
           \/ mmosal_timer_stop
           \/ /\ Counted /\ \E p \in Periods : StorePeriod(p) /\ Restart(p)
              /\ UNCHANGED <<cores, promised, quiet>>
  /\ UNCHANGED caller

TimerTask == TakeDue \/ internal_timer_callback \/ Callback

Tick ==
  /\ esp.armed /\ esp.left > -MaxLate
  /\ esp' = [esp EXCEPT !.left = @ - 1]
  /\ UNCHANGED <<cores, timer, caller, phase, promised, quiet, changes>>

TimerNext == mmosal_timer_create \/ Owner \/ TimerTask \/ Tick

\* The tasks are scheduled and time passes; nobody has to call anything.
TimerFairness ==
  /\ WF_tvars(TimerTask) /\ WF_tvars(Tick)
  /\ WF_tvars(Owner /\ caller # "idle")

-----------------------------------------------------------------------------
(* Properties *)

\* What esp_timer was armed with is the timer's own period, whatever sequence of starts,
\* stops, expiries and changes led there, but for the moment in which a change is under way
\* (mmosal_shim_freertos_esp32.c:581-647).
PeriodInForce ==
  esp.armed /\ timer.live /\ caller # "restart" =>
    esp.left <= timer.period /\ esp.period = (IF timer.auto THEN timer.period ELSE 0)

\* On one core nothing is called back after a stop or a delete has returned, until the next
\* start, and never with a timer that was freed: not by an alarm that the delete missed, not
\* by a callback under way (mmosal_shim_freertos_esp32.c:616-641).
NothingAfterStop == cores = 1 /\ phase # "idle" => timer.live /\ ~quiet

\* A timer whose start succeeded calls back, unless it is stopped or deleted first.
Fires == promised ~> ~promised
=============================================================================
