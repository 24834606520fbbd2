-------------------------------- MODULE Osal --------------------------------
(***************************************************************************)
(* The parts of mmosal_shim_freertos_esp32.c that keep something of their   *)
(* own between calls: timers and the creation of tasks.  They share no      *)
(* state: each behaviour is of one.                                         *)
(***************************************************************************)
EXTENDS OsalTimer, OsalTasks

osvars == <<tvars, kvars>>

OsInit == InitTimer /\ InitTasks

OsNext ==
  \/ InitTasks /\ TimerNext /\ UNCHANGED kvars
  \/ InitTimer /\ TasksNext /\ UNCHANGED tvars

OsSpec == OsInit /\ [][OsNext]_osvars /\ TimerFairness
=============================================================================
