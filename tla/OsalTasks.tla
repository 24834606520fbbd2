----------------------------- MODULE OsalTasks -----------------------------
(***************************************************************************)
(* The tasks of mmosal_shim_freertos_esp32.c: the block in which a new      *)
(* task finds its function and argument, handed over by mmosal_task_create  *)
(* and given back by mmosal_task_main, and mmosal_task_join.                *)
(*                                                                         *)
(* FreeRTOS is not under src/.  A new task may run before xTaskCreate has   *)
(* returned; the idle task takes the memory of a deleted task back, after   *)
(* which eTaskGetState may answer anything.                                 *)
(***************************************************************************)
EXTENDS Integers, FiniteSets

CONSTANTS Tasks    \* the creations

VARIABLES
  creator,  \* of each: "idle", "filled" block, "created" with the task, "failed", "returned" or "null"
  task,     \* the task: "none", "ready", "copied", "runs", "ended", "deleted", "reaped"
  arg,      \* its block: "none", "live", "freed"
  frees,    \* how often the block was freed
  joiner    \* of each, a task in mmosal_task_join: "idle", "polls", "sleeps", "done"

kvars == <<creator, task, arg, frees, joiner>>

InitTasks ==
  /\ creator = [t \in Tasks |-> "idle"] /\ task = [t \in Tasks |-> "none"]
  /\ arg = [t \in Tasks |-> "none"] /\ frees = [t \in Tasks |-> 0]
  /\ joiner = [t \in Tasks |-> "idle"]

mmosal_free(t) == arg' = [arg EXCEPT ![t] = "freed"] /\ frees' = [frees EXCEPT ![t] = @ + 1]

\* mmosal_task_create: the block, xTaskCreate, and what is left to do after it.
AllocateArg(t) ==
  /\ creator[t] = "idle"
  /\ \/ creator' = [creator EXCEPT ![t] = "filled"] /\ arg' = [arg EXCEPT ![t] = "live"]
     \/ creator' = [creator EXCEPT ![t] = "null"] /\ UNCHANGED arg
  /\ UNCHANGED <<task, frees, joiner>>

xTaskCreate(t) ==
  /\ creator[t] = "filled"
  /\ \/ creator' = [creator EXCEPT ![t] = "created"] /\ task' = [task EXCEPT ![t] = "ready"]
     \/ creator' = [creator EXCEPT ![t] = "failed"] /\ UNCHANGED task
  /\ UNCHANGED <<arg, frees, joiner>>

CreateReturns_FreesBoth(t) ==
  /\ creator[t] \in {"failed", "created"} /\ mmosal_free(t)
  /\ creator' = [creator EXCEPT ![t] = IF @ = "failed" THEN "null" ELSE "returned"]
  /\ UNCHANGED <<task, joiner>>

CreateReturns(t) ==
  \/ /\ creator[t] = "failed" /\ mmosal_free(t)
     /\ creator' = [creator EXCEPT ![t] = "null"] /\ UNCHANGED <<task, joiner>>
  \/ /\ creator[t] = "created" /\ creator' = [creator EXCEPT ![t] = "returned"]
     /\ UNCHANGED <<task, arg, frees, joiner>>

\* mmosal_task_main
mmosal_task_main(t) ==
  \/ /\ task[t] = "ready" /\ task' = [task EXCEPT ![t] = "copied"]
     /\ UNCHANGED <<creator, arg, frees, joiner>>
  \/ /\ task[t] = "copied" /\ mmosal_free(t) /\ task' = [task EXCEPT ![t] = "runs"]
     /\ UNCHANGED <<creator, joiner>>
  \/ /\ task[t] = "runs" /\ task' = [task EXCEPT ![t] = "ended"]
     /\ UNCHANGED <<creator, arg, frees, joiner>>
  \/ /\ task[t] = "ended" /\ task' = [task EXCEPT ![t] = "deleted"]     \* mmosal_task_delete(NULL)
     /\ UNCHANGED <<creator, arg, frees, joiner>>

IdleTask(t) ==
  /\ task[t] = "deleted" /\ task' = [task EXCEPT ![t] = "reaped"]
  /\ UNCHANGED <<creator, arg, frees, joiner>>

\* mmosal_task_join: eTaskGetState until it says deleted, with a sleep in between.
mmosal_task_join(t) ==
  /\ creator[t] = "returned"
  /\ \/ joiner[t] \in {"idle", "sleeps"} /\ joiner' = [joiner EXCEPT ![t] = "polls"]
     \/ /\ joiner[t] = "polls" /\ task[t] \in {"deleted", "reaped"}
        /\ joiner' = [joiner EXCEPT ![t] = "done"]
     \/ /\ joiner[t] = "polls" /\ task[t] # "deleted"
        /\ joiner' = [joiner EXCEPT ![t] = "sleeps"]
  /\ UNCHANGED <<creator, task, arg, frees>>

\* What is over may be made again.
Again(t) ==
  /\ \/ creator[t] = "null"
     \/ creator[t] = "returned" /\ task[t] = "reaped" /\ joiner[t] \in {"idle", "done"}
  /\ creator' = [creator EXCEPT ![t] = "idle"] /\ task' = [task EXCEPT ![t] = "none"]
  /\ arg' = [arg EXCEPT ![t] = "none"] /\ frees' = [frees EXCEPT ![t] = 0]
  /\ joiner' = [joiner EXCEPT ![t] = "idle"]

TasksNext ==
  \E t \in Tasks : \/ Again(t) \/ AllocateArg(t) \/ xTaskCreate(t) \/ CreateReturns(t)
                   \/ mmosal_task_main(t) \/ IdleTask(t) \/ mmosal_task_join(t)

-----------------------------------------------------------------------------
(* Properties *)

\* However the creator and the new task interleave, the block is there when the task copies it
\* and is freed exactly once: by the creator when there is no task, by the task otherwise
\* (mmosal_shim_freertos_esp32.c:191-230).
ArgOwned ==
  \A t \in Tasks :
    /\ task[t] \in {"ready", "copied"} => arg[t] = "live"
    /\ frees[t] = IF \/ creator[t] = "null" /\ arg[t] # "none"
                     \/ task[t] \in {"runs", "ended", "deleted", "reaped"} THEN 1 ELSE 0
=============================================================================
