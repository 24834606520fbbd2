------------------------------ MODULE Examples ------------------------------
(***************************************************************************)
(* The example applications, each the sequence of calls its app_main makes *)
(* on the interface of HalowInterface, with the binary semaphore that a    *)
(* callback on morselib's event loop gives and app_main takes.             *)
(*                                                                         *)
(* Bound: N_REPEATS, the iterations of sta_reboot.                         *)
(***************************************************************************)
EXTENDS HalowInterface

CONSTANTS Chosen,    \* the examples considered; each run of the system is one of them
          N_REPEATS

RebootIteration == <<"boot", "config", "connect", "take", "tx", "deinit">>

\* What each app_main calls, in order.
Programs ==
  [sta_connect |-> <<"init", "config", "connect", "sem", "take", "tx">>,
   iperf       |-> <<"init", "config", "connect", "sem", "take">>,
   dual_if     |-> <<"sem", "init", "config", "connect", "take", "tx">>,
   sta_reboot  |-> <<"init", "sem">> \o RebootIteration,
   scan        |-> <<"init", "sem", "scan", "wait", "deinit">>,
   softap      |-> <<"init", "config", "start">>]

ASSUME ExamplesAssumption == Chosen \subseteq DOMAIN Programs /\ N_REPEATS \in Nat \ {0}

VARIABLES
  example,\* the application that runs
  pc,     \* index in Program of the next call
  sem,    \* "NULL", or the number of tokens of the binary semaphore
  rounds, \* iterations of sta_reboot that are done
  \* history, read by no step
  seen    \* the callback reported CONNECTED since the last connect

app  == <<example, pc, sem, rounds, seen>>
vars == <<ivars, app>>

Init ==
  /\ InitInterface
  /\ example \in Chosen /\ pc = 1 /\ sem = "NULL" /\ rounds = 0 /\ seen = FALSE

Program_SemLate ==
  IF example = "dual_if" THEN <<"init", "config", "connect", "sem", "take", "tx">>
                         ELSE Programs[example]
Program == Programs[example]

At(call) == Alive /\ pc <= Len(Program) /\ Program[pc] = call
Ended == pc > Len(Program)
Advance == pc' = pc + 1

-----------------------------------------------------------------------------
(* app_main; the results of the calls are ignored, as the code does *)

AppInit ==
  /\ At("init") /\ InitCall /\ UNCHANGED app

AppInitReturns ==
  /\ At("init") /\ InitReturn /\ Advance /\ UNCHANGED <<example, sem, rounds, seen>>

CreateSem ==
  /\ At("sem") /\ sem' = "0" /\ Advance
  /\ UNCHANGED <<ivars, example, rounds, seen>>

AppConfig ==
  /\ At("config") /\ SetConfig(IF example = "softap" THEN "AP" ELSE "STA")
  /\ Advance /\ UNCHANGED <<example, sem, rounds, seen>>

AppConnect ==
  /\ At("connect") /\ Connect /\ Advance
  /\ seen' = FALSE
  /\ UNCHANGED <<example, sem, rounds>>

\* xSemaphoreTake with a timeout: the token, at once or when it comes ...
Take ==
  /\ At("take") /\ sem = "1"
  /\ sem' = "0" /\ Advance
  /\ UNCHANGED <<ivars, example, rounds, seen>>

TakeTimesOut_Retry ==
  /\ At("take") /\ sem = "0"
  /\ UNCHANGED vars

TakeTimesOut_GoOn ==
  /\ At("take") /\ sem = "0" /\ Advance
  /\ UNCHANGED <<ivars, example, sem, rounds, seen>>

\* ... or the timeout: sta_reboot skips the transmission, the others end.
TakeTimesOut ==
  /\ At("take") /\ sem = "0"
  /\ pc' = IF example = "sta_reboot" THEN pc + 2 ELSE Len(Program) + 1
  /\ UNCHANGED <<ivars, example, sem, rounds, seen>>

\* xSemaphoreTake(..., portMAX_DELAY).
Wait ==
  /\ At("wait") /\ sem = "1"
  /\ sem' = "0" /\ Advance
  /\ UNCHANGED <<ivars, example, rounds, seen>>

\* One UDP packet; dual_if sends them for ever, unless it gets no socket.
Tx ==
  /\ At("tx")
  /\ pc' \in IF example = "dual_if" THEN {pc, pc + 1} ELSE {pc + 1}
  /\ UNCHANGED <<ivars, example, sem, rounds, seen>>

AppBoot == At("boot") /\ Boot /\ Advance /\ UNCHANGED <<example, sem, rounds, seen>>
AppScan == At("scan") /\ Scan /\ Advance /\ UNCHANGED <<example, sem, rounds, seen>>
AppStart == At("start") /\ WifiStart /\ Advance /\ UNCHANGED <<example, sem, rounds, seen>>

\* sta_reboot starts over, up to N_REPEATS times.
AppDeinit ==
  /\ At("deinit") /\ Deinit
  /\ rounds' = rounds + 1
  /\ pc' = IF example = "sta_reboot" /\ rounds' < N_REPEATS
           THEN pc - Len(RebootIteration) + 1 ELSE pc + 1
  /\ UNCHANGED <<example, sem, seen>>

-----------------------------------------------------------------------------
(* connect_status_callback and scan_cb, on the event loop *)

\* Giving a NULL semaphore is an assertion of FreeRTOS.
GiveSem ==
  IF sem = "NULL" THEN Abort("no semaphore") /\ UNCHANGED sem
                  ELSE sem' = "1" /\ UNCHANGED aborted

StatusCallback(e) ==
  /\ AppCallback(e)
  /\ IF e \in {"CONNECTED", "scan complete"} THEN GiveSem ELSE UNCHANGED <<sem, aborted>>
  /\ seen' = (seen \/ e = "CONNECTED")
  /\ UNCHANGED <<example, pc, rounds>>

-----------------------------------------------------------------------------
AppStep ==
  \/ AppInit \/ AppInitReturns \/ CreateSem \/ AppConfig \/ AppConnect
  \/ Take \/ TakeTimesOut \/ Wait \/ Tx \/ AppBoot \/ AppScan \/ AppStart \/ AppDeinit

MorseStep ==
  \/ WlanStep /\ UNCHANGED app
  \/ \E e \in AppEvents : StatusCallback(e)

Next == AppStep \/ (InitStep /\ UNCHANGED app) \/ MorseStep

Spec == Init /\ [][Next]_vars

\* app_main runs when it is not blocked, a timed wait ends, and the event loop serves a
\* call between two of its moves; it runs its callbacks and ends a scan it started.
Fairness ==
  /\ SF_vars(AppStep) /\ WF_vars(InitStep /\ UNCHANGED app)
  /\ WF_vars((LinkCallback \/ ScanEnds) /\ UNCHANGED app)
  /\ WF_vars(\E e \in AppEvents : StatusCallback(e))

FairSpec == Spec /\ Fairness

-----------------------------------------------------------------------------
\* No callback gives the semaphore before app_main has created it, in the examples that create
\* it before they connect (sta_connect and iperf do not).
EarlySemaphoreExists == example \notin {"sta_connect", "iperf"} => aborted # "no semaphore"

\* A packet is only sent when, since the last mmhalow_connect(), the station has been
\* connected, in the examples that connect once (sta_reboot may take an old token).
FirstTxAfterConnected == example # "sta_reboot" /\ At("tx") => seen

\* app_main comes to its end, unless an assertion stopped the program, in the examples
\* whose waits have a timeout; dual_if transmits for ever.
Ends == example \notin {"scan", "dual_if"} => <>(Ended \/ ~Alive)
=============================================================================
