-------------------------- MODULE PortingAssistant --------------------------
(***************************************************************************)
(* The porting assistant: its runner executes the test steps in turn and    *)
(* stops at the first that fails critically; the steps exercise the OSAL,   *)
(* the HAL, the SDIO transport and the files of firmware and BCF.           *)
(*                                                                         *)
(* The platform is what the tool judges.  Whatever it does wrong counts as  *)
(* a fault.  Buffers and the chip's memory hold sets of patterns: {p} when  *)
(* all of it was written from offset p, more after a transfer that failed   *)
(* half way (SdioTransport has the commands of a transfer).                 *)
(*                                                                         *)
(* Bounds: MaxFaults, Files, and WaitTime, the benchmark's duration in      *)
(* transactions of the fastest kind.                                        *)
(***************************************************************************)
EXTENDS WlanHal, BinaryCheck

CONSTANTS MaxFaults, WaitTime

ASSUME PortingAssumption == MaxFaults \in Nat /\ WaitTime \in Nat

VARIABLES
  \* run_test_steps
  step, at,           \* the step that runs and where it is; at = "end" when none does
  result, ctrs,
  \* the platform
  psMode,             \* CONFIG_HALOW_PS_MODE
  cores, chipKind, faults,
  \* OSAL
  heap,               \* allocated buffers
  newTask, handle,    \* the created task, and task_handle
  \* test_wlan_io.c
  cfg, tries, probed, \* read_chip_id
  count, toggles,     \* irq_counter, and the loops' i
  mem, rx,            \* contents of the chip's memory and of rx_data
  txOffset, now,       \* raw_tput
  ret, ok             \* of the last transfer

runner   == <<step, at, result, ctrs>>
platform == <<psMode, cores, chipKind, faults>>
osal     == <<heap, newTask, handle>>
chipId   == <<cfg, tries, probed>>
irq      == <<count, toggles>>
bulk     == <<mem, rx, txOffset, now, ret, ok>>
io       == <<chipId, irq, bulk>>
vars     == <<runner, platform, osal, io, hal, binary>>

test_steps == <<"os_malloc", "os_realloc", "os_time", "os_task_creation",
  "wlan_init", "hard_reset", "sdio_startup", "read_chip_id", "verify_busy_pin",
  "bulk_write_read", "raw_tput", "validate_fw", "validate_bcf">>

chip_cfgs == <<"mm6108", "mm8108">>
Junk == 16                    \* a content that matches no offset

Init ==
  /\ step = 1 /\ at = "begin" /\ result = "NO_RESULT"
  /\ ctrs = [no_result |-> 0, pass |-> 0, fail |-> 0]
  /\ psMode \in BOOLEAN /\ cores \in {1, 2} /\ faults = 0
  /\ chipKind \in {"mm6108", "mm8108", "other"}
  /\ heap = {} /\ newTask = "none" /\ handle = "NULL"
  /\ cfg = 1 /\ tries = 0 /\ probed = "NULL"
  /\ count = 0 /\ toggles = 0
  /\ mem = {Junk} /\ rx = {Junk} /\ txOffset = 0 /\ now = 0 /\ ret = "ok" /\ ok = TRUE
  /\ InitHal /\ InitBinary

\* Step s is at point p.
In(s, p) == at = p /\ test_steps[step] = s
Goes(p) == at' = p /\ UNCHANGED <<step, result, ctrs>>
Returns(r) == at' = "returned" /\ result' = r /\ UNCHANGED <<step, ctrs>>

Fault == faults < MaxFaults /\ faults' = faults + 1 /\ UNCHANGED <<psMode, cores, chipKind>>
Fine == UNCHANGED platform

-----------------------------------------------------------------------------
(* run_test_steps *)

Counted(r) ==
  CASE r = "NO_RESULT" -> [ctrs EXCEPT !.no_result = @ + 1]
    [] r = "PASSED"    -> [ctrs EXCEPT !.pass = @ + 1]
    [] r = "SKIPPED"   -> ctrs
    [] OTHER           -> [ctrs EXCEPT !.fail = @ + 1]

NextStep_NeverStops ==
  /\ at = "returned"
  /\ ctrs' = Counted(result) /\ UNCHANGED result
  /\ IF step = Len(test_steps)
     THEN at' = "end" /\ UNCHANGED step
     ELSE at' = "begin" /\ step' = step + 1
  /\ UNCHANGED <<platform, osal, io, hal, binary>>

NextStep ==
  /\ at = "returned"
  /\ ctrs' = Counted(result) /\ UNCHANGED result
  /\ IF result = "FAILED" \/ step = Len(test_steps)
     THEN at' = "end" /\ UNCHANGED step
     ELSE at' = "begin" /\ step' = step + 1
  /\ UNCHANGED <<platform, osal, io, hal, binary>>

-----------------------------------------------------------------------------
(* test_os.c *)

OsMalloc ==
  /\ In("os_malloc", "begin")
  /\ \/ Fine /\ Returns("PASSED")
     \/ Fault /\ Returns("FAILED")
  /\ UNCHANGED <<osal, io, hal, binary>>

\* On failure what was allocated is not freed: nothing, the block, or the larger one.
OsRealloc ==
  /\ In("os_realloc", "begin")
  /\ \/ Fine /\ Returns("PASSED") /\ UNCHANGED heap
     \/ Fault /\ Returns("FAILED_NON_CRITICAL")
        /\ heap' \in {heap, heap \cup {"buf"}, heap \cup {"buf1"}}
  /\ UNCHANGED <<newTask, handle, io, hal, binary>>

\* A sleep of 50 ms ends with the tick it is due, or the next.
OsTime ==
  /\ In("os_time", "begin")
  /\ \E delta \in 48..52 :
       /\ IF delta \in 50..51 THEN Fine ELSE Fault
       /\ Returns(IF delta < 49 \/ delta > 51 THEN "FAILED" ELSE "PASSED")
  /\ UNCHANGED <<osal, io, hal, binary>>

CreateTask ==
  /\ In("os_task_creation", "begin")
  /\ \/ Fine /\ newTask' = "NOT_STARTED" /\ Goes("created")
     \/ Fault /\ Returns("FAILED_NON_CRITICAL") /\ UNCHANGED newTask
  /\ UNCHANGED <<heap, handle, io, hal, binary>>

\* mmosal_task_create returns its handle: on one core not before the new task sleeps, on two
\* the other core may take the new task, and take its time.
CreateReturns ==
  /\ In("os_task_creation", "created")
  /\ cores = 2 \/ newTask # "NOT_STARTED"
  /\ handle' = "task" /\ Goes("check")
  /\ UNCHANGED <<platform, heap, newTask, io, hal, binary>>

NewTaskStarts ==
  /\ newTask = "NOT_STARTED" /\ newTask' = "STARTED"
  /\ UNCHANGED <<runner, platform, heap, handle, io, hal, binary>>

\* After 10 ms, when the creator has stored the handle and sleeps or went on.
NewTaskWakes ==
  /\ newTask = "STARTED"
  /\ \/ Fine /\ ~In("os_task_creation", "created") /\ ~In("os_task_creation", "check")
        /\ newTask' = "TERMINATING"
     \/ Fault /\ newTask' \in {"TERMINATING", "ERROR"}
  /\ UNCHANGED <<runner, heap, handle, io, hal, binary>>

CheckStarted ==
  /\ In("os_task_creation", "check")
  /\ IF newTask = "STARTED" THEN Goes("sleep") ELSE Returns("FAILED_NON_CRITICAL")
  /\ UNCHANGED <<platform, osal, io, hal, binary>>

CheckTerminating ==
  /\ In("os_task_creation", "sleep")
  /\ \/ Fine /\ newTask # "STARTED"
     \/ Fault /\ newTask = "STARTED"
  /\ Returns(IF newTask = "TERMINATING" THEN "PASSED" ELSE "FAILED_NON_CRITICAL")
  /\ UNCHANGED <<osal, io, hal, binary>>

-----------------------------------------------------------------------------
(* test_wlan_io.c: from power-up to the chip id *)

StepWlanInit ==
  /\ In("wlan_init", "begin")
  /\ \E works \in BOOLEAN : (IF works THEN Fine ELSE Fault) /\ WlanInit(works)
  /\ Returns("NO_RESULT")
  /\ UNCHANGED <<osal, io, binary>>

HardResetLow ==
  /\ In("hard_reset", "begin") /\ ResetLow /\ Goes("low")
  /\ UNCHANGED <<platform, osal, io, binary>>

HardResetHigh ==
  /\ In("hard_reset", "low") /\ ResetHigh /\ Goes("settle")
  /\ UNCHANGED <<platform, osal, io, binary>>

\* The settling time is enough for the chip to boot.
HardResetSettled ==
  /\ In("hard_reset", "settle")
  /\ IF chip = "booting" THEN Fault ELSE Fine
  /\ Returns("NO_RESULT")
  /\ UNCHANGED <<osal, io, hal, binary>>

ChipBoots == Boots /\ UNCHANGED <<runner, platform, osal, io, binary>>

\* mmhal_wlan_sdio_startup clocks the training sequence and sends CMD63.
SdioStartup ==
  /\ In("sdio_startup", "begin")
  /\ \E works \in BOOLEAN :
       /\ works => spi /\ chip = "idle"
       /\ IF ~works /\ spi /\ chip = "idle" THEN Fault ELSE Fine
       /\ Clock(works) /\ Returns(IF works THEN "PASSED" ELSE "FAILED")
  /\ UNCHANGED <<osal, io, binary>>

\* The chip's id register is another word on another chip.
ReadChipId ==
  /\ In("read_chip_id", "begin") /\ Fine
  /\ IF chipKind = chip_cfgs[cfg]
     THEN probed' = chip_cfgs[cfg] /\ Returns("PASSED") /\ UNCHANGED <<cfg, tries>>
     ELSE /\ UNCHANGED probed
          /\ IF cfg < Len(chip_cfgs)
             THEN cfg' = cfg + 1 /\ tries' = 0 /\ Goes("begin")
             ELSE Returns("FAILED") /\ UNCHANGED <<cfg, tries>>
  /\ UNCHANGED <<osal, irq, bulk, hal, binary>>

\* The first reads may fail; after the third that does no other configuration is tried.
ReadChipIdFails ==
  /\ In("read_chip_id", "begin")
  /\ tries' = tries + 1
  /\ IF tries < 2 THEN Fine /\ Goes("begin") ELSE Fault /\ Returns("FAILED")
  /\ UNCHANGED <<osal, cfg, probed, irq, bulk, hal, binary>>

-----------------------------------------------------------------------------
(* test_step_verify_busy_pin *)

Busy(p) == In("verify_busy_pin", p)
Else == <<osal, chipId, bulk, binary>>

\* gpio_set_oe and gpio_set_value write a register of the chip; their results are ignored.
Gpio(o, v) == (Fine /\ Drive(o, v)) \/ (Fault /\ UNCHANGED hal)

\* A sleep is long enough for a latched edge to be served.
Slept == ~pending

BusySkipped == Busy("begin") /\ ~psMode /\ Fine /\ Returns("SKIPPED")
               /\ UNCHANGED <<irq, hal, Else>>
BusyOutput  == Busy("begin") /\ psMode /\ Gpio(TRUE, out) /\ Goes("output")
               /\ UNCHANGED <<irq, Else>>
BusyLow     == Busy("output") /\ Gpio(oe, 0) /\ Goes("register")
               /\ UNCHANGED <<irq, Else>>
BusyHandler == Busy("register") /\ RegisterBusyHandler("test") /\ Goes("enable")
               /\ UNCHANGED <<platform, irq, Else>>
BusyEnable  == Busy("enable") /\ SetBusyIrq(TRUE) /\ Goes("clear")
               /\ UNCHANGED <<platform, irq, Else>>

BusyClear_NoSleep ==
  /\ Busy("clear")
  /\ count' = 0 /\ toggles' = 0 /\ Goes("raise")
  /\ UNCHANGED <<platform, hal, Else>>

\* Clears what a stale interrupt has counted.
BusyClear ==
  /\ Busy("clear") /\ Slept
  /\ count' = 0 /\ toggles' = 0 /\ Goes("raise")
  /\ UNCHANGED <<platform, hal, Else>>

BusyRaise == Busy("raise") /\ Gpio(oe, 1) /\ Goes("raised") /\ UNCHANGED <<irq, Else>>
BusyFall  == Busy("fall")  /\ Gpio(oe, 0) /\ Goes("fallen") /\ UNCHANGED <<irq, Else>>

\* The test fails: its clean-up runs.
Bad == at' = "off" /\ result' = "FAILED" /\ UNCHANGED <<step, ctrs>>

\* The first two toggles are watched.
Watched == toggles < 2

BusyRaised ==
  /\ Busy("raised") /\ Slept
  /\ IF Watched /\ ~BusyAsserted THEN Bad ELSE Goes("fall")
  /\ UNCHANGED <<platform, irq, hal, Else>>

BusyFallen ==
  /\ Busy("fallen") /\ Slept
  /\ IF Watched /\ BusyAsserted
     THEN Bad /\ UNCHANGED toggles
     ELSE /\ toggles' = toggles + 1
          /\ Goes(CASE toggles' = 2 -> "count" [] toggles' = 4 -> "recount" [] OTHER -> "raise")
  /\ UNCHANGED <<platform, count, hal, Else>>

BusyCount ==
  /\ Busy("count")
  /\ IF count # 2 THEN Bad ELSE Goes("disable")
  /\ UNCHANGED <<platform, irq, hal, Else>>

BusyDisable == Busy("disable") /\ SetBusyIrq(FALSE) /\ Goes("raise")
               /\ UNCHANGED <<platform, irq, Else>>

BusyRecount ==
  /\ Busy("recount")
  /\ at' = "off" /\ result' = (IF count > 2 THEN "FAILED" ELSE "PASSED")
  /\ UNCHANGED <<step, ctrs, platform, irq, hal, Else>>

BusyOff == Busy("off") /\ SetBusyIrq(FALSE) /\ Goes("unregister")
           /\ UNCHANGED <<platform, irq, Else>>

BusyUnregister ==
  /\ Busy("unregister") /\ RegisterBusyHandler("NULL")
  /\ count' = 0 /\ Goes("returned")
  /\ UNCHANGED <<platform, toggles, Else>>

\* test_hal_irq_handle, called for a latched edge; the counter has 8 bits.
Interrupt ==
  /\ Isr
  /\ count' = IF handler = "test" THEN (count + 1) % 256 ELSE count
  /\ UNCHANGED <<runner, platform, toggles, Else>>

-----------------------------------------------------------------------------
(* test_step_bulk_write_read and test_step_raw_tput *)

Transfers == test_steps[step] \in {"bulk_write_read", "raw_tput"}
Benchmark == test_steps[step] = "raw_tput"
Pattern == txOffset % 16

\* The block of rx_data may be one that was freed just before.
Alloc ==
  /\ Transfers /\ at = "begin"
  /\ \/ /\ Fine /\ heap' = heap \cup {"tx_data", "rx_data"}
        /\ rx' \in (IF Benchmark THEN {{Junk}, {0}, rx} ELSE {{Junk}})
        /\ Goes(IF Benchmark THEN "loop" ELSE "write")
     \/ Fault /\ Returns("FAILED") /\ UNCHANGED <<heap, rx>>
  /\ UNCHANGED <<newTask, handle, chipId, irq, mem, txOffset, now, ret, ok, hal, binary>>

\* Another transaction, while the time is not over.
Loop ==
  /\ Benchmark /\ at = "loop"
  /\ IF now <= WaitTime THEN txOffset' = txOffset + 4 /\ Goes("write")
                        ELSE UNCHANGED txOffset /\ Goes("validate")
  /\ UNCHANGED <<platform, osal, chipId, irq, mem, rx, now, ret, ok, hal, binary>>

TEST_FAILED == 3
\* process_sdio_spi_multi_byte_return: a bool, of "return TEST_FAILED" too.
Processed(r) == IF r = "ok" THEN TRUE ELSE TEST_FAILED # 0

AfterTransfer(next) ==
  /\ ok' = Processed(ret')
  /\ IF ok' THEN Goes(next)
     ELSE at' = "free" /\ result' = "FAILED" /\ UNCHANGED <<step, ctrs>>

Write ==
  /\ Transfers /\ at = "write"
  /\ \/ Fine /\ mem' = {Pattern} /\ ret' = "ok"
     \/ Fault /\ mem' \in {mem, mem \cup {Pattern}, {Pattern}} /\ ret' = "error"
  /\ AfterTransfer("read")
  /\ UNCHANGED <<osal, chipId, irq, rx, txOffset, now, hal, binary>>

\* sdio_spi_read_multi_byte returns 0 after most failures.
Read ==
  /\ Transfers /\ at = "read"
  /\ \/ Fine /\ rx' = mem /\ ret' = "ok"
     \/ Fault /\ rx' \in {rx, rx \cup mem, mem} /\ ret' \in {"ok", "error"}
  /\ AfterTransfer(IF Benchmark THEN "loop" ELSE "validate")
  /\ now' \in (IF Benchmark THEN {now + 1, now + 2} ELSE {now})
  /\ UNCHANGED <<osal, chipId, irq, mem, txOffset, hal, binary>>

Validate_Never ==
  /\ Transfers /\ at = "validate"
  /\ at' = "free" /\ result' = "PASSED"
  /\ UNCHANGED <<step, ctrs, platform, osal, io, hal, binary>>

\* valid_buffer
Validate ==
  /\ Transfers /\ at = "validate"
  /\ at' = "free" /\ result' = (IF rx = {Pattern} THEN "PASSED" ELSE "FAILED")
  /\ UNCHANGED <<step, ctrs, platform, osal, io, hal, binary>>

Free_TxOnly ==
  /\ Transfers /\ at = "free"
  /\ heap' = heap \ {"tx_data"} /\ Goes("returned")
  /\ txOffset' = 0 /\ now' = 0 /\ rx' = (IF Benchmark THEN {Junk} ELSE rx)
  /\ ret' = "ok" /\ ok' = TRUE
  /\ UNCHANGED <<platform, newTask, handle, chipId, irq, mem, hal, binary>>

\* The locals are gone; what rx_data held matters to raw_tput only.
Free ==
  /\ Transfers /\ at = "free"
  /\ heap' = heap \ {"tx_data", "rx_data"} /\ Goes("returned")
  /\ txOffset' = 0 /\ now' = 0 /\ rx' = (IF Benchmark THEN {Junk} ELSE rx)
  /\ ret' = "ok" /\ ok' = TRUE
  /\ UNCHANGED <<platform, newTask, handle, chipId, irq, mem, hal, binary>>

-----------------------------------------------------------------------------
(* test_step_mmhal_wlan_validate_fw and _bcf *)

Validates == test_steps[step] \in {"validate_fw", "validate_bcf"}

ValidateBegins ==
  /\ Validates /\ at = "begin"
  /\ \E f \in Files : BeginWalk(IF In("validate_fw", "begin") THEN "firmware" ELSE "BCF", f)
  /\ Goes("walk")
  /\ UNCHANGED <<platform, osal, io, hal>>

ValidateWalks == Validates /\ WalkStep /\ UNCHANGED <<runner, platform, osal, io, hal>>

ValidateEnds ==
  /\ Validates /\ walk \in {"passed", "failed"} /\ WalkEnds
  /\ Returns(IF walk = "passed" THEN "PASSED" ELSE "FAILED_NON_CRITICAL")
  /\ UNCHANGED <<platform, osal, io, hal>>

-----------------------------------------------------------------------------
Next ==
  \/ NextStep
  \/ OsMalloc \/ OsRealloc \/ OsTime
  \/ CreateTask \/ CreateReturns \/ NewTaskStarts \/ NewTaskWakes
  \/ CheckStarted \/ CheckTerminating
  \/ StepWlanInit \/ HardResetLow \/ HardResetHigh \/ HardResetSettled \/ ChipBoots
  \/ SdioStartup \/ ReadChipId \/ ReadChipIdFails
  \/ BusySkipped \/ BusyOutput \/ BusyLow \/ BusyHandler \/ BusyEnable \/ BusyClear
  \/ BusyRaise \/ BusyFall \/ BusyRaised \/ BusyFallen \/ BusyCount \/ BusyDisable
  \/ BusyRecount \/ BusyOff \/ BusyUnregister \/ Interrupt
  \/ Alloc \/ Loop \/ Write \/ Read \/ Validate \/ Free
  \/ ValidateBegins \/ ValidateWalks \/ ValidateEnds

Spec == Init /\ [][Next]_vars

-----------------------------------------------------------------------------
\* A step that passes has shown what it is about, whatever failed on the way: the chip is the
\* one found, BUSY is routed, the chip's memory holds what was written (test_wlan_io.c), the
\* file is well formed (test_wlan_fw_bcf.c).  raw_tput is not among them: after failed
\* transfers its buffer may hold the pattern of the step before.
Shown(s) ==
  CASE s = "read_chip_id"    -> probed = chipKind
    [] s = "verify_busy_pin" -> wired
    [] s = "bulk_write_read" -> mem = {0}
    [] s \in {"validate_fw", "validate_bcf"} -> WellFormed(file, kind)
    [] OTHER -> TRUE

PassIsEarned == at = "returned" /\ result = "PASSED" => Shown(test_steps[step])

\* "Running this application on a known-good platform should result in a 100% pass rate"
\* (porting_assistant.c:20).  With two cores the creator may look at the new task too early.
KnownGood ==
  /\ faults = 0 /\ cores = 1 /\ chipKind # "other" /\ (psMode => wired)
  /\ Validates => WellFormed(file, kind)

GoodPlatformPasses ==
  KnownGood /\ at = "returned" => result \notin {"FAILED", "FAILED_NON_CRITICAL"}

\* Whatever way a step ends, it leaves no buffer behind, except os_realloc's on a failure,
\* and no interrupt, handler or count of the BUSY test; a late edge counts no more.
CleanBetweenSteps ==
  at \in {"returned", "end"} =>
    /\ heap \subseteq {"buf", "buf1"} /\ (heap # {} => faults > 0)
    /\ intr = "DISABLE" /\ handler # "test" /\ count = 0

\* Steps that use the chip run only with the right configuration and a chip that takes
\* commands (probed_chip_cfg is dereferenced unchecked), and no command is clocked into a
\* booting chip unless it is slower than the settling time.
UsedWhenReady ==
  /\ step > 8 => probed = chipKind /\ chip = "ready"
  /\ chip = "lost" => faults > 0

=============================================================================
