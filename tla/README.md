# Verification of esp-halow

TLA+ models of the ESP-IDF HaLow component (`src/halow`): the network interface over
morselib, the OS, HAL and crypto shims, the porting assistant and the examples.
Paths below are relative to `src/halow/`.

Run `tlc -config X.cfg M` for a run and `tlapm M_proofs.tla` for the proofs.

## 1. The system

| Component | State | Operations | Modules |
|---|---|---|---|
| HaLow interface, lifecycle (`mmhalow.cpp`) | the one `HalowInterface`: its netif, STA and AP configuration; what esp_netif was told of the link | `mmhalow_init`, `deinit`, `scan`, `set_config`, `connect`, `disconnect`, `status`, `wifi_start`, the link callback | `HalowInterface`, `HalowInterface_proofs` |
| HaLow interface, packet path (`mmhalow.cpp`) | none of its own: packets move between morselib's pools, `receive()`, the IP stack, `transmit()` and the transmit queue | `receive`, `free_rx_buffer`, `transmit` | `PacketPath`, `TransmitService`, `PacketPath_proofs` |
| Examples (`examples/*`) | a binary semaphore, an iteration count | `app_main`, the status and scan callbacks | `Examples` (extends `HalowInterface`), `HalowInterface_proofs` |
| OSAL failure records (`components/shims/mmosal_shim_freertos_esp32.c`, `mmhal_os.c`) | `preserved_failure_info` in RAM that survives a warm reset | log, assert, dump at boot, reset | `FailureLog`, `FailureLog_proofs` |
| OSAL timers (same file) | `struct mmosal_timer`, esp_timer's own record | create, start, change, stop, delete, the callback | `OsalTimer`, `Osal`, `Osal_proofs` |
| OSAL tasks (same file) | the argument block of a new task | create, `mmosal_task_main`, delete, join | `OsalTasks`, `Osal`, `Osal_proofs` |
| SDIO transport (`examples/porting_assistant/main/sdio_spi.c`) | the keyhole registers and memory of the chip, the locals of a call | read and write multi-byte and le32, update | `SdioTransport`, `SdioMemory`, `SdioTransport_proofs` |
| WLAN HAL (`mmhal_wlan.c`) | levels of RESET_N and chip select, the SPI bus, the BUSY handler and its interrupt | init, hard reset, training sequence, BUSY interrupt | `WlanHal` |
| File reads and their validation (`mmhal_wlan_binaries.c`, `test_wlan_fw_bcf.c`) | offset, fields seen, bytes left of a field | read, the walk over the fields | `BinaryCheck`, `PortingAssistant_proofs` |
| Porting assistant (`porting_assistant.c`, `test_*.c`, `chip_cfg.c`) | counters, the probed chip, the interrupt count, buffers | thirteen steps, the runner | `PortingAssistant` (extends `WlanHal`, `BinaryCheck`), `PortingAssistant_proofs` |
| Crypto port (`crypto_mbedtls_mm.c`) | the lazily seeded generator, one static number; objects it allocates | random, big numbers, curves, ECDH, key derivation, MACs | `CryptoBignum`, `CryptoObjects`, `CryptoPrf`, `Crypto`, `CryptoObjects_proofs`, `Crypto_proofs` |
| morselib, hostap, mmpktmem, regdb, firmware | git submodules, not in this repository | | external definitions only |
| configs, CMake, web server of dual_if | no state | | not modelled |

How they meet.  An application calls `mmhalow_*` from its task.  morselib's event loop calls
back: a status callback of the application, which gives a semaphore, and the link callback,
which informs esp_netif.  morselib's receive task calls `receive()`; the IP stack's tasks call
`transmit()` and `free_rx_buffer()`.  morselib runs its tasks and timers through the OSAL, and
hostap in it computes through the crypto port.  A failed assertion anywhere ends in the OSAL,
which logs a record and resets the chip.  The porting assistant uses the HAL without the
interface.

What is hard: buffers that change owner across tasks and a shutdown in between; errors that
must mean "not done"; callbacks in an order no example was tested with; an `mmhalow_init` that
stops half way; resets between any two stores to preserved RAM; a keyhole of three registers
that a failed command leaves half moved; a timer stopped while it expires; a task that ends
before its creation has returned; constructors that fail after each of their allocations;
results that overwrite operands; a late interrupt counted as a new one.  `PROJECT.json` lists
these as hazards, at their lines, with the properties that cover them.

What makes each part correct is stated by the properties in section 3.

## 2. The modules

### FailureLog
Every load and store of `preserved_failure_info` that another task or a reset can separate
from the next is an action (`LogFailure`, `ClearCounters`, `SetMagic`, `LoadCount`,
`BumpCount`, `CopyBegin`, `CopyEnd`; `DumpBegin`, `DumpRecord`, `DumpEnd`).  `WarmReset`
stops every task anywhere and keeps the RAM; `PowerLoss` leaves anything in it.  A record is
named by the call that wrote it; a record that a `memcpy` is writing is `Garbage`.
`failure_count++` is a load (`LoadCount`, which serves `record_num` too) and a store
(`BumpCount`); the two stores of `ClearCounters` are one step, since a reset between them is
followed by another clearing.  History: `calls`, `at`
(who reserved an ordinal), `whole` (copied to the end), `acked` (printed by a finished dump).

### PacketPath and TransmitService
One action per step of `receive()` and `transmit()` between which other tasks run.  `views`
counts the open views of a packet, and `GiveBack`, close and release, sets `fault` if the
caller did not own it.  Assumed of what is not in the repository: `esp_netif_receive` keeps
the buffer only if it returns `ESP_OK`; `mmwlan_tx_pkt` takes the packet whatever it returns;
`mmwlan_shutdown` lets a running receive callback finish and releases queued packets.
`transmit` without delay between `mmpkt_open` and `mmpkt_close` is one action: the packet is
private there.  All packets have tid 0, so morselib has one queue for them.
`TransmitService` is what the IP stack sees of it: calls that end with `ESP_OK` or an error,
and the accepted frames that wait, in order, until they are on the air or dropped.  Its
`open` is mapped to the frames of the senders inside `transmit()`, its `pending` to the
payloads of the queue.

### HalowInterface and Examples
`HalowInterface` has one action per call and one per step of `mmhalow_init` between which
morselib may act, the callbacks morselib has still to run as a sequence (`events`), and an
`ISpec` in which an application calls anything at any time.  `Examples` adds the program of
each `app_main`, replacing the arbitrary calls: `example` is chosen at the start.  The
enumerators of `mmwlan_sta_state` and `mmwlan_status` are taken to count from 0 in the order
of their lists.  Results the examples ignore are ignored.

### SdioTransport and SdioMemory
`SdioMemory` is the promise of `sdio_spi.h`: bytes arrive in order and nothing else changes.
`SdioTransport` is the code: three CMD52 per chunk (`Cmd52`), CMD53 by whole blocks and then
bytes (`Part`), truncation at a window's end (`ChunkSize`), the second read of equal first
words (`ReRead`).  Any command may fail, and a failed one may have taken effect.  `src` is
mapped to what an update is going to write while it still reads; every other variable maps to
itself.  A byte is a number that tells its origin.  `(1<<16)` is `Window`, which is also the
longest transfer, as 128 blocks of 512 are.  The error codes are taken to be negative, so
`result < 0` in `sdio_spi_update_le32` is every error.

### OsalTimer, OsalTasks, Osal
`OsalTimer` has the shim's functions over esp_timer's record of a timer (`esp`) and three
steps of the esp_timer task: `TakeDue` (which disarms, then drops the lock),
`internal_timer_callback` and `Callback`, in which the client's function may start, stop or
change the timer it is given.  `mmosal_timer_change_period` and `mmosal_timer_delete`, which
call esp_timer and touch the struct, are split between these (`OwnerChanges`, `DeleteStop`,
`DeleteHandle`, `DeleteFree`).  On one core the esp_timer task's priority keeps the owner from
running between `TakeDue` and the end of the callback; on two it does not.  A client does not
change the timer in a callback while its owner deletes it.
`OsalTasks` splits `mmosal_task_create` at the allocation and at `xTaskCreate`, and
`mmosal_task_main` at the copy, the `mmosal_free`, the call and the delete.  Once the idle
task has reaped a task, `eTaskGetState` may answer anything (the comment above
`mmosal_task_join` warns of it).  `Osal` puts the two side by side: a behaviour is of one.

### WlanHal, BinaryCheck, PortingAssistant
`WlanHal` is the host's half of the pins and what the chip does with them; a rising edge of
BUSY stays `pending` until the interrupt is served.  `BinaryCheck` reads a file of 16-bit
cells through `ReadLength`, the rule of both file reads.  `PortingAssistant` has the runner
(`NextStep`) and, for each step, its control: where it sleeps, compares, fails, jumps to its
clean-up.  The platform may do anything wrong at a price of one of `MaxFaults`: an allocation
or a transfer that fails, a transfer that reports success and is not one, a task that does
not run, a chip slower than the settling time.  Which chip it is and whether BUSY is
routed (`chipKind`, `wired`) are no faults but chosen at the start.  A buffer's content is the set of the
patterns in it; what `SdioTransport` does inside a transfer is one step here.

### CryptoBignum, CryptoObjects, CryptoPrf, Crypto
Three views of one file, which share no state.  `CryptoBignum` computes: a function is the
set of its outcomes, `Then` is the `||` between the mbedtls calls, and a number is named by
where it is, so a caller may pass one number three times.  `CryptoObjects` owns: each
function is its sequence of allocations, contexts, calls and frees, with the place a failure
goes to; the stack of running functions makes `crypto_ecdh_init` call its constructor and
`crypto_ecdh_set_peerkey` the derivation of y.  `CryptoPrf` writes octets: an octet of a MAC
is known by what was hashed, its place and the bits kept of it, and a public value by its
length, its header and its form.

Operators whose name ends in `_` and a word (`Slot_LooseMask`) are defects the code might
have had; each property of a passing run is violated when one of them replaces its original.

## 3. What is checked

| Run (`.cfg`) | Properties | Shows |
|---|---|---|
| `FailureLog` | `TypeOK`, `RecentKept`, `DumpInOrder`, `DifferenceNeverWraps`, `BootReportsAll`, `PrintedOnce`, `AssertionReported` | one logging task, six failures, resets anywhere: the newest whole records are kept, printed in order, once, and a failed assertion is reported |
| `FailureLogHalt` | `DumpInOrder` | the same order when the failing task dumps itself |
| `PacketPath` | `TypeOK`, `NeverMisused`, `NoLeak`, `OneOwner`, `SentOnce`, `TransmitAsPromised`, `TransmitReturns`, `RxReturned`, `AcceptedSent` | packets are never lost, shared or used by a former owner, and `transmit()` tells the truth, in order and in time: `PacketPath` implements `TransmitService` |
| `HalowInterface` | `NetifFollowsLink`, `AllOrNothing` | any client: the netif follows the station, `mmhalow_init` is all or nothing |
| `Examples` | `EarlySemaphoreExists`, `FirstTxAfterConnected`, `Ends` | the six examples, but for those a property names |
| `SdioTransport` | `NoCrossing`, `KeyholeSet`, `ReadDelivers`, `WritesAsPromised`, `Returns` | data moves only through the right window; `SdioTransport` implements `SdioMemory` |
| `BinaryCheck` (`MCBinaryCheck`) | `VerdictRight` | the walk passes exactly the well-formed files, by a definition that does not walk |
| `PortingAssistant` (`MCPortingAssistant`) | `PassIsEarned`, `GoodPlatformPasses`, `CleanBetweenSteps`, `UsedWhenReady` | a verdict means what it says, whatever the platform does; a step leaves nothing behind |
| `Osal` (`MCOsal`) | `PeriodInForce`, `NothingAfterStop`, `ArgOwned`, `Fires` | a timer keeps its period, is silent once stopped, fires once started; the block of a new task has one owner |
| `Crypto` (`MCCrypto`) | `BignumRight`, `Owned`, `PrfRight`, `PeerKeyRight` | results and operands, memory on every failure path, every octet of a derived key and of a public value's header |

Disagreements of the code with its documentation, each a run TLC refutes:

| Run | Property | The code |
|---|---|---|
| `FailureLogTorn` | `MagicMeansValid` | counts a record before it is written |
| `SdioTransportOk` | `OkMeansMoved` | a failed CMD53 read is not reported |

Disagreements the models allow and no run is spent on:
- Four or more new failures are numbered from the slot index
  (`mmosal_shim_freertos_esp32.c:84`), so two failures carry one number in successive dumps.
- Two tasks that fail within the reset delay reserve one record (`:70`): one of the two most
  recent failures is lost.  `DifferenceNeverWraps` holds all the same, and is proved.
- sta_reboot takes a token of the iteration before and transmits unconnected
  (`sta_reboot/main/app_main.c:96`, its README:10).
- sta_connect and iperf connect before they create the semaphore
  (`sta_connect/main/app_main.c:98`, its README:9).
- A second `mmhalow_init` after one whose boot failed does not assert (`mmhalow.cpp:258`,
  API.md:91); the examples ignore that failure and run into the assertion on the netif.
- scan waits for ever for a scan that was refused.
- `mmhalow_status` returns the number of a station state as an `mmwlan_status`
  (`mmhalow.cpp:382`, API.md:191).
- `process_sdio_spi_multi_byte_return` returns `TEST_FAILED`, which is `true`, for an error
  (`test_wlan_io.c:282`; line 245 says false).  `PassIsEarned` holds for the bulk transfer in
  spite of it, since the data is compared; raw_tput may compare what an earlier transaction,
  or the step before in the same memory, has left, and is excepted.
- An empty field of magic type passes for a magic number (`test_wlan_fw_bcf.c:117`), and
  `WellFormed` says so.
- A read error with the first chip configuration ends the probing
  (`test_wlan_io.c:201`): the second is only tried after a wrong id.
- A failed reallocation leaks the block (`test_os.c:46`); `CleanBetweenSteps` excepts it.
- On two cores the step on task creation may fail a good platform (`test_os.c:135`), and a
  timer's callback may run after its deletion (`mmosal_shim_freertos_esp32.c:616`).
- `aes_encrypt_init` sets a decryption key (`crypto_mbedtls_mm.c:675`); ciphers are not
  modelled.

### Bounds
- FailureLog: `MaxFailures` 6 (2 where that is enough): a ring of four is overwritten and dumped
  again.  `WORD` stands for 2^32, far from reach; `Noise` is what a power loss leaves.
- PacketPath: two packets per pool and two senders, so a pool runs empty with a sender between
  its two looks; three frames, one more than the packets.
- HalowInterface: `MaxInits` 2, a first and a second `mmhalow_init`.  `Examples`: three
  iterations of sta_reboot for its ten; a token crosses from one to the next.
- SdioTransport: windows of 16 bytes, blocks of 8 and 4, words of 2; two calls, so a failed
  call is followed by another; starts just before a boundary, lengths that are invalid, end
  before it, at it, and reach a third window.  `Radix` 2 makes both window registers vary.
- BinaryCheck: every file of up to eight cells with values 0 to 2, so that a value may look
  like a header, an EOF or half a magic number; `MAX_TLVS` 3 of 50 is reached and passed.
- PortingAssistant: two faults, so that one may hide another; four transactions of a
  benchmark at most, so that one fails after another has not; a good firmware, a good BCF and
  a file without EOF.
- Osal: two periods, lateness up to five ticks (more than two periods of either, so that a
  repeating timer skips), four changes; two tasks.
- Crypto: numbers from -2 to 5 in every combination of operands, one curve whose A mbedtls
  leaves unset and one with A, x up to twice P; objects of any of the seven kinds may exist
  while the next is made or fails (`MaxHeld` 7, one of a kind at a time); MACs of three octets and keys of up to ten, three
  blocks and a part; a header of 16 values for 256, with public values up to that length.

### Fairness
- FailureLog: the boot hook runs, and so does a task inside a call (`Logging`, `AssertStep`,
  `DumpStep`).  Nobody has to report a failure.  `AssertionReported` also supposes that resets
  from outside end, since a reset loop reports nothing; that the ring is overwritten is no
  excuse in it, since with one task the dump comes before any newer failure.
- PacketPath: tasks that are not blocked run, `mmwlan_tx_wait_until_ready(1000)` ends by its
  timeout, the stack frees what it took, morselib drains its queue.  No fairness for flow
  control, shutdown or reception.
- Examples: `app_main` runs (strongly fair, since calls wait for the event loop between two
  moves), morselib runs its callbacks and ends a scan.  Nothing makes the network connect.
- SdioTransport: a command ends, with an answer or an error.
- Osal: the esp_timer task runs (highest priority), time passes while an alarm is set, and a
  call that has begun ends.  Nobody has to call anything; a timer whose period is changed for
  ever would not fire, hence `MaxChanges`.

Deadlock is checked for FailureLog, PacketPath, Osal and Crypto.  The interface's runs stop
where an assertion stopped the program or the example ended, SdioTransport's when `MaxCalls`
is used up, BinaryCheck's at a verdict, PortingAssistant's after the last step or a critical
failure.

## 4. What is proved

With TLAPS, for every value of the constants that satisfies the named assumptions.

`FailureLog_proofs` (assumptions: the tasks are finitely many and none is the boot hook, and
the counters stay below `WORD`):
- `TypeCorrect`.  `TypeOK` alone is not inductive: a counter is bounded by `calls` because
  each reservation belongs to a call in progress.  `BaseInv` adds `ControlOK` (which actor is
  where) and `CallsBound` (count plus the calls that have yet to reserve is at most `calls`).
- `NoWrap`, for builds that do not halt: any number of unlocked loggers.  `NoWrapInv` adds
  that a dump runs alone, so no logger's load is older than `displayed`.
- `RecordsKept`, `DumpsInOrder`, `BootsReportAll`, `NothingPrintedTwice`, for one logging
  task: `SingleInv` relates slots to ordinals (`SlotInjective`: four consecutive ordinals have
  four slots), `AckInv` the acknowledged records to `displayed`.

`PacketPath_proofs` (assumption: the pools are disjoint and hold no null pointer):
- `Ownership`: `OwnInv` says, of each packet that is not in its pool, which one owner it has
  (`RxOwners`, `TxOwners`) and that views are open as the owner needs.  It is inductive with
  `TypeOK` and `NeverMisused`: a release is legal because its caller is that owner.
- `TypeCorrect`, `NothingMisused`, `NothingLeaks` (packets and views) and `OwnedByOne` follow.
- `SentExactlyOnce`: `SentInv` follows a frame from `transmit` through a packet's payload and
  the queue to the air.
- `KeepsService`: `Spec => TransmitAsPromised`, the refinement.  With `OwnInv` a packet that is
  filled is not one of the queue, and with `SentInv` no two calls are for one frame, so a
  return takes one frame out of `open`; receivers, flow control and the fill stutter.
- `NoFrameForgotten` is an invariant of the service and so of the packet path: every frame is
  in progress, refused, on the air, waiting or dropped by a shutdown.

`Osal_proofs` (assumption: periods are positive):
- `PeriodsInForce` and `SilentAfterStop`: `TimerInv` joins both to `AlarmOwned`, which says
  that an armed alarm belongs to a timer that is live, not stopped and not being deleted.
  Without it a step of the esp_timer task could take an alarm that nobody answers for.  The
  first holds on two cores too; the second needs one, where the owner does not run between
  `TakeDue` and the end of the callback.
- `ArgumentOwned`: `TasksInv` says for each stage of creator and task who holds the block
  (`Handover`); `ArgOwned` is what follows of it for the two points of use.

`HalowInterface_proofs` (assumptions, for the examples: those considered are among
the six, and `N_REPEATS` is positive):
- `LinkFollowed` and `InitAllOrNothing`, for `NetifFollowsLink` and `AllOrNothing`.  Neither
  is inductive: both speak of a moment, the idle event loop or the return of `mmhalow_init`.
  `LinkInv` says what holds in between: the event loop's queue is one of twelve (`ITypeOK`),
  and its callbacks tell what esp_netif will believe when they have run (`LinkKnown`); a
  link callback is in the queue only where one is registered, since a station that is not
  disabled has a complete interface under it (`Complete`); each point of `mmhalow_init` has
  so much attached and registered (`Progress`).
- `ExamplesKeepInterface`: each step of an example is a call, a step of `mmhalow_init` or a
  move of the event loop, so `LinkInv` holds in the examples, whose callbacks may also assert.
- `EarlySemaphoresExist`, for any number of iterations: `EarlyInv` says that while the
  semaphore is missing the example is at its first calls and morselib has been asked for
  nothing (`Quiet`).
- `TransmitsWhenConnected`: `TxInv` gives the few queues a station has that is only ever
  connected (`StaQueues`), and ties a token to the callback that gave it and the transmission
  to the token.

`SdioTransport_proofs` (assumptions: sizes are positive, windows are whole words, a word is
shorter than a block of function 1 and two words than one of function 2, as 65536, 4, 8 and
512 are; calls start at an address; `Mask`, any lengths and any number of calls):
- `SdioInductive`: `SdioInv` follows a call: which registers of the keyhole its commands have
  set so far (`RegistersOK`), that a chunk lies in one window and in the caller's range
  (`ChunkOK`), how many bytes have arrived (`StoredOK`) and which of those read are right
  (`ReadOK`).  The properties speak of a transfer; registers and counts move between them.
- `TransfersStayInWindow`, `KeyholeFollows` and `ReadsDeliver` follow of it.
- `KeepsPromise`: `Spec => WritesAsPromised`, the refinement.  With `SdioInv` a `Cmd53Write`,
  also one that failed, is a step of `SdioMemory` on the same bytes, and any other step is its
  begin, its return or a stutter.

`PortingAssistant_proofs` (assumptions: a file is a sequence of numbers, each kind has a magic
number, the two field types differ, `MAX_TLVS` is positive; `MaxFaults` and `WaitTime` are
numbers):
- `VerdictIsRight`, for files of any length.  `WellFormed` asks for a chain of fields, the code
  has an offset.  `WalkInv` says that the fields behind the walk begin such a chain (`Behind`)
  and that the walk is on every chain there may be (`Ahead`), so it accepts only what has one
  and gives up only on what has none.
- `PassesAreEarned`, `StepsLeaveNothing`, `ChipUsedWhenReady`, with any number of faults:
  `SafeInv` says per step what is established by then (`ChipOK`), since a step's own property
  rests on what earlier ones left.
- `GoodPlatformsPass`: `GoodInv` says where a platform without faults is at each point, above
  all how many interrupts BUSY has counted and whether one is pending.

`CryptoObjects_proofs` (assumption: a caller may hold at least one object):
- `ObjectsAreOwned`: `Owned` for any `MaxHeld`.  It is not inductive: what is allocated depends
  on where each running function is.  So each of the 29 functions has a proof outline, which
  says what it holds before each of its steps: a block (`Own`) and contexts (`Live`).
  `StepOK` is what a step owes its outline, whichever way it goes; one lemma per function
  shows it of every step.  The rest uses `StepOK` only.  `Owns` says that the memory is that
  of the caller's objects and of the outline's line, that what lies below a called function
  is its caller's (`CallersOf`, `Below`), and that a generator that counts as seeded is, but
  while `crypto_unload` takes it down.  One lemma per kind of step shows that it is kept.
- An outline has to say more than the property: a failed `mbedtls_mpi_read_binary` leaves a
  number that nobody frees (`crypto_bignum_init_set`, `crypto_mbedtls_mm.c:755-789`), which
  leaks nothing only because the number was empty before; so `StepOK` requires that a number
  is read into right after it is initialised, but for the static one.

`Crypto_proofs`, keys (assumptions: MACs are not empty; a request needs fewer blocks than the
counter counts, and its length in bits fits the length hashed):
- `KeysAreRight`, for any MAC, request, label and data: `PrfInv` says that the blocks written
  are those the loop has counted (`Progress`) and each octet what 802.11 defines, whole
  (`Written`); the last bits are cleared last (`MaskedIsKey`).
- `PeerKeysAreRight`, for every buffer and every length of a peer's value.

`Crypto_proofs`, big numbers (assumptions: there is a curve, P is above 3, A and B are
below P and A is P - 3 where mbedtls leaves it unset; `Radix` is at least 2):
- `BignumIsRight`: `BignumRight` for all numbers, curves and radices.  What a function may do
  to the static and the three numbers it is given is a set of outcomes; `Leaves` and `Answers`
  say what is known of each of them, and hold of a composition (`Then`) when they hold of its
  parts, so each function has one lemma, also where the result is an operand.
  `crypto_bignum_legendre` raises to (P-1)/2 and looks at the result: that this tells squares
  from other numbers is the lemma `EulersCriterion`, proved here from the division of integers: inverses
  modulo a prime, products over sets of numbers, and the pairing of x with a/x that gives
  Wilson's theorem.
- Inductions are over sets: a set of numbers that is not empty has a least one (`Least`, from
  the well-foundedness of the natural numbers), and the least number that fails is refuted.
  Powers and the number that bytes stand for are therefore recursive functions.
- `CryptoKeysAreRight`, `PortObjectsAreOwned`: `PrfRight`, `PeerKeyRight` and `Owned` over the
  composed specification.

Only model-checked:
- liveness (`AssertionReported`, `TransmitReturns`, `RxReturned`, `AcceptedSent`, `Ends`,
  `Returns`, `Fires`): the prover does not reason about fairness.

Every invariant and every other action property that a run checks is stated by a theorem.

## 5. Not modelled

- morselib, hostap and the other submodules, whose sources are not in this repository, beyond
  what this code relies on; mbedtls, esp_timer, FreeRTOS and the chip likewise.
- Of the OSAL: mutexes, semaphores, queues, notifications, memory and time, each a FreeRTOS
  call with a conversion of a timeout; the conversions are listed as a hazard.
- Of the WLAN HAL: `mmhal_wlan_deinit`, WAKE, the SPI interrupt and MAC address, which nothing
  under `src/` calls.
- Of the crypto port: hash, cipher and point arithmetic (mbedtls computes them), the tables of
  groups, and `pbkdf2`; two tasks in the generator, which is not made for it.
- `crypto_ec_point_invert` on a Montgomery curve, which it refuses, and of the point at
  infinity: the model has finite points of Weierstrass curves.
- What a generator whose seeding failed holds in mbedtls: nothing in the model, so that
  initialising it again is no leak there.
- The last 64K window of the SDIO transport, where the window's end wraps to 0 in 32 bits; no
  caller addresses it.
- The web server of dual_if and the iperf console (calls in a row), logging, build files.

## 6. Plan

1. An abstract specification of `FailureLog` with one task, a reliable log of records, beside
   `SdioMemory` and `TransmitService`.
2. A second task that calls the interface during `mmhalow_init`; the last window of the SDIO
   transport.
3. `OsalSync`: timeouts in ticks, notifications as a binary semaphore, from tasks and ISRs.
