------------------------------ MODULE WlanHal ------------------------------
(***************************************************************************)
(* mmhal_wlan.c: the pins, the SPI device and the interrupts between the    *)
(* host and the transceiver, as far as the porting assistant drives them.   *)
(*                                                                         *)
(* The transceiver is not under src/: it boots when RESET_N is released,    *)
(* must not be clocked before it has (Kconfig, MM_RESET_SETTLE_MS), and     *)
(* drives BUSY through one of its GPIOs, if the board routes it.  The GPIO  *)
(* driver latches a rising edge only for a pin that has a handler and the   *)
(* interrupt type, and serves it later.                                     *)
(***************************************************************************)
EXTENDS Naturals

VARIABLES
  resetN, cs,   \* levels of RESET_N and of the SPI chip select
  spi,          \* the bus and its device were set up
  chip,         \* "held" in reset, "booting", "idle", "ready" for commands or "lost"
  \* BUSY
  wired,        \* the board routes it
  oe, out,      \* the chip's GPIO: output enable and value
  handler,      \* "none" until one is added, then it or "NULL"
  intr,         \* GPIO_INTR_DISABLE or GPIO_INTR_POSEDGE
  pending       \* an edge is latched

power == <<resetN, cs, spi, chip>>
busy  == <<wired, oe, out, handler, intr, pending>>
hal   == <<power, busy>>

InitHal ==
  /\ resetN = 0 /\ cs = 1 /\ spi = FALSE /\ chip = "held"
  /\ wired \in BOOLEAN /\ oe = FALSE /\ out = 0
  /\ handler = "none" /\ intr = "DISABLE" /\ pending = FALSE

-----------------------------------------------------------------------------
\* gpio_config and the levels of wlan_hal_gpio_init; spi_bus_initialize may fail, which is
\* only logged; then RESET_N is raised.
WlanInit(works) ==
  /\ cs' = 0 /\ intr' = "DISABLE"
  /\ spi' = works
  /\ resetN' = 1 /\ chip' = "booting"
  /\ UNCHANGED <<wired, oe, out, handler, pending>>

ResetLow  == resetN' = 0 /\ chip' = "held" /\ UNCHANGED <<cs, spi, busy>>
ResetHigh == resetN' = 1 /\ chip' = "booting" /\ UNCHANGED <<cs, spi, busy>>

Boots == chip = "booting" /\ chip' = "idle" /\ UNCHANGED <<resetN, cs, spi, busy>>

\* mmhal_wlan_send_training_seq raises the chip select and clocks; commands follow.
Clock(works) ==
  /\ cs' = 1
  /\ chip' = IF works THEN "ready" ELSE IF chip = "booting" THEN "lost" ELSE chip
  /\ UNCHANGED <<resetN, spi, busy>>

-----------------------------------------------------------------------------
Level(o, v) == IF wired /\ o THEN v ELSE 0      \* BUSY is pulled down
BusyAsserted == Level(oe, out) = 1

\* The chip's GPIO changes; a rising edge is latched.
Drive(o, v) ==
  /\ oe' = o /\ out' = v
  /\ pending' = (pending \/ (/\ ~BusyAsserted /\ Level(o, v) = 1
                             /\ intr = "POSEDGE" /\ handler # "none"))
  /\ UNCHANGED <<power, wired, handler, intr>>

RegisterBusyHandler(h) == handler' = h /\ UNCHANGED <<power, wired, oe, out, intr, pending>>

\* An edge of before may still be latched when the type is set.
SetBusyIrq(enabled) ==
  /\ intr' = IF enabled THEN "POSEDGE" ELSE "DISABLE"
  /\ pending' \in {pending, pending \/ (enabled /\ handler # "none")}
  /\ UNCHANGED <<power, wired, oe, out, handler>>

Isr == pending /\ pending' = FALSE /\ UNCHANGED <<power, wired, oe, out, handler, intr>>

=============================================================================
