--------------------------- MODULE HalowInterface ---------------------------
(***************************************************************************)
(* The HaLow network interface (mmhalow.cpp): mmhalow_init and the calls   *)
(* an application makes afterwards, the assertions in them, and the link   *)
(* callback that keeps esp_netif informed.                                 *)
(*                                                                         *)
(* morselib is not under src/.  It is modelled as this code uses it: one   *)
(* event loop moves the station between its states and runs the callbacks  *)
(* of a move before it makes the next; a call into morselib is carried out *)
(* between two moves, and its own callbacks follow it.  Registrations      *)
(* survive mmwlan_shutdown and mmwlan_boot, as sta_reboot needs.           *)
(***************************************************************************)
EXTENDS Integers, Sequences

VARIABLES
  netif,      \* base_.netif: "none", "attached" or, after start(), "started"
  connected,  \* esp_netif was told that the link is up
  configured, \* interfaces whose configuration was set
  initpc,     \* where mmhalow_init is
  inits,      \* calls of mmhal_init and mmwlan_init so far
  ret,        \* what the last call returned
  aborted,    \* the assertion that stopped the program, or "no"
  \* morselib
  wlan,       \* "off" or "booted"
  sta,        \* station state
  ap,         \* the access point runs
  scanning,   \* a scan runs
  linkCb,     \* a link state callback is registered
  events      \* callbacks the event loop has still to run

halow == <<netif, connected, configured, initpc, inits, ret, aborted>>
wlanVars == <<wlan, sta, ap, scanning, linkCb, events>>
ivars == <<halow, wlanVars>>

\* Bound: an application that calls mmhalow_init again is followed this far.
MaxInits == 2

InitInterface ==
  /\ netif = "none" /\ connected = FALSE /\ configured = {}
  /\ initpc = "idle" /\ inits = 0 /\ ret = "ESP_OK" /\ aborted = "no"
  /\ wlan = "off" /\ sta = "DISABLED" /\ ap = FALSE /\ scanning = FALSE
  /\ linkCb = FALSE /\ events = <<>>

Alive == aborted = "no"
Abort(why) == aborted' = why
Idle == events = <<>>       \* the event loop has finished its last move

-----------------------------------------------------------------------------
(* mmhalow_init *)

\* Up to the boot: mmhal_init, mmwlan_init, the channel list.
InitCall ==
  /\ Alive /\ initpc = "idle" /\ inits < MaxInits
  /\ IF netif = "none"
     THEN initpc' = "boot" /\ inits' = inits + 1 /\ UNCHANGED aborted
     ELSE Abort("second init") /\ UNCHANGED <<initpc, inits>>
  /\ UNCHANGED <<netif, connected, configured, ret, wlanVars>>

InitBoot ==
  /\ Alive /\ initpc = "boot"
  /\ wlan' = "booted" /\ initpc' = "attach"
  /\ UNCHANGED <<netif, connected, configured, inits, ret, aborted, sta, ap, scanning,
                 linkCb, events>>

InitBootFails_GoOn ==
  /\ Alive /\ initpc = "boot" /\ wlan = "off"
  /\ initpc' = "attach" /\ ret' = "ESP_FAIL"
  /\ UNCHANGED <<netif, connected, configured, inits, aborted, wlanVars>>

\* "There is no teardown path here": nothing is attached or registered.
InitBootFails ==
  /\ Alive /\ initpc = "boot" /\ wlan = "off"
  /\ initpc' = "done" /\ ret' = "ESP_FAIL"
  /\ UNCHANGED <<netif, connected, configured, inits, aborted, wlanVars>>

\* esp_netif_new, whose failure is an assertion, and attach.
InitAttach ==
  /\ Alive /\ initpc = "attach"
  /\ \/ netif' = "attached" /\ initpc' = "register" /\ UNCHANGED aborted
     \/ Abort("no netif") /\ UNCHANGED <<netif, initpc>>
  /\ UNCHANGED <<connected, configured, inits, ret, wlanVars>>

\* The receive and link state callbacks: a registration that fails is an assertion.
InitRegister ==
  /\ Alive /\ initpc = "register"
  /\ \/ linkCb' = TRUE /\ initpc' = "start" /\ UNCHANGED aborted
     \/ Abort("not registered") /\ UNCHANGED <<linkCb, initpc>>
  /\ UNCHANGED <<netif, connected, configured, inits, ret, wlan, sta, ap, scanning, events>>

InitStart ==
  /\ Alive /\ initpc = "start"
  /\ netif' = "started" /\ initpc' = "done" /\ ret' = "ESP_OK"
  /\ UNCHANGED <<connected, configured, inits, aborted, wlanVars>>

InitStep ==
  InitBoot \/ InitBootFails \/ InitAttach \/ InitRegister \/ InitStart

InitReturn ==
  /\ initpc = "done" /\ initpc' = "idle"
  /\ UNCHANGED <<netif, connected, configured, inits, ret, aborted, wlanVars>>

-----------------------------------------------------------------------------
(* The other calls, made when mmhalow_init has returned *)

CanCall == Alive /\ initpc = "idle"

Interfaces == {"STA", "AP", "NAN"}

\* mmhalow_set_config.
SetConfig(i) ==
  /\ CanCall
  /\ CASE i = "NAN" -> ret' = "ESP_ERR_NOT_SUPPORTED" /\ UNCHANGED <<configured, aborted>>
       [] i # "NAN" /\ netif = "none" -> Abort("no netif") /\ UNCHANGED <<configured, ret>>
       [] OTHER -> configured' = configured \cup {i} /\ ret' = "ESP_OK" /\ UNCHANGED aborted
  /\ UNCHANGED <<netif, connected, initpc, inits, wlanVars>>

\* Connecting starts, or morselib refuses the request.
Connect ==
  /\ CanCall /\ Idle
  /\ \/ /\ netif = "none" /\ Abort("no netif") /\ UNCHANGED <<ret, sta, events>>
     \/ /\ netif # "none" /\ wlan = "booted" /\ sta = "DISABLED"
        /\ sta' = "CONNECTING" /\ events' = <<"CONNECTING">>
        /\ ret' = "ESP_OK" /\ UNCHANGED aborted
     \/ /\ netif # "none" /\ ret' = "error" /\ UNCHANGED <<aborted, sta, events>>
  /\ UNCHANGED <<netif, connected, configured, initpc, inits, wlan, ap, scanning, linkCb>>

\* The callbacks that follow when the station is disabled.
StaOff ==
  CASE sta = "DISABLED"   -> <<>>
    [] sta = "CONNECTING" -> <<"DISABLED">>
    [] sta = "CONNECTED"  -> <<"DISABLED", "link down">>

Disconnect ==
  /\ CanCall /\ Idle
  /\ sta' = "DISABLED" /\ events' = StaOff /\ ret' = "ESP_OK"
  /\ UNCHANGED <<netif, connected, configured, initpc, inits, aborted, wlan, ap, scanning,
                 linkCb>>

Scan ==
  /\ CanCall /\ Idle
  /\ \/ wlan = "booted" /\ ~scanning /\ scanning' = TRUE /\ ret' = "ESP_OK"
     \/ ret' = "error" /\ UNCHANGED scanning
  /\ UNCHANGED <<netif, connected, configured, initpc, inits, aborted, wlan, sta, ap,
                 linkCb, events>>

\* mmhalow_wifi_start: mmwlan_ap_enable, its result ignored.
WifiStart ==
  /\ CanCall /\ Idle
  /\ IF netif = "none" THEN Abort("no netif") /\ UNCHANGED ap
     ELSE ap' \in {ap, wlan = "booted"} /\ UNCHANGED aborted
  /\ UNCHANGED <<netif, connected, configured, initpc, inits, ret, wlan, sta, scanning,
                 linkCb, events>>

\* mmhalow_deinit: only morselib is shut down; netif and registrations stay.
Deinit ==
  /\ CanCall /\ Idle
  /\ wlan' = "off" /\ sta' = "DISABLED" /\ ap' = FALSE /\ scanning' = FALSE
  /\ events' = StaOff \o (IF scanning THEN <<"scan complete">> ELSE <<>>)
  /\ ret' = "ESP_OK"
  /\ UNCHANGED <<netif, connected, configured, initpc, inits, aborted, linkCb>>

\* mmwlan_boot, which sta_reboot calls past this interface and whose result it ignores.
Boot ==
  /\ CanCall /\ Idle /\ inits > 0
  /\ wlan' \in {wlan, "booted"}
  /\ UNCHANGED <<halow, sta, ap, scanning, linkCb, events>>

StaStates == {"DISABLED", "CONNECTING", "CONNECTED"}

-----------------------------------------------------------------------------
(* morselib's event loop *)

StaConnected ==
  /\ Alive /\ Idle /\ sta = "CONNECTING"
  /\ sta' = "CONNECTED" /\ events' = <<"CONNECTED", "link up">>
  /\ UNCHANGED <<halow, wlan, ap, scanning, linkCb>>

\* The access point went away; the station tries again.
StaLost ==
  /\ Alive /\ Idle /\ sta = "CONNECTED"
  /\ sta' = "CONNECTING" /\ events' = <<"link down", "CONNECTING">>
  /\ UNCHANGED <<halow, wlan, ap, scanning, linkCb>>

ScanEnds ==
  /\ Alive /\ Idle /\ scanning
  /\ scanning' = FALSE /\ events' = <<"scan complete">>
  /\ UNCHANGED <<halow, wlan, sta, ap, linkCb>>

LinkEvents == {"link up", "link down"}
AppEvents  == StaStates \cup {"scan complete"}

LinkCallback_IgnoreDown ==
  /\ Alive /\ ~Idle /\ Head(events) \in LinkEvents
  /\ connected' = (connected \/ Head(events) = "link up")
  /\ events' = Tail(events)
  /\ UNCHANGED <<netif, configured, initpc, inits, ret, aborted, wlan, sta, ap, scanning,
                 linkCb>>

\* set_link_state, when the callback is registered.
LinkCallback ==
  /\ Alive /\ ~Idle /\ Head(events) \in LinkEvents
  /\ connected' = IF linkCb THEN Head(events) = "link up" ELSE connected
  /\ events' = Tail(events)
  /\ UNCHANGED <<netif, configured, initpc, inits, ret, aborted, wlan, sta, ap, scanning,
                 linkCb>>

\* A callback the application passed with its call.
AppCallback(e) ==
  /\ Alive /\ ~Idle /\ e = Head(events) /\ e \in AppEvents
  /\ events' = Tail(events)
  /\ UNCHANGED <<netif, connected, configured, initpc, inits, ret, wlan, sta, ap, scanning,
                 linkCb>>

WlanStep == StaConnected \/ StaLost \/ ScanEnds \/ LinkCallback

-----------------------------------------------------------------------------
(* Any application: any call at any time once mmhalow_init has returned *)

Call ==
  \/ InitCall \/ Connect \/ Disconnect \/ Scan \/ WifiStart \/ Deinit \/ Boot
  \/ \E i \in Interfaces : SetConfig(i)

Callback == \E e \in AppEvents : AppCallback(e) /\ UNCHANGED aborted

INext == Call \/ InitStep \/ InitReturn \/ WlanStep \/ Callback

ISpec == InitInterface /\ [][INext]_ivars

\* Whenever morselib's event loop has run its callbacks, esp_netif believes the link up
\* exactly when the station is connected: through reconnections, shutdowns and reboots.
NetifFollowsLink == Idle => (connected <=> sta = "CONNECTED")

\* mmhalow_init leaves the interface complete, on a transceiver that runs, or, with an
\* error, untouched: no netif without its callbacks, no station or access point without a netif.
AllOrNothing ==
  /\ initpc = "done" => IF ret = "ESP_OK" THEN netif = "started" /\ linkCb /\ wlan = "booted"
                                         ELSE netif = "none" /\ ~linkCb
  /\ sta # "DISABLED" \/ ap => netif = "started"
=============================================================================
