----------------------- MODULE HalowInterface_proofs -----------------------
(***************************************************************************)
(* Proofs about HalowInterface: the netif follows the station, and          *)
(* mmhalow_init is all or nothing.                                          *)
(*                                                                         *)
(* The event loop's queue is one of a few (ITypeOK), and the callbacks in it *)
(* say what the netif will know when they have run (LinkKnown).  A link     *)
(* callback is only lost when none is registered, which a station that is   *)
(* not disabled excludes (Complete); how far mmhalow_init is says what is   *)
(* attached and registered (Progress).                                      *)
(*                                                                         *)
(* And about Examples: every step of an example is one the interface's     *)
(* proofs cover; an example that creates its semaphore early makes only its  *)
(* first calls without it (EarlyInv), and in one that connects once a token, *)
(* and the packet after it, comes from a connection reported (TxInv).      *)
(***************************************************************************)
EXTENDS Examples, SequenceTheorems, TLAPS

\* The queues after which the link is up, after which it is down, and that do not say.
UpQueues == {<<"CONNECTED", "link up">>, <<"link up">>}
DownQueues ==
  {<<"DISABLED", "link down">>, <<"link down">>, <<"link down", "CONNECTING">>,
   <<"DISABLED", "link down", "scan complete">>, <<"link down", "scan complete">>}
QuietQueues ==
  {<<>>, <<"CONNECTING">>, <<"DISABLED">>, <<"scan complete">>, <<"DISABLED", "scan complete">>}

ITypeOK ==
  /\ netif \in {"none", "attached", "started"} /\ linkCb \in BOOLEAN /\ connected \in BOOLEAN
  /\ initpc \in {"idle", "boot", "attach", "register", "start", "done"}
  /\ ret \in {"ESP_OK", "ESP_FAIL", "ESP_ERR_NOT_SUPPORTED", "error"}
  /\ wlan \in {"off", "booted"} /\ ap \in BOOLEAN /\ scanning \in BOOLEAN
  /\ sta \in StaStates
  /\ events \in UpQueues \cup DownQueues \cup QuietQueues

LinkKnown ==
  /\ events \in UpQueues => sta = "CONNECTED"
  /\ events \in DownQueues => sta # "CONNECTED"
  /\ events \in QuietQueues => (connected <=> sta = "CONNECTED")

Attached == netif = "started" /\ linkCb
Untouched == netif = "none" /\ ~linkCb

Complete == sta # "DISABLED" \/ ap \/ connected \/ events \notin QuietQueues => Attached

Progress ==
  /\ initpc = "idle" => Attached \/ Untouched
  /\ initpc = "boot" => Untouched
  /\ initpc = "attach" => Untouched /\ wlan = "booted"
  /\ initpc = "register" => netif = "attached" /\ ~linkCb /\ wlan = "booted"
  /\ initpc = "start" => netif = "attached" /\ linkCb /\ wlan = "booted"
  /\ initpc = "done" => IF ret = "ESP_OK" THEN Attached /\ wlan = "booted" ELSE Untouched

LinkInv == ITypeOK /\ LinkKnown /\ Complete /\ Progress

-----------------------------------------------------------------------------
(* Queues *)

\* What the first callback leaves of a queue of one, of two and of three.
LEMMA TailOne == ASSUME NEW a PROVE Tail(<<a>>) = <<>>
  OBVIOUS

\* The same for two callbacks.
LEMMA TailTwo == ASSUME NEW a, NEW b PROVE Tail(<<a, b>>) = <<b>>
  OBVIOUS

\* The same for three callbacks.
LEMMA TailThree == ASSUME NEW a, NEW b, NEW c PROVE Tail(<<a, b, c>>) = <<b, c>>
  OBVIOUS

\* What is left of each queue after its first callback.
LEMMA TailOfQueue ==
  /\ Tail(<<"CONNECTED", "link up">>) = <<"link up">>
  /\ Tail(<<"DISABLED", "link down">>) = <<"link down">>
  /\ Tail(<<"link down", "CONNECTING">>) = <<"CONNECTING">>
  /\ Tail(<<"DISABLED", "link down", "scan complete">>) = <<"link down", "scan complete">>
  /\ Tail(<<"link down", "scan complete">>) = <<"scan complete">>
  /\ Tail(<<"DISABLED", "scan complete">>) = <<"scan complete">>
  /\ Tail(<<"link up">>) = <<>> /\ Tail(<<"link down">>) = <<>>
  /\ Tail(<<"CONNECTING">>) = <<>> /\ Tail(<<"DISABLED">>) = <<>>
  /\ Tail(<<"scan complete">>) = <<>>
  BY TailOne, TailTwo, TailThree

\* Each queue's first callback.
LEMMA HeadOfQueue ==
  /\ Head(<<"CONNECTED", "link up">>) = "CONNECTED"
  /\ Head(<<"DISABLED", "link down">>) = "DISABLED"
  /\ Head(<<"link down", "CONNECTING">>) = "link down"
  /\ Head(<<"DISABLED", "link down", "scan complete">>) = "DISABLED"
  /\ Head(<<"link down", "scan complete">>) = "link down"
  /\ Head(<<"DISABLED", "scan complete">>) = "DISABLED"
  /\ Head(<<"link up">>) = "link up" /\ Head(<<"link down">>) = "link down"
  /\ Head(<<"CONNECTING">>) = "CONNECTING" /\ Head(<<"DISABLED">>) = "DISABLED"
  /\ Head(<<"scan complete">>) = "scan complete"
  OBVIOUS

\* What a queue says of the link is one thing.
LEMMA Disjoint ==
  /\ UpQueues \cap DownQueues = {} /\ UpQueues \cap QuietQueues = {}
  /\ DownQueues \cap QuietQueues = {}
  BY DEF UpQueues, DownQueues, QuietQueues

\* An application's callback does not change what the queue says of the link.
LEMMA AfterAppCallback ==
  ASSUME NEW q \in UpQueues \cup DownQueues \cup QuietQueues, q # <<>>, Head(q) \in AppEvents
  PROVE  /\ q \in UpQueues => Tail(q) \in UpQueues
         /\ q \in DownQueues => Tail(q) \in DownQueues
         /\ q \in QuietQueues => Tail(q) \in QuietQueues
  BY HeadOfQueue, TailOfQueue DEF UpQueues, DownQueues, QuietQueues, AppEvents, StaStates

\* A link callback is what the queue says, and the rest of it says nothing.
LEMMA AfterLinkCallback ==
  ASSUME NEW q \in UpQueues \cup DownQueues \cup QuietQueues, q # <<>>, Head(q) \in LinkEvents
  PROVE  /\ Tail(q) \in QuietQueues /\ q \notin QuietQueues
         /\ q \in UpQueues <=> Head(q) = "link up"
         /\ q \in DownQueues <=> Head(q) = "link down"
  BY HeadOfQueue, TailOfQueue DEF UpQueues, DownQueues, QuietQueues, LinkEvents

\* A callback after an empty queue.
LEMMA AppendedToNone == ASSUME NEW a PROVE <<>> \o <<a>> = <<a>>
  OBVIOUS

\* A callback after another.
LEMMA AppendedToOne ==
  ASSUME NEW a, NEW b
  PROVE  <<a>> \o <<b>> = <<a, b>>
<1>1. <<a>> \in Seq({a, b}) /\ <<b>> \in Seq({a, b}) /\ <<a, b>> \in Seq({a, b})
  OBVIOUS
<1>2. Len(<<a>>) = 1 /\ Len(<<b>>) = 1 /\ Len(<<a, b>>) = 2
  OBVIOUS
<1>3. /\ <<a>> \o <<b>> \in Seq({a, b}) /\ Len(<<a>> \o <<b>>) = 2
      /\ (<<a>> \o <<b>>)[1] = a /\ (<<a>> \o <<b>>)[2] = b
  BY <1>1, <1>2, ConcatProperties
<1>4. \A i \in 1 .. 2 : (<<a>> \o <<b>>)[i] = <<a, b>>[i]
  BY <1>3
<1>5. QED
  BY <1>1, <1>2, <1>3, <1>4, SeqEqual

\* A callback after two.
LEMMA AppendedToTwo ==
  ASSUME NEW a, NEW b, NEW c
  PROVE  <<a, b>> \o <<c>> = <<a, b, c>>
<1> DEFINE S == {a, b, c}
<1>1. <<a, b>> \in Seq(S) /\ <<c>> \in Seq(S) /\ <<a, b, c>> \in Seq(S)
  OBVIOUS
<1>2. Len(<<a, b>>) = 2 /\ Len(<<c>>) = 1 /\ Len(<<a, b, c>>) = 3
  OBVIOUS
<1>3. /\ <<a, b>> \o <<c>> \in Seq(S) /\ Len(<<a, b>> \o <<c>>) = 3
      /\ (<<a, b>> \o <<c>>)[1] = a /\ (<<a, b>> \o <<c>>)[2] = b /\ (<<a, b>> \o <<c>>)[3] = c
  BY <1>1, <1>2, ConcatProperties
<1>4. \A i \in 1 .. 3 : (<<a, b>> \o <<c>>)[i] = <<a, b, c>>[i]
  BY <1>3
<1>5. QED
  BY <1>1, <1>2, <1>3, <1>4, SeqEqual

\* Nothing after them.
LEMMA NothingAppended ==
  ASSUME NEW a, NEW b
  PROVE  <<>> \o <<>> = <<>> /\ <<a>> \o <<>> = <<a>> /\ <<a, b>> \o <<>> = <<a, b>>
  OBVIOUS

\* What disabling the station queues.
LEMMA StaOffIs ==
  /\ sta = "DISABLED" => StaOff = <<>>
  /\ sta = "CONNECTING" => StaOff = <<"DISABLED">>
  /\ sta = "CONNECTED" => StaOff = <<"DISABLED", "link down">>
  BY Zenon DEF StaOff

\* A shutdown's callbacks are a queue that says the link is down, or one that says nothing
\* of a link that was not up.
LEMMA AfterShutdown ==
  ASSUME sta \in StaStates
  PROVE  /\ sta = "CONNECTED" => StaOff \in DownQueues
                                 /\ StaOff \o <<"scan complete">> \in DownQueues
         /\ sta # "CONNECTED" => StaOff \in QuietQueues
                                 /\ StaOff \o <<"scan complete">> \in QuietQueues
         /\ StaOff \o <<>> = StaOff
<1>1. CASE sta = "DISABLED"
  BY <1>1, StaOffIs, AppendedToNone, AppendedToOne, AppendedToTwo, NothingAppended DEF QuietQueues
<1>2. CASE sta = "CONNECTING"
  BY <1>2, StaOffIs, AppendedToNone, AppendedToOne, AppendedToTwo, NothingAppended DEF QuietQueues
<1>3. CASE sta = "CONNECTED"
  <2>1. StaOff = <<"DISABLED", "link down">>
    BY <1>3, StaOffIs
  <2>2. StaOff \o <<"scan complete">> = <<"DISABLED", "link down", "scan complete">>
    BY <2>1, AppendedToTwo
  <2>3. StaOff \o <<>> = StaOff
    BY <2>1, NothingAppended
  <2>4. QED
    BY <1>3, <2>1, <2>2, <2>3 DEF DownQueues
<1>4. QED
  BY <1>1, <1>2, <1>3 DEF StaStates

-----------------------------------------------------------------------------
(* The invariant *)

\* The invariant holds before mmhalow_init.
LEMMA LinkInvInit == InitInterface => LinkInv
<1>1. <<>> \in QuietQueues /\ <<>> \notin UpQueues /\ <<>> \notin DownQueues
  BY Disjoint DEF QuietQueues
<1>2. QED
  BY <1>1 DEF InitInterface, LinkInv, ITypeOK, LinkKnown, Complete, Progress, Attached,
              Untouched, StaStates

\* An idle event loop says nothing of the link.
LEMMA IdleIsQuiet == Idle => events \in QuietQueues
  BY DEF Idle, QuietQueues

\* A step that changes nothing the invariant speaks of keeps it.
LEMMA Undisturbed ==
  ASSUME LinkInv, UNCHANGED <<netif, connected, initpc, ret, wlan, sta, ap,
                              scanning, linkCb, events>>
  PROVE  LinkInv'
  BY DEF LinkInv, ITypeOK, LinkKnown, Complete, Progress, Attached, Untouched

\* Every step of mmhalow_init keeps the invariant.
LEMMA InitKeeps == LinkInv /\ (InitCall \/ InitStep \/ InitReturn) => LinkInv'
<1>1. ASSUME LinkInv, InitCall PROVE LinkInv'
  <2>1. CASE netif = "none"
    <3>1. /\ initpc = "idle" /\ initpc' = "boot"
          /\ UNCHANGED <<netif, connected, ret, wlan, sta, ap, scanning, linkCb, events>>
      BY <1>1, <2>1 DEF InitCall, wlanVars
    <3>2. QED
      BY <1>1, <2>1, <3>1 DEF LinkInv, ITypeOK, LinkKnown, Complete, Progress, Attached, Untouched
  <2>2. CASE netif # "none"
    <3>1. UNCHANGED <<netif, connected, initpc, ret, wlan, sta, ap, scanning, linkCb, events>>
      BY <1>1, <2>2 DEF InitCall, wlanVars
    <3>2. QED
      BY <1>1, <3>1, Undisturbed
  <2>3. QED
    BY <2>1, <2>2
<1>2. ASSUME LinkInv, InitBoot PROVE LinkInv'
  BY <1>2
  DEF InitBoot, LinkInv, ITypeOK, LinkKnown, Complete, Progress, Attached, Untouched, wlanVars
<1>3. ASSUME LinkInv, InitBootFails PROVE LinkInv'
  BY <1>3
  DEF InitBootFails, LinkInv, ITypeOK, LinkKnown, Complete, Progress, Attached, Untouched, wlanVars
<1>4. ASSUME LinkInv, InitAttach PROVE LinkInv'
  <2>1. CASE netif' = "attached" /\ initpc' = "register"
    <3>1. /\ initpc = "attach"
          /\ UNCHANGED <<connected, ret, wlan, sta, ap, scanning, linkCb, events>>
      BY <1>4 DEF InitAttach, wlanVars
    <3>2. QED
      BY <1>4, <2>1, <3>1 DEF LinkInv, ITypeOK, LinkKnown, Complete, Progress, Attached, Untouched
  <2>2. CASE UNCHANGED <<netif, initpc>>
    <3>1. UNCHANGED <<netif, connected, initpc, ret, wlan, sta, ap, scanning, linkCb, events>>
      BY <1>4, <2>2 DEF InitAttach, wlanVars
    <3>2. QED
      BY <1>4, <3>1, Undisturbed
  <2>3. QED
    BY <1>4, <2>1, <2>2 DEF InitAttach
<1>5. ASSUME LinkInv, InitRegister PROVE LinkInv'
  <2>1. CASE linkCb' = TRUE /\ initpc' = "start"
    BY <1>5, <2>1
    DEF InitRegister, LinkInv, ITypeOK, LinkKnown, Complete, Progress, Attached, Untouched
  <2>2. CASE UNCHANGED <<linkCb, initpc>>
    <3>1. UNCHANGED <<netif, connected, initpc, ret, wlan, sta, ap, scanning, linkCb, events>>
      BY <1>5, <2>2 DEF InitRegister
    <3>2. QED
      BY <1>5, <3>1, Undisturbed
  <2>3. QED
    BY <1>5, <2>1, <2>2 DEF InitRegister
<1>6. ASSUME LinkInv, InitStart PROVE LinkInv'
  BY <1>6
  DEF InitStart, LinkInv, ITypeOK, LinkKnown, Complete, Progress, Attached, Untouched, wlanVars
<1>7. ASSUME LinkInv, InitReturn PROVE LinkInv'
  BY <1>7
  DEF InitReturn, LinkInv, ITypeOK, LinkKnown, Complete, Progress, Attached, Untouched, wlanVars
<1>8. QED
  BY <1>1, <1>2, <1>3, <1>4, <1>5, <1>6, <1>7 DEF InitStep

\* A call that disables the station, whatever it does to the transceiver, queues what the
\* netif has to hear.
LEMMA TurnedOff ==
  ASSUME LinkInv, initpc = "idle", events \in QuietQueues,
         sta' = "DISABLED", ret' = "ESP_OK",
         events' = StaOff \/ events' = StaOff \o <<"scan complete">>,
         wlan' \in {"off", "booted"}, ap' \in BOOLEAN, ap' => ap, scanning' \in BOOLEAN,
         UNCHANGED <<netif, connected, initpc, linkCb>>
  PROVE  LinkInv'
<1>1. /\ sta = "CONNECTED" => events' \in DownQueues
      /\ sta # "CONNECTED" => events' \in QuietQueues
  BY AfterShutdown DEF LinkInv, ITypeOK
<1>2. CASE sta = "CONNECTED"
  BY <1>1, <1>2, Disjoint
  DEF LinkInv, ITypeOK, LinkKnown, Complete, Progress, Attached, Untouched, StaStates
<1>3. CASE sta # "CONNECTED"
  <2>1. events' \in QuietQueues /\ events' \notin UpQueues /\ events' \notin DownQueues
    BY <1>1, <1>3, Disjoint
  <2>2. connected = FALSE
    BY <1>3 DEF LinkInv, ITypeOK, LinkKnown
  <2>3. ITypeOK' /\ LinkKnown'
    BY <1>3, <2>1, <2>2 DEF LinkInv, ITypeOK, LinkKnown, StaStates
  <2>4. Complete'
    BY <2>1, <2>2 DEF LinkInv, ITypeOK, Complete, Attached
  <2>5. Progress'
    BY DEF LinkInv, ITypeOK, Progress, Attached, Untouched
  <2>6. QED
    BY <2>3, <2>4, <2>5 DEF LinkInv
<1>4. QED
  BY <1>2, <1>3

\* Every other call keeps it: none removes the netif or a registration, and the ones that
\* move the station queue the callbacks of the move.
LEMMA CallKeeps == LinkInv /\ Call => LinkInv'
<1>1. ASSUME LinkInv, InitCall PROVE LinkInv'
  BY <1>1, InitKeeps
<1>2. ASSUME LinkInv, Connect PROVE LinkInv'
  <2>1. /\ initpc = "idle" /\ events \in QuietQueues
        /\ UNCHANGED <<netif, connected, initpc, wlan, ap, scanning, linkCb>>
    BY <1>2, IdleIsQuiet DEF Connect, CanCall
  <2>2. CASE netif = "none" /\ UNCHANGED <<ret, sta, events>>
    BY <1>2, <2>1, <2>2, Undisturbed
  <2>3. CASE netif # "none" /\ sta = "DISABLED" /\ sta' = "CONNECTING" /\ events' = <<"CONNECTING">>
             /\ ret' = "ESP_OK"
    <3>1. events' \in QuietQueues /\ events' \notin UpQueues /\ events' \notin DownQueues
      BY <2>3, Disjoint DEF QuietQueues
    <3>2. QED
      BY <1>2, <2>1, <2>3, <3>1
      DEF LinkInv, ITypeOK, LinkKnown, Complete, Progress, Attached, Untouched, StaStates
  <2>4. CASE ret' = "error" /\ UNCHANGED <<sta, events>>
    BY <1>2, <2>1, <2>4 DEF LinkInv, ITypeOK, LinkKnown, Complete, Progress, Attached, Untouched
  <2>5. QED
    BY <1>2, <2>2, <2>3, <2>4 DEF Connect
<1>3. ASSUME LinkInv, Disconnect PROVE LinkInv'
  <2>1. /\ initpc = "idle" /\ events \in QuietQueues /\ sta' = "DISABLED" /\ events' = StaOff
        /\ ret' = "ESP_OK" /\ UNCHANGED <<netif, connected, initpc, wlan, ap, scanning, linkCb>>
    BY <1>3, IdleIsQuiet DEF Disconnect, CanCall
  <2>2. QED
    BY <1>3, <2>1, TurnedOff DEF LinkInv, ITypeOK
<1>4. ASSUME LinkInv, Scan PROVE LinkInv'
  <2>1. /\ initpc = "idle" /\ ret' \in {"ESP_OK", "error"} /\ scanning' \in BOOLEAN
        /\ UNCHANGED <<netif, connected, initpc, wlan, sta, ap, linkCb, events>>
    BY <1>4 DEF Scan, CanCall, LinkInv, ITypeOK
  <2>2. QED
    BY <1>4, <2>1 DEF LinkInv, ITypeOK, LinkKnown, Complete, Progress, Attached, Untouched
<1>5. ASSUME LinkInv, WifiStart PROVE LinkInv'
  <2>1. /\ initpc = "idle" /\ UNCHANGED <<netif, connected, initpc, ret, wlan, sta,
                                          scanning, linkCb, events>>
    BY <1>5 DEF WifiStart, CanCall
  <2>2. CASE netif = "none"
    <3>1. UNCHANGED <<netif, connected, initpc, ret, wlan, sta, ap, scanning, linkCb, events>>
      BY <1>5, <2>1, <2>2 DEF WifiStart
    <3>2. QED
      BY <1>5, <3>1, Undisturbed
  <2>3. CASE netif # "none"
    <3>1. ap' \in BOOLEAN
      BY <1>5, <2>3 DEF WifiStart, LinkInv, ITypeOK
    <3>2. QED
      BY <1>5, <2>1, <2>3, <3>1
      DEF LinkInv, ITypeOK, LinkKnown, Complete, Progress, Attached, Untouched
  <2>4. QED
    BY <2>2, <2>3
<1>6. ASSUME LinkInv, Deinit PROVE LinkInv'
  <2>1. /\ initpc = "idle" /\ events \in QuietQueues /\ sta' = "DISABLED" /\ ret' = "ESP_OK"
        /\ wlan' = "off" /\ ap' = FALSE /\ scanning' = FALSE
        /\ UNCHANGED <<netif, connected, initpc, linkCb>>
    BY <1>6, IdleIsQuiet DEF Deinit, CanCall
  <2>2. events' = StaOff \/ events' = StaOff \o <<"scan complete">>
    BY <1>6, AfterShutdown DEF Deinit, LinkInv, ITypeOK
  <2>3. QED
    BY <1>6, <2>1, <2>2, TurnedOff
<1>7. ASSUME LinkInv, Boot PROVE LinkInv'
  <2>1. /\ initpc = "idle" /\ wlan' \in {wlan, "booted"}
        /\ UNCHANGED <<netif, connected, initpc, ret, sta, ap, scanning, linkCb, events>>
    BY <1>7 DEF Boot, CanCall, halow
  <2>2. QED
    BY <1>7, <2>1 DEF LinkInv, ITypeOK, LinkKnown, Complete, Progress, Attached, Untouched
<1>8. ASSUME NEW i \in Interfaces, LinkInv, SetConfig(i) PROVE LinkInv'
  <2>1. /\ initpc = "idle" /\ ret' \in {ret, "ESP_OK", "ESP_ERR_NOT_SUPPORTED"}
        /\ UNCHANGED <<netif, connected, initpc, wlan, sta, ap, scanning, linkCb, events>>
    BY <1>8, Zenon DEF SetConfig, CanCall, wlanVars
  <2>2. QED
    BY <1>8, <2>1 DEF LinkInv, ITypeOK, LinkKnown, Complete, Progress, Attached, Untouched
<1>9. QED
  BY <1>1, <1>2, <1>3, <1>4, <1>5, <1>6, <1>7, <1>8 DEF Call

\* The event loop keeps it: the moves it makes queue what they mean for the link, and the
\* link callback tells the netif, since a station that moved has it registered.
LEMMA EventLoopKeeps ==
  LinkInv /\ (WlanStep \/ \E e \in AppEvents : AppCallback(e)) => LinkInv'
<1>1. ASSUME LinkInv, StaConnected PROVE LinkInv'
  <2>1. /\ sta = "CONNECTING" /\ sta' = "CONNECTED" /\ events' \in UpQueues
        /\ UNCHANGED <<netif, connected, initpc, ret, wlan, ap, scanning, linkCb>>
    BY <1>1 DEF StaConnected, UpQueues, halow
  <2>2. QED
    BY <1>1, <2>1, Disjoint
    DEF LinkInv, ITypeOK, LinkKnown, Complete, Progress, Attached, Untouched, StaStates
<1>2. ASSUME LinkInv, StaLost PROVE LinkInv'
  <2>1. /\ sta = "CONNECTED" /\ sta' = "CONNECTING" /\ events' \in DownQueues
        /\ UNCHANGED <<netif, connected, initpc, ret, wlan, ap, scanning, linkCb>>
    BY <1>2 DEF StaLost, DownQueues, halow
  <2>2. QED
    BY <1>2, <2>1, Disjoint
    DEF LinkInv, ITypeOK, LinkKnown, Complete, Progress, Attached, Untouched, StaStates
<1>3. ASSUME LinkInv, ScanEnds PROVE LinkInv'
  <2>1. /\ events \in QuietQueues /\ events' \in QuietQueues /\ scanning' = FALSE
        /\ UNCHANGED <<netif, connected, initpc, ret, wlan, sta, ap, linkCb>>
    BY <1>3, IdleIsQuiet DEF ScanEnds, QuietQueues, halow
  <2>2. QED
    BY <1>3, <2>1, Disjoint
    DEF LinkInv, ITypeOK, LinkKnown, Complete, Progress, Attached, Untouched
<1>4. ASSUME LinkInv, LinkCallback PROVE LinkInv'
  <2>1. /\ events \in UpQueues \cup DownQueues \cup QuietQueues /\ events # <<>>
        /\ Head(events) \in LinkEvents /\ events' = Tail(events)
        /\ connected' = (IF linkCb THEN Head(events) = "link up" ELSE connected)
        /\ UNCHANGED <<netif, initpc, ret, wlan, sta, ap, scanning, linkCb>>
    BY <1>4 DEF LinkCallback, Idle, LinkInv, ITypeOK
  <2>2. /\ events' \in QuietQueues /\ events \notin QuietQueues
        /\ events \in UpQueues <=> Head(events) = "link up"
        /\ events \in DownQueues <=> Head(events) = "link down"
    BY <2>1, AfterLinkCallback
  <2>3. Attached
    BY <1>4, <2>2 DEF LinkInv, Complete
  <2>4. connected' = (sta = "CONNECTED")
    BY <1>4, <2>1, <2>2, <2>3 DEF LinkInv, LinkKnown, Attached, LinkEvents
  <2>5. QED
    BY <1>4, <2>1, <2>2, <2>3, <2>4, Disjoint
    DEF LinkInv, ITypeOK, LinkKnown, Complete, Progress, Attached, Untouched, StaStates
<1>5. ASSUME NEW e \in AppEvents, LinkInv, AppCallback(e) PROVE LinkInv'
  <2>1. /\ events \in UpQueues \cup DownQueues \cup QuietQueues /\ events # <<>>
        /\ Head(events) \in AppEvents /\ events' = Tail(events)
        /\ UNCHANGED <<netif, connected, initpc, ret, wlan, sta, ap, scanning, linkCb>>
    BY <1>5 DEF AppCallback, Idle, LinkInv, ITypeOK
  <2>2. /\ events \in UpQueues => events' \in UpQueues
        /\ events \in DownQueues => events' \in DownQueues
        /\ events \in QuietQueues => events' \in QuietQueues
    BY <2>1, AfterAppCallback
  <2>3. QED
    BY <1>5, <2>1, <2>2, Disjoint
    DEF LinkInv, ITypeOK, LinkKnown, Complete, Progress, Attached, Untouched
<1>6. QED
  BY <1>1, <1>2, <1>3, <1>4, <1>5 DEF WlanStep

\* The invariant is inductive.
LEMMA LinkInvStep == LinkInv /\ [INext]_ivars => LinkInv'
<1>1. LinkInv /\ UNCHANGED ivars => LinkInv'
  BY Undisturbed DEF ivars, halow, wlanVars
<1>2. QED
  BY <1>1, InitKeeps, CallKeeps, EventLoopKeeps DEF INext, Callback

-----------------------------------------------------------------------------
(* The theorems *)

\* Whenever morselib's event loop has run its callbacks, esp_netif believes the link up
\* exactly when the station is connected, whatever was called, lost, shut down or rebooted.
THEOREM LinkFollowed == ISpec => []NetifFollowsLink
<1>1. LinkInv => NetifFollowsLink
  BY IdleIsQuiet DEF LinkInv, LinkKnown, NetifFollowsLink
<1>2. QED
  BY <1>1, LinkInvInit, LinkInvStep, PTL DEF ISpec

\* mmhalow_init leaves the interface complete on a transceiver that runs or, with an error,
\* untouched; and nothing is ever enabled on an interface that is not complete.
THEOREM InitAllOrNothing == ISpec => []AllOrNothing
<1>1. LinkInv => AllOrNothing
  BY DEF LinkInv, Complete, Progress, Attached, Untouched, AllOrNothing
<1>2. QED
  BY <1>1, LinkInvInit, LinkInvStep, PTL DEF ISpec

-----------------------------------------------------------------------------
(* The examples *)

\* An example is one of those in the list.
Known == example \in DOMAIN Programs

\* Nothing that could call the application back has been started.
Quiet == events = <<>> /\ sta = "DISABLED" /\ ~scanning

\* Until an example that does so early has created its semaphore, it is at its first calls.
EarlyInv ==
  /\ Known
  /\ example \notin {"sta_connect", "iperf"} =>
    /\ aborted # "no semaphore"
    /\ sem = "NULL" => /\ Quiet
                       /\ example = "dual_if" => pc = 1
                       /\ example \in {"scan", "sta_reboot"} => pc \in {1, 2}
                       /\ example = "softap" => pc \in 1..4

\* What a station that is only ever connected calls back.
StaQueues == {<<>>, <<"CONNECTING">>, <<"CONNECTED", "link up">>, <<"link up">>,
              <<"link down", "CONNECTING">>}

\* An example that connects once holds a token only when it was told of the connection.
ConnectsAt == IF example = "sta_connect" THEN 3 ELSE 4
TxInv ==
  example \in {"sta_connect", "dual_if"} =>
    /\ pc \in 1..7 /\ ~scanning /\ events \in StaQueues
    /\ sem = "1" => seen
    /\ pc <= ConnectsAt => Quiet /\ sem # "1"
    /\ pc = 6 => seen

\* What sta_reboot calls first.
LEMMA RebootBegins ==
  example = "sta_reboot" => Program[1] = "init" /\ Program[2] = "sem"
<1> DEFINE S == {"init", "sem", "boot", "config", "connect", "take", "tx", "deinit"}
<1>1. <<"init", "sem">> \in Seq(S) /\ Len(<<"init", "sem">>) = 2
  OBVIOUS
<1>2. RebootIteration \in Seq(S) /\ Len(RebootIteration) = 6
  BY DEF RebootIteration
<1>3. \A i \in 1..2 : (<<"init", "sem">> \o RebootIteration)[i] = <<"init", "sem">>[i]
  BY <1>1, <1>2, ConcatProperties
<1>4. QED
  BY <1>3 DEF Program, Programs

\* The examples' calls, as far as the invariants need them.
LEMMA CallsAre ==
  ASSUME pc <= Len(Program)
  PROVE  /\ example = "dual_if" /\ pc = 1 => Program[pc] = "sem"
         /\ example \in {"scan", "sta_reboot"} /\ pc = 1 => Program[pc] = "init"
         /\ example \in {"scan", "sta_reboot"} /\ pc = 2 => Program[pc] = "sem"
         /\ example = "softap" /\ pc \in 1..4 =>
              pc <= 3 /\ Program[pc] \in {"init", "config", "start"}
<1>1. CASE example = "sta_reboot"
  BY <1>1, RebootBegins
<1>2. CASE example # "sta_reboot"
  BY <1>2 DEF Program, Programs
<1>3. QED
  BY <1>1, <1>2

\* The same for the examples that transmit what they were connected for.
LEMMA StaCallsAre ==
  ASSUME pc <= Len(Program), example \in {"sta_connect", "dual_if"}, pc \in 1..7
  PROVE  /\ pc <= 6
         /\ Program[pc] = "connect" <=> pc = ConnectsAt
         /\ Program[pc] = "take" <=> pc = 5
         /\ Program[pc] = "tx" <=> pc = 6
         /\ Program[pc] \in {"init", "config", "connect", "sem", "take", "tx"}
<1>1. CASE example = "sta_connect"
  BY <1>1 DEF Program, Programs, ConnectsAt
<1>2. CASE example = "dual_if"
  BY <1>2 DEF Program, Programs, ConnectsAt
<1>3. QED
  BY <1>1, <1>2

\* Their names.
LEMMA KnownAre ==
  Known => example \in {"sta_connect", "iperf", "dual_if", "sta_reboot", "scan", "softap"}
  BY DEF Known, Programs

\* What a call of the application does to the assertions and to morselib.
LEMMA ConfigLeaves ==
  ASSUME NEW i, SetConfig(i)
  PROVE  aborted' \in {aborted, "no netif"} /\ UNCHANGED <<events, sta, scanning>>
  BY Zenon DEF SetConfig, Abort, wlanVars

\* mmhalow_init only moves the interface.
LEMMA InitLeaves ==
  ASSUME InitCall \/ InitStep \/ InitReturn
  PROVE  /\ aborted' \in {aborted, "no netif", "second init", "not registered"}
         /\ UNCHANGED <<events, sta, scanning>>
  BY DEF InitCall, InitStep, InitReturn, InitBoot, InitBootFails, InitAttach, InitRegister, InitStart,
     Abort, wlanVars

\* No callback runs without an event.
LEMMA QuietWlan ==
  ASSUME Quiet, MorseStep
  PROVE  FALSE
  BY DEF Quiet, MorseStep, WlanStep, StaConnected, StaLost, ScanEnds, LinkCallback, StatusCallback,
     AppCallback, Idle

\* No step takes a semaphore away, and none aborts for want of one that exists.
LEMMA SemStays ==
  ASSUME [Next]_vars, sem # "NULL", aborted # "no semaphore"
  PROVE  sem' # "NULL" /\ aborted' # "no semaphore"
<1>1. CASE AppStep
  <2>1. CASE AppInit \/ AppInitReturns
    BY <2>1, InitLeaves DEF AppInit, AppInitReturns, app
  <2>2. CASE AppConfig
    BY <2>2, ConfigLeaves DEF AppConfig
  <2>3. CASE CreateSem \/ Take \/ TakeTimesOut \/ Wait \/ Tx
    BY <2>3 DEF CreateSem, Take, TakeTimesOut, Wait, Tx, ivars, halow
  <2>4. CASE AppConnect \/ AppBoot \/ AppScan \/ AppStart \/ AppDeinit
    BY <2>4 DEF AppConnect, AppBoot, AppScan, AppStart, AppDeinit, Connect, Boot, Scan, WifiStart, Deinit,
       Abort, halow
  <2>5. QED
    BY <1>1, <2>1, <2>2, <2>3, <2>4 DEF AppStep
<1>2. CASE InitStep /\ UNCHANGED app
  BY <1>2, InitLeaves DEF app
<1>3. CASE MorseStep
  <2>1. CASE WlanStep /\ UNCHANGED app
    BY <2>1 DEF WlanStep, StaConnected, StaLost, ScanEnds, LinkCallback, app, halow
  <2>2. CASE \E e \in AppEvents : StatusCallback(e)
    BY <2>2 DEF StatusCallback, GiveSem
  <2>3. QED
    BY <1>3, <2>1, <2>2 DEF MorseStep
<1>4. CASE UNCHANGED vars
  BY <1>4 DEF vars, ivars, halow, app
<1>5. QED
  BY <1>1, <1>2, <1>3, <1>4 DEF Next

\* The example that runs stays the same.
LEMMA SameExample == [Next]_vars => example' = example
<1> SUFFICES ASSUME [Next]_vars PROVE example' = example
  OBVIOUS
<1>1. CASE AppStep
  BY <1>1 DEF AppStep, AppInit, AppInitReturns, CreateSem, AppConfig, AppConnect, Take, TakeTimesOut, Wait,
       Tx, AppBoot, AppScan, AppStart, AppDeinit, app
<1>2. CASE (InitStep /\ UNCHANGED app) \/ MorseStep \/ UNCHANGED vars
  BY <1>2 DEF MorseStep, StatusCallback, app, vars
<1>3. QED
  BY <1>1, <1>2 DEF Next

\* Before the semaphore exists, the examples that create it early only initialise.
LEMMA EarlyKeeps == EarlyInv /\ [Next]_vars => EarlyInv'
<1> SUFFICES ASSUME EarlyInv, [Next]_vars PROVE EarlyInv'
  OBVIOUS
<1>1. example' = example
  BY SameExample
<1>2. Known' /\ example \in {"sta_connect", "iperf", "dual_if", "sta_reboot", "scan", "softap"}
  BY <1>1, KnownAre DEF EarlyInv, Known
<1>3. CASE example \in {"sta_connect", "iperf"}
  BY <1>1, <1>2, <1>3 DEF EarlyInv
<1>4. CASE sem # "NULL" /\ example \notin {"sta_connect", "iperf"}
  BY <1>1, <1>2, <1>4, SemStays DEF EarlyInv
<1>5. CASE sem = "NULL" /\ example \notin {"sta_connect", "iperf"}
  <2>1. /\ Quiet /\ aborted # "no semaphore"
        /\ example = "dual_if" => pc = 1
        /\ example \in {"scan", "sta_reboot"} => pc \in {1, 2}
        /\ example = "softap" => pc \in 1..4
    BY <1>1, <1>5 DEF EarlyInv
  <2>2. CASE AppInit
    <3>1. InitCall /\ pc' = pc /\ sem' = sem
      BY <2>2 DEF AppInit, app
    <3>2. /\ aborted' \in {aborted, "no netif", "second init", "not registered"}
          /\ UNCHANGED <<events, sta, scanning>>
      BY <3>1, InitLeaves
    <3>3. aborted' # "no semaphore"
      BY <2>1, <3>2
    <3>4. Quiet'
      BY <2>1, <3>2 DEF Quiet
    <3>5. QED
      BY <1>1, <1>2, <2>1, <3>1, <3>3, <3>4 DEF EarlyInv
  <2>3. CASE AppInitReturns
    <3>1. pc <= Len(Program) /\ Program[pc] = "init" /\ pc' = pc + 1 /\ sem' = sem
      BY <2>3 DEF AppInitReturns, Advance, At
    <3>2. /\ example # "dual_if" /\ (example \in {"scan", "sta_reboot"} => pc = 1)
          /\ (example = "softap" => pc <= 3)
      BY <2>1, <3>1, CallsAre
    <3>3. /\ aborted' \in {aborted, "no netif", "second init", "not registered"}
          /\ UNCHANGED <<events, sta, scanning>>
      BY <2>3, InitLeaves DEF AppInitReturns
    <3>4. aborted' # "no semaphore" /\ Quiet'
      BY <2>1, <3>3 DEF Quiet
    <3>5. /\ example \in {"scan", "sta_reboot"} => pc' \in {1, 2}
          /\ example = "softap" => pc' \in 1..4
      <4>1. pc' = pc + 1
        BY <3>1
      <4>2. ASSUME example = "softap" PROVE pc \in 1..3
        <5>1. pc \in 1..4 /\ pc <= 3
          BY <2>1, <3>2, <4>2
        <5>2. QED
          BY <5>1
      <4>3. example \in {"scan", "sta_reboot"} => pc = 1
        BY <3>2
      <4>4. QED
        BY <4>1, <4>2, <4>3
    <3>6. QED
      BY <1>1, <1>2, <3>2, <3>4, <3>5 DEF EarlyInv
  <2>4. CASE CreateSem
    <3>1. sem' = "0" /\ aborted' = aborted
      BY <2>4 DEF CreateSem, ivars, halow
    <3>2. QED
      BY <1>2, <2>1, <3>1 DEF EarlyInv
  <2>5. CASE AppConfig \/ AppStart
    <3>1. /\ pc <= Len(Program) /\ Program[pc] \in {"config", "start"}
          /\ pc' = pc + 1 /\ sem' = sem
      BY <2>5 DEF AppConfig, AppStart, Advance, At
    <3>2. example # "dual_if" /\ example \notin {"scan", "sta_reboot"} /\ (example = "softap" => pc <= 3)
      BY <2>1, <3>1, CallsAre
    <3>3. aborted' \in {aborted, "no netif"} /\ UNCHANGED <<events, sta, scanning>>
      BY <2>5, ConfigLeaves DEF AppConfig, AppStart, WifiStart, Abort
    <3>4. aborted' # "no semaphore" /\ Quiet'
      BY <2>1, <3>3 DEF Quiet
    <3>5. ASSUME example = "softap" PROVE pc' \in 1..4
      <4>1. pc \in 1..4 /\ pc <= 3
        BY <2>1, <3>2, <3>5
      <4>2. QED
        BY <3>1, <4>1
    <3>6. QED
      BY <1>1, <1>2, <3>2, <3>4, <3>5 DEF EarlyInv
  <2>6. CASE Take \/ TakeTimesOut \/ Wait
    BY <1>5, <2>6 DEF Take, TakeTimesOut, Wait
  <2>7. CASE AppConnect \/ Tx \/ AppBoot \/ AppScan \/ AppDeinit
    <3>1. pc <= Len(Program) /\ Program[pc] \in {"connect", "tx", "boot", "scan", "deinit"}
      BY <2>7 DEF AppConnect, Tx, AppBoot, AppScan, AppDeinit, At
    <3>2. QED
      BY <1>2, <1>5, <2>1, <3>1, CallsAre
  <2>8. CASE InitStep /\ UNCHANGED app
    <3>1. /\ aborted' \in {aborted, "no netif", "second init", "not registered"}
          /\ UNCHANGED <<events, sta, scanning>>
      BY <2>8, InitLeaves
    <3>2. aborted' # "no semaphore" /\ Quiet' /\ pc' = pc
      BY <2>1, <2>8, <3>1 DEF Quiet, app
    <3>3. QED
      BY <1>1, <1>2, <2>1, <3>2 DEF EarlyInv
  <2>9. CASE MorseStep
    BY <2>1, <2>9, QuietWlan
  <2>10. CASE UNCHANGED vars
    BY <1>2, <2>1, <2>10 DEF vars, ivars, halow, wlanVars, app, EarlyInv, Quiet
  <2>11. QED
    BY <2>2, <2>3, <2>4, <2>5, <2>6, <2>7, <2>8, <2>9, <2>10 DEF Next, AppStep
<1>6. QED
  BY <1>3, <1>4, <1>5

\* What is left of a queue after its first callback.
LEMMA StaTails ==
  ASSUME events \in StaQueues, events # <<>>
  PROVE  Tail(events) \in StaQueues /\ Head(events) # "scan complete"
<1>1. CASE events = <<"CONNECTING">>
  <2>1. Tail(<<"CONNECTING">>) = <<>>
    BY TailOne, Zenon
  <2>2. Head(<<"CONNECTING">>) = "CONNECTING"
    OBVIOUS
  <2>3. Tail(events) = <<>> /\ Head(events) = "CONNECTING"
    BY <1>1, <2>1, <2>2, Zenon
  <2>4. QED
    BY <2>3 DEF StaQueues
<1>2. CASE events = <<"link up">>
  <2>1. Tail(<<"link up">>) = <<>>
    BY TailOne, Zenon
  <2>2. Head(<<"link up">>) = "link up"
    OBVIOUS
  <2>3. Tail(events) = <<>> /\ Head(events) = "link up"
    BY <1>2, <2>1, <2>2, Zenon
  <2>4. QED
    BY <2>3 DEF StaQueues
<1>3. CASE events = <<"CONNECTED", "link up">>
  <2>1. Tail(<<"CONNECTED", "link up">>) = <<"link up">>
    BY TailTwo, Zenon
  <2>2. Head(<<"CONNECTED", "link up">>) = "CONNECTED"
    OBVIOUS
  <2>3. Tail(events) = <<"link up">> /\ Head(events) = "CONNECTED"
    BY <1>3, <2>1, <2>2, Zenon
  <2>4. QED
    BY <2>3 DEF StaQueues
<1>4. CASE events = <<"link down", "CONNECTING">>
  <2>1. Tail(<<"link down", "CONNECTING">>) = <<"CONNECTING">>
    BY TailTwo, Zenon
  <2>2. Head(<<"link down", "CONNECTING">>) = "link down"
    OBVIOUS
  <2>3. Tail(events) = <<"CONNECTING">> /\ Head(events) = "link down"
    BY <1>4, <2>1, <2>2, Zenon
  <2>4. QED
    BY <2>3 DEF StaQueues
<1>5. QED
  BY <1>1, <1>2, <1>3, <1>4 DEF StaQueues

\* A callback only gives the semaphore with the connection it reports.
LEMMA CallbackTells ==
  ASSUME NEW e, StatusCallback(e), events \in StaQueues, sem = "1" => seen
  PROVE  events' \in StaQueues /\ scanning' = scanning /\ pc' = pc /\ (sem' = "1" => seen') /\ (seen => seen')
<1>1. /\ events # <<>> /\ e = Head(events) /\ events' = Tail(events) /\ scanning' = scanning
      /\ pc' = pc
  BY DEF StatusCallback, AppCallback, Idle
<1>2. events' \in StaQueues /\ e # "scan complete"
  BY <1>1, StaTails
<1>3. seen' = (seen \/ e = "CONNECTED")
  BY DEF StatusCallback
<1>4. (seen => seen') /\ (e = "CONNECTED" => seen')
  BY <1>3, Zenon
<1>5. sem' = sem \/ e = "CONNECTED"
  BY <1>2 DEF StatusCallback
<1>6. QED
  BY <1>1, <1>2, <1>4, <1>5

\* A packet follows the connection it is sent on.
LEMMA TxKeeps == TxInv /\ [Next]_vars => TxInv'
<1> SUFFICES ASSUME TxInv, [Next]_vars PROVE TxInv'
  OBVIOUS
<1>1. example' = example
  BY SameExample
<1>2. CASE example \notin {"sta_connect", "dual_if"}
  BY <1>1, <1>2 DEF TxInv
<1>3. CASE example \in {"sta_connect", "dual_if"}
  <2>1. /\ pc \in 1..7 /\ ~scanning /\ events \in StaQueues
        /\ sem = "1" => seen
        /\ pc <= ConnectsAt => Quiet /\ sem # "1"
        /\ pc = 6 => seen
    BY <1>3 DEF TxInv
  <2>2. ConnectsAt \in {3, 4} /\ ConnectsAt' = ConnectsAt
    BY <1>1 DEF ConnectsAt
  <2>3. CASE AppInit \/ (InitStep /\ UNCHANGED app)
    <3>1. UNCHANGED <<pc, sem, seen>>
      BY <2>3 DEF AppInit, app
    <3>2. UNCHANGED <<events, sta, scanning>>
      BY <2>3, InitLeaves DEF AppInit
    <3>3. QED
      BY <1>1, <2>1, <2>2, <3>1, <3>2 DEF TxInv, Quiet
  <2>4. CASE AppInitReturns \/ AppConfig
    <3>1. /\ pc <= Len(Program) /\ Program[pc] \in {"init", "config"}
          /\ pc' = pc + 1 /\ sem' = sem /\ seen' = seen
      BY <2>4 DEF AppInitReturns, AppConfig, Advance, At
    <3>2. UNCHANGED <<events, sta, scanning>>
      BY <2>4, InitLeaves, ConfigLeaves DEF AppInitReturns, AppConfig
    <3>3. pc <= 6 /\ pc # 5
      BY <1>3, <2>1, <3>1, StaCallsAre
    <3>4. QED
      BY <1>1, <2>1, <2>2, <3>1, <3>2, <3>3 DEF TxInv, Quiet
  <2>5. CASE CreateSem
    <3>1. /\ pc <= Len(Program) /\ Program[pc] = "sem"
          /\ pc' = pc + 1 /\ sem' = "0" /\ seen' = seen /\ UNCHANGED <<events, sta, scanning>>
      BY <2>5 DEF CreateSem, Advance, At, ivars, wlanVars
    <3>2. pc <= 6 /\ pc # 5
      BY <1>3, <2>1, <3>1, StaCallsAre
    <3>3. QED
      BY <1>1, <2>1, <2>2, <3>1, <3>2 DEF TxInv, Quiet
  <2>6. CASE AppConnect
    <3>1. /\ pc <= Len(Program) /\ Program[pc] = "connect" /\ pc' = pc + 1 /\ sem' = sem
          /\ scanning' = scanning /\ events' \in {events, <<"CONNECTING">>}
      BY <2>6 DEF AppConnect, Connect, Advance, At
    <3>2. pc = ConnectsAt
      BY <1>3, <2>1, <3>1, StaCallsAre
    <3>3. sem' # "1" /\ events' \in StaQueues
      <4>1. sem # "1" /\ events \in StaQueues
        BY <2>1, <2>2, <3>2
      <4>2. <<"CONNECTING">> \in StaQueues
        BY DEF StaQueues
      <4>3. QED
        BY <3>1, <4>1, <4>2
    <3>4. pc' \in {4, 5} /\ ~(pc' <= ConnectsAt)
      BY <2>2, <3>1, <3>2
    <3>5. QED
      BY <1>1, <2>1, <2>2, <3>1, <3>3, <3>4 DEF TxInv
  <2>7. CASE Take
    <3>1. /\ pc <= Len(Program) /\ Program[pc] = "take" /\ pc' = pc + 1 /\ sem = "1" /\ sem' = "0"
          /\ seen' = seen /\ UNCHANGED <<scanning, events>>
      BY <2>7 DEF Take, Advance, At, ivars, wlanVars
    <3>2. pc = 5
      BY <1>3, <2>1, <3>1, StaCallsAre
    <3>3. QED
      BY <1>1, <2>1, <2>2, <3>1, <3>2 DEF TxInv
  <2>8. CASE TakeTimesOut
    <3>1. /\ pc' = Len(Program) + 1 /\ sem' = sem /\ seen' = seen /\ UNCHANGED <<scanning, events>>
      BY <1>3, <2>8 DEF TakeTimesOut, ivars, wlanVars
    <3>2. Len(Program) = 6
      BY <1>3 DEF Program, Programs
    <3>3. QED
      BY <1>1, <2>1, <2>2, <3>1, <3>2 DEF TxInv
  <2>9. CASE Tx
    <3>1. /\ pc <= Len(Program) /\ Program[pc] = "tx" /\ pc' \in {pc, pc + 1} /\ sem' = sem
          /\ seen' = seen /\ UNCHANGED <<scanning, events>>
      BY <2>9 DEF Tx, At, ivars, wlanVars
    <3>2. pc = 6
      BY <1>3, <2>1, <3>1, StaCallsAre
    <3>3. QED
      BY <1>1, <2>1, <2>2, <3>1, <3>2 DEF TxInv
  <2>10. CASE Wait \/ AppBoot \/ AppScan \/ AppStart \/ AppDeinit
    <3>1. pc <= Len(Program) /\ Program[pc] \in {"wait", "boot", "scan", "start", "deinit"}
      BY <2>10 DEF Wait, AppBoot, AppScan, AppStart, AppDeinit, At
    <3>2. QED
      BY <1>3, <2>1, <3>1, StaCallsAre
  <2>11. CASE MorseStep
    <3>1. ~Quiet
      BY <2>11, QuietWlan
    <3>2. ~(pc <= ConnectsAt)
      BY <2>1, <3>1
    <3>3. CASE WlanStep /\ UNCHANGED app
      <4>1. UNCHANGED <<pc, sem, seen>>
        BY <3>3 DEF app
      <4>2. /\ scanning' = scanning
            /\ events' \in {<<"CONNECTED", "link up">>, <<"link down", "CONNECTING">>}
               \/ (events # <<>> /\ events' = Tail(events))
        BY <2>1, <3>3 DEF WlanStep, StaConnected, StaLost, ScanEnds, LinkCallback, Idle
      <4>3. events' \in StaQueues
        BY <2>1, <4>2, StaTails DEF StaQueues
      <4>4. QED
        BY <1>1, <2>1, <2>2, <3>2, <4>1, <4>2, <4>3 DEF TxInv
    <3>4. CASE \E e \in AppEvents : StatusCallback(e)
      <4>1. PICK e \in AppEvents : StatusCallback(e)
        BY <3>4
      <4>2. /\ events' \in StaQueues /\ scanning' = scanning /\ pc' = pc
            /\ (sem' = "1" => seen') /\ (seen => seen')
        BY <2>1, <4>1, CallbackTells
      <4>3. QED
        BY <1>1, <2>1, <2>2, <3>2, <4>2 DEF TxInv
    <3>5. QED
      BY <2>11, <3>3, <3>4 DEF MorseStep
  <2>12. CASE UNCHANGED vars
    BY <1>1, <2>1, <2>2, <2>12 DEF vars, ivars, wlanVars, app, TxInv, Quiet
  <2>13. QED
    BY <2>3, <2>4, <2>5, <2>6, <2>7, <2>8, <2>9, <2>10, <2>11, <2>12 DEF Next, AppStep
<1>4. QED
  BY <1>2, <1>3

\* The next call, in the examples that never start over.
PcInv == example # "sta_reboot" => pc \in Nat \ {0}

\* It is never one before the first.
LEMMA PcKeeps == Known /\ PcInv /\ [Next]_vars => PcInv'
<1> SUFFICES ASSUME Known, example # "sta_reboot", pc \in Nat \ {0}, [Next]_vars
             PROVE  pc' \in Nat \ {0}
  BY SameExample DEF PcInv
<1>1. Len(Program) \in Nat
  BY KnownAre DEF Program, Programs
<1>2. CASE AppStep
  BY <1>1, <1>2 DEF AppStep, AppInit, AppInitReturns, CreateSem, AppConfig, AppConnect, Take, TakeTimesOut,
       Wait, Tx, AppBoot, AppScan, AppStart, AppDeinit, Advance, app
<1>3. CASE (InitStep /\ UNCHANGED app) \/ MorseStep \/ UNCHANGED vars
  BY <1>3 DEF MorseStep, StatusCallback, app, vars
<1>4. QED
  BY <1>2, <1>3 DEF Next

\* The examples start with nothing called.
LEMMA ExamplesInit == Init => EarlyInv /\ TxInv /\ PcInv
<1> SUFFICES ASSUME Init PROVE EarlyInv /\ TxInv /\ PcInv
  OBVIOUS
<1>1. /\ events = <<>> /\ sta = "DISABLED" /\ scanning = FALSE /\ aborted = "no" /\ pc = 1
      /\ sem = "NULL" /\ example \in DOMAIN Programs
  BY ExamplesAssumption DEF Init, InitInterface
<1>2. EarlyInv
  BY <1>1 DEF EarlyInv, Known, Quiet
<1>3. TxInv
  BY <1>1 DEF TxInv, Quiet, StaQueues, ConnectsAt
<1>4. PcInv
  BY <1>1 DEF PcInv
<1>5. QED
  BY <1>2, <1>3, <1>4

\* What an example does to the interface is a call, a step of mmhalow_init or morselib's work.
LEMMA ExamplesKeepLink == LinkInv /\ [Next]_vars => LinkInv'
<1>1. AppStep => Call \/ InitReturn \/ UNCHANGED ivars
  BY DEF AppStep, AppInit, AppInitReturns, CreateSem, AppConfig, AppConnect, Take, TakeTimesOut, Wait, Tx,
     AppBoot, AppScan, AppStart, AppDeinit, Call, Interfaces, vars
<1>2. MorseStep => WlanStep \/ \E e \in AppEvents : AppCallback(e)
  BY DEF MorseStep, StatusCallback
<1>3. LinkInv /\ UNCHANGED ivars => LinkInv'
  BY Undisturbed DEF ivars, halow, wlanVars
<1>4. QED
  BY <1>1, <1>2, <1>3, InitKeeps, CallKeeps, EventLoopKeeps DEF Next, vars

\* However often sta_reboot starts over and whichever examples are considered, no callback gives
\* a semaphore that is not there, where it is created before the connection.
THEOREM EarlySemaphoresExist == Spec => []EarlySemaphoreExists
<1>1. EarlyInv => EarlySemaphoreExists
  BY DEF EarlyInv, EarlySemaphoreExists
<1>2. QED
  BY ExamplesInit, EarlyKeeps, <1>1, PTL DEF Spec

\* An example that connects once and transmits was told of the connection first, whatever was
\* lost, refused or retried.
THEOREM TransmitsWhenConnected == Spec => []FirstTxAfterConnected
<1>1. TxInv /\ EarlyInv /\ PcInv => FirstTxAfterConnected
  <2> SUFFICES ASSUME TxInv, EarlyInv, PcInv, example # "sta_reboot", At("tx") PROVE seen
    BY DEF FirstTxAfterConnected
  <2>1. pc <= Len(Program) /\ Program[pc] = "tx"
    BY DEF At
  <2>2. CASE example \in {"sta_connect", "dual_if"}
    BY <2>1, <2>2, StaCallsAre DEF TxInv
  <2>3. CASE example \in {"iperf", "scan", "softap"}
    <3>1. pc \in Nat \ {0}
      BY <2>3 DEF PcInv
    <3>2. \/ Program = <<"init", "config", "connect", "sem", "take">>
          \/ Program = <<"init", "sem", "scan", "wait", "deinit">>
          \/ Program = <<"init", "config", "start">>
      BY <2>3 DEF Program, Programs
    <3>3. QED
      BY <2>1, <3>1, <3>2
  <2>4. QED
    BY <2>2, <2>3, KnownAre DEF EarlyInv
<1>2. EarlyInv => Known
  BY DEF EarlyInv
<1>3. QED
  BY ExamplesInit, EarlyKeeps, TxKeeps, PcKeeps, <1>1, <1>2, PTL DEF Spec

\* In every example, shutdowns and boots past the interface included, esp_netif believes of the
\* link what the station is, and mmhalow_init was all or nothing.
THEOREM ExamplesKeepInterface == Spec => [](NetifFollowsLink /\ AllOrNothing)
<1>1. Init => LinkInv
  BY LinkInvInit DEF Init
<1>2. LinkInv => NetifFollowsLink /\ AllOrNothing
  BY IdleIsQuiet
  DEF LinkInv, LinkKnown, NetifFollowsLink, Complete, Progress, Attached, Untouched, AllOrNothing
<1>3. QED
  BY <1>1, <1>2, ExamplesKeepLink, PTL DEF Spec
=============================================================================
