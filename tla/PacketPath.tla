----------------------------- MODULE PacketPath -----------------------------
(***************************************************************************)
(* Who owns a packet between morselib and the IP stack (mmhalow.cpp):      *)
(* receive() hands received packets up, free_rx_buffer() takes them back,  *)
(* transmit() builds packets for morselib to send.  morselib's receive     *)
(* task, the IP stack's task, the senders and the task that shuts the      *)
(* interface down all run concurrently.                                    *)
(*                                                                         *)
(* Not under src/: the packet pools of mmpktmem, the transmit queue of     *)
(* morselib, the input queue of the IP stack.  They are modelled as this   *)
(* code uses them: esp_netif_receive() keeps the buffer only when it       *)
(* returns ESP_OK; mmwlan_tx_pkt() takes the packet whatever it returns;   *)
(* mmwlan_shutdown() lets a receive callback that is running finish.       *)
(* transmit() gives every packet tid 0, so there is one transmit queue.    *)
(*                                                                         *)
(* Bounds: MaxFrames caps the calls of transmit.                           *)
(***************************************************************************)
EXTENDS Naturals, Sequences, FiniteSets

CONSTANTS RxPkts, TxPkts,   \* the packets of the two pools
          Senders,          \* tasks that transmit
          MaxFrames,        \* bound: calls of transmit
          None              \* a null packet pointer

ASSUME PoolsAssumption == RxPkts \cap TxPkts = {} /\ None \notin RxPkts \cup TxPkts
ASSUME FramesAssumption == MaxFrames \in Nat

Packets == RxPkts \cup TxPkts
Frames  == 1..MaxFrames
Empty   == 0                  \* the payload of a packet nothing was appended to

VARIABLES
  free,      \* packets that are in their pool
  views,     \* packet -> how many views of it are open
  payload,   \* packet -> the frame appended to it
  rxpc, rxpkt,   \* receive(): where it is, its argument
  stack,     \* packets whose view the IP stack holds
  txpc, frame, pkt,  \* per sender: where transmit() is, its buffer, its packet
  queue,     \* morselib's transmit queue
  booted,    \* the transceiver runs
  ready,     \* morselib accepts packets for transmission
  fault,     \* a packet or view was used or given back by one who did not own it
  \* history, read by no step
  calls, accepted, refused, sent, dropped  \* what became of each frame

rxVars  == <<rxpc, rxpkt, stack>>
txVars  == <<txpc, frame, pkt, queue, ready>>
history == <<calls, accepted, refused, sent, dropped>>
vars    == <<free, views, payload, rxVars, txVars, booted, fault, history>>

Init ==
  /\ free = Packets
  /\ views = [p \in Packets |-> 0]
  /\ payload = [p \in Packets |-> Empty]
  /\ rxpc = "idle" /\ rxpkt = None
  /\ stack = {}
  /\ txpc = [s \in Senders |-> "idle"]
  /\ frame = [s \in Senders |-> Empty]
  /\ pkt = [s \in Senders |-> None]
  /\ queue = <<>>
  /\ booted = TRUE /\ ready = TRUE
  /\ fault = FALSE
  /\ calls = 0
  /\ accepted = {} /\ refused = {} /\ dropped = {}
  /\ sent = <<>>

\* mmpkt_close followed by mmpkt_release, by the owner of the packet's only view.
GiveBack_KeepOpen(p) ==
  /\ views' = views
  /\ free' = free \cup {p}
  /\ fault' = (fault \/ p \in free)

GiveBack(p) ==
  /\ views' = [views EXCEPT ![p] = @ - 1]
  /\ free' = free \cup {p}
  /\ fault' = (fault \/ p \in free \/ views[p] # 1)

-----------------------------------------------------------------------------
(* receive() and free_rx_buffer() *)

\* morselib calls the receive callback, which opens a view of the packet.
RxOpen(p) ==
  /\ booted /\ rxpc = "idle" /\ p \in RxPkts \cap free
  /\ free' = free \ {p}
  /\ views' = [views EXCEPT ![p] = @ + 1]
  /\ rxpc' = "receive" /\ rxpkt' = p
  /\ UNCHANGED <<payload, stack, txVars, booted, fault, history>>

\* esp_netif_receive: the stack takes the view as its buffer ...
RxTaken ==
  /\ rxpc = "receive"
  /\ stack' = stack \cup {rxpkt}
  /\ rxpc' = "ok"
  /\ UNCHANGED <<free, views, payload, rxpkt, txVars, booted, fault, history>>

\* ... or refuses it.
RxRefused ==
  /\ rxpc = "receive"
  /\ rxpc' = "error"
  /\ UNCHANGED <<free, views, payload, rxpkt, stack, txVars, booted, fault, history>>

RxReturn_IgnoreError ==
  /\ rxpc \in {"ok", "error"}
  /\ rxpc' = "idle" /\ rxpkt' = None
  /\ UNCHANGED <<free, views, fault, payload, stack, txVars, booted, history>>

RxReturn_AlwaysRelease ==
  /\ rxpc \in {"ok", "error"}
  /\ rxpc' = "idle" /\ rxpkt' = None
  /\ GiveBack(rxpkt)
  /\ UNCHANGED <<payload, stack, txVars, booted, history>>

\* When esp_netif_receive returned ESP_OK the stack may have freed the packet, and
\* morselib may even have used it again; receive() then touches it no more.
RxReturn ==
  /\ rxpc \in {"ok", "error"}
  /\ rxpc' = "idle" /\ rxpkt' = None
  /\ IF rxpc = "error" THEN GiveBack(rxpkt) ELSE UNCHANGED <<free, views, fault>>
  /\ UNCHANGED <<payload, stack, txVars, booted, history>>

\* The stack is done with a buffer, in whatever order it likes.
FreeRxBuffer(p) ==
  /\ p \in stack
  /\ stack' = stack \ {p}
  /\ GiveBack(p)
  /\ UNCHANGED <<payload, rxpc, rxpkt, txVars, booted, history>>

-----------------------------------------------------------------------------
(* transmit(), which transmit_wrap() calls *)

Transmit(s) ==
  /\ calls < MaxFrames /\ txpc[s] = "idle"
  /\ txpc' = [txpc EXCEPT ![s] = "wait"]
  /\ calls' = calls + 1
  /\ frame' = [frame EXCEPT ![s] = calls + 1]
  /\ UNCHANGED <<free, views, payload, rxVars, pkt, queue, ready, booted, fault,
                 accepted, refused, sent, dropped>>

Fail(s) ==
  /\ txpc' = [txpc EXCEPT ![s] = "idle"]
  /\ refused' = refused \cup {frame[s]}

\* mmwlan_tx_wait_until_ready(1000) succeeds ...
TxReady(s) ==
  /\ txpc[s] = "wait" /\ ready
  /\ txpc' = [txpc EXCEPT ![s] = "alloc"]
  /\ UNCHANGED <<free, views, payload, rxVars, frame, pkt, queue, ready, booted, fault,
                 history>>

TxBlocked_WaitForever(s) ==
  /\ txpc[s] = "wait" /\ ~ready
  /\ UNCHANGED vars

\* ... or times out: ESP_FAIL.
TxBlocked(s) ==
  /\ txpc[s] = "wait" /\ ~ready
  /\ Fail(s)
  /\ UNCHANGED <<free, views, payload, rxVars, frame, pkt, queue, ready, booted, fault,
                 calls, accepted, sent, dropped>>

\* By now the pool may be empty, or the transceiver off: ESP_ERR_NO_MEM.
TxNoMem(s) ==
  /\ txpc[s] = "alloc" /\ (TxPkts \cap free = {} \/ ~booted)
  /\ Fail(s)
  /\ UNCHANGED <<free, views, payload, rxVars, frame, pkt, queue, ready, booted, fault,
                 calls, accepted, sent, dropped>>

TxFill_LeaveOpen(s, p) ==
  /\ txpc[s] = "alloc" /\ p \in TxPkts \cap free
  /\ free' = free \ {p}
  /\ views' = [views EXCEPT ![p] = 1]
  /\ payload' = [payload EXCEPT ![p] = frame[s]]
  /\ pkt' = [pkt EXCEPT ![s] = p]
  /\ txpc' = [txpc EXCEPT ![s] = "send"]
  /\ UNCHANGED <<rxVars, frame, queue, ready, booted, fault, history>>

TxFill_NoAppend(s, p) ==
  /\ txpc[s] = "alloc" /\ p \in TxPkts \cap free
  /\ free' = free \ {p}
  /\ pkt' = [pkt EXCEPT ![s] = p]
  /\ txpc' = [txpc EXCEPT ![s] = "send"]
  /\ UNCHANGED <<views, payload, rxVars, frame, queue, ready, booted, fault, history>>

\* mmwlan_alloc_mmpkt_for_tx; open a view, append the data, close the view.
TxFill(s, p) ==
  /\ txpc[s] = "alloc" /\ p \in TxPkts \cap free
  /\ free' = free \ {p}
  /\ payload' = [payload EXCEPT ![p] = frame[s]]
  /\ pkt' = [pkt EXCEPT ![s] = p]
  /\ txpc' = [txpc EXCEPT ![s] = "send"]
  /\ UNCHANGED <<views, rxVars, frame, queue, ready, booted, fault, history>>

\* mmwlan_tx_pkt: ESP_OK.
TxQueued(s) ==
  /\ txpc[s] = "send" /\ booted
  /\ queue' = Append(queue, pkt[s])
  /\ txpc' = [txpc EXCEPT ![s] = "idle"]
  /\ pkt' = [pkt EXCEPT ![s] = None]
  /\ accepted' = accepted \cup {frame[s]}
  /\ UNCHANGED <<free, views, payload, rxVars, frame, ready, booted, fault, calls, refused,
                 sent, dropped>>

TxRefused_ReportOk(s) ==
  /\ txpc[s] = "send"
  /\ free' = free \cup {pkt[s]}
  /\ pkt' = [pkt EXCEPT ![s] = None]
  /\ txpc' = [txpc EXCEPT ![s] = "idle"]
  /\ accepted' = accepted \cup {frame[s]}
  /\ UNCHANGED <<views, payload, rxVars, frame, queue, ready, booted, fault, calls, refused,
                 sent, dropped>>

\* mmwlan_tx_pkt fails and has released the packet: ESP_FAIL.
TxRefused(s) ==
  /\ txpc[s] = "send"
  /\ free' = free \cup {pkt[s]}
  /\ fault' = (fault \/ pkt[s] \in free \/ views[pkt[s]] # 0)
  /\ pkt' = [pkt EXCEPT ![s] = None]
  /\ Fail(s)
  /\ UNCHANGED <<views, payload, rxVars, frame, queue, ready, booted, calls, accepted,
                 sent, dropped>>

-----------------------------------------------------------------------------
(* morselib *)

\* Were a tid chosen per frame, a later one could overtake.
Send_LastFirst ==
  /\ queue # <<>>
  /\ sent' = Append(sent, payload[queue[Len(queue)]])
  /\ free' = free \cup {queue[Len(queue)]}
  /\ queue' = SubSeq(queue, 1, Len(queue) - 1)
  /\ UNCHANGED <<views, payload, rxVars, txpc, frame, pkt, ready, booted, fault, calls,
                 accepted, refused, dropped>>

Send ==
  /\ queue # <<>>
  /\ sent' = Append(sent, payload[Head(queue)])
  /\ free' = free \cup {Head(queue)}
  /\ queue' = Tail(queue)
  /\ UNCHANGED <<views, payload, rxVars, txpc, frame, pkt, ready, booted, fault, calls,
                 accepted, refused, dropped>>

FlowControl ==
  /\ booted /\ ready' = ~ready
  /\ UNCHANGED <<free, views, payload, rxVars, txpc, frame, pkt, queue, booted, fault,
                 history>>

Queued == {queue[i] : i \in 1..Len(queue)}

\* mmhalow_deinit, while senders and the stack go on.
Shutdown ==
  /\ booted /\ rxpc = "idle"
  /\ booted' = FALSE /\ ready' = FALSE
  /\ free' = free \cup Queued
  /\ dropped' = dropped \cup {payload[p] : p \in Queued}
  /\ queue' = <<>>
  /\ UNCHANGED <<views, payload, rxVars, txpc, frame, pkt, fault, calls, accepted, refused,
                 sent>>

\* mmwlan_boot, as sta_reboot does: the pools are as the last run left them.
Boot ==
  /\ ~booted
  /\ booted' = TRUE /\ ready' = TRUE
  /\ UNCHANGED <<free, views, payload, rxVars, txpc, frame, pkt, queue, fault, history>>

-----------------------------------------------------------------------------
RxStep == RxTaken \/ RxRefused \/ RxReturn

TxStep(s) ==
  \/ TxReady(s) \/ TxBlocked(s) \/ TxNoMem(s)
  \/ \E p \in TxPkts : TxFill(s, p)
  \/ TxQueued(s) \/ TxRefused(s)

Next ==
  \/ \E p \in RxPkts : RxOpen(p) \/ FreeRxBuffer(p)
  \/ RxStep
  \/ \E s \in Senders : Transmit(s) \/ TxStep(s)
  \/ Send \/ FlowControl \/ Shutdown \/ Boot

Spec == Init /\ [][Next]_vars

\* Tasks that are not blocked run, a timed wait ends, the stack frees what it took, and
\* morselib drains its queue.
Fairness ==
  /\ WF_vars(RxStep)
  /\ \A p \in RxPkts : WF_vars(FreeRxBuffer(p))
  /\ \A s \in Senders : WF_vars(TxStep(s))
  /\ WF_vars(Send)

FairSpec == Spec /\ Fairness

-----------------------------------------------------------------------------
TypeOK ==
  /\ free \subseteq Packets
  /\ views \in [Packets -> {0, 1}]
  /\ payload \in [Packets -> Frames \cup {Empty}]
  /\ rxpc \in {"idle", "receive", "ok", "error"}
  /\ rxpkt \in RxPkts \cup {None}
  /\ stack \subseteq RxPkts
  /\ txpc \in [Senders -> {"idle", "wait", "alloc", "send"}]
  /\ frame \in [Senders -> Frames \cup {Empty}]
  /\ pkt \in [Senders -> TxPkts \cup {None}]
  /\ queue \in Seq(TxPkts)
  /\ booted \in BOOLEAN /\ ready \in BOOLEAN /\ fault \in BOOLEAN
  /\ calls \in 0..MaxFrames
  /\ accepted \subseteq Frames \cup {Empty} /\ refused \subseteq Frames \cup {Empty}
  /\ dropped \subseteq Frames \cup {Empty}
  /\ sent \in Seq(Frames \cup {Empty})

InReceive == IF rxpc \in {"receive", "error"} THEN {rxpkt} ELSE {}
InTransmit(s) == IF txpc[s] = "send" THEN {pkt[s]} ELSE {}

\* No packet is ever used, closed or released by code that no longer owns it: a received
\* packet the stack already freed is not touched again, nothing is released twice.
NeverMisused == ~fault

\* A view is open exactly while receive() or the stack reads the packet, so a packet that
\* is in its pool or in the transmit queue has none.
ViewsClosed == \A p \in Packets : views[p] = (IF p \in InReceive \cup stack THEN 1 ELSE 0)

\* Neither a packet nor a view leaks: a packet that is not in its pool is in receive(), in
\* the stack, in a transmit() or in the queue, whatever errors and shutdowns happened, and
\* no view outlives its use.
NoLeak ==
  /\ Packets \ free =
       InReceive \cup stack \cup (UNION {InTransmit(s) : s \in Senders}) \cup Queued
  /\ ViewsClosed

\* A packet is in one of these places only.
OneOwner ==
  /\ InReceive \cap stack = {}
  /\ \A s, t \in Senders : s # t => InTransmit(s) \cap InTransmit(t) = {}
  /\ \A s \in Senders : InTransmit(s) \cap Queued = {}
  /\ \A i, j \in 1..Len(queue) : queue[i] = queue[j] => i = j

\* What goes on the air was accepted by transmit() with ESP_OK, complete, and once: a
\* caller that got an error may send the frame again without duplicating it.
SentOnce ==
  /\ \A i \in 1..Len(sent) : sent[i] \in accepted \ refused
  /\ \A i, j \in 1..Len(sent) : sent[i] = sent[j] => i = j

\* To the IP stack transmit() is the service of TransmitService: whoever sends, from
\* whatever packets, what was reported as done is done in that order, and what was reported
\* as failed is not.
Service == INSTANCE TransmitService WITH
  open    <- {frame[s] : s \in {t \in Senders : txpc[t] # "idle"}},
  pending <- [i \in DOMAIN queue |-> payload[queue[i]]]
TransmitAsPromised == Service!ASpec

\* transmit() returns within its timeout, whatever morselib does.
TransmitReturns == \A s \in Senders : txpc[s] # "idle" ~> txpc[s] = "idle"

\* Every received packet gets back to its pool.
RxReturned == \A p \in RxPkts : p \notin free ~> p \in free

\* A frame transmit() returned ESP_OK for is sent, unless a shutdown drops it.
AcceptedSent ==
  \A f \in Frames :
    f \in accepted ~> f \in dropped \cup {sent[i] : i \in 1..Len(sent)}
=============================================================================
