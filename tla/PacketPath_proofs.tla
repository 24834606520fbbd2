------------------------- MODULE PacketPath_proofs -------------------------
(***************************************************************************)
(* For any pools, any senders and any number of frames: the packets of     *)
(* PacketPath are never leaked, shared, misused or sent twice.             *)
(***************************************************************************)
EXTENDS PacketPath, SequenceTheorems, TLAPS

-----------------------------------------------------------------------------
(* The queue *)

\* Appending to a queue keeps its elements and adds one at the end.
LEMMA Appended ==
  ASSUME NEW S, NEW q \in Seq(S), NEW e \in S
  PROVE  /\ Append(q, e) \in Seq(S)
         /\ Len(Append(q, e)) = Len(q) + 1
         /\ \A i \in 1..Len(q) : Append(q, e)[i] = q[i]
         /\ Append(q, e)[Len(q) + 1] = e
BY AppendProperties

\* The tail of a queue is the queue one position later.
LEMMA Tailed ==
  ASSUME NEW S, NEW q \in Seq(S), q # <<>>
  PROVE  /\ Tail(q) \in Seq(S)
         /\ Len(q) \in Nat \ {0} /\ Len(Tail(q)) = Len(q) - 1
         /\ \A i \in 1..Len(Tail(q)) : Tail(q)[i] = q[i + 1]
         /\ Head(q) = q[1] /\ Head(q) \in S
<1>1. Len(q) \in Nat \ {0}
  BY EmptySeq, LenProperties
<1> QED BY <1>1, HeadTailProperties

-----------------------------------------------------------------------------
(* Ownership *)

Sending(p) == \E s \in Senders : txpc[s] = "send" /\ pkt[s] = p
Waiting(p) == \E i \in 1..Len(queue) : queue[i] = p
Reading(p) == rxpc \in {"receive", "error"} /\ rxpkt = p

RxOwners ==
  /\ \A p \in RxPkts : p \notin free <=> (Reading(p) \/ p \in stack)
  /\ rxpc \in {"receive", "error"} => rxpkt \in RxPkts \ stack
  /\ \A p \in RxPkts : views[p] = IF p \in free THEN 0 ELSE 1

TxOwners ==
  /\ \A p \in TxPkts : p \notin free <=> (Sending(p) \/ Waiting(p))
  /\ \A p \in TxPkts : ~(Sending(p) /\ Waiting(p))
  /\ \A s \in Senders : txpc[s] = "send" => pkt[s] \in TxPkts
  /\ \A s, t \in Senders :
       txpc[s] = "send" /\ txpc[t] = "send" /\ pkt[s] = pkt[t] => s = t
  /\ \A i, j \in 1..Len(queue) : queue[i] = queue[j] => i = j
  /\ \A p \in TxPkts : views[p] = 0

OwnInv == TypeOK /\ RxOwners /\ TxOwners /\ NeverMisused

rxState == <<free, views, rxpc, rxpkt, stack>>

\* A step that takes and gives back no received packet keeps their owners.
LEMMA RxKept ==
  ASSUME RxOwners, TypeOK, UNCHANGED <<views, rxpc, rxpkt, stack>>,
         free' \cap RxPkts = free \cap RxPkts
  PROVE  RxOwners'
BY DEF RxOwners, Reading

\* The same for packets to transmit.
LEMMA TxKept ==
  ASSUME TxOwners, UNCHANGED <<pkt, queue>>,
         free' \cap TxPkts = free \cap TxPkts,
         \A s \in Senders : txpc[s] = "send" <=> txpc'[s] = "send",
         \A p \in TxPkts : views'[p] = views[p]
  PROVE  TxOwners'
BY DEF TxOwners, Sending, Waiting

\* Giving back a packet with its one view open is no misuse, and closes the view.
LEMMA GivenBack ==
  ASSUME TypeOK, NEW p \in RxPkts, GiveBack(p), p \notin free, views[p] = 1, ~fault
  PROVE  /\ free' = free \cup {p}
         /\ views' \in [Packets -> {0, 1}]
         /\ views'[p] = 0
         /\ \A q \in Packets : q # p => views'[q] = views[q]
         /\ ~fault'
BY DEF GiveBack, TypeOK, Packets

\* Before anything runs every packet is in its pool.
LEMMA OwnInit == Init => OwnInv
<1> SUFFICES ASSUME Init PROVE OwnInv
  OBVIOUS
<1> USE PoolsAssumption, FramesAssumption DEF Init
<1>1. TypeOK
  <2>1. queue \in Seq(TxPkts) /\ sent \in Seq(Frames \cup {Empty})
    OBVIOUS
  <2>2. calls \in 0..MaxFrames
    OBVIOUS
  <2> QED BY <2>1, <2>2 DEF TypeOK
<1>2. RxOwners /\ NeverMisused
  BY DEF RxOwners, Reading, Packets, NeverMisused
<1>3. TxOwners
  BY DEF TxOwners, Sending, Waiting, Packets
<1> QED BY <1>1, <1>2, <1>3 DEF OwnInv

\* receive() and free_rx_buffer() hand packets over, or back, one owner at a time.
LEMMA OwnRx ==
  ASSUME OwnInv, \/ RxStep
                 \/ \E p \in RxPkts : RxOpen(p) \/ FreeRxBuffer(p)
  PROVE  OwnInv'
<1> USE PoolsAssumption DEF OwnInv, NeverMisused
<1>1. CASE RxTaken
  <2>1. TypeOK' BY <1>1 DEF RxTaken, TypeOK, txVars, history, RxOwners
  <2>2. RxOwners' BY <1>1 DEF RxTaken, RxOwners, Reading
  <2>3. TxOwners' BY <1>1, TxKept DEF RxTaken, txVars
  <2> QED BY <2>1, <2>2, <2>3, <1>1 DEF RxTaken
<1>2. CASE RxRefused
  <2>1. TypeOK' BY <1>2 DEF RxRefused, TypeOK, txVars, history
  <2>2. RxOwners' BY <1>2 DEF RxRefused, RxOwners, Reading
  <2>3. TxOwners' BY <1>2, TxKept DEF RxRefused, txVars
  <2> QED BY <2>1, <2>2, <2>3, <1>2 DEF RxRefused
<1>3. CASE RxReturn /\ rxpc = "error"
  <2>1. rxpkt \in RxPkts /\ rxpkt \notin free /\ views[rxpkt] = 1 /\ rxpkt \notin stack
    BY <1>3 DEF RxOwners, Reading
  <2>2. GiveBack(rxpkt)
    BY <1>3 DEF RxReturn
  <2> DEFINE p == rxpkt
  <2>3. /\ free' = free \cup {p}
        /\ views' \in [Packets -> {0, 1}]
        /\ views'[p] = 0
        /\ \A q \in Packets : q # p => views'[q] = views[q]
        /\ ~fault'
    BY <2>1, <2>2, GivenBack
  <2>4. TypeOK' BY <1>3, <2>1, <2>2, <2>3 DEF RxReturn, GiveBack, TypeOK, txVars, history, Packets
  <2>5. RxOwners' BY <1>3, <2>1, <2>3 DEF RxReturn, RxOwners, Reading, Packets
  <2>6. TxOwners' BY <1>3, <2>1, <2>3, TxKept DEF RxReturn, txVars, Packets
  <2> QED BY <2>3, <2>4, <2>5, <2>6
<1>4. CASE RxReturn /\ rxpc = "ok"
  <2>1. TypeOK' BY <1>4 DEF RxReturn, TypeOK, txVars, history
  <2>2. RxOwners' BY <1>4 DEF RxReturn, RxOwners, Reading
  <2>3. TxOwners' BY <1>4, TxKept DEF RxReturn, txVars
  <2> QED BY <2>1, <2>2, <2>3, <1>4 DEF RxReturn
<1>5. ASSUME NEW p \in RxPkts, RxOpen(p) PROVE OwnInv'
  <2>1. TypeOK' BY <1>5 DEF RxOpen, TypeOK, txVars, history, Packets, RxOwners
  <2>2. RxOwners' BY <1>5 DEF RxOpen, RxOwners, Reading, TypeOK, Packets
  <2>3. TxOwners' BY <1>5, TxKept DEF RxOpen, txVars, TypeOK, Packets
  <2> QED BY <2>1, <2>2, <2>3, <1>5 DEF RxOpen
<1>6. ASSUME NEW p \in RxPkts, FreeRxBuffer(p) PROVE OwnInv'
  <2>1. p \notin free /\ views[p] = 1 /\ GiveBack(p) /\ p \in stack
    BY <1>6 DEF RxOwners, FreeRxBuffer
  <2>3. /\ free' = free \cup {p}
        /\ views' \in [Packets -> {0, 1}]
        /\ views'[p] = 0
        /\ \A q \in Packets : q # p => views'[q] = views[q]
        /\ ~fault'
    BY <2>1, GivenBack
  <2>4. TypeOK' BY <1>6, <2>1, <2>3 DEF FreeRxBuffer, GiveBack, TypeOK, txVars, history, Packets
  <2>5. RxOwners' BY <1>6, <2>1, <2>3 DEF FreeRxBuffer, RxOwners, Reading, Packets
  <2>6. TxOwners' BY <1>6, <2>1, <2>3, TxKept DEF FreeRxBuffer, txVars, Packets
  <2> QED BY <2>3, <2>4, <2>5, <2>6
<1> QED BY <1>1, <1>2, <1>3, <1>4, <1>5, <1>6 DEF RxStep, RxReturn

\* transmit() owns its packet from the allocation until mmwlan_tx_pkt takes it.
LEMMA OwnTx ==
  ASSUME OwnInv, NEW s \in Senders, Transmit(s) \/ TxStep(s)
  PROVE  OwnInv'
<1> USE PoolsAssumption DEF OwnInv, NeverMisused
<1>1. CASE Transmit(s)
  <2>1. TypeOK'
    BY <1>1, FramesAssumption DEF Transmit, TypeOK, rxVars, Frames
  <2>2. RxOwners' BY <1>1, RxKept DEF Transmit, rxVars
  <2>3. TxOwners' BY <1>1, TxKept DEF Transmit, TypeOK
  <2> QED BY <2>1, <2>2, <2>3, <1>1 DEF Transmit
<1>2. CASE TxReady(s)
  <2>1. TypeOK' BY <1>2 DEF TxReady, TypeOK, rxVars, history
  <2>2. RxOwners' BY <1>2, RxKept DEF TxReady, rxVars
  <2>3. TxOwners' BY <1>2, TxKept DEF TxReady, TypeOK
  <2> QED BY <2>1, <2>2, <2>3, <1>2 DEF TxReady
<1>3. CASE TxBlocked(s) \/ TxNoMem(s)
  <2>1. TypeOK' BY <1>3 DEF TxBlocked, TxNoMem, Fail, TypeOK, rxVars
  <2>2. RxOwners' BY <1>3, RxKept DEF TxBlocked, TxNoMem, rxVars
  <2>3. TxOwners' BY <1>3, TxKept DEF TxBlocked, TxNoMem, Fail, TypeOK
  <2> QED BY <2>1, <2>2, <2>3, <1>3 DEF TxBlocked, TxNoMem
<1>4. ASSUME NEW p \in TxPkts, TxFill(s, p) PROVE OwnInv'
  <2>1. TypeOK' BY <1>4 DEF TxFill, TypeOK, rxVars, history
  <2>2. RxOwners' BY <1>4, RxKept DEF TxFill, rxVars
  <2>3. TxOwners'
    BY <1>4 DEF TxFill, TxOwners, Sending, Waiting, TypeOK
  <2> QED BY <2>1, <2>2, <2>3, <1>4 DEF TxFill
<1>5. CASE TxQueued(s)
  <2>1. pkt[s] \in TxPkts
    BY <1>5 DEF TxQueued, TxOwners
  <2> DEFINE n == Len(queue)
  <2>2. /\ queue' \in Seq(TxPkts)
        /\ Len(queue') = n + 1
        /\ \A i \in 1..n : queue'[i] = queue[i]
        /\ queue'[n + 1] = pkt[s]
    BY <1>5, <2>1, Appended DEF TxQueued, TypeOK
  <2>3. n \in Nat
    BY LenProperties DEF TypeOK
  <2>4. TypeOK' BY <1>5, <2>2 DEF TxQueued, TypeOK, rxVars
  <2>5. RxOwners' BY <1>5, RxKept DEF TxQueued, rxVars
  <2>6. ~Waiting(pkt[s])
    BY <1>5, <2>1 DEF TxQueued, TxOwners, Sending
  <2>7. \A p : Waiting(p)' <=> Waiting(p) \/ p = pkt[s]
    BY <2>2, <2>3 DEF Waiting
  <2>8. \A p \in TxPkts : Sending(p)' <=> Sending(p) /\ p # pkt[s]
    BY <1>5, <2>1 DEF TxQueued, TxOwners, Sending, TypeOK
  <2>9. \A i, j \in 1..Len(queue') : queue'[i] = queue'[j] => i = j
    BY <2>2, <2>3, <2>6 DEF TxOwners, Waiting
  <2>10. \A p \in TxPkts : p \notin free' <=> Sending(p)' \/ Waiting(p)'
    BY <1>5, <2>1, <2>7, <2>8 DEF TxQueued, TxOwners, Sending
  <2>11. \A p \in TxPkts : ~(Sending(p)' /\ Waiting(p)')
    BY <2>7, <2>8 DEF TxOwners
  <2>12. /\ \A t \in Senders : txpc'[t] = "send" => pkt'[t] \in TxPkts
         /\ \A u, t \in Senders :
              txpc'[u] = "send" /\ txpc'[t] = "send" /\ pkt'[u] = pkt'[t] => u = t
    BY <1>5 DEF TxQueued, TxOwners, TypeOK
  <2>13. TxOwners'
    BY <1>5, <2>9, <2>10, <2>11, <2>12 DEF TxQueued, TxOwners
  <2> QED BY <2>4, <2>5, <2>13, <1>5 DEF TxQueued
<1>6. CASE TxRefused(s)
  <2>1. pkt[s] \in TxPkts /\ pkt[s] \notin free /\ views[pkt[s]] = 0
    BY <1>6 DEF TxRefused, TxOwners, Sending
  <2>2. TypeOK' BY <1>6, <2>1 DEF TxRefused, Fail, TypeOK, rxVars, Packets
  <2>3. RxOwners' BY <1>6, <2>1, RxKept DEF TxRefused, rxVars
  <2>4. TxOwners'
    <3>1. \A p \in TxPkts : Sending(p)' <=> Sending(p) /\ p # pkt[s]
      BY <1>6, <2>1 DEF TxRefused, Fail, TxOwners, Sending, TypeOK
    <3>2. \A p : Waiting(p)' <=> Waiting(p)
      BY <1>6 DEF TxRefused, Waiting
    <3>3. \A p \in TxPkts : p \notin free' <=> Sending(p)' \/ Waiting(p)'
      BY <1>6, <2>1, <3>1, <3>2 DEF TxRefused, TxOwners, Sending
    <3>4. /\ \A t \in Senders : txpc'[t] = "send" => pkt'[t] \in TxPkts
          /\ \A u, t \in Senders :
              txpc'[u] = "send" /\ txpc'[t] = "send" /\ pkt'[u] = pkt'[t] => u = t
      BY <1>6 DEF TxRefused, Fail, TxOwners, TypeOK
    <3> QED BY <1>6, <3>1, <3>2, <3>3, <3>4 DEF TxRefused, TxOwners
  <2> QED BY <2>1, <2>2, <2>3, <2>4, <1>6 DEF TxRefused
<1> QED BY <1>1, <1>2, <1>3, <1>4, <1>5, <1>6 DEF TxStep

\* morselib releases what it queued, when it is sent or when it shuts down.
LEMMA OwnMorselib ==
  ASSUME OwnInv, Send \/ FlowControl \/ Shutdown \/ Boot
  PROVE  OwnInv'
<1> USE PoolsAssumption DEF OwnInv, NeverMisused
<1>1. CASE Send
  <2> DEFINE p == Head(queue)  n == Len(queue)
  <2>1. /\ queue' \in Seq(TxPkts)
        /\ n \in Nat \ {0} /\ Len(queue') = n - 1
        /\ \A i \in 1..Len(queue') : queue'[i] = queue[i + 1]
        /\ p = queue[1] /\ p \in TxPkts
    BY <1>1, Tailed DEF Send, TypeOK
  <2>2. payload[p] \in Frames \cup {Empty}
    BY <2>1 DEF TypeOK, Packets
  <2>3. sent' \in Seq(Frames \cup {Empty})
    BY <1>1, <2>2, Appended DEF Send, TypeOK
  <2>4. TypeOK' BY <1>1, <2>1, <2>3 DEF Send, TypeOK, rxVars, Packets
  <2>5. RxOwners' BY <1>1, <2>1, RxKept DEF Send, rxVars
  <2>6. \A q : Waiting(q)' <=> Waiting(q) /\ q # p
    <3>1. ASSUME NEW q, Waiting(q)' PROVE Waiting(q) /\ q # p
      <4>1. PICK i \in 1..Len(queue') : queue'[i] = q
        BY <3>1 DEF Waiting
      <4>2. i + 1 \in 1..n /\ queue[i + 1] = q /\ i + 1 # 1 /\ 1 \in 1..n
        BY <4>1, <2>1
      <4> QED BY <4>2, <2>1 DEF Waiting, TxOwners
    <3>2. ASSUME NEW q, Waiting(q), q # p PROVE Waiting(q)'
      <4>1. PICK i \in 1..n : queue[i] = q
        BY <3>2 DEF Waiting
      <4>2. i - 1 \in 1..Len(queue') /\ queue'[i - 1] = q
        BY <4>1, <3>2, <2>1
      <4> QED BY <4>2 DEF Waiting
    <3> QED BY <3>1, <3>2
  <2>7. \A q : Sending(q)' <=> Sending(q)
    BY <1>1 DEF Send, Sending
  <2>8. Waiting(p)
    BY <2>1 DEF Waiting
  <2>9. \A i, j \in 1..Len(queue') : queue'[i] = queue'[j] => i = j
    <3>1. ASSUME NEW i \in 1..Len(queue'), NEW j \in 1..Len(queue'), queue'[i] = queue'[j]
          PROVE  i = j
      <4>1. i + 1 \in 1..n /\ j + 1 \in 1..n /\ queue[i + 1] = queue[j + 1]
        BY <3>1, <2>1
      <4>2. i + 1 = j + 1
        BY <4>1 DEF TxOwners
      <4> QED BY <4>2, <2>1
    <3> QED BY <3>1
  <2>10. /\ \A q \in TxPkts : q \notin free' <=> Sending(q)' \/ Waiting(q)'
         /\ \A q \in TxPkts : ~(Sending(q)' /\ Waiting(q)')
    BY <1>1, <2>1, <2>6, <2>7, <2>8 DEF Send, TxOwners
  <2>11. TxOwners'
    BY <1>1, <2>9, <2>10 DEF Send, TxOwners
  <2> QED BY <2>4, <2>5, <2>11, <1>1 DEF Send
<1>2. CASE FlowControl \/ Boot
  <2>1. TypeOK' BY <1>2 DEF FlowControl, Boot, TypeOK, rxVars, history
  <2>2. RxOwners' BY <1>2, RxKept DEF FlowControl, Boot, rxVars
  <2>3. TxOwners' BY <1>2, TxKept DEF FlowControl, Boot
  <2> QED BY <2>1, <2>2, <2>3, <1>2 DEF FlowControl, Boot
<1>3. CASE Shutdown
  <2>1. Queued \subseteq TxPkts /\ \A p : p \in Queued <=> Waiting(p)
    BY DEF TypeOK, Queued, Waiting
  <2>2. {payload[p] : p \in Queued} \subseteq Frames \cup {Empty}
    BY <2>1 DEF TypeOK, Packets
  <2>3. queue' = <<>> /\ queue' \in Seq(TxPkts) /\ Len(queue') = 0
    BY <1>3 DEF Shutdown
  <2>4. TypeOK' BY <1>3, <2>1, <2>2, <2>3 DEF Shutdown, TypeOK, rxVars, Packets
  <2>5. RxOwners' BY <1>3, <2>1, RxKept DEF Shutdown, rxVars
  <2>6. /\ \A p : ~Waiting(p)'
        /\ \A p : Sending(p)' <=> Sending(p)
    BY <1>3, <2>3 DEF Shutdown, Waiting, Sending
  <2>7. \A p \in TxPkts : p \notin free' <=> Sending(p)' \/ Waiting(p)'
    BY <1>3, <2>1, <2>6 DEF Shutdown, TxOwners
  <2>8. TxOwners'
    BY <1>3, <2>3, <2>6, <2>7 DEF Shutdown, TxOwners
  <2> QED BY <2>4, <2>5, <2>8, <1>3 DEF Shutdown
<1> QED BY <1>1, <1>2, <1>3

\* The owners of packets are as OwnInv says in every reachable state.
THEOREM Ownership == Spec => []OwnInv
<1>1. OwnInv /\ [Next]_vars => OwnInv'
  <2> SUFFICES ASSUME OwnInv, [Next]_vars PROVE OwnInv'
    OBVIOUS
  <2>1. CASE UNCHANGED vars
    BY <2>1 DEF vars, rxVars, txVars, history, OwnInv, TypeOK, RxOwners, TxOwners, Reading,
                Sending, Waiting, NeverMisused
  <2> QED BY <2>1, OwnRx, OwnTx, OwnMorselib DEF Next
<1> QED BY <1>1, OwnInit, PTL DEF Spec

\* Every variable of the packet path stays in its range; views are never opened twice.
THEOREM TypeCorrect == Spec => []TypeOK
<1>1. OwnInv => TypeOK
  BY DEF OwnInv
<1> QED BY <1>1, Ownership, PTL

\* No packet or view is used or given back by code that does not own it.
THEOREM NothingMisused == Spec => []NeverMisused
<1>1. OwnInv => NeverMisused
  BY DEF OwnInv
<1> QED BY <1>1, Ownership, PTL

\* Views are open exactly while receive() or the stack holds the packet.
LEMMA ViewsMatch == OwnInv => ViewsClosed
<1> SUFFICES ASSUME OwnInv PROVE ViewsClosed
  OBVIOUS
<1> USE PoolsAssumption DEF OwnInv, RxOwners, TxOwners
<1>1. \A p \in RxPkts : views[p] = (IF p \in InReceive \cup stack THEN 1 ELSE 0)
  BY DEF InReceive, Reading
<1>2. \A p \in TxPkts : p \notin InReceive \cup stack
  BY DEF InReceive, TypeOK
<1> QED BY <1>1, <1>2 DEF ViewsClosed, Packets

\* No packet and no view leaks, through no error path and no shutdown.
THEOREM NothingLeaks == Spec => []NoLeak
<1>1. ASSUME OwnInv PROVE NoLeak
  <2> USE <1>1, PoolsAssumption DEF OwnInv
  <2> DEFINE sending == UNION {InTransmit(s) : s \in Senders}
  <2>1. \A p : p \in sending <=> Sending(p)
    BY DEF InTransmit, Sending
  <2>2. \A p : p \in Queued <=> Waiting(p)
    BY DEF Queued, Waiting
  <2>3. \A p : p \in InReceive <=> Reading(p)
    BY DEF InReceive, Reading
  <2>4. \A p : Sending(p) \/ Waiting(p) => p \in TxPkts
    BY DEF TxOwners, Sending, Waiting, TypeOK
  <2>5. \A p : Reading(p) \/ p \in stack => p \in RxPkts
    BY DEF RxOwners, Reading, TypeOK
  <2>6. \A p \in RxPkts : p \notin free <=> Reading(p) \/ p \in stack
    BY DEF RxOwners
  <2>7. \A p \in TxPkts : p \notin free <=> Sending(p) \/ Waiting(p)
    BY DEF TxOwners
  <2> DEFINE owned == InReceive \cup stack \cup sending \cup Queued
  <2>8. \A p : p \in owned <=> Reading(p) \/ p \in stack \/ Sending(p) \/ Waiting(p)
    <3> HIDE DEF sending
    <3> QED BY <2>1, <2>2, <2>3
  <2>9. Packets \ free = owned
    <3> HIDE DEF owned
    <3> QED BY <2>4, <2>5, <2>6, <2>7, <2>8 DEF Packets
  <2> QED BY <2>9, ViewsMatch DEF NoLeak
<1> QED BY <1>1, Ownership, PTL

\* No packet is in two places at once.
THEOREM OwnedByOne == Spec => []OneOwner
<1>1. ASSUME OwnInv PROVE OneOwner
  <2> USE <1>1 DEF OwnInv, RxOwners, TxOwners
  <2>1. InReceive \cap stack = {}
    BY DEF InReceive
  <2>2. \A s, t \in Senders : s # t => InTransmit(s) \cap InTransmit(t) = {}
    BY DEF InTransmit
  <2>3. \A s \in Senders : InTransmit(s) \cap Queued = {}
    BY DEF InTransmit, Queued, Sending, Waiting
  <2> QED BY <2>1, <2>2, <2>3 DEF OneOwner
<1> QED BY <1>1, Ownership, PTL

-----------------------------------------------------------------------------
(* What goes on the air *)

SentInv ==
  /\ accepted \cup refused \subseteq 1..calls
  /\ accepted \cap refused = {}
  /\ \A s \in Senders : txpc[s] # "idle" => frame[s] \in (1..calls) \ (accepted \cup refused)
  /\ \A s, t \in Senders :
       s # t /\ txpc[s] # "idle" /\ txpc[t] # "idle" => frame[s] # frame[t]
  /\ \A s \in Senders : txpc[s] = "send" => payload[pkt[s]] = frame[s]
  /\ \A i \in 1..Len(queue) : payload[queue[i]] \in accepted
  /\ \A i \in 1..Len(queue) : \A j \in 1..Len(sent) : sent[j] # payload[queue[i]]
  /\ \A i, j \in 1..Len(queue) : payload[queue[i]] = payload[queue[j]] => i = j
  /\ \A i \in 1..Len(sent) : sent[i] \in accepted
  /\ \A i, j \in 1..Len(sent) : sent[i] = sent[j] => i = j

\* A step of a sender keeps its frame apart from all others, up to the queue.
LEMMA SentTx ==
  ASSUME OwnInv, SentInv, NEW s \in Senders, Transmit(s) \/ TxStep(s)
  PROVE  SentInv'
<1> USE DEF OwnInv, SentInv
<1>1. CASE Transmit(s)
  <2>1. /\ calls \in Nat /\ calls' = calls + 1
        /\ UNCHANGED <<payload, pkt, queue, accepted, refused, sent>>
        /\ \A t \in Senders \ {s} : txpc'[t] = txpc[t] /\ frame'[t] = frame[t]
        /\ frame'[s] = calls + 1 /\ txpc'[s] = "wait"
    BY <1>1, FramesAssumption DEF Transmit, rxVars, TypeOK
  <2>2. 1..calls \subseteq 1..calls' /\ calls + 1 \in 1..calls' /\ calls + 1 \notin 1..calls
    BY <2>1
  <2>3. \A t \in Senders : txpc'[t] # "idle" =>
          frame'[t] \in (1..calls') \ (accepted' \cup refused')
    BY <2>1, <2>2
  <2>4. \A u, t \in Senders :
          u # t /\ txpc'[u] # "idle" /\ txpc'[t] # "idle" => frame'[u] # frame'[t]
    BY <2>1, <2>2
  <2>5. \A t \in Senders : txpc'[t] = "send" => payload'[pkt'[t]] = frame'[t]
    BY <2>1
  <2>6. accepted' \cup refused' \subseteq 1..calls' /\ accepted' \cap refused' = {}
    BY <2>1, <2>2
  <2>7. /\ \A i \in 1..Len(queue') : payload'[queue'[i]] \in accepted'
        /\ \A i \in 1..Len(queue') : \A j \in 1..Len(sent') : sent'[j] # payload'[queue'[i]]
        /\ \A i, j \in 1..Len(queue') : payload'[queue'[i]] = payload'[queue'[j]] => i = j
        /\ \A i \in 1..Len(sent') : sent'[i] \in accepted'
        /\ \A i, j \in 1..Len(sent') : sent'[i] = sent'[j] => i = j
    BY <2>1
  <2> QED BY <2>3, <2>4, <2>5, <2>6, <2>7
<1>2. CASE TxReady(s)
  BY <1>2 DEF TxReady, history, TypeOK
<1>3. CASE TxBlocked(s) \/ TxNoMem(s)
  <2>1. /\ UNCHANGED <<payload, frame, pkt, queue, calls, accepted, sent>>
        /\ refused' = refused \cup {frame[s]} /\ txpc[s] # "idle"
        /\ \A t \in Senders : txpc'[t] = IF t = s THEN "idle" ELSE txpc[t]
    BY <1>3 DEF TxBlocked, TxNoMem, Fail, TypeOK
  <2> QED BY <2>1
<1>4. ASSUME NEW p \in TxPkts, TxFill(s, p) PROVE SentInv'
  <2>1. p \in free /\ payload' = [payload EXCEPT ![p] = frame[s]]
    BY <1>4 DEF TxFill
  <2>2. ~Sending(p) /\ ~Waiting(p)
    BY <2>1 DEF TxOwners
  <2>3. \A i \in 1..Len(queue) : payload'[queue[i]] = payload[queue[i]]
    BY <2>1, <2>2 DEF Waiting, TypeOK, Packets
  <2>4. \A t \in Senders : txpc'[t] = "send" => payload'[pkt'[t]] = frame'[t]
    <3>1. CASE p \in Packets
      BY <1>4, <2>1, <2>2, <3>1 DEF TxFill, Sending, TypeOK, TxOwners, Packets
    <3> QED BY <3>1 DEF Packets
  <2> QED BY <1>4, <2>3, <2>4 DEF TxFill, history, TypeOK
<1>5. CASE TxQueued(s)
  <2> DEFINE n == Len(queue)
  <2>1. pkt[s] \in TxPkts /\ payload[pkt[s]] = frame[s] /\ txpc[s] # "idle"
    BY <1>5 DEF TxQueued, TxOwners
  <2>2. /\ Len(queue') = n + 1 /\ n \in Nat
        /\ \A i \in 1..n : queue'[i] = queue[i]
        /\ queue'[n + 1] = pkt[s]
    BY <1>5, <2>1, Appended, LenProperties DEF TxQueued, TypeOK
  <2>3. /\ accepted' = accepted \cup {frame[s]} /\ frame[s] \notin accepted \cup refused
        /\ payload' = payload /\ sent' = sent /\ refused' = refused
    BY <1>5, <2>1 DEF TxQueued
  <2>4. \A i \in 1..n + 1 : i \in 1..n \/ i = n + 1
    BY <2>2
  <2>5. /\ \A i \in 1..n : payload'[queue'[i]] = payload[queue[i]]
        /\ payload'[queue'[n + 1]] = frame[s]
    BY <2>1, <2>2, <2>3
  <2>6. \A i \in 1..Len(queue') : payload'[queue'[i]] \in accepted'
    BY <2>2, <2>3, <2>4, <2>5
  <2>7. \A i \in 1..Len(queue') : \A j \in 1..Len(sent') : sent'[j] # payload'[queue'[i]]
    BY <2>2, <2>3, <2>4, <2>5
  <2>8. \A i, j \in 1..Len(queue') : payload'[queue'[i]] = payload'[queue'[j]] => i = j
    BY <2>2, <2>3, <2>4, <2>5
  <2>9. /\ accepted' \cup refused' \subseteq 1..calls'
        /\ accepted' \cap refused' = {}
    BY <1>5, <2>1, <2>3 DEF TxQueued
  <2>10. /\ \A t \in Senders : txpc'[t] # "idle" =>
              frame'[t] \in (1..calls') \ (accepted' \cup refused')
         /\ \A u, t \in Senders :
              u # t /\ txpc'[u] # "idle" /\ txpc'[t] # "idle" => frame'[u] # frame'[t]
         /\ \A t \in Senders : txpc'[t] = "send" => payload'[pkt'[t]] = frame'[t]
    BY <1>5, <2>1, <2>3 DEF TxQueued, TypeOK
  <2> QED BY <2>3, <2>6, <2>7, <2>8, <2>9, <2>10
<1>6. CASE TxRefused(s)
  BY <1>6 DEF TxRefused, Fail, TypeOK
<1> QED BY <1>1, <1>2, <1>3, <1>4, <1>5, <1>6 DEF TxStep

\* morselib takes a frame from the queue to the air and never back.
LEMMA SentMorselib ==
  ASSUME OwnInv, SentInv, Send \/ FlowControl \/ Shutdown \/ Boot
  PROVE  SentInv'
<1> USE DEF OwnInv, SentInv
<1>1. CASE Send
  <2> DEFINE n == Len(queue)  m == Len(sent)  f == payload[queue[1]]
  <2>1. /\ n \in Nat \ {0} /\ Len(queue') = n - 1
        /\ \A i \in 1..Len(queue') : queue'[i] = queue[i + 1]
        /\ Head(queue) = queue[1] /\ queue[1] \in TxPkts
    BY <1>1, Tailed DEF Send, TypeOK
  <2>2. f \in Frames \cup {Empty}
    BY <2>1 DEF TypeOK, Packets
  <2>3. /\ m \in Nat /\ Len(sent') = m + 1
        /\ \A i \in 1..m : sent'[i] = sent[i]
        /\ sent'[m + 1] = f
    BY <1>1, <2>1, <2>2, Appended, LenProperties DEF Send, TypeOK
  <2>4. UNCHANGED <<payload, txpc, frame, pkt, calls, accepted, refused>>
    BY <1>1 DEF Send
  <2>5. 1 \in 1..n /\ f \in accepted /\ \A j \in 1..m : sent[j] # f
    BY <2>1
  <2>6. \A i \in 1..Len(queue') : i + 1 \in 1..n /\ queue'[i] = queue[i + 1] /\ i + 1 # 1
    BY <2>1
  <2>7. \A i \in 1..Len(sent') : i \in 1..m \/ i = m + 1
    BY <2>3
  <2>8. \A i \in 1..Len(queue') : payload'[queue'[i]] \in accepted'
    BY <2>4, <2>6
  <2>9. \A i \in 1..Len(queue') : payload'[queue'[i]] # f
    BY <2>4, <2>5, <2>6
  <2>10. \A i \in 1..Len(queue') : \A j \in 1..Len(sent') : sent'[j] # payload'[queue'[i]]
    BY <2>3, <2>4, <2>6, <2>7, <2>9
  <2>11. ASSUME NEW i \in 1..Len(queue'), NEW j \in 1..Len(queue'),
                payload'[queue'[i]] = payload'[queue'[j]]
         PROVE  i = j
    <3>1. i + 1 = j + 1
      BY <2>4, <2>6, <2>11
    <3> QED BY <3>1, <2>1
  <2>12. \A i \in 1..Len(sent') : sent'[i] \in accepted'
    BY <2>3, <2>4, <2>5, <2>7
  <2>13. \A i, j \in 1..Len(sent') : sent'[i] = sent'[j] => i = j
    BY <2>3, <2>5, <2>7
  <2> QED BY <2>4, <2>8, <2>10, <2>11, <2>12, <2>13
<1>2. CASE FlowControl \/ Boot
  BY <1>2 DEF FlowControl, Boot, history
<1>3. CASE Shutdown
  <2>1. Len(queue') = 0
    BY <1>3 DEF Shutdown
  <2> QED BY <1>3, <2>1 DEF Shutdown
<1> QED BY <1>1, <1>2, <1>3

\* What is known of every frame until it is on the air.
THEOREM FramesFollowed == Spec => []SentInv
<1>1. Init => SentInv
  BY FramesAssumption DEF Init, SentInv
<1>2. OwnInv /\ SentInv /\ [Next]_vars => SentInv'
  <2> SUFFICES ASSUME OwnInv, SentInv, [Next]_vars PROVE SentInv'
    OBVIOUS
  <2>1. CASE UNCHANGED vars
    BY <2>1 DEF vars, rxVars, txVars, history, SentInv
  <2>2. CASE RxStep
    BY <2>2 DEF RxStep, RxTaken, RxRefused, RxReturn, txVars, history, SentInv
  <2>3. CASE \E p \in RxPkts : RxOpen(p) \/ FreeRxBuffer(p)
    BY <2>3 DEF RxOpen, FreeRxBuffer, txVars, history, SentInv
  <2> QED BY <2>1, <2>2, <2>3, SentTx, SentMorselib DEF Next
<1> QED BY <1>1, <1>2, Ownership, PTL DEF Spec

\* Only frames that transmit() accepted go on the air, complete, and each once.
THEOREM SentExactlyOnce == Spec => []SentOnce
<1>1. SentInv => SentOnce
  BY DEF SentInv, SentOnce
<1> QED BY <1>1, FramesFollowed, PTL

-----------------------------------------------------------------------------
(* The service to the IP stack *)

Calling == {frame[s] : s \in {t \in Senders : txpc[t] # "idle"}}
Payloads == [i \in DOMAIN queue |-> payload[queue[i]]]

service == <<calls, Calling, accepted, refused, Payloads, sent, dropped>>

\* The payloads of the queue are a sequence as long as it.
LEMMA PayloadsType ==
  ASSUME OwnInv
  PROVE  /\ Payloads \in Seq(Frames \cup {Empty})
         /\ Len(Payloads) = Len(queue) /\ Len(queue) \in Nat
         /\ DOMAIN queue = 1..Len(queue) /\ DOMAIN Payloads = 1..Len(queue)
         /\ \A i \in 1..Len(queue) : Payloads[i] = payload[queue[i]]
<1> DEFINE n == Len(queue)
<1>1. n \in Nat /\ DOMAIN queue = 1..n /\ \A i \in 1..n : queue[i] \in TxPkts
  BY DEF OwnInv, TypeOK
<1>2. \A i \in 1..n : payload[queue[i]] \in Frames \cup {Empty}
  BY <1>1 DEF OwnInv, TypeOK, Packets
<1>3. Payloads \in [1..n -> Frames \cup {Empty}]
  BY <1>1, <1>2 DEF Payloads
<1>4. Payloads \in Seq(Frames \cup {Empty}) /\ Len(Payloads) = n
  BY <1>1, <1>3, SeqDef, LenProperties
<1> QED BY <1>1, <1>3, <1>4 DEF Payloads

\* A step that leaves the frames of calls in progress and of the queue leaves the service.
LEMMA ServiceStutters ==
  ASSUME OwnInv, UNCHANGED <<frame, queue, history>>,
         \A t \in Senders : txpc'[t] = "idle" <=> txpc[t] = "idle",
         \A i \in 1..Len(queue) : payload'[queue[i]] = payload[queue[i]]
  PROVE  UNCHANGED service
<1>1. Calling' = Calling
  BY DEF Calling
<1>2. Payloads' = Payloads
  BY PayloadsType DEF Payloads
<1> QED BY <1>1, <1>2 DEF service, history

\* When a call ends the service is rid of its frame and of no other, since no two calls are
\* for one frame.
LEMMA CallEnds ==
  ASSUME SentInv, NEW s \in Senders, txpc[s] # "idle", UNCHANGED frame,
         \A t \in Senders : txpc'[t] = IF t = s THEN "idle" ELSE txpc[t]
  PROVE  frame[s] \in Calling /\ Calling' = Calling \ {frame[s]}
<1>1. frame[s] \in Calling
  BY DEF Calling
<1>2. \A t \in Senders : t # s /\ txpc[t] # "idle" => frame[t] # frame[s]
  BY DEF SentInv
<1> QED BY <1>1, <1>2 DEF Calling

\* The promise of TransmitService in terms of PacketPath.
LEMMA ServiceOf ==
  /\ Service!Call <=> /\ calls' = calls + 1 /\ Calling' = Calling \cup {calls'}
                      /\ UNCHANGED <<accepted, refused, Payloads, sent, dropped>>
  /\ \A f : Service!ReturnOk(f) <=>
       /\ f \in Calling /\ Calling' = Calling \ {f} /\ accepted' = accepted \cup {f}
       /\ Payloads' = Append(Payloads, f) /\ UNCHANGED <<calls, refused, sent, dropped>>
  /\ \A f : Service!ReturnError(f) <=>
       /\ f \in Calling /\ Calling' = Calling \ {f} /\ refused' = refused \cup {f}
       /\ UNCHANGED <<calls, accepted, Payloads, sent, dropped>>
  /\ Service!OnAir <=>
       /\ Payloads # <<>> /\ sent' = Append(sent, Head(Payloads)) /\ Payloads' = Tail(Payloads)
       /\ UNCHANGED <<calls, Calling, accepted, refused, dropped>>
  /\ Service!DropAll <=>
       /\ dropped' = dropped \cup {Payloads[i] : i \in DOMAIN Payloads} /\ Payloads' = <<>>
       /\ UNCHANGED <<calls, Calling, accepted, refused, sent>>
  /\ Service!ANext <=> \/ Service!Call \/ Service!OnAir \/ Service!DropAll
                       \/ \E f \in Calling : Service!ReturnOk(f) \/ Service!ReturnError(f)
BY DEF Service!Call, Service!ReturnOk, Service!ReturnError, Service!OnAir,
       Service!DropAll, Service!ANext, Calling, Payloads

\* A sender's step calls, returns, or is hidden.
LEMMA SenderServes ==
  ASSUME OwnInv, SentInv, NEW s \in Senders, Transmit(s) \/ TxStep(s)
  PROVE  Service!ANext \/ UNCHANGED service
<1>1. CASE Transmit(s)
  <2>1. /\ calls' = calls + 1 /\ UNCHANGED <<queue, payload, accepted, refused, sent, dropped>>
        /\ \A t \in Senders : /\ txpc'[t] = IF t = s THEN "wait" ELSE txpc[t]
                             /\ frame'[t] = IF t = s THEN calls + 1 ELSE frame[t]
        /\ txpc[s] = "idle"
    BY <1>1 DEF Transmit, OwnInv, TypeOK
  <2>2. Calling' = Calling \cup {calls + 1}
    BY <2>1 DEF Calling
  <2>3. Payloads' = Payloads
    BY <2>1 DEF Payloads
  <2> QED BY <2>1, <2>2, <2>3, ServiceOf
<1>2. CASE TxReady(s)
  <2>1. \A t \in Senders : txpc'[t] = "idle" <=> txpc[t] = "idle"
    BY <1>2 DEF TxReady, OwnInv, TypeOK
  <2> QED BY <1>2, <2>1, ServiceStutters DEF TxReady
<1>3. ASSUME NEW p \in TxPkts, TxFill(s, p) PROVE UNCHANGED service
  <2>1. \A t \in Senders : txpc'[t] = "idle" <=> txpc[t] = "idle"
    BY <1>3 DEF TxFill, OwnInv, TypeOK
  <2>2. p \in free /\ payload' = [payload EXCEPT ![p] = frame[s]]
    BY <1>3 DEF TxFill
  <2>3. ~Waiting(p)
    BY <2>2 DEF OwnInv, TxOwners
  <2>4. \A i \in 1..Len(queue) : payload'[queue[i]] = payload[queue[i]]
    BY <2>2, <2>3 DEF Waiting, OwnInv, TypeOK, Packets
  <2> QED BY <1>3, <2>1, <2>4, ServiceStutters DEF TxFill
<1>4. CASE TxBlocked(s) \/ TxNoMem(s) \/ TxRefused(s)
  <2>1. /\ UNCHANGED <<frame, queue, payload, calls, accepted, sent, dropped>>
        /\ refused' = refused \cup {frame[s]} /\ txpc[s] # "idle"
        /\ \A t \in Senders : txpc'[t] = IF t = s THEN "idle" ELSE txpc[t]
    BY <1>4 DEF TxBlocked, TxNoMem, TxRefused, Fail, OwnInv, TypeOK
  <2>2. Payloads' = Payloads
    BY <2>1 DEF Payloads
  <2>3. frame[s] \in Calling /\ Calling' = Calling \ {frame[s]}
    BY <2>1, CallEnds
  <2>4. PICK f : f = frame[s]
    OBVIOUS
  <2>5. f \in Calling /\ Service!ReturnError(f)
    BY <2>1, <2>2, <2>3, <2>4, ServiceOf
  <2> QED BY <2>5, ServiceOf
<1>5. CASE TxQueued(s)
  <2> DEFINE n == Len(queue)
  <2>1. /\ UNCHANGED <<frame, payload, calls, refused, sent, dropped>>
        /\ queue' = Append(queue, pkt[s])
        /\ accepted' = accepted \cup {frame[s]} /\ txpc[s] = "send"
        /\ \A t \in Senders : txpc'[t] = IF t = s THEN "idle" ELSE txpc[t]
    BY <1>5 DEF TxQueued, OwnInv, TypeOK
  <2>2. pkt[s] \in TxPkts /\ payload[pkt[s]] = frame[s]
    BY <2>1 DEF OwnInv, TxOwners, SentInv
  <2>3. frame[s] \in Calling /\ Calling' = Calling \ {frame[s]}
    BY <2>1, CallEnds
  <2>4. /\ Len(queue') = n + 1 /\ n \in Nat /\ DOMAIN queue' = 1..(n + 1)
        /\ \A i \in 1..n : queue'[i] = queue[i]
        /\ queue'[n + 1] = pkt[s]
    BY <2>1, <2>2, Appended, LenProperties DEF OwnInv, TypeOK
  <2>5. frame[s] \in Frames \cup {Empty}
    BY DEF OwnInv, TypeOK
  <2>6. /\ Payloads \in Seq(Frames \cup {Empty}) /\ Len(Payloads) = n
        /\ \A i \in 1..n : Payloads[i] = payload[queue[i]]
    BY PayloadsType
  <2>7. Payloads' = [i \in 1..(n + 1) |-> payload[queue'[i]]]
    BY <2>1, <2>4 DEF Payloads
  <2>8. Append(Payloads, frame[s]) = [i \in 1..(n + 1) |-> IF i = n + 1 THEN frame[s] ELSE Payloads[i]]
    <3> DEFINE a == Append(Payloads, frame[s])
    <3>1. /\ a \in Seq(Frames \cup {Empty}) /\ Len(a) = n + 1 /\ n \in Nat
          /\ \A i \in 1..n : a[i] = Payloads[i]
          /\ a[n + 1] = frame[s]
      BY <2>4, <2>5, <2>6, Appended
    <3>2. a = [i \in 1..(n + 1) |-> a[i]]
      BY <3>1, LenProperties
    <3>3. \A i \in 1..(n + 1) : a[i] = IF i = n + 1 THEN frame[s] ELSE Payloads[i]
      <4>1. \A i \in 1..(n + 1) : i \in 1..n \/ i = n + 1
        BY <3>1
      <4> HIDE DEF a, n
      <4> QED BY <3>1, <4>1
    <3>4. a = [i \in 1..(n + 1) |-> IF i = n + 1 THEN frame[s] ELSE Payloads[i]]
      <4> HIDE DEF a, n
      <4> QED BY <3>2, <3>3
    <3> QED BY <3>4
  <2>9. Payloads' = Append(Payloads, frame[s])
    <3>1. \A i \in 1..(n + 1) : payload[queue'[i]] = IF i = n + 1 THEN frame[s] ELSE Payloads[i]
      <4>1. \A i \in 1..(n + 1) : i \in 1..n \/ i = n + 1
        BY <2>4
      <4> QED BY <4>1, <2>2, <2>4, <2>6
    <3> QED BY <3>1, <2>7, <2>8
  <2>10. PICK f : f = frame[s]
    OBVIOUS
  <2>11. f \in Calling /\ Service!ReturnOk(f)
    BY <2>1, <2>3, <2>9, <2>10, ServiceOf
  <2> QED BY <2>11, ServiceOf
<1> QED BY <1>1, <1>2, <1>3, <1>4, <1>5, ServiceOf DEF TxStep

\* morselib sends the oldest frame or drops them all.
LEMMA MorselibServes ==
  ASSUME OwnInv, SentInv, Send \/ FlowControl \/ Shutdown \/ Boot
  PROVE  Service!ANext \/ UNCHANGED service
<1>1. CASE Send
  <2> DEFINE n == Len(queue)
  <2>1. /\ queue' = Tail(queue) /\ queue # <<>>
        /\ UNCHANGED <<payload, txpc, frame, calls, accepted, refused, dropped>>
        /\ sent' = Append(sent, payload[Head(queue)])
    BY <1>1 DEF Send
  <2>2. /\ n \in Nat \ {0} /\ Len(queue') = n - 1 /\ DOMAIN queue' = 1..(n - 1)
        /\ \A i \in 1..(n - 1) : queue'[i] = queue[i + 1]
        /\ Head(queue) = queue[1]
    BY <2>1, Tailed, LenProperties DEF OwnInv, TypeOK
  <2>3. /\ Payloads \in Seq(Frames \cup {Empty}) /\ Len(Payloads) = n
        /\ \A i \in 1..n : Payloads[i] = payload[queue[i]]
    BY PayloadsType
  <2>4. Payloads # <<>>
    BY <2>2, <2>3
  <2>5. /\ Len(Tail(Payloads)) = n - 1 /\ Tail(Payloads) \in Seq(Frames \cup {Empty})
        /\ \A i \in 1..(n - 1) : Tail(Payloads)[i] = Payloads[i + 1]
        /\ Head(Payloads) = Payloads[1]
    BY <2>3, <2>4, Tailed
  <2>6. Head(Payloads) = payload[Head(queue)]
    BY <2>2, <2>3, <2>5
  <2>7. Payloads' = Tail(Payloads)
    <3>1. Payloads' = [i \in 1..(n - 1) |-> payload[queue'[i]]]
      BY <2>1, <2>2 DEF Payloads
    <3>2. Tail(Payloads) = [i \in 1..(n - 1) |-> Tail(Payloads)[i]]
      BY <2>5, LenProperties
    <3>3. \A i \in 1..(n - 1) : payload[queue'[i]] = Tail(Payloads)[i]
      <4>1. \A i \in 1..(n - 1) : i + 1 \in 1..n
        BY <2>2
      <4> QED BY <4>1, <2>2, <2>3, <2>5
    <3> QED BY <3>1, <3>2, <3>3
  <2>8. Calling' = Calling
    BY <2>1 DEF Calling
  <2> QED BY <2>1, <2>4, <2>6, <2>7, <2>8, ServiceOf
<1>2. CASE FlowControl \/ Boot
  BY <1>2, ServiceStutters DEF FlowControl, Boot
<1>3. CASE Shutdown
  <2>1. /\ queue' = <<>> /\ UNCHANGED <<payload, txpc, frame, calls, accepted, refused, sent>>
        /\ dropped' = dropped \cup {payload[p] : p \in Queued}
    BY <1>3 DEF Shutdown
  <2>2. {payload[p] : p \in Queued} = {Payloads[i] : i \in DOMAIN Payloads}
    BY PayloadsType DEF Queued
  <2>3. Payloads' = <<>>
    BY <2>1 DEF Payloads
  <2>4. Calling' = Calling
    BY <2>1 DEF Calling
  <2> QED BY <2>1, <2>2, <2>3, <2>4, ServiceOf
<1> QED BY <1>1, <1>2, <1>3

\* Every step of the packet path is a step of the service or hidden from it.
LEMMA StepServes ==
  ASSUME OwnInv, SentInv, [Next]_vars
  PROVE  Service!ANext \/ UNCHANGED service
<1>1. UNCHANGED vars => UNCHANGED service
  BY ServiceStutters DEF vars, txVars, history
<1>2. RxStep => UNCHANGED service
  BY ServiceStutters DEF RxStep, RxTaken, RxRefused, RxReturn, txVars, history
<1>3. ASSUME NEW p \in RxPkts, RxOpen(p) \/ FreeRxBuffer(p) PROVE UNCHANGED service
  BY <1>3, ServiceStutters DEF RxOpen, FreeRxBuffer, txVars, history
<1> QED BY <1>1, <1>2, <1>3, SenderServes, MorselibServes DEF Next

\* To the IP stack the packet path is TransmitService: it tells of every frame what becomes
\* of it, and keeps the order.
THEOREM KeepsService == Spec => TransmitAsPromised
<1>1. Init => Service!AInit
  <2> SUFFICES ASSUME Init PROVE Service!AInit
    OBVIOUS
  <2>1. Calling = {} /\ Payloads = <<>>
    BY DEF Init, Calling, Payloads
  <2> QED BY <2>1 DEF Init, Service!AInit, Calling, Payloads
<1>2. OwnInv /\ SentInv /\ [Next]_vars => [Service!ANext]_(Service!avars)
  <2>1. UNCHANGED service => UNCHANGED Service!avars
    BY DEF service, Service!avars, Calling, Payloads
  <2> QED BY <2>1, StepServes
<1> QED BY <1>1, <1>2, Ownership, FramesFollowed, PTL DEF Spec, TransmitAsPromised, Service!ASpec

Elements(q) == {q[i] : i \in DOMAIN q}

\* Every frame there has been a call for is in progress, accepted or refused, in one of these
\* ways only; and every accepted one has been on the air, waits, or was dropped.
Accounted ==
  /\ 1..calls = Calling \cup accepted \cup refused
  /\ Calling \cap (accepted \cup refused) = {} /\ accepted \cap refused = {}
  /\ accepted = Elements(sent) \cup Elements(Payloads) \cup dropped

\* An appended element joins those of a sequence.
LEMMA AppendElement ==
  ASSUME NEW S, NEW q \in Seq(S), NEW e \in S
  PROVE  Elements(Append(q, e)) = Elements(q) \cup {e}
<1> DEFINE n == Len(q)  a == Append(q, e)
<1>1. /\ n \in Nat /\ DOMAIN q = 1..n /\ DOMAIN a = 1..(n + 1)
      /\ \A i \in 1..n : a[i] = q[i]
      /\ a[n + 1] = e
  BY Appended, LenProperties
<1>2. \A i \in 1..(n + 1) : i \in 1..n \/ i = n + 1
  BY <1>1
<1>3. 1..n \subseteq 1..(n + 1) /\ n + 1 \in 1..(n + 1)
  BY <1>1
<1> HIDE DEF a, n
<1>4. Elements(a) = Elements(q) \cup {e}
  BY <1>1, <1>2, <1>3 DEF Elements
<1> QED BY <1>4 DEF a

\* The head and the tail have all the elements of a sequence.
LEMMA TailElements ==
  ASSUME NEW S, NEW q \in Seq(S), q # <<>>
  PROVE  Elements(q) = {Head(q)} \cup Elements(Tail(q))
<1> DEFINE n == Len(q)  t == Tail(q)
<1>1. /\ n \in Nat \ {0} /\ DOMAIN q = 1..n /\ DOMAIN t = 1..(n - 1)
      /\ \A i \in 1..(n - 1) : t[i] = q[i + 1]
      /\ Head(q) = q[1]
  BY Tailed, LenProperties
<1>2. /\ 1 \in 1..n /\ \A i \in 1..(n - 1) : i + 1 \in 1..n
      /\ \A i \in 1..n : i = 1 \/ (i - 1 \in 1..(n - 1) /\ (i - 1) + 1 = i)
  BY <1>1
<1> HIDE DEF t, n
<1>3. Elements(q) = {Head(q)} \cup Elements(t)
  <2>1. ASSUME NEW i \in 1..n, i # 1 PROVE q[i] \in Elements(t)
    <3>1. i - 1 \in DOMAIN t /\ t[i - 1] = q[i]
      BY <2>1, <1>1, <1>2
    <3> QED BY <3>1 DEF Elements
  <2>2. Head(q) \in Elements(q) /\ \A i \in 1..(n - 1) : t[i] \in Elements(q)
    BY <1>1, <1>2 DEF Elements
  <2> QED BY <2>1, <2>2, <1>1 DEF Elements
<1> QED BY <1>3 DEF t

\* No frame is forgotten, whatever fails and whenever the interface is shut down: this holds
\* of the service, so of the packet path that keeps it.
THEOREM NoFrameForgotten == Spec => []Accounted
<1>1. Init => Accounted
  <2> SUFFICES ASSUME Init PROVE Accounted
    OBVIOUS
  <2>1. Calling = {} /\ Payloads = <<>> /\ 1..calls = {}
    BY DEF Init, Calling, Payloads
  <2>2. Elements(<<>>) = {}
    BY DEF Elements
  <2> QED BY <2>1, <2>2 DEF Init, Accounted
<1>2. OwnInv /\ SentInv /\ Accounted /\ [Next]_vars => Accounted'
  <2> SUFFICES ASSUME OwnInv, SentInv, Accounted, [Next]_vars PROVE Accounted'
    OBVIOUS
  <2>1. Service!ANext \/ UNCHANGED service
    BY StepServes
  <2>2. /\ calls \in Nat /\ sent \in Seq(Frames \cup {Empty})
        /\ Payloads \in Seq(Frames \cup {Empty}) /\ Calling \subseteq 1..calls
        /\ Calling \subseteq Frames \cup {Empty} /\ Elements(<<>>) = {}
    <3>1. calls \in Nat /\ sent \in Seq(Frames \cup {Empty})
      BY FramesAssumption DEF OwnInv, TypeOK
    <3>2. Calling \subseteq Frames \cup {Empty}
      BY DEF Calling, OwnInv, TypeOK
    <3> QED BY <3>1, <3>2, PayloadsType DEF Accounted, Elements
  <2>3. CASE UNCHANGED service
    BY <2>3 DEF service, Accounted, Elements
  <2>4. CASE Service!Call
    <3>1. /\ calls' = calls + 1 /\ Calling' = Calling \cup {calls + 1}
          /\ UNCHANGED <<accepted, refused, Payloads, sent, dropped>>
      BY <2>4, ServiceOf
    <3>2. 1..(calls + 1) = 1..calls \cup {calls + 1} /\ calls + 1 \notin 1..calls
      BY <2>2
    <3> QED BY <3>1, <3>2 DEF Accounted, Elements
  <2>5. ASSUME NEW f \in Calling, Service!ReturnOk(f) PROVE Accounted'
    <3>1. /\ Calling' = Calling \ {f} /\ accepted' = accepted \cup {f}
          /\ Payloads' = Append(Payloads, f) /\ UNCHANGED <<calls, refused, sent, dropped>>
      BY <2>5, ServiceOf
    <3>2. Elements(Append(Payloads, f)) = Elements(Payloads) \cup {f}
      BY <2>2, AppendElement
    <3>3. Elements(Payloads)' = Elements(Payloads) \cup {f} /\ Elements(sent)' = Elements(sent)
      BY <3>1, <3>2 DEF Elements
    <3> QED BY <3>1, <3>3 DEF Accounted
  <2>6. ASSUME NEW f \in Calling, Service!ReturnError(f) PROVE Accounted'
    <3>1. /\ Calling' = Calling \ {f} /\ refused' = refused \cup {f}
          /\ UNCHANGED <<calls, accepted, Payloads, sent, dropped>>
      BY <2>6, ServiceOf
    <3> QED BY <3>1 DEF Accounted, Elements
  <2>7. CASE Service!OnAir
    <3>1. /\ Payloads # <<>> /\ sent' = Append(sent, Head(Payloads)) /\ Payloads' = Tail(Payloads)
          /\ UNCHANGED <<calls, Calling, accepted, refused, dropped>>
      BY <2>7, ServiceOf
    <3>2. Head(Payloads) \in Frames \cup {Empty}
      BY <2>2, <3>1, Tailed
    <3>3. Elements(Append(sent, Head(Payloads))) = Elements(sent) \cup {Head(Payloads)}
      BY <2>2, <3>2, AppendElement
    <3>4. Elements(Payloads) = {Head(Payloads)} \cup Elements(Tail(Payloads))
      BY <2>2, <3>1, TailElements
    <3>5. /\ Elements(sent)' = Elements(sent) \cup {Head(Payloads)}
          /\ Elements(Payloads) = {Head(Payloads)} \cup Elements(Payloads)'
      BY <3>1, <3>3, <3>4 DEF Elements
    <3> QED BY <3>1, <3>5 DEF Accounted
  <2>8. CASE Service!DropAll
    <3>1. /\ dropped' = dropped \cup Elements(Payloads) /\ Payloads' = <<>>
          /\ UNCHANGED <<calls, Calling, accepted, refused, sent>>
      BY <2>8, ServiceOf DEF Elements
    <3>2. Elements(Payloads)' = {} /\ Elements(sent)' = Elements(sent)
      BY <2>2, <3>1 DEF Elements
    <3> QED BY <3>1, <3>2 DEF Accounted
  <2> QED BY <2>1, <2>3, <2>4, <2>5, <2>6, <2>7, <2>8, ServiceOf
<1> QED BY <1>1, <1>2, Ownership, FramesFollowed, PTL DEF Spec
=============================================================================
