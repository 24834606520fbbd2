--------------------------- MODULE TransmitService ---------------------------
(***************************************************************************)
(* What transmit() of mmhalow.cpp promises the IP stack, without packets,  *)
(* pools and senders.  A call ends with ESP_OK or an error.  Frames whose  *)
(* call ended with ESP_OK wait in that order, and go on the air in that    *)
(* order and once, unless a shutdown drops all that wait; a frame whose    *)
(* call ended with an error does neither.  Any number of calls may be in   *)
(* progress and they may end in any order.                                 *)
(***************************************************************************)
EXTENDS Naturals, Sequences

VARIABLES calls,     \* how many there have been; the n-th is for frame n
          open,      \* frames whose call is in progress
          accepted,  \* frames whose call returned ESP_OK
          refused,   \* frames whose call returned an error
          pending,   \* the accepted frames that wait, the oldest first
          sent,      \* what has been on the air, in order
          dropped    \* frames a shutdown dropped

avars == <<calls, open, accepted, refused, pending, sent, dropped>>

AInit ==
  /\ calls = 0
  /\ open = {} /\ accepted = {} /\ refused = {} /\ dropped = {}
  /\ pending = <<>> /\ sent = <<>>

Call ==
  /\ calls' = calls + 1
  /\ open' = open \cup {calls'}
  /\ UNCHANGED <<accepted, refused, pending, sent, dropped>>

ReturnOk(f) ==
  /\ f \in open
  /\ open' = open \ {f}
  /\ accepted' = accepted \cup {f}
  /\ pending' = Append(pending, f)
  /\ UNCHANGED <<calls, refused, sent, dropped>>

ReturnError(f) ==
  /\ f \in open
  /\ open' = open \ {f}
  /\ refused' = refused \cup {f}
  /\ UNCHANGED <<calls, accepted, pending, sent, dropped>>

OnAir ==
  /\ pending # <<>>
  /\ sent' = Append(sent, Head(pending))
  /\ pending' = Tail(pending)
  /\ UNCHANGED <<calls, open, accepted, refused, dropped>>

DropAll ==
  /\ dropped' = dropped \cup {pending[i] : i \in DOMAIN pending}
  /\ pending' = <<>>
  /\ UNCHANGED <<calls, open, accepted, refused, sent>>

ANext == Call \/ (\E f \in open : ReturnOk(f) \/ ReturnError(f)) \/ OnAir \/ DropAll

ASpec == AInit /\ [][ANext]_avars
=============================================================================
