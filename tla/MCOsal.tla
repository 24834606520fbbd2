------------------------------- MODULE MCOsal -------------------------------
(* Two periods, of which a change takes one to the other. *)
EXTENDS Osal

SomePeriods == {1, 2}
=============================================================================
