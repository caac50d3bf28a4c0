----------------------------- MODULE ByteQueue -----------------------------
(***************************************************************************)
(* What one direction of a serial port promises.  Bytes carry the numbers  *)
(* 1, 2, 3, ... in the order in which the driver takes them in; "accepted" *)
(* is the last number taken in and "delivered" the last one done with, so  *)
(* the driver holds exactly delivered+1 .. accepted, in that order.        *)
(*                                                                         *)
(* "handed" counts every byte handed on and "dropped" every byte thrown    *)
(* away by a reset, so that no step of either kind can pass for a stutter: *)
(* handing on the same byte again, or another than the oldest, is no step  *)
(* of this module, and what is held is lost only together with a change of *)
(* "dropped", which the modules below let nothing but a reset command do.  *)
(***************************************************************************)
EXTENDS Naturals

CONSTANT Capacity   \* bytes the driver can hold between its two ends

VARIABLES accepted, delivered, handed, dropped
queue == <<accepted, delivered, handed, dropped>>

Init == accepted = 0 /\ delivered = 0 /\ handed = 0 /\ dropped = 0

(* A byte is taken in and kept. *)
Accept ==
  /\ accepted < delivered + Capacity
  /\ accepted' = accepted + 1
  /\ UNCHANGED <<delivered, handed, dropped>>

(* The oldest byte held is handed on. *)
Deliver ==
  /\ delivered < accepted
  /\ delivered' = delivered + 1
  /\ handed'    = handed + 1
  /\ UNCHANGED <<accepted, dropped>>

(* A byte passes straight through; none older may be held back. *)
PassThrough ==
  /\ accepted = delivered
  /\ accepted'  = accepted + 1
  /\ delivered' = delivered + 1
  /\ handed'    = handed + 1
  /\ UNCHANGED dropped

(* A reset drops everything held. *)
Flush ==
  /\ dropped'   = dropped + (accepted - delivered)
  /\ delivered' = accepted
  /\ UNCHANGED <<accepted, handed>>

Next == Accept \/ Deliver \/ PassThrough \/ Flush

Spec == Init /\ [][Next]_queue
=============================================================================
