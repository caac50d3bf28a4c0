---------------------------- MODULE Distributor ----------------------------
(* What the interrupt controller promises to the cores that share it: every   *)
(* step concerns one shared interrupt and leaves all others as they were. An  *)
(* interrupt is claimed by a core while nobody has it, it is switched on only  *)
(* while somebody has it and its priority is set, and it is switched off only  *)
(* after it was given up.                                                      *)
EXTENDS FiniteSets

CONSTANTS Spis,    \* shared interrupts
          Cores,   \* cores that may own one
          None     \* nobody

VARIABLES owner,   \* the core that takes an interrupt, or None
          ready,   \* interrupts whose priority is set
          edge,    \* interrupts that are edge-triggered
          on       \* interrupts that are switched on

vars == <<owner, ready, edge, on>>

Init ==
  /\ owner = [s \in Spis |-> None]
  /\ ready = {} /\ edge = {} /\ on = {}

Claim(c, s) ==
  /\ owner[s] = None /\ s \notin on
  /\ owner' = [owner EXCEPT ![s] = c]
  /\ UNCHANGED <<ready, edge, on>>

SetPriority(s) ==
  /\ owner[s] # None
  /\ ready' = ready \cup {s}
  /\ UNCHANGED <<owner, edge, on>>

SwitchOn(s) ==
  /\ owner[s] # None /\ s \in ready
  /\ on' = on \cup {s}
  /\ UNCHANGED <<owner, ready, edge>>

GiveUp(s) ==
  /\ owner[s] # None /\ s \in on
  /\ owner' = [owner EXCEPT ![s] = None]
  /\ UNCHANGED <<ready, edge, on>>

SwitchOff(s) ==
  /\ owner[s] = None
  /\ on' = on \ {s}
  /\ UNCHANGED <<owner, ready, edge>>

SetType(s) ==
  /\ edge' \in {edge \cup {s}, edge \ {s}}
  /\ UNCHANGED <<owner, ready, on>>

Next ==
  \E s \in Spis :
    \/ \E c \in Cores : Claim(c, s)
    \/ SetPriority(s) \/ SwitchOn(s)
    \/ GiveUp(s) \/ SwitchOff(s)
    \/ SetType(s)

Spec == Init /\ [][Next]_vars

=============================================================================
