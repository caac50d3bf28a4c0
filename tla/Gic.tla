-------------------------------- MODULE Gic --------------------------------
(* Shared interrupts of the interrupt controller (DDR_CortexA_GIC.c), used by  *)
(* several cores: ena_int, dis_int and _ddr_gic_int_type. A register holds the  *)
(* fields of several interrupts and is updated by a load and a store, so the    *)
(* spin lock _ddr_gic_flag must keep two cores from updating one register at    *)
(* once. Each load and each store of a register is a step. _kernel_lock keeps   *)
(* the interrupts and the dispatcher of the own core out, so that a core is in  *)
(* at most one call.                                                            *)
EXTENDS Naturals, FiniteSets

CONSTANTS
  Cores,       \* cores that run this kernel
  Useable,     \* those in USEABLE_CORE_MASK
  Remote,      \* REMOTE_CORE_ID, a core of another system, or None
  None,
  Spis,        \* shared interrupts (32 <= intno < CFG_GIC_INTNUM_MAX)
  Iptr, Ipr, Icfr   \* which register (IPTR, IPR, ICFR) an interrupt's field is in

ASSUME CoresAssumption == None \notin Cores /\ Remote \notin Cores /\ Useable \subseteq Cores

VARIABLES
  flag,        \* _ddr_gic_flag: the core that holds the spin lock
  iptr,        \* the cores an interrupt is sent to
  ipr,         \* interrupts whose priority field holds the one of vinftbl
  icfr,        \* interrupts that are edge-triggered
  iser,        \* interrupts that are enabled
  pc,          \* where a core is
  call,        \* its call: operation, interrupt and type
  val,         \* val while it holds a loaded IPTR word
  bits,        \* val while it holds a loaded IPR or ICFR word
  ercd,        \* the result of its call so far
  mine         \* history: interrupts the core has been told are its own

regs == <<iptr, ipr, icfr, iser>>
vars == <<flag, regs, pc, call, val, bits, ercd, mine>>

Ops   == {"ena", "dis", "type"}
Types == {"level", "edge", "bad"}
Places == {"idle", "lock", "enter", "claim", "pri", "setpri", "enable",
           "drop", "disable", "type", "unlock"}
Calls == [op : Ops, spi : Spis, type : Types]
NoCall == [op |-> "none", spi |-> None, type |-> "none"]

TypeOK ==
  /\ flag \in Cores \cup {None}
  /\ iptr \in [Spis -> SUBSET (Cores \cup ({Remote} \ {None}))]
  /\ ipr \subseteq Spis /\ icfr \subseteq Spis /\ iser \subseteq Spis
  /\ pc \in [Cores -> Places]
  /\ call \in [Cores -> Calls \cup {NoCall}]
  /\ val \in [Cores -> [Spis -> SUBSET (Cores \cup ({Remote} \ {None}))]]
  /\ bits \in [Cores -> SUBSET Spis]
  /\ ercd \in [Cores -> {"E_OK", "E_PAR"}]
  /\ mine \in [Cores -> SUBSET Spis]

Released == IF Remote = None THEN {} ELSE {Remote}
Nothing == [s \in Spis |-> {}]

\* init_master_core.
Init ==
  /\ flag = None
  /\ iptr = [s \in Spis |-> Released]
  /\ ipr = {} /\ icfr = {} /\ iser = {}
  /\ pc = [c \in Cores |-> "idle"]
  /\ call = [c \in Cores |-> NoCall]
  /\ val = [c \in Cores |-> Nothing]
  /\ bits = [c \in Cores |-> {}]
  /\ ercd = [c \in Cores |-> "E_OK"]
  /\ mine = [c \in Cores |-> {}]

(****************************************************************************)
(* Registers of several fields                                                *)
(****************************************************************************)

\* (Seeded fault) The new field is stored without the rest of the word.
StoreTargetsAlone(word, s, cores) ==
  [t \in Spis |-> IF t = s THEN cores
                  ELSE IF Iptr[t] = Iptr[s] THEN {} ELSE iptr[t]]

\* Storing a word writes every field in it.
StoreTargets(word, s, cores) ==
  [t \in Spis |-> IF t = s THEN cores
                  ELSE IF Iptr[t] = Iptr[s] THEN word[t] ELSE iptr[t]]

StoreBits(file, old, word) ==
  {t \in Spis : t \in IF file[t] THEN word ELSE old}

InWord(file, s) == [t \in Spis |-> file[t] = file[s]]

Goto(c, place) == pc' = [pc EXCEPT ![c] = place]
At(c, place) == pc[c] = place
\* (Seeded fault) The error return is taken without giving the lock back.
FailHolding(c) == ercd' = [ercd EXCEPT ![c] = "E_PAR"] /\ Goto(c, "idle")

Fail(c) == ercd' = [ercd EXCEPT ![c] = "E_PAR"] /\ Goto(c, "unlock")

(****************************************************************************)
(* The spin lock                                                              *)
(****************************************************************************)

\* A call on a shared interrupt.
Begin(c) ==
  /\ At(c, "idle")
  /\ \E op \in Ops, s \in Spis, type \in Types :
       /\ op # "type" => type = "level"
       /\ call' = [call EXCEPT ![c] = [op |-> op, spi |-> s, type |-> type]]
  /\ Goto(c, "lock")
  /\ UNCHANGED <<flag, regs, val, bits, ercd, mine>>

\* (Seeded fault) The empty SPIN_LOCK of a single-core build.
SpinFreeNever(c) == TRUE

\* ldrex / strex: some core that sees the flag free gets it.
SpinFree(c) == flag = None

Lock(c) ==
  /\ At(c, "lock") /\ SpinFree(c)
  /\ flag' = c
  /\ Goto(c, "enter")
  /\ UNCHANGED <<regs, call, val, bits, ercd, mine>>

\* The lock is given back, and the core learns the result.
Unlock(c) ==
  /\ At(c, "unlock")
  /\ flag' = IF flag = c THEN None ELSE flag
  /\ \/ ercd[c] = "E_OK" /\ call[c].op = "ena" /\ mine' = [mine EXCEPT ![c] = @ \cup {call[c].spi}]
     \/ ercd[c] = "E_OK" /\ call[c].op = "dis" /\ mine' = [mine EXCEPT ![c] = @ \ {call[c].spi}]
     \/ (ercd[c] = "E_PAR" \/ call[c].op = "type") /\ UNCHANGED mine
  /\ call' = [call EXCEPT ![c] = NoCall]
  /\ ercd' = [ercd EXCEPT ![c] = "E_OK"]
  /\ Goto(c, "idle")
  /\ UNCHANGED <<regs, val, bits>>

(****************************************************************************)
(* ena_int                                                                    *)
(****************************************************************************)

\* (Seeded fault) Only the own bit of the target field is looked at.
MayClaimOwn(c, s) == c \in Useable /\ c \notin iptr[s]

\* The target field is read; only an unclaimed interrupt may be claimed.
MayClaim(c, s) == c \in Useable /\ iptr[s] \cap Useable = {}

EnaLoad(c) ==
  /\ At(c, "enter") /\ call[c].op = "ena"
  /\ IF MayClaim(c, call[c].spi)
       THEN /\ val' = [val EXCEPT ![c] = iptr]
            /\ Goto(c, "claim")
            /\ UNCHANGED ercd
       ELSE Fail(c) /\ UNCHANGED val
  /\ UNCHANGED <<flag, regs, call, bits, mine>>

EnaClaim(c) ==
  /\ At(c, "claim")
  /\ iptr' = StoreTargets(val[c], call[c].spi, {c})
  /\ val' = [val EXCEPT ![c] = Nothing]
  /\ Goto(c, "pri")
  /\ UNCHANGED <<flag, ipr, icfr, iser, call, bits, ercd, mine>>

\* The priority field is compared, and stored only if it differs.
EnaPri(c) ==
  /\ At(c, "pri")
  /\ IF call[c].spi \in ipr
       THEN Goto(c, "enable") /\ UNCHANGED bits
       ELSE Goto(c, "setpri") /\ bits' = [bits EXCEPT ![c] = ipr]
  /\ UNCHANGED <<flag, regs, call, val, ercd, mine>>

EnaSetPri(c) ==
  /\ At(c, "setpri")
  /\ ipr' = StoreBits(InWord(Ipr, call[c].spi), ipr, bits[c] \cup {call[c].spi})
  /\ bits' = [bits EXCEPT ![c] = {}]
  /\ Goto(c, "enable")
  /\ UNCHANGED <<flag, iptr, icfr, iser, call, val, ercd, mine>>

\* ISER: writing a one enables that interrupt alone.
EnaEnable(c) ==
  /\ At(c, "enable")
  /\ iser' = iser \cup {call[c].spi}
  /\ ercd' = [ercd EXCEPT ![c] = "E_OK"]
  /\ Goto(c, "unlock")
  /\ UNCHANGED <<flag, iptr, ipr, icfr, call, val, bits, mine>>

(****************************************************************************)
(* dis_int                                                                    *)
(****************************************************************************)

MayDrop(c, s) == c \in Useable /\ c \in iptr[s]

DisLoad(c) ==
  /\ At(c, "enter") /\ call[c].op = "dis"
  /\ IF MayDrop(c, call[c].spi)
       THEN /\ val' = [val EXCEPT ![c] = iptr]
            /\ Goto(c, "drop")
            /\ UNCHANGED ercd
       ELSE Fail(c) /\ UNCHANGED val
  /\ UNCHANGED <<flag, regs, call, bits, mine>>

DisDrop(c) ==
  /\ At(c, "drop")
  /\ LET s == call[c].spi
     IN iptr' = StoreTargets(val[c], s, (val[c][s] \ Useable) \cup Released)
  /\ val' = [val EXCEPT ![c] = Nothing]
  /\ Goto(c, "disable")
  /\ UNCHANGED <<flag, ipr, icfr, iser, call, bits, ercd, mine>>

DisDisable(c) ==
  /\ At(c, "disable")
  /\ iser' = iser \ {call[c].spi}
  /\ ercd' = [ercd EXCEPT ![c] = "E_OK"]
  /\ Goto(c, "unlock")
  /\ UNCHANGED <<flag, iptr, ipr, icfr, call, val, bits, mine>>

(****************************************************************************)
(* _ddr_gic_int_type                                                          *)
(****************************************************************************)

TypeLoad(c) ==
  /\ At(c, "enter") /\ call[c].op = "type"
  /\ bits' = [bits EXCEPT ![c] = icfr]
  /\ Goto(c, "type")
  /\ UNCHANGED <<flag, regs, call, val, ercd, mine>>

\* An unknown type is refused, but the word is stored all the same.
TypeStore(c) ==
  /\ At(c, "type")
  /\ LET s == call[c].spi
         word == {t \in Spis : IF t = s /\ call[c].type # "bad"
                                 THEN call[c].type = "edge" ELSE t \in bits[c]}
     IN icfr' = StoreBits(InWord(Icfr, s), icfr, word)
  /\ ercd' = [ercd EXCEPT ![c] = IF call[c].type = "bad" THEN "E_PAR" ELSE "E_OK"]
  /\ bits' = [bits EXCEPT ![c] = {}]
  /\ Goto(c, "unlock")
  /\ UNCHANGED <<flag, iptr, ipr, iser, call, val, mine>>

(****************************************************************************)
(* The system                                                                 *)
(****************************************************************************)

Work(c) ==
  \/ EnaLoad(c) \/ EnaClaim(c) \/ EnaPri(c) \/ EnaSetPri(c) \/ EnaEnable(c)
  \/ DisLoad(c) \/ DisDrop(c) \/ DisDisable(c)
  \/ TypeLoad(c) \/ TypeStore(c)
  \/ Unlock(c)

Next == \E c \in Cores : Begin(c) \/ Lock(c) \/ Work(c)

Spec == Init /\ [][Next]_vars

\* A core that is in a call goes on; of the cores that spin for a free lock one
\* gets it (not any given one). No core has to call anything.
Fairness ==
  /\ \A c \in Cores : WF_vars(Work(c))
  /\ WF_vars(\E c \in Cores : Lock(c))

FairSpec == Spec /\ Fairness

(****************************************************************************)
(* Properties                                                                 *)
(****************************************************************************)

Owners(s) == iptr[s] \cap Useable
Taker(field) == IF field \cap Useable = {} THEN None ELSE CHOOSE c \in field \cap Useable : TRUE
Owner(s) == Taker(iptr[s])

\* The registers, shared by all cores and updated word by word, behave as one
\* controller whose every step concerns a single interrupt: no claim, priority or
\* type of another interrupt in the same word is lost (ena_int, dis_int and
\* _ddr_gic_int_type under SPIN_LOCK).
Controller ==
  INSTANCE Distributor
    WITH owner <- [s \in Spis |-> Owner(s)],
         ready <- ipr, edge <- icfr, on <- iser

IsDistributor == Controller!Spec

\* What ena_int and dis_int have told a core stays true, whatever other cores
\* call: the interrupts it enabled and has not disabled are those sent to it, to
\* it alone, enabled and at their priority.
ResultsHold ==
  \A c \in Cores :
    pc[c] \in {"idle", "lock"} =>
      /\ mine[c] = {s \in Spis : c \in iptr[s]}
      /\ \A s \in mine[c] : iptr[s] = {c} /\ s \in iser /\ s \in ipr

\* Whenever no core is inside a call, the enabled interrupts are those that some
\* core takes: none is enabled without a taker or taken without being enabled.
NoStrayInterrupt ==
  flag = None => iser = {s \in Spis : Owners(s) # {}}

\* A core that spins for the lock means that some core gets it, and every call
\* that got it returns, with or without an error.
CallsEnd ==
  /\ (\E c \in Cores : At(c, "lock")) ~> (\E c \in Cores : At(c, "enter"))
  /\ \A c \in Cores : At(c, "enter") ~> At(c, "idle")

=============================================================================
