------------------------------ MODULE Gic_proofs ------------------------------
(* For every number of cores and interrupts and every layout of the registers:  *)
(* the spin lock excludes, the registers implement Distributor, and what        *)
(* ena_int and dis_int told a core stays true.                                  *)
EXTENDS Gic, TLAPS

(****************************************************************************)
(* The inductive invariant                                                    *)
(****************************************************************************)

\* Between Lock and Unlock a core is the one that holds the flag.
Exclusion == \A c \in Cores : pc[c] \notin {"idle", "lock"} <=> flag = c

\* A core in a call has one, and its place fits the operation.
CallsFit ==
  \A c \in Cores :
    /\ pc[c] # "idle" => call[c] \in Calls
    /\ pc[c] \in {"claim", "pri", "setpri", "enable"} => call[c].op = "ena"
    /\ pc[c] \in {"drop", "disable"} => call[c].op = "dis"
    /\ pc[c] = "type" => call[c].op = "type"

\* A loaded word is what the register still holds.
WordsFresh ==
  \A c \in Cores :
    /\ pc[c] \in {"claim", "drop"} => val[c] = iptr
    /\ pc[c] = "setpri" => bits[c] = ipr
    /\ pc[c] = "type" => bits[c] = icfr

\* A target field is free or names one core of this system.
FieldsSingle ==
  \A s \in Spis : iptr[s] = Released \/ \E c \in Useable : iptr[s] = {c}

\* What each stage of a call knows of its interrupt.
StagesOK ==
  \A c \in Cores :
    LET s == call[c].spi
    IN /\ pc[c] = "claim" => iptr[s] = Released /\ c \in Useable
       /\ pc[c] \in {"pri", "setpri", "enable"} => iptr[s] = {c} /\ s \notin iser
       /\ pc[c] = "enable" => s \in ipr
       /\ pc[c] = "drop" => iptr[s] = {c}
       /\ pc[c] = "disable" => iptr[s] = Released
       /\ pc[c] = "unlock" /\ ercd[c] = "E_OK" /\ call[c].op = "ena" => iptr[s] = {c}
       /\ pc[c] = "unlock" /\ ercd[c] = "E_OK" /\ call[c].op = "dis" => iptr[s] = Released

\* c is between the change of the target field of s and that of its enable bit.
Between(c, s) ==
  pc[c] \in {"pri", "setpri", "enable", "disable"} /\ call[c].spi = s

\* Enabled interrupts have a taker and their priority, and the other way round.
EnabledOwned ==
  \A s \in Spis :
    /\ s \in iser => s \in ipr
    /\ (\A c \in Cores : ~Between(c, s)) => (s \in iser <=> iptr[s] # Released)

\* c has changed the target field of s and not yet returned.
Unreported(c, s) ==
  \/ Between(c, s)
  \/ pc[c] = "unlock" /\ ercd[c] = "E_OK" /\ call[c].op # "type" /\ call[c].spi = s

MineTrue ==
  \A c \in Cores, s \in Spis :
    ~Unreported(c, s) => (s \in mine[c] <=> iptr[s] = {c})

(****************************************************************************)
(* Type correctness and mutual exclusion                                      *)
(****************************************************************************)

\* The part of the invariant that these need.
Frame == TypeOK /\ Exclusion /\ CallsFit /\ WordsFresh

USE DEF At, Goto

LEMMA InitFrame == Init => Frame
BY CoresAssumption
DEF Init, Frame, TypeOK, Exclusion, CallsFit, WordsFresh, Places, Calls, Released, Nothing

\* A core between Lock and Unlock is alone there.
LEMMA Alone ==
  ASSUME Exclusion, NEW c \in Cores, pc[c] \notin {"idle", "lock"}
  PROVE  flag = c /\ \A d \in Cores : d # c => pc[d] \in {"idle", "lock"}
BY DEF Exclusion

LEMMA FrameLock ==
  ASSUME Frame, NEW c \in Cores, Begin(c) \/ Lock(c) \/ Unlock(c)
  PROVE  Frame'
<1> USE DEF Frame
<1>1. CASE Begin(c)
  <2>1. PICK op \in Ops, s \in Spis, type \in Types :
          call' = [call EXCEPT ![c] = [op |-> op, spi |-> s, type |-> type]]
    BY <1>1 DEF Begin
  <2>2. [op |-> op, spi |-> s, type |-> type] \in Calls
    BY DEF Calls
  <2>3. TypeOK'
    BY <1>1, <2>1, <2>2 DEF Begin, TypeOK, Places, regs
  <2>4. Exclusion' /\ WordsFresh'
    BY <1>1 DEF Begin, TypeOK, Exclusion, WordsFresh, regs
  <2>5. CallsFit'
    BY <1>1, <2>1, <2>2 DEF Begin, TypeOK, CallsFit
  <2> QED
    BY <2>3, <2>4, <2>5
<1>2. CASE Lock(c)
  <2>1. TypeOK'
    BY <1>2 DEF Lock, TypeOK, Places, regs
  <2>2. Exclusion'
    BY <1>2, CoresAssumption DEF Lock, SpinFree, TypeOK, Exclusion
  <2>3. CallsFit' /\ WordsFresh'
    BY <1>2 DEF Lock, TypeOK, CallsFit, WordsFresh, regs
  <2> QED
    BY <2>1, <2>2, <2>3
<1>3. CASE Unlock(c)
  <2>1. flag = c /\ call[c] \in Calls /\ pc[c] \in {"unlock"}
    BY <1>3 DEF Unlock, Exclusion, CallsFit
  <2>2. mine' \in [Cores -> SUBSET Spis]
    BY <1>3, <2>1 DEF Unlock, TypeOK, Calls
  <2>3. TypeOK'
    BY <1>3, <2>2 DEF Unlock, TypeOK, Places, regs
  <2>4. Exclusion'
    BY <1>3, <2>1, CoresAssumption DEF Unlock, TypeOK, Exclusion
  <2>5. CallsFit' /\ WordsFresh'
    BY <1>3 DEF Unlock, TypeOK, CallsFit, WordsFresh, regs
  <2> QED
    BY <2>3, <2>4, <2>5
<1> QED
  BY <1>1, <1>2, <1>3

LEMMA FrameEna ==
  ASSUME Frame, NEW c \in Cores,
         EnaLoad(c) \/ EnaClaim(c) \/ EnaPri(c) \/ EnaSetPri(c) \/ EnaEnable(c)
  PROVE  Frame'
<1> USE DEF Frame, EnaLoad, EnaClaim, EnaPri, EnaSetPri, EnaEnable, Fail
<1>1. /\ flag = c /\ call[c] \in Calls /\ call[c].op = "ena" /\ call[c].spi \in Spis
      /\ \A d \in Cores : d # c => pc[d] \in {"idle", "lock"}
  BY DEF Exclusion, CallsFit, Calls
<1>2. UNCHANGED <<flag, call, mine, icfr>>
  BY DEF regs
<1>3. \E place \in {"claim", "pri", "setpri", "enable", "unlock"} :
        pc' = [pc EXCEPT ![c] = place]
  OBVIOUS
<1>4. Exclusion' /\ CallsFit'
  BY <1>1, <1>2, <1>3 DEF TypeOK, Exclusion, CallsFit
<1>5. WordsFresh'
  BY <1>1, <1>2 DEF TypeOK, WordsFresh, regs
<1>6. TypeOK'
  <2>1. iptr' \in [Spis -> SUBSET (Cores \cup ({Remote} \ {None}))]
    BY <1>1 DEF TypeOK, StoreTargets, regs
  <2>2. ipr' \subseteq Spis /\ iser' \subseteq Spis
    BY <1>1 DEF TypeOK, StoreBits, regs
  <2>3. val' \in [Cores -> [Spis -> SUBSET (Cores \cup ({Remote} \ {None}))]]
    BY DEF TypeOK, Nothing
  <2>4. bits' \in [Cores -> SUBSET Spis]
    BY DEF TypeOK
  <2>5. pc' \in [Cores -> Places] /\ ercd' \in [Cores -> {"E_OK", "E_PAR"}]
    BY DEF TypeOK, Places
  <2> QED
    BY <1>2, <2>1, <2>2, <2>3, <2>4, <2>5 DEF TypeOK
<1> QED
  BY <1>4, <1>5, <1>6

LEMMA FrameDis ==
  ASSUME Frame, NEW c \in Cores,
         DisLoad(c) \/ DisDrop(c) \/ DisDisable(c) \/ TypeLoad(c) \/ TypeStore(c)
  PROVE  Frame'
<1> USE DEF Frame, DisLoad, DisDrop, DisDisable, TypeLoad, TypeStore, Fail
<1>1. /\ flag = c /\ call[c] \in Calls /\ call[c].spi \in Spis
      /\ \A d \in Cores : d # c => pc[d] \in {"idle", "lock"}
  BY DEF Exclusion, CallsFit, Calls
<1>2. UNCHANGED <<flag, call, mine, ipr>>
  BY DEF regs
<1>3. \E place \in {"drop", "disable", "type", "unlock"} :
        /\ pc' = [pc EXCEPT ![c] = place]
        /\ place \in {"drop", "disable"} => call[c].op = "dis"
        /\ place = "type" => call[c].op = "type"
  BY DEF CallsFit
<1>4. Exclusion' /\ CallsFit'
  BY <1>1, <1>2, <1>3 DEF TypeOK, Exclusion, CallsFit
<1>5. WordsFresh'
  BY <1>1, <1>2 DEF TypeOK, WordsFresh, regs
<1>6. TypeOK'
  <2>1. iptr' \in [Spis -> SUBSET (Cores \cup ({Remote} \ {None}))]
    <3>1. CASE DisDrop(c)
      <4>1. (val[c][call[c].spi] \ Useable) \cup Released \in SUBSET (Cores \cup ({Remote} \ {None}))
        BY <1>1 DEF TypeOK, Released
      <4>2. val[c] \in [Spis -> SUBSET (Cores \cup ({Remote} \ {None}))]
        BY DEF TypeOK
      <4> QED
        BY <1>1, <3>1, <4>1, <4>2 DEF TypeOK, StoreTargets
    <3>2. CASE ~DisDrop(c)
      BY <3>2 DEF TypeOK, regs
    <3> QED
      BY <3>1, <3>2
  <2>2. icfr' \subseteq Spis /\ iser' \subseteq Spis
    BY <1>1 DEF TypeOK, StoreBits, regs
  <2>3. val' \in [Cores -> [Spis -> SUBSET (Cores \cup ({Remote} \ {None}))]]
    BY DEF TypeOK, Nothing
  <2>4. bits' \in [Cores -> SUBSET Spis]
    BY DEF TypeOK
  <2>5. pc' \in [Cores -> Places] /\ ercd' \in [Cores -> {"E_OK", "E_PAR"}]
    BY DEF TypeOK, Places
  <2> QED
    BY <1>2, <2>1, <2>2, <2>3, <2>4, <2>5 DEF TypeOK
<1> QED
  BY <1>4, <1>5, <1>6

LEMMA FrameStep == ASSUME Frame, [Next]_vars PROVE Frame'
<1>1. CASE Next
  BY <1>1, FrameLock, FrameEna, FrameDis DEF Next, Work
<1>2. CASE UNCHANGED vars
  BY <1>2 DEF vars, regs, Frame, TypeOK, Exclusion, CallsFit, WordsFresh
<1> QED
  BY <1>1, <1>2

\* Every variable has its type, whatever the cores call.
THEOREM TypeCorrect == Spec => []TypeOK
<1>1. Frame => TypeOK
  BY DEF Frame
<1> QED
  BY <1>1, InitFrame, FrameStep, PTL DEF Spec

(****************************************************************************)
(* The invariant of the calls                                                 *)
(****************************************************************************)

Meaning == FieldsSingle /\ StagesOK /\ EnabledOwned /\ MineTrue

USE DEF Between, Unreported

LEMMA InitMeaning == Init => Meaning
BY CoresAssumption
DEF Init, Meaning, FieldsSingle, StagesOK, EnabledOwned, MineTrue, Released

\* A claimed field is never the field of a released interrupt.
LEMMA ClaimedNotReleased == \A c \in Cores : {c} # Released
BY CoresAssumption DEF Released

\* A call that changes no target field, priority or enable bit.
LEMMA MeaningQuiet ==
  ASSUME Frame, Meaning, NEW c \in Cores,
         \/ Begin(c) \/ Lock(c) \/ EnaLoad(c) \/ EnaPri(c) \/ DisLoad(c)
         \/ TypeLoad(c) \/ TypeStore(c) \/ Unlock(c)
  PROVE  Meaning'
<1> USE DEF Frame, Meaning
<1>1. UNCHANGED <<iptr, ipr, iser>>
  BY DEF Begin, Lock, EnaLoad, EnaPri, DisLoad, TypeLoad, TypeStore, Unlock, Fail, regs
<1>2. FieldsSingle'
  BY <1>1 DEF FieldsSingle, Released
<1>3. StagesOK'
  <2>1. CASE Begin(c) \/ Lock(c) \/ Unlock(c)
    <3>1. pc'[c] \in {"lock", "enter", "idle"}
      BY <2>1 DEF Begin, Lock, Unlock, TypeOK
    <3>2. \A d \in Cores : d # c => pc'[d] = pc[d] /\ call'[d] = call[d] /\ ercd'[d] = ercd[d]
      BY <2>1 DEF Begin, Lock, Unlock, TypeOK
    <3> QED
      BY <1>1, <3>1, <3>2 DEF StagesOK, Released
  <2>2. CASE EnaLoad(c) \/ EnaPri(c) \/ DisLoad(c) \/ TypeLoad(c) \/ TypeStore(c)
    <3>1. call' = call /\ call[c].spi \in Spis /\ pc[c] \in {"enter", "pri", "type"}
      BY <2>2 DEF EnaLoad, EnaPri, DisLoad, TypeLoad, TypeStore, CallsFit, Calls
    <3>2. \A d \in Cores : d # c => pc'[d] \in {"idle", "lock"}
      BY <2>2, <3>1, Alone DEF EnaLoad, EnaPri, DisLoad, TypeLoad, TypeStore, Fail, TypeOK
    <3>3. pc'[c] = "claim" => iptr[call[c].spi] = Released /\ c \in Useable
      <4>1. SUFFICES ASSUME pc'[c] = "claim"
                     PROVE  iptr[call[c].spi] = Released /\ c \in Useable
        OBVIOUS
      <4>2. MayClaim(c, call[c].spi)
        BY <2>2, <4>1 DEF EnaLoad, EnaPri, DisLoad, TypeLoad, TypeStore, Fail, TypeOK
      <4> QED
        BY <3>1, <4>2 DEF MayClaim, FieldsSingle
    <3>4. pc'[c] = "drop" => iptr[call[c].spi] = {c}
      <4>1. SUFFICES ASSUME pc'[c] = "drop"
                     PROVE  iptr[call[c].spi] = {c}
        OBVIOUS
      <4>2. MayDrop(c, call[c].spi)
        BY <2>2, <4>1 DEF EnaLoad, EnaPri, DisLoad, TypeLoad, TypeStore, Fail, TypeOK
      <4>3. iptr[call[c].spi] # Released
        BY <4>2, CoresAssumption DEF MayDrop, Released
      <4> QED
        BY <3>1, <4>2, <4>3 DEF MayDrop, FieldsSingle
    <3>5. pc'[c] \in {"setpri", "enable"} =>
            /\ iptr[call[c].spi] = {c} /\ call[c].spi \notin iser
            /\ pc'[c] = "enable" => call[c].spi \in ipr
      <4>1. SUFFICES ASSUME pc'[c] \in {"setpri", "enable"}
                     PROVE  /\ iptr[call[c].spi] = {c} /\ call[c].spi \notin iser
                            /\ pc'[c] = "enable" => call[c].spi \in ipr
        OBVIOUS
      <4>2. EnaPri(c)
        BY <2>2, <4>1 DEF EnaLoad, EnaPri, DisLoad, TypeLoad, TypeStore, Fail, TypeOK
      <4> QED
        BY <4>1, <4>2 DEF EnaPri, TypeOK, StagesOK
    <3>6. pc'[c] \notin {"pri", "disable"}
      BY <2>2 DEF EnaLoad, EnaPri, DisLoad, TypeLoad, TypeStore, Fail, TypeOK
    <3>7. pc'[c] = "unlock" => ercd'[c] = "E_PAR" \/ call[c].op = "type"
      BY <2>2 DEF EnaLoad, EnaPri, DisLoad, TypeLoad, TypeStore, Fail, TypeOK, CallsFit
    <3> QED
      BY <1>1, <3>1, <3>2, <3>3, <3>4, <3>5, <3>6, <3>7 DEF StagesOK, Released
  <2> QED
    BY <2>1, <2>2
<1>4. EnabledOwned'
  <2>1. \A d \in Cores, s \in Spis : Between(d, s)' <=> Between(d, s)
    BY DEF Begin, Lock, EnaLoad, EnaPri, DisLoad, TypeLoad, TypeStore, Unlock, Fail,
         TypeOK, CallsFit
  <2> QED
    BY <1>1, <2>1 DEF EnabledOwned, Released
<1>5. MineTrue'
  <2>1. CASE Unlock(c)
    BY <1>1, <2>1, ClaimedNotReleased
    DEF Unlock, MineTrue, StagesOK, TypeOK, CallsFit, Calls, Ops
  <2>2. CASE ~Unlock(c)
    <3>1. mine' = mine
      BY <2>2 DEF Begin, Lock, EnaLoad, EnaPri, DisLoad, TypeLoad, TypeStore
    <3>2. \A d \in Cores, s \in Spis : Unreported(d, s) => Unreported(d, s)'
      BY <2>2 DEF Begin, Lock, EnaLoad, EnaPri, DisLoad, TypeLoad, TypeStore, Fail,
           TypeOK, CallsFit
    <3> QED
      BY <1>1, <3>1, <3>2 DEF MineTrue
  <2> QED
    BY <2>1, <2>2
<1> QED
  BY <1>2, <1>3, <1>4, <1>5

\* Storing a fresh word changes the field of one interrupt.
LEMMA StoreOne ==
  ASSUME iptr \in [Spis -> SUBSET (Cores \cup ({Remote} \ {None}))],
         NEW s \in Spis, NEW cores
  PROVE  StoreTargets(iptr, s, cores) = [iptr EXCEPT ![s] = cores]
BY DEF StoreTargets

LEMMA StoreOneBit ==
  ASSUME NEW file, NEW old \in SUBSET Spis, NEW s \in Spis, NEW word \in SUBSET Spis,
         \A t \in Spis : t # s => (t \in word <=> t \in old)
  PROVE  /\ StoreBits(InWord(file, s), old, word) \in SUBSET Spis
         /\ \A t \in Spis : t # s => (t \in StoreBits(InWord(file, s), old, word) <=> t \in old)
         /\ s \in StoreBits(InWord(file, s), old, word) <=> s \in word
BY DEF StoreBits, InWord

\* What the steps that change a register do, the lock being held.
LEMMA EffectClaim ==
  ASSUME Frame, Meaning, NEW c \in Cores, EnaClaim(c)
  PROVE  /\ call[c].spi \in Spis /\ c \in Useable /\ iptr[call[c].spi] = Released
         /\ iptr' = [iptr EXCEPT ![call[c].spi] = {c}]
         /\ UNCHANGED <<ipr, icfr, iser>>
<1>1. call[c].spi \in Spis /\ val[c] = iptr
  BY DEF EnaClaim, Frame, CallsFit, WordsFresh, Calls
<1>2. c \in Useable /\ iptr[call[c].spi] = Released
  BY DEF EnaClaim, Meaning, StagesOK
<1> QED
  BY <1>1, <1>2, StoreOne DEF EnaClaim, Frame, TypeOK

LEMMA EffectSetPri ==
  ASSUME Frame, Meaning, NEW c \in Cores, EnaSetPri(c)
  PROVE  /\ call[c].spi \in Spis /\ iptr[call[c].spi] = {c} /\ call[c].spi \notin iser
         /\ ipr' = ipr \cup {call[c].spi}
         /\ UNCHANGED <<iptr, icfr, iser>>
<1>1. call[c].spi \in Spis /\ bits[c] = ipr /\ ipr \in SUBSET Spis
  BY DEF EnaSetPri, Frame, CallsFit, WordsFresh, Calls, TypeOK
<1>2. iptr[call[c].spi] = {c} /\ call[c].spi \notin iser
  BY DEF EnaSetPri, Meaning, StagesOK
<1>3. ipr' = ipr \cup {call[c].spi}
  <2>1. ipr' = StoreBits(InWord(Ipr, call[c].spi), ipr, ipr \cup {call[c].spi})
    BY <1>1 DEF EnaSetPri
  <2> QED
    BY <1>1, <2>1, StoreOneBit
<1> QED
  BY <1>1, <1>2, <1>3 DEF EnaSetPri

LEMMA EffectEnable ==
  ASSUME Frame, Meaning, NEW c \in Cores, EnaEnable(c)
  PROVE  /\ call[c].spi \in Spis /\ iptr[call[c].spi] = {c} /\ call[c].spi \in ipr
         /\ iser' = iser \cup {call[c].spi}
         /\ UNCHANGED <<iptr, ipr, icfr>>
BY DEF EnaEnable, Frame, CallsFit, Calls, Meaning, StagesOK

LEMMA EffectDrop ==
  ASSUME Frame, Meaning, NEW c \in Cores, DisDrop(c)
  PROVE  /\ call[c].spi \in Spis /\ c \in Useable /\ iptr[call[c].spi] = {c}
         /\ call[c].spi \in iser
         /\ iptr' = [iptr EXCEPT ![call[c].spi] = Released]
         /\ UNCHANGED <<ipr, icfr, iser>>
<1>1. call[c].spi \in Spis /\ val[c] = iptr /\ iptr[call[c].spi] = {c}
  BY DEF DisDrop, Frame, CallsFit, WordsFresh, Calls, Meaning, StagesOK
<1>2. c \in Useable
  BY <1>1, ClaimedNotReleased DEF Meaning, FieldsSingle
<1>3. iptr' = [iptr EXCEPT ![call[c].spi] = Released]
  <2>1. (val[c][call[c].spi] \ Useable) \cup Released = Released
    BY <1>1, <1>2
  <2> QED
    BY <1>1, <2>1, StoreOne DEF DisDrop, Frame, TypeOK
<1>4. call[c].spi \in iser
  <2>1. \A d \in Cores : ~Between(d, call[c].spi)
    BY Alone DEF DisDrop, Frame
  <2> QED
    BY <1>1, <2>1, ClaimedNotReleased DEF Meaning, EnabledOwned
<1> QED
  BY <1>1, <1>2, <1>3, <1>4 DEF DisDrop

LEMMA EffectDisable ==
  ASSUME Frame, Meaning, NEW c \in Cores, DisDisable(c)
  PROVE  /\ call[c].spi \in Spis /\ iptr[call[c].spi] = Released
         /\ iser' = iser \ {call[c].spi}
         /\ UNCHANGED <<iptr, ipr, icfr>>
BY DEF DisDisable, Frame, CallsFit, Calls, Meaning, StagesOK

\* While c is in its call, the others are not: what they know is not disturbed.
LEMMA MeaningChange ==
  ASSUME Frame, Meaning, NEW c \in Cores,
         EnaClaim(c) \/ EnaSetPri(c) \/ EnaEnable(c) \/ DisDrop(c) \/ DisDisable(c)
  PROVE  Meaning'
<1> DEFINE s == call[c].spi
<1>a. pc \in [Cores -> Places] /\ ercd \in [Cores -> {"E_OK", "E_PAR"}]
      /\ iptr \in [Spis -> SUBSET (Cores \cup ({Remote} \ {None}))]
  BY DEF Frame, TypeOK
<1>b. CallsFit /\ FieldsSingle /\ StagesOK /\ EnabledOwned /\ MineTrue
  BY DEF Frame, Meaning
<1>0. pc[c] \notin {"idle", "lock"}
  BY DEF EnaClaim, EnaSetPri, EnaEnable, DisDrop, DisDisable
<1>1. \A d \in Cores : d # c => pc[d] \in {"idle", "lock"} /\ pc'[d] = pc[d]
  BY <1>0, <1>a, Alone DEF EnaClaim, EnaSetPri, EnaEnable, DisDrop, DisDisable, Frame
<1>2. UNCHANGED <<call, mine>> /\ s \in Spis
  BY EffectClaim, EffectSetPri, EffectEnable, EffectDrop, EffectDisable
  DEF EnaClaim, EnaSetPri, EnaEnable, DisDrop, DisDisable
<1>3. /\ pc'[c] \in {"pri", "enable", "disable", "unlock"}
      /\ pc'[c] = "unlock" => ercd'[c] = "E_OK" /\ call[c].op # "type"
  BY <1>a, <1>b DEF EnaClaim, EnaSetPri, EnaEnable, DisDrop, DisDisable, CallsFit
<1>c. call[c].op \in {"ena", "dis"}
  BY <1>b DEF EnaClaim, EnaSetPri, EnaEnable, DisDrop, DisDisable, CallsFit
<1>4. \A t \in Spis : t # s => iptr'[t] = iptr[t] /\ (t \in ipr' <=> t \in ipr)
                                              /\ (t \in iser' <=> t \in iser)
  BY <1>a, EffectClaim, EffectSetPri, EffectEnable, EffectDrop, EffectDisable
<1>5. /\ pc'[c] \in {"pri", "enable"} => iptr'[s] = {c} /\ s \notin iser'
      /\ pc'[c] = "enable" => s \in ipr'
      /\ pc'[c] = "disable" => iptr'[s] = Released
      /\ pc'[c] = "unlock" /\ call[c].op = "ena" => iptr'[s] = {c} /\ s \in iser' /\ s \in ipr'
      /\ pc'[c] = "unlock" /\ call[c].op = "dis" => iptr'[s] = Released /\ s \notin iser'
      /\ s \in iser' => s \in ipr'
      /\ iptr'[s] = Released \/ (iptr'[s] = {c} /\ c \in Useable)
  <2>1. CASE EnaClaim(c)
    <3>1. /\ c \in Useable /\ iptr[s] = Released /\ iptr' = [iptr EXCEPT ![s] = {c}]
          /\ UNCHANGED <<ipr, iser>>
      BY <2>1, EffectClaim
    <3>2. pc'[c] = "pri"
      BY <1>a, <2>1 DEF EnaClaim
    <3>3. s \notin iser
      <4>1. \A d \in Cores : ~Between(d, s)
        BY <1>1, <2>1 DEF EnaClaim
      <4> QED
        BY <1>2, <1>b, <3>1, <4>1 DEF EnabledOwned
    <3> QED
      BY <1>a, <1>2, <3>1, <3>2, <3>3
  <2>2. CASE EnaSetPri(c)
    <3>1. /\ iptr[s] = {c} /\ s \notin iser /\ ipr' = ipr \cup {s}
          /\ UNCHANGED <<iptr, iser>>
      BY <2>2, EffectSetPri
    <3>2. pc'[c] = "enable"
      BY <1>a, <2>2 DEF EnaSetPri
    <3> QED
      BY <1>2, <1>b, <3>1, <3>2, ClaimedNotReleased DEF FieldsSingle
  <2>3. CASE EnaEnable(c)
    <3>1. /\ iptr[s] = {c} /\ s \in ipr /\ iser' = iser \cup {s}
          /\ UNCHANGED <<iptr, ipr>>
      BY <2>3, EffectEnable
    <3>2. pc'[c] = "unlock" /\ call[c].op = "ena"
      BY <1>a, <1>b, <2>3 DEF EnaEnable, CallsFit
    <3> QED
      BY <1>2, <1>b, <3>1, <3>2, ClaimedNotReleased DEF FieldsSingle
  <2>4. CASE DisDrop(c)
    <3>1. /\ s \in iser /\ iptr' = [iptr EXCEPT ![s] = Released]
          /\ UNCHANGED <<ipr, iser>>
      BY <2>4, EffectDrop
    <3>2. pc'[c] = "disable"
      BY <1>a, <2>4 DEF DisDrop
    <3> QED
      BY <1>a, <1>2, <1>b, <3>1, <3>2 DEF EnabledOwned
  <2>5. CASE DisDisable(c)
    <3>1. /\ iptr[s] = Released /\ iser' = iser \ {s}
          /\ UNCHANGED <<iptr, ipr>>
      BY <2>5, EffectDisable
    <3>2. pc'[c] = "unlock" /\ call[c].op = "dis"
      BY <1>a, <1>b, <2>5 DEF DisDisable, CallsFit
    <3> QED
      BY <1>2, <1>b, <3>1, <3>2 DEF EnabledOwned
  <2> QED
    BY <2>1, <2>2, <2>3, <2>4, <2>5
<1>6. FieldsSingle'
  BY <1>4, <1>5, <1>b DEF FieldsSingle, Released
<1>7. StagesOK'
  BY <1>1, <1>2, <1>3, <1>5 DEF StagesOK, Released
<1>8. EnabledOwned'
  <2>1. SUFFICES ASSUME NEW t \in Spis
                 PROVE  /\ t \in iser' => t \in ipr'
                        /\ (\A d \in Cores : ~Between(d, t)') => (t \in iser' <=> iptr'[t] # Released)
    BY DEF EnabledOwned, Released
  <2>2. CASE t = s
    BY <1>2, <1>3, <1>5, <1>c, <2>2, ClaimedNotReleased
  <2>3. CASE t # s
    <3>1. \A d \in Cores : ~Between(d, t)
      BY <1>1, <2>3
    <3> QED
      BY <1>4, <1>b, <2>3, <3>1 DEF EnabledOwned
  <2> QED
    BY <2>2, <2>3
<1>9. MineTrue'
  <2>1. \A d \in Cores, t \in Spis : Unreported(d, t)' <=> d = c /\ t = s
    BY <1>1, <1>2, <1>3
  <2>2. \A d \in Cores, t \in Spis : t # s => ~Unreported(d, t)
    BY <1>1
  <2>3. \A d \in Cores : d # c => ~Unreported(d, s) /\ iptr[s] # {d} /\ iptr'[s] # {d}
    <3>1. iptr[s] = Released \/ iptr[s] = {c}
      BY EffectClaim, EffectSetPri, EffectEnable, EffectDrop, EffectDisable
    <3> QED
      BY <1>1, <1>5, <3>1, ClaimedNotReleased
  <2> QED
    BY <1>2, <1>4, <1>b, <2>1, <2>2, <2>3 DEF MineTrue
<1> QED
  BY <1>6, <1>7, <1>8, <1>9 DEF Meaning

LEMMA MeaningStep == ASSUME Frame, Meaning, [Next]_vars PROVE Meaning'
<1>1. CASE Next
  BY <1>1, MeaningQuiet, MeaningChange DEF Next, Work
<1>2. CASE UNCHANGED vars
  BY <1>2 DEF vars, regs, Meaning, FieldsSingle, StagesOK, EnabledOwned, MineTrue, Released
<1> QED
  BY <1>1, <1>2

LEMMA Invariance == Spec => [](Frame /\ Meaning)
<1>1. Frame /\ Meaning /\ [Next]_vars => (Frame /\ Meaning)'
  BY FrameStep, MeaningStep
<1> QED
  BY <1>1, InitFrame, InitMeaning, PTL DEF Spec

(****************************************************************************)
(* The theorems                                                               *)
(****************************************************************************)

\* At most one core is between taking and giving back _ddr_gic_flag, so no
\* register update of one core falls between load and store of another.
THEOREM MutualExclusion ==
  Spec => [](\A c, d \in Cores :
               pc[c] \notin {"idle", "lock"} /\ pc[d] \notin {"idle", "lock"} => c = d)
<1>1. Frame => \A c, d \in Cores :
                 pc[c] \notin {"idle", "lock"} /\ pc[d] \notin {"idle", "lock"} => c = d
  BY DEF Frame, Exclusion
<1> QED
  BY <1>1, Invariance, PTL

\* What ena_int and dis_int told a core stays true, for any number of cores and
\* interrupts.
THEOREM ResultsStand == Spec => []ResultsHold
<1>1. Frame /\ Meaning => ResultsHold
  <2> SUFFICES ASSUME Frame, Meaning, NEW c \in Cores, pc[c] \in {"idle", "lock"}
               PROVE  /\ mine[c] = {s \in Spis : c \in iptr[s]}
                      /\ \A s \in mine[c] : iptr[s] = {c} /\ s \in iser /\ s \in ipr
    BY DEF ResultsHold
  <2>1. \A s \in Spis : c \in iptr[s] <=> iptr[s] = {c}
    BY CoresAssumption DEF Meaning, FieldsSingle, Released
  <2>2. \A s \in Spis : s \in mine[c] <=> iptr[s] = {c}
    BY DEF Meaning, MineTrue
  <2>3. mine[c] \subseteq Spis
    BY DEF Frame, TypeOK
  <2>4. ASSUME NEW s \in Spis, iptr[s] = {c}
        PROVE  s \in iser /\ s \in ipr
    <3>1. \A d \in Cores : ~Between(d, s)
      <4>1. SUFFICES ASSUME NEW d \in Cores, Between(d, s) PROVE FALSE
        OBVIOUS
      <4>2. d # c /\ (iptr[s] = {d} \/ iptr[s] = Released)
        BY <4>1 DEF Meaning, StagesOK
      <4> QED
        BY <2>4, <4>2, ClaimedNotReleased
    <3> QED
      BY <2>4, <3>1, ClaimedNotReleased DEF Meaning, EnabledOwned
  <2> QED
    BY <2>1, <2>2, <2>3, <2>4
<1> QED
  BY <1>1, Invariance, PTL

\* With no core in a call, exactly the claimed interrupts are enabled.
THEOREM NoStray == Spec => []NoStrayInterrupt
<1>1. Frame /\ Meaning => NoStrayInterrupt
  <2> SUFFICES ASSUME Frame, Meaning, flag = None
               PROVE  iser = {s \in Spis : Owners(s) # {}}
    BY DEF NoStrayInterrupt
  <2>1. \A c \in Cores, s \in Spis : ~Between(c, s)
    BY CoresAssumption DEF Frame, Exclusion
  <2>2. \A s \in Spis : Owners(s) # {} <=> iptr[s] # Released
    BY CoresAssumption, ClaimedNotReleased DEF Meaning, FieldsSingle, Owners, Released
  <2>3. iser \subseteq Spis
    BY DEF Frame, TypeOK
  <2> QED
    BY <2>1, <2>2, <2>3 DEF Meaning, EnabledOwned
<1> QED
  BY <1>1, Invariance, PTL

LEMMA OwnerOf ==
  ASSUME Meaning, NEW s \in Spis
  PROVE  /\ iptr[s] = Released => Owner(s) = None
         /\ \A c \in Useable : iptr[s] = {c} => Owner(s) = c
BY CoresAssumption DEF Owner, Taker, Released

OwnerMap == [s \in Spis |-> Owner(s)]

\* A step that leaves the other target fields alone changes one owner.
LEMMA OwnerMapChange ==
  ASSUME NEW s \in Spis, NEW cores, iptr \in [Spis -> SUBSET (Cores \cup ({Remote} \ {None}))],
         iptr' = [iptr EXCEPT ![s] = cores]
  PROVE  OwnerMap' = [OwnerMap EXCEPT ![s] = Owner(s)']
BY DEF OwnerMap, Owner

LEMMA OwnerMapSame == ASSUME iptr' = iptr PROVE OwnerMap' = OwnerMap
BY DEF OwnerMap, Owner

\* Every step of the registers is a step of Distributor or changes nothing there.
LEMMA SimulateStep ==
  ASSUME Frame, Meaning, Meaning', [Next]_vars
  PROVE  [Controller!Next]_(Controller!vars)
<1> USE DEF Controller!Next, Controller!vars, OwnerMap
<1>a. iptr \in [Spis -> SUBSET (Cores \cup ({Remote} \ {None}))]
  BY DEF Frame, TypeOK
<1>1. ASSUME NEW c \in Cores, EnaClaim(c)
      PROVE  Controller!Next
  <2>0. PICK s \in Spis : s = call[c].spi
    BY <1>1, EffectClaim
  <2>1. /\ s \in Spis /\ c \in Useable /\ iptr[s] = Released
        /\ iptr' = [iptr EXCEPT ![s] = {c}] /\ UNCHANGED <<ipr, icfr, iser>>
    BY <1>1, <2>0, EffectClaim
  <2>2. Owner(s) = None /\ Owner(s)' = c
    <3>1. iptr'[s] = {c}
      BY <1>a, <2>1
    <3> QED
      BY <2>1, <3>1, OwnerOf DEF Owner, Taker
  <2>3. s \notin iser
    <3>1. \A d \in Cores : ~Between(d, s)
      BY <1>1, <2>0, Alone DEF EnaClaim, Frame
    <3> QED
      BY <2>1, <3>1 DEF Meaning, EnabledOwned
  <2>4. OwnerMap' = [OwnerMap EXCEPT ![s] = c]
    BY <1>a, <2>1, <2>2, OwnerMapChange
  <2>5. Controller!Claim(c, s)
    BY <2>1, <2>2, <2>3, <2>4 DEF Controller!Claim
  <2> QED
    BY <2>1, <2>5
<1>2. ASSUME NEW c \in Cores, EnaSetPri(c)
      PROVE  Controller!Next
  <2> DEFINE s == call[c].spi
  <2>1. /\ s \in Spis /\ iptr[s] = {c} /\ ipr' = ipr \cup {s}
        /\ UNCHANGED <<iptr, icfr, iser>>
    BY <1>2, EffectSetPri
  <2>2. c \in Useable
    BY <2>1, ClaimedNotReleased DEF Meaning, FieldsSingle
  <2>3. OwnerMap[s] # None /\ OwnerMap' = OwnerMap
    BY <2>1, <2>2, OwnerOf, OwnerMapSame, CoresAssumption
  <2>4. Controller!SetPriority(s)
    BY <2>1, <2>3 DEF Controller!SetPriority
  <2> QED
    BY <2>1, <2>4
<1>3. ASSUME NEW c \in Cores, EnaEnable(c)
      PROVE  Controller!Next
  <2> DEFINE s == call[c].spi
  <2>1. /\ s \in Spis /\ iptr[s] = {c} /\ s \in ipr /\ iser' = iser \cup {s}
        /\ UNCHANGED <<iptr, ipr, icfr>>
    BY <1>3, EffectEnable
  <2>2. c \in Useable
    BY <2>1, ClaimedNotReleased DEF Meaning, FieldsSingle
  <2>3. OwnerMap[s] # None /\ OwnerMap' = OwnerMap
    BY <2>1, <2>2, OwnerOf, OwnerMapSame, CoresAssumption
  <2>4. Controller!SwitchOn(s)
    BY <2>1, <2>3 DEF Controller!SwitchOn
  <2> QED
    BY <2>1, <2>4
<1>4. ASSUME NEW c \in Cores, DisDrop(c)
      PROVE  Controller!Next
  <2>0. PICK s \in Spis : s = call[c].spi
    BY <1>4, EffectDrop
  <2>1. /\ s \in Spis /\ c \in Useable /\ iptr[s] = {c} /\ s \in iser
        /\ iptr' = [iptr EXCEPT ![s] = Released] /\ UNCHANGED <<ipr, icfr, iser>>
    BY <1>4, <2>0, EffectDrop
  <2>2. Owner(s) # None /\ Owner(s)' = None
    <3>1. iptr'[s] = Released
      BY <1>a, <2>1
    <3>2. Owner(s)' = None
      BY <3>1, CoresAssumption DEF Owner, Taker, Released
    <3> QED
      BY <2>1, <3>2, OwnerOf, CoresAssumption
  <2>3. OwnerMap' = [OwnerMap EXCEPT ![s] = None]
    BY <1>a, <2>1, <2>2, OwnerMapChange
  <2>4. Controller!GiveUp(s)
    BY <2>1, <2>2, <2>3 DEF Controller!GiveUp
  <2> QED
    BY <2>1, <2>4
<1>5. ASSUME NEW c \in Cores, DisDisable(c)
      PROVE  Controller!Next
  <2> DEFINE s == call[c].spi
  <2>1. /\ s \in Spis /\ iptr[s] = Released /\ iser' = iser \ {s}
        /\ UNCHANGED <<iptr, ipr, icfr>>
    BY <1>5, EffectDisable
  <2>2. OwnerMap[s] = None /\ OwnerMap' = OwnerMap
    BY <2>1, OwnerOf, OwnerMapSame
  <2>3. Controller!SwitchOff(s)
    BY <2>1, <2>2 DEF Controller!SwitchOff
  <2> QED
    BY <2>1, <2>3
<1>6. ASSUME NEW c \in Cores, TypeStore(c)
      PROVE  Controller!Next
  <2> DEFINE s == call[c].spi
             word == {t \in Spis : IF t = s /\ call[c].type # "bad"
                                     THEN call[c].type = "edge" ELSE t \in bits[c]}
  <2>1. s \in Spis /\ bits[c] = icfr /\ icfr \in SUBSET Spis
    BY <1>6 DEF TypeStore, Frame, CallsFit, Calls, WordsFresh, TypeOK
  <2>2. icfr' = StoreBits(InWord(Icfr, s), icfr, word) /\ UNCHANGED <<iptr, ipr, iser>>
    BY <1>6 DEF TypeStore
  <2>3. word \in SUBSET Spis /\ \A t \in Spis : t # s => (t \in word <=> t \in icfr)
    BY <2>1
  <2>4. icfr' \in {icfr \cup {s}, icfr \ {s}}
    <3> HIDE DEF word
    <3>1. /\ icfr' \in SUBSET Spis
          /\ \A t \in Spis : t # s => (t \in icfr' <=> t \in icfr)
      BY <2>1, <2>2, <2>3, StoreOneBit
    <3> QED
      BY <2>1, <3>1
  <2>5. OwnerMap' = OwnerMap
    BY <2>2, OwnerMapSame
  <2>6. Controller!SetType(s)
    BY <2>2, <2>4, <2>5 DEF Controller!SetType
  <2> QED
    BY <2>1, <2>6
<1>7. ASSUME NEW c \in Cores,
             \/ Begin(c) \/ Lock(c) \/ Unlock(c) \/ EnaLoad(c) \/ EnaPri(c)
             \/ DisLoad(c) \/ TypeLoad(c)
      PROVE  UNCHANGED Controller!vars
  <2>1. UNCHANGED regs
    BY <1>7 DEF Begin, Lock, Unlock, EnaLoad, EnaPri, DisLoad, TypeLoad, Fail
  <2> QED
    BY <2>1, OwnerMapSame DEF regs
<1>8. CASE UNCHANGED vars
  BY <1>8, OwnerMapSame DEF vars, regs
<1> HIDE DEF Controller!Next, Controller!vars
<1> QED
  BY <1>1, <1>2, <1>3, <1>4, <1>5, <1>6, <1>7, <1>8 DEF Next, Work

\* The registers, updated word by word by any number of cores, implement a
\* controller whose every step concerns one interrupt.
THEOREM ImplementsDistributor == Spec => IsDistributor
<1>1. Init => Controller!Init
  <2>1. Init => OwnerMap = [s \in Spis |-> None]
    BY CoresAssumption DEF Init, OwnerMap, Owner, Taker, Released
  <2> QED
    BY <2>1 DEF Init, Controller!Init, OwnerMap
<1>2. Frame /\ Meaning /\ (Frame /\ Meaning)' /\ [Next]_vars
        => [Controller!Next]_(Controller!vars)
  BY SimulateStep
<1> QED
  BY <1>1, <1>2, Invariance, PTL DEF Spec, IsDistributor, Controller!Spec

=============================================================================
