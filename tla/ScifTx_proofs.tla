--------------------------- MODULE ScifTx_proofs ---------------------------
(***************************************************************************)
(* Proofs about ScifTx for every number of tasks, every size of ring and   *)
(* FIFO, every counter width and every length of transfer.                 *)
(***************************************************************************)
EXTENDS ScifTx, TLAPS

-----------------------------------------------------------------------------
(* Type correctness.  That no counter leaves its buffer depends on who can *)
(* be where: only one task is inside the window in which snd has disabled  *)
(* dispatching, and while it copies the ISR has no caller's bytes to copy. *)

\* Whoever is in the window is the one that disabled dispatching.
WindowAlone == \A t \in Tasks : pc[t] \in SndWindow => dsp = t

\* Until the rest is handed over the ISR has no business with any caller, and
\* then with no other.
WindowClean ==
  \A t \in Tasks :
    pc[t] \in SndWindow => sndData = None \/ (pc[t] = "arm" /\ sndData = t)

\* Between the test of the copy loop and tcnt++ the room does not go away.
CountRoom ==
  \A t \in Tasks : /\ pc[t] = "count" => tcnt < TSize
                   /\ pc[t] = "save"  => reg[t] < TSize

\* The ISR's loops start with a byte to send.
DrainReady == isr = "drain" => (tcnt > 0 /\ isrp < TSize)
LocalReady == isr = "local" => sndData # None

WindowInv == WindowAlone /\ WindowClean /\ CountRoom

IInv == TypeOK /\ WindowInv /\ DrainReady /\ LocalReady

LEMMA InitIInv == Init => IInv
<1> SUFFICES ASSUME Init PROVE IInv
  OBVIOUS
<1> USE DEF Init
<1>1. TypeOK
  <2>1. pc \in [Tasks -> Places]
    BY DEF Places
  <2>2. ercd \in [Tasks -> Codes]
    BY DEF Codes
  <2>3. left \in [Tasks -> 0 .. UHMax] /\ reg \in [Tasks -> 0 .. TSize]
    BY SizeAssumption
  <2>4. isr \in IsrPlaces
    BY DEF IsrPlaces
  <2>5. /\ sndp \in 0 .. TSize /\ (TSize > 0 => sndp < TSize)
        /\ tcnt \in 0 .. TSize /\ isrp \in 0 .. TSize /\ fifo \in 0 .. FifoDepth
        /\ taken \in Nat /\ sent \in Nat /\ written \in Nat /\ dropped \in Nat
    BY SizeAssumption
  <2>6. tbuf \in [Index -> Nat]
    OBVIOUS
  <2> QED
    BY <2>1, <2>2, <2>3, <2>4, <2>5, <2>6 DEF TypeOK, HwOK, RingOK, MngOK, SyncOK, IrqOK, TaskOK, HistOK
<1>2. WindowAlone /\ WindowClean /\ CountRoom
  BY DEF WindowAlone, WindowClean, CountRoom, SndWindow
<1>3. DrainReady /\ LocalReady
  BY DEF DrainReady, LocalReady
<1> QED
  BY <1>1, <1>2, <1>3 DEF IInv, WindowInv

\* What a step leaves alone keeps its type.
LEMMA FrameTypes ==
  ASSUME TypeOK
  PROVE  /\ UNCHANGED hw => HwOK'
         /\ UNCHANGED ring => RingOK'
         /\ UNCHANGED mng => MngOK'
         /\ UNCHANGED <<flg, dsp>> => SyncOK'
         /\ UNCHANGED irq => IrqOK'
         /\ UNCHANGED task => TaskOK'
         /\ UNCHANGED hist => HistOK'
<1> USE DEF TypeOK
<1>1. UNCHANGED hw => HwOK'
  BY DEF HwOK, hw
<1>2. UNCHANGED ring => RingOK'
  BY DEF RingOK, ring, Index
<1>3. UNCHANGED mng => MngOK'
  BY DEF MngOK, mng, link, flow, conf
<1>4. UNCHANGED <<flg, dsp>> => SyncOK'
  BY DEF SyncOK
<1>5. UNCHANGED irq => IrqOK'
  BY DEF IrqOK, irq
<1>6. UNCHANGED task => TaskOK'
  BY DEF TaskOK, task
<1>7. UNCHANGED hist => HistOK'
  BY DEF HistOK, hist, out
<1> QED
  BY <1>1, <1>2, <1>3, <1>4, <1>5, <1>6, <1>7

\* A task moves to a place outside the window; only one that dispatching
\* cannot take the processor from changes the ring.
LEMMA TaskMove ==
  ASSUME WindowInv, TaskOK, RingOK,
         NEW t \in Tasks, NEW place \in Places \ SndWindow,
         pc' = [pc EXCEPT ![t] = place],
         dsp' = dsp \/ (dsp \in {None, t} /\ dsp' = None),
         sndData' \in {sndData, None}, reg' = reg,
         tcnt' = tcnt \/ (dsp \in {None, t})
  PROVE  WindowInv'
<1>1. \A u \in Tasks : pc'[u] \in SndWindow => u # t /\ pc[u] = pc'[u]
  BY DEF TaskOK
<1>2. \A u \in Tasks : pc'[u] \in SndWindow => dsp' = u /\ tcnt' = tcnt
  BY <1>1, TaskAssumption DEF WindowInv, WindowAlone
<1>3. WindowAlone'
  BY <1>2 DEF WindowAlone
<1>4. WindowClean'
  BY <1>1 DEF WindowInv, WindowClean
<1>5. CountRoom'
  BY <1>1, <1>2 DEF WindowInv, CountRoom, SndWindow
<1> QED
  BY <1>3, <1>4, <1>5 DEF WindowInv

\* The ISR moves tasks only out of their waits, and adds to the ring only on
\* behalf of a caller that waits.
LEMMA IsrMove ==
  ASSUME WindowInv, RingOK, TaskOK,
         \A u \in Tasks : pc'[u] = pc[u] \/ pc'[u] \notin SndWindow,
         dsp' = dsp, sndData' \in {sndData, None}, reg' = reg,
         tcnt' \in Int, tcnt' <= tcnt \/ sndData # None
  PROVE  WindowInv'
<1>1. WindowAlone'
  BY DEF WindowInv, WindowAlone
<1>2. WindowClean'
  BY DEF WindowInv, WindowClean
<1>3. CountRoom'
  <2> SUFFICES ASSUME NEW u \in Tasks, pc'[u] \in {"count", "save"}
               PROVE  pc[u] = pc'[u] /\ tcnt' <= tcnt
    BY SizeAssumption DEF WindowInv, CountRoom, RingOK
  <2> QED
    BY DEF WindowInv, WindowClean, SndWindow
<1> QED
  BY <1>1, <1>2, <1>3 DEF WindowInv

\* Tasks run only while the ISR does not, and leave its variables alone.
LEMMA TaskQuiet == ASSUME isr = "idle", UNCHANGED irq PROVE DrainReady' /\ LocalReady'
BY DEF irq, DrainReady, LocalReady

LEMMA SndStartInv ==
  ASSUME IInv, NEW t \in Tasks, NEW n \in Lens, SndStart(t, n)
  PROVE  IInv'
<1> USE DEF IInv, TypeOK, SndStart, At, MayRun, Goto, Admitted
<1>1. HwOK' /\ RingOK' /\ MngOK' /\ IrqOK' /\ HistOK'
  BY FrameTypes DEF HwOK
<1>2. SyncOK'
  BY DEF SyncOK
<1>3. TaskOK'
  BY SizeAssumption DEF TaskOK, Places, SndWindow
<1>4. \A u \in Tasks : pc'[u] \in SndWindow => u = t /\ pc'[u] \notin {"count", "save"}
  BY TaskAssumption DEF WindowInv, WindowAlone, TaskOK
<1>5. WindowInv'
  BY <1>4, TaskAssumption
  DEF WindowInv, WindowAlone, WindowClean, CountRoom, SndWindow, mng, link
<1> QED
  BY <1>1, <1>2, <1>3, <1>5, TaskQuiet

\* The steps inside the window.
LEMMA WindowStepInv ==
  ASSUME IInv, NEW t \in Tasks,
         \/ SendFlowChar(t) \/ SendChar(t) \/ SendCharFull(t) \/ SndUnmask(t)
         \/ CopyByte(t) \/ CopyLoad(t) \/ CopySave(t) \/ SndHandOver(t)
  PROVE  IInv'
<1> USE DEF IInv, TypeOK, At, MayRun, Goto
<1>1. CASE SendFlowChar(t)
  <2> USE <1>1 DEF SendFlowChar
  <2>1. RingOK' /\ SyncOK' /\ IrqOK' /\ HistOK'
    BY FrameTypes
  <2>2. HwOK'
    BY SizeAssumption DEF HwOK, Pushed
  <2>3. MngOK'
    BY DEF MngOK, link, conf
  <2>4. TaskOK'
    BY DEF TaskOK, Places, SndWindow
  <2>5. WindowInv'
    BY DEF WindowInv, WindowAlone, WindowClean, CountRoom, TaskOK, SndWindow, ring, link
  <2> QED
    BY <2>1, <2>2, <2>3, <2>4, <2>5, TaskQuiet
<1>2. CASE SendChar(t)
  <2> USE <1>2 DEF SendChar, PassByte
  <2>1. RingOK' /\ MngOK' /\ SyncOK' /\ IrqOK'
    BY FrameTypes
  <2>2. HwOK' /\ HistOK'
    BY SizeAssumption DEF HwOK, HistOK
  <2>3. TaskOK'
    BY SizeAssumption DEF TaskOK, Places, SndWindow, Dec
  <2>4. WindowInv'
    BY DEF WindowInv, WindowAlone, WindowClean, CountRoom, TaskOK, SndWindow, ring, mng, link
  <2> QED
    BY <2>1, <2>2, <2>3, <2>4, TaskQuiet
<1>3. CASE SendCharFull(t)
  <2> USE <1>3 DEF SendCharFull
  <2>1. HwOK' /\ RingOK' /\ MngOK' /\ SyncOK' /\ IrqOK' /\ HistOK'
    BY FrameTypes
  <2>2. TaskOK'
    BY DEF TaskOK, Places, SndWindow
  <2>3. WindowInv'
    BY DEF WindowInv, WindowAlone, WindowClean, CountRoom, TaskOK, SndWindow, ring, mng, link
  <2> QED
    BY <2>1, <2>2, <2>3, TaskQuiet
<1>4. CASE SndUnmask(t)
  <2> USE <1>4 DEF SndUnmask
  <2>1. RingOK' /\ MngOK' /\ SyncOK' /\ IrqOK' /\ HistOK'
    BY FrameTypes
  <2>2. HwOK' /\ TaskOK'
    BY DEF HwOK, TaskOK, Places, SndWindow
  <2>3. WindowInv'
    BY DEF WindowInv, WindowAlone, WindowClean, CountRoom, TaskOK, SndWindow, ring, mng, link
  <2> QED
    BY <2>1, <2>2, <2>3, TaskQuiet
<1>5. CASE CopyByte(t)
  <2> USE <1>5 DEF CopyByte, RingHasRoom
  <2>1. HwOK' /\ MngOK' /\ SyncOK' /\ IrqOK'
    BY FrameTypes
  <2>2. RingOK' /\ HistOK'
    BY SizeAssumption DEF RingOK, HistOK, out, Wrap, Index
  <2>3. TaskOK'
    BY SizeAssumption DEF TaskOK, Places, SndWindow
  <2>4. WindowInv'
    BY DEF WindowInv, WindowAlone, WindowClean, CountRoom, TaskOK, SndWindow, mng, link
  <2> QED
    BY <2>1, <2>2, <2>3, <2>4, TaskQuiet
<1>6. CASE CopyLoad(t)
  <2> USE <1>6 DEF CopyLoad
  <2>1. HwOK' /\ RingOK' /\ MngOK' /\ SyncOK' /\ IrqOK' /\ HistOK'
    BY FrameTypes
  <2>2. TaskOK'
    BY DEF TaskOK, RingOK, Places, SndWindow
  <2>3. WindowInv'
    BY DEF WindowInv, WindowAlone, WindowClean, CountRoom, TaskOK, SndWindow, ring, mng, link
  <2> QED
    BY <2>1, <2>2, <2>3, TaskQuiet
<1>7. CASE CopySave(t)
  <2> USE <1>7 DEF CopySave
  <2>1. HwOK' /\ MngOK' /\ SyncOK' /\ IrqOK' /\ HistOK'
    BY FrameTypes
  <2>2. RingOK'
    BY SizeAssumption DEF RingOK, TaskOK, WindowInv, CountRoom
  <2>3. TaskOK'
    BY DEF TaskOK, Places, SndWindow
  <2>4. WindowInv'
    BY TaskAssumption
    DEF WindowInv, WindowAlone, WindowClean, CountRoom, TaskOK, SndWindow, mng, link
  <2> QED
    BY <2>1, <2>2, <2>3, <2>4, TaskQuiet
<1>8. CASE SndHandOver(t)
  <2> USE <1>8 DEF SndHandOver
  <2>1. HwOK' /\ RingOK' /\ SyncOK' /\ IrqOK' /\ HistOK'
    BY FrameTypes
  <2>2. MngOK' /\ TaskOK'
    BY DEF MngOK, TaskOK, flow, conf, Places, SndWindow
  <2>3. WindowInv'
    BY TaskAssumption
    DEF WindowInv, WindowAlone, WindowClean, CountRoom, TaskOK, SndWindow, ring
  <2> QED
    BY <2>1, <2>2, <2>3, TaskQuiet
<1> QED
  BY <1>1, <1>2, <1>3, <1>4, <1>5, <1>6, <1>7, <1>8

\* The rest of snd: the task is, or ends, outside the window.
LEMMA SndTailInv ==
  ASSUME IInv, NEW t \in Tasks,
         \/ SndRefused(t) \/ SndDone(t) \/ SndArm(t) \/ SndWait(t) \/ SndExpire(t)
         \/ SndTieOff(t) \/ SndDrop(t) \/ SndPoll(t) \/ SndClear(t)
  PROVE  IInv'
<1> USE DEF IInv, TypeOK, At, MayRun, Goto, Return
<1>a. /\ {"idle", "twai_txi", "wait_txi", "clr_txi", "off", "drop", "poll_txi"}
            \subseteq Places \ SndWindow
      /\ {"E_OK", "E_OBJ", "E_TMOUT"} \subseteq Codes
  BY DEF Places, SndWindow, SndTail, Codes
<1>1. HwOK'
  BY FrameTypes DEF HwOK, SndRefused, SndDone, SndArm, SndWait, SndExpire, SndTieOff,
     SndDrop, SndPoll, SndClear, hw
<1>2. RingOK' /\ IrqOK' /\ HistOK' /\ isr = "idle" /\ UNCHANGED <<irq, ring, reg>>
  BY FrameTypes DEF SndRefused, SndDone, SndArm, SndWait, SndExpire, SndTieOff,
     SndDrop, SndPoll, SndClear
<1>3. MngOK' /\ sndData' \in {sndData, None}
  BY FrameTypes DEF MngOK, mng, link, flow, conf, SndRefused, SndDone, SndArm, SndWait,
     SndExpire, SndTieOff, SndDrop, SndPoll, SndClear
<1>4. SyncOK' /\ (dsp' = dsp \/ (dsp \in {None, t} /\ dsp' = None))
  BY FrameTypes DEF SyncOK, SndRefused, SndDone, SndArm, SndWait, SndExpire, SndTieOff,
     SndDrop, SndPoll, SndClear
<1>5. \E place \in Places \ SndWindow : pc' = [pc EXCEPT ![t] = place]
  BY <1>a DEF SndRefused, SndDone, SndArm, SndWait, SndExpire, SndTieOff, SndDrop,
     SndPoll, SndClear
<1>6. TaskOK'
  <2>1. pc' \in [Tasks -> Places] /\ left' = left /\ reg' = reg
    BY <1>5 DEF TaskOK, SndRefused, SndDone, SndArm, SndWait, SndExpire, SndTieOff,
       SndDrop, SndPoll, SndClear
  <2>2. ercd' \in [Tasks -> Codes]
    BY <1>a DEF TaskOK, SndRefused, SndDone, SndArm, SndWait, SndExpire, SndTieOff,
       SndDrop, SndPoll, SndClear, Polled
  <2> QED
    BY <2>1, <2>2 DEF TaskOK
<1>7. WindowInv'
  BY <1>2, <1>3, <1>4, <1>5, TaskMove DEF ring
<1> QED
  BY <1>1, <1>2, <1>3, <1>4, <1>6, <1>7, TaskQuiet

\* ctr_com never enters the window.
LEMMA CtrInv ==
  ASSUME IInv, NEW t \in Tasks,
         CtrCall(t) \/ CtrStep(t) \/ ClnExpire(t) \/ ClnBroken(t)
  PROVE  IInv'
<1> USE DEF IInv, TypeOK, At, MayRun, Goto, Return, CtrCall, CtrStep
<1>a. {"idle"} \cup ClnPlaces \cup CtrPlaces \subseteq Places \ SndWindow
  BY DEF Places, SndWindow, ClnPlaces, CtrPlaces
<1>1. RingOK' /\ UNCHANGED <<reg, left>> /\ (tcnt' = tcnt \/ dsp \in {None, t})
  BY FrameTypes, SizeAssumption DEF RingOK, ring,
     ClnStart, RstStart, StpStart, BrkStart, CtrStart, EnaSend, LockTrans,
     UnlockTrans, ClnArm, ClnWait, ClnExpire, ClnForget, ClnPoll, ClnClear, ClnBroken,
     ClnReturn, RstTxBuf, DisSend, BrkOn, BrkOff
<1>2. HwOK'
  <2>1. (fifo' = fifo \/ fifo' = 0) /\ rie' = rie /\ (tie' = tie \/ tie' = TRUE)
    BY DEF hw,
       ClnStart, RstStart, StpStart, BrkStart, CtrStart, EnaSend, LockTrans,
       UnlockTrans, ClnArm, ClnWait, ClnExpire, ClnForget, ClnPoll, ClnClear, ClnBroken,
       ClnReturn, RstTxBuf, DisSend, BrkOn, BrkOff
  <2>2. te' \in BOOLEAN
    BY DEF HwOK, hw,
       ClnStart, RstStart, StpStart, BrkStart, CtrStart, EnaSend, LockTrans,
       UnlockTrans, ClnArm, ClnWait, ClnExpire, ClnForget, ClnPoll, ClnClear, ClnBroken,
       ClnReturn, RstTxBuf, DisSend, BrkOn, BrkOff
  <2>3. fifo' \in 0 .. FifoDepth
    BY <2>1, SizeAssumption DEF HwOK
  <2>4. tie' \in BOOLEAN /\ rie' \in BOOLEAN
    BY <2>1 DEF HwOK
  <2> QED
    BY <2>2, <2>3, <2>4 DEF HwOK
<1>3. MngOK' /\ sndData' = sndData
  BY FrameTypes DEF MngOK, mng, link, flow, conf,
     ClnStart, RstStart, StpStart, BrkStart, CtrStart, EnaSend, LockTrans,
     UnlockTrans, ClnArm, ClnWait, ClnExpire, ClnForget, ClnPoll, ClnClear, ClnBroken,
     ClnReturn, RstTxBuf, DisSend, BrkOn, BrkOff
<1>4. SyncOK' /\ dsp' = dsp
  BY FrameTypes DEF SyncOK,
     ClnStart, RstStart, StpStart, BrkStart, CtrStart, EnaSend, LockTrans,
     UnlockTrans, ClnArm, ClnWait, ClnExpire, ClnForget, ClnPoll, ClnClear, ClnBroken,
     ClnReturn, RstTxBuf, DisSend, BrkOn, BrkOff
<1>5. IrqOK' /\ isr = "idle" /\ UNCHANGED irq
  BY FrameTypes DEF
     ClnStart, RstStart, StpStart, BrkStart, CtrStart, EnaSend, LockTrans,
     UnlockTrans, ClnArm, ClnWait, ClnExpire, ClnForget, ClnPoll, ClnClear, ClnBroken,
     ClnReturn, RstTxBuf, DisSend, BrkOn, BrkOff
<1>6. HistOK'
  <2>1. CASE RstTxBuf(t)
    BY <2>1, SizeAssumption DEF HistOK, RingOK, RstTxBuf
  <2>2. CASE ~RstTxBuf(t)
    BY <2>2, FrameTypes DEF
       ClnStart, RstStart, StpStart, BrkStart, CtrStart, EnaSend, LockTrans,
       UnlockTrans, ClnArm, ClnWait, ClnExpire, ClnForget, ClnPoll, ClnClear, ClnBroken,
       ClnReturn, DisSend, BrkOn, BrkOff
  <2> QED
    BY <2>1, <2>2
<1>7. \E place \in Places \ SndWindow : pc' = [pc EXCEPT ![t] = place]
  <2>1. CASE ClnBroken(t)
    <3>1. pc' = [pc EXCEPT ![t] = "tend"]
      BY <2>1 DEF ClnBroken, TaskOK
    <3> QED
      BY <3>1, <1>a DEF ClnPlaces
  <2>2. CASE CtrCall(t) \/ CtrStep(t) \/ ClnExpire(t)
    BY <2>2, <1>a DEF ClnPlaces, CtrPlaces,
       ClnStart, RstStart, StpStart, BrkStart, CtrStart, EnaSend, LockTrans,
     UnlockTrans, ClnArm, ClnWait, ClnExpire, ClnForget, ClnPoll, ClnClear, ClnBroken,
     ClnReturn, RstTxBuf, DisSend, BrkOn, BrkOff
  <2> QED
    BY <2>1, <2>2
<1>8. ercd' \in [Tasks -> Codes]
  BY DEF TaskOK, Codes, Polled,
     ClnStart, RstStart, StpStart, BrkStart, CtrStart, EnaSend, LockTrans,
     UnlockTrans, ClnArm, ClnWait, ClnExpire, ClnForget, ClnPoll, ClnClear, ClnBroken,
     ClnReturn, RstTxBuf, DisSend, BrkOn, BrkOff
<1>9. TaskOK'
  BY <1>1, <1>7, <1>8 DEF TaskOK
<1>10. WindowInv'
  BY <1>1, <1>3, <1>4, <1>7, TaskMove
<1> QED
  BY <1>1, <1>2, <1>3, <1>4, <1>5, <1>6, <1>9, <1>10, TaskQuiet

-----------------------------------------------------------------------------
\* The line and the ISR.

LEMMA LineInv == ASSUME IInv, LineShifts \/ IntrEnter PROVE IInv'
<1> USE DEF IInv, TypeOK
<1>1. /\ UNCHANGED <<tie, rie, te, ring, mng, flg, dsp, task, hist, isrp>>
      /\ fifo' = fifo \/ (fifo > 0 /\ fifo' = fifo - 1)
      /\ UNCHANGED irq \/ (isr' \in {"rx", "txi"} /\ ret' \in {ret, "idle"})
  BY DEF LineShifts, IntrEnter, irq, hw
<1>2. RingOK' /\ MngOK' /\ SyncOK' /\ TaskOK' /\ HistOK'
  BY <1>1, FrameTypes
<1>3. fifo' \in 0 .. FifoDepth
  BY <1>1, SizeAssumption DEF HwOK
<1>4. HwOK'
  BY <1>1, <1>3 DEF HwOK
<1>5. IrqOK'
  BY <1>1 DEF IrqOK, IsrPlaces, irq
<1>6. DrainReady' /\ LocalReady'
  BY <1>1 DEF DrainReady, LocalReady, irq, ring, mng, link
<1>7. WindowInv'
  BY <1>1, IsrMove DEF task, mng, link, ring, RingOK
<1> QED
  BY <1>2, <1>4, <1>5, <1>6, <1>7

\* iset_flg keeps the types, and moves no task into the window.
LEMMA SetFlagTypes ==
  ASSUME TypeOK, NEW pattern \in {"TXI", "TEI"}, NEW wait,
         NEW then \in {"clr_txi", "clr_tei"}, SetFlag(pattern, wait, then)
  PROVE  /\ flg' \subseteq {"TXI", "TEI"}
         /\ pc' \in [Tasks -> Places] /\ ercd' \in [Tasks -> Codes]
         /\ \A u \in Tasks : pc'[u] = pc[u] \/ pc'[u] \notin SndWindow
<1> USE DEF SetFlag, TypeOK
<1>1. flg' \subseteq {"TXI", "TEI"}
  BY DEF SyncOK
<1>2. then \in Places /\ then \notin SndWindow
  BY DEF Places, SndTail, ClnPlaces, SndWindow
<1>3. pc' \in [Tasks -> Places] /\ \A u \in Tasks : pc'[u] = pc[u] \/ pc'[u] \notin SndWindow
  BY <1>2 DEF TaskOK
<1>4. ercd' \in [Tasks -> Codes]
  BY DEF TaskOK, Codes
<1> QED
  BY <1>1, <1>3, <1>4

LEMMA RxIntrInv ==
  ASSUME IInv, RxXon \/ RxXoff \/ RxRxoff \/ RxEnd \/ ReadXon PROVE IInv'
<1> USE DEF IInv, TypeOK, RxXon, RxXoff, RxRxoff, RxEnd, ReadXon
<1>1. UNCHANGED <<rie, te, ring, sndData, enaTx, tlock, teiTask, flg, dsp, isrp, task, hist>>
  BY DEF hw, mng, link, flow, conf, irq
<1>2. RingOK' /\ SyncOK' /\ TaskOK' /\ HistOK'
  BY <1>1, FrameTypes
<1>3. fifo' \in 0 .. FifoDepth
  BY SizeAssumption DEF HwOK, hw
<1>4. tie' \in BOOLEAN /\ txXoff' \in BOOLEAN /\ req' \in BOOLEAN
  BY DEF HwOK, MngOK, hw, mng, flow
<1>5. HwOK' /\ MngOK'
  BY <1>1, <1>3, <1>4 DEF HwOK, MngOK
<1>6. isr' \in {"rx", "txi", "idle"} /\ ret' \in {"idle", "rx"}
  BY DEF IrqOK, irq
<1>7. IrqOK' /\ DrainReady' /\ LocalReady'
  BY <1>1, <1>6 DEF IrqOK, IsrPlaces, DrainReady, LocalReady
<1>8. WindowInv'
  BY <1>1, IsrMove DEF task, ring, RingOK
<1> QED
  BY <1>2, <1>5, <1>7, <1>8

\* The oldest byte of a ring that holds one lies inside the ring.
LEMMA OldestInRing == ASSUME RingOK, tcnt # 0 PROVE Oldest \in Index
BY SizeAssumption DEF RingOK, Oldest, Index

LEMMA TxiInv ==
  ASSUME IInv,
         \/ TxiStart \/ DrainByte \/ DrainFull \/ RefillByte \/ RefillDone \/ RefillEnd
         \/ LocalByte \/ LocalFull \/ TxiEnd
  PROVE  IInv'
<1> USE DEF IInv, TypeOK
<1>1. CASE TxiStart
  <2> USE <1>1 DEF TxiStart
  <2>1. RingOK' /\ SyncOK' /\ TaskOK' /\ HistOK'
    BY FrameTypes
  <2>2. fifo' \in 0 .. FifoDepth
    BY SizeAssumption DEF HwOK, Pushed
  <2>3. tie' \in BOOLEAN /\ rie' = rie /\ te' = te
    BY DEF HwOK
  <2>4. HwOK'
    BY <2>2, <2>3 DEF HwOK
  <2>5. MngOK'
    BY DEF MngOK, link, conf
  <2>6. IrqOK' /\ DrainReady' /\ LocalReady'
    BY OldestInRing, SizeAssumption
    DEF IrqOK, IsrPlaces, DrainReady, LocalReady, RingOK, Index, ring, link
  <2>7. WindowInv'
    BY IsrMove DEF task, ring, link, RingOK
  <2> QED
    BY <2>1, <2>4, <2>5, <2>6, <2>7
<1>2. CASE DrainByte
  <2> USE <1>2 DEF DrainByte
  <2>1. MngOK' /\ SyncOK' /\ TaskOK'
    BY FrameTypes
  <2>2. fifo' \in 0 .. FifoDepth /\ UNCHANGED <<tie, rie, te>>
    BY SizeAssumption DEF HwOK
  <2>3. HwOK'
    BY <2>2 DEF HwOK
  <2>4. RingOK' /\ HistOK' /\ isrp' \in 0 .. TSize /\ isrp' < TSize
    BY SizeAssumption DEF RingOK, HistOK, IrqOK, DrainReady, Wrap, Index
  <2>5. IrqOK' /\ DrainReady' /\ LocalReady'
    BY <2>4 DEF IrqOK, IsrPlaces, DrainReady, LocalReady, RingOK
  <2>6. WindowInv'
    BY IsrMove DEF task, mng, link, RingOK
  <2> QED
    BY <2>1, <2>3, <2>4, <2>5, <2>6
<1>3. CASE DrainFull \/ LocalFull \/ RefillEnd
  <2> USE <1>3 DEF DrainFull, LocalFull, RefillEnd
  <2>1. RingOK' /\ MngOK' /\ SyncOK' /\ TaskOK' /\ HistOK'
    BY FrameTypes
  <2>2. HwOK'
    BY FrameTypes DEF HwOK
  <2>3. IrqOK' /\ DrainReady' /\ LocalReady'
    BY DEF IrqOK, IsrPlaces, DrainReady, LocalReady
  <2>4. WindowInv'
    BY IsrMove DEF task, ring, mng, link, RingOK
  <2> QED
    BY <2>1, <2>2, <2>3, <2>4
<1>4. CASE RefillByte
  <2> USE <1>4 DEF RefillByte, RingHasRoom, AllTaken
  <2>1. HwOK' /\ MngOK' /\ SyncOK' /\ IrqOK'
    BY FrameTypes
  <2>2. RingOK' /\ HistOK'
    BY SizeAssumption DEF RingOK, HistOK, out, Wrap, Index
  <2>3. sndData \in Tasks
    BY DEF MngOK
  <2>4. TaskOK'
    BY <2>3, SizeAssumption DEF TaskOK
  <2>5. DrainReady' /\ LocalReady'
    BY DEF DrainReady, LocalReady, irq
  <2>6. WindowInv'
    BY IsrMove DEF mng, link, RingOK
  <2> QED
    BY <2>1, <2>2, <2>4, <2>5, <2>6
<1>5. CASE RefillDone
  <2> USE <1>5 DEF RefillDone
  <2>1. HwOK' /\ RingOK' /\ IrqOK' /\ HistOK'
    BY FrameTypes
  <2>2. MngOK'
    BY DEF MngOK, flow, conf
  <2>3. /\ flg' \subseteq {"TXI", "TEI"}
        /\ pc' \in [Tasks -> Places] /\ ercd' \in [Tasks -> Codes]
        /\ \A u \in Tasks : pc'[u] = pc[u] \/ pc'[u] \notin SndWindow
    BY SetFlagTypes
  <2>4. SyncOK' /\ TaskOK'
    BY <2>3 DEF SyncOK, TaskOK
  <2>5. DrainReady' /\ LocalReady'
    BY DEF DrainReady, LocalReady, irq
  <2>6. WindowInv'
    BY <2>3, IsrMove DEF ring, RingOK
  <2> QED
    BY <2>1, <2>2, <2>4, <2>5, <2>6
<1>6. CASE LocalByte
  <2> USE <1>6 DEF LocalByte, PassByte
  <2>1. RingOK'
    BY FrameTypes
  <2>2. sndData \in Tasks /\ fifo' \in 0 .. FifoDepth /\ HistOK'
    BY SizeAssumption DEF LocalReady, MngOK, HwOK, HistOK
  <2>3. tie' \in BOOLEAN /\ UNCHANGED <<rie, te>>
    BY DEF HwOK
  <2>4. HwOK'
    BY <2>2, <2>3 DEF HwOK
  <2>5. MngOK' /\ sndData' \in {sndData, None}
    BY DEF MngOK, flow, conf
  <2>6. left' \in [Tasks -> 0 .. UHMax] /\ reg' = reg
    BY <2>2, SizeAssumption DEF TaskOK, Dec
  <2>7. /\ flg' \subseteq {"TXI", "TEI"}
        /\ pc' \in [Tasks -> Places] /\ ercd' \in [Tasks -> Codes]
        /\ \A u \in Tasks : pc'[u] = pc[u] \/ pc'[u] \notin SndWindow
    <3>1. CASE Dec(left[sndData]) = 0
      BY <3>1, SetFlagTypes
    <3>2. CASE Dec(left[sndData]) # 0
      BY <3>2 DEF SyncOK, TaskOK
    <3> QED
      BY <3>1, <3>2
  <2>8. SyncOK' /\ TaskOK'
    BY <2>6, <2>7 DEF SyncOK, TaskOK
  <2>9. IrqOK' /\ DrainReady' /\ LocalReady'
    BY DEF IrqOK, IsrPlaces, DrainReady, LocalReady
  <2>10. WindowInv'
    BY <2>5, <2>7, IsrMove DEF ring, RingOK
  <2> QED
    BY <2>1, <2>2, <2>4, <2>5, <2>8, <2>9, <2>10
<1>7. CASE TxiEnd
  <2> USE <1>7 DEF TxiEnd
  <2>1. HwOK' /\ RingOK' /\ HistOK'
    BY FrameTypes
  <2>2. MngOK'
    BY DEF MngOK, flow, conf
  <2>3. /\ flg' \subseteq {"TXI", "TEI"}
        /\ pc' \in [Tasks -> Places] /\ ercd' \in [Tasks -> Codes]
        /\ \A u \in Tasks : pc'[u] = pc[u] \/ pc'[u] \notin SndWindow
    <3>1. CASE TeiDue
      BY <3>1, SetFlagTypes
    <3>2. CASE ~TeiDue
      BY <3>2 DEF SyncOK, TaskOK
    <3> QED
      BY <3>1, <3>2
  <2>4. SyncOK' /\ TaskOK'
    BY <2>3 DEF SyncOK, TaskOK
  <2>5. IrqOK' /\ DrainReady' /\ LocalReady'
    BY DEF IrqOK, IsrPlaces, DrainReady, LocalReady
  <2>6. WindowInv'
    BY <2>3, IsrMove DEF ring, RingOK
  <2> QED
    BY <2>1, <2>2, <2>4, <2>5, <2>6
<1> QED
  BY <1>1, <1>2, <1>3, <1>4, <1>5, <1>6, <1>7

LEMMA StutterInv == ASSUME IInv, UNCHANGED vars PROVE IInv'
<1> USE DEF IInv, TypeOK, vars
<1>1. TypeOK'
  BY FrameTypes
<1>2. WindowInv'
  BY DEF WindowInv, WindowAlone, WindowClean, CountRoom, task, mng, link, ring
<1>3. DrainReady' /\ LocalReady'
  BY DEF DrainReady, LocalReady, irq, ring, mng, link
<1> QED
  BY <1>1, <1>2, <1>3

LEMMA NextIInv == ASSUME IInv, [Next]_vars PROVE IInv'
<1>1. CASE LineShifts \/ IntrEnter
  BY <1>1, LineInv
<1>2. CASE Intr \/ ReadXon
  BY <1>2, RxIntrInv, TxiInv DEF Intr
<1>3. ASSUME NEW t \in Tasks, Call(t) PROVE IInv'
  BY <1>3, SndTailInv, SndStartInv, CtrInv DEF Call
<1>4. ASSUME NEW t \in Tasks, SndStep(t) PROVE IInv'
  BY <1>4, WindowStepInv, SndTailInv DEF SndStep
<1>5. ASSUME NEW t \in Tasks, CtrStep(t) \/ GiveUp(t) PROVE IInv'
  BY <1>5, CtrInv, SndTailInv DEF GiveUp
<1>6. CASE UNCHANGED vars
  BY <1>6, StutterInv
<1> QED
  BY <1>1, <1>2, <1>3, <1>4, <1>5, <1>6 DEF Next

(* In every behaviour, whatever the tasks, the line and the receive half   *)
(* do, sndp, tcnt and the ISR's own sndp stay inside the ring: snd, copy   *)
(* and send_drv_buf never index tbuf outside its bounds, and the ring's    *)
(* count never exceeds tsize.                                              *)
THEOREM TypeCorrect == Spec => []TypeOK
<1>1. Init => IInv
  BY InitIInv
<1>2. IInv /\ [Next]_vars => IInv'
  BY NextIInv
<1>3. IInv => TypeOK
  BY DEF IInv
<1> QED
  BY <1>1, <1>2, <1>3, PTL DEF Spec

-----------------------------------------------------------------------------
(* Calls of one sending task, with any peer: where SndData points, what the *)
(* two flags mean when they are found set, and what a call may return.      *)

Single == \A t, u \in Tasks : t = u

\* Where the ISR may have the rest of a transfer.
Served == {"arm", "twai_txi", "wait_txi", "off", "drop"}

\* The rest is with the ISR, not used up, until the flag says it is used up.
SndOf(t) ==
  /\ sndData = t => pc[t] \in Served /\ (isr # "refill" => left[t] # 0)
  /\ pc[t] \in Served /\ "TXI" \notin flg => sndData = t
  /\ "TXI" \in flg => /\ sndData = None /\ left[t] = 0
                     /\ pc[t] \in (Served \ {"wait_txi"}) \cup {"poll_txi", "clr_txi"}
  /\ pc[t] = "poll_txi" => ("TXI" \in flg <=> left[t] = 0)
  /\ pc[t] = "clr_txi" => (ercd[t] = "E_OK" <=> left[t] = 0)

\* Whoever is told that the ring is empty finds it so until the call returns.
ClnOf(t) ==
  /\ teiTask # None => pc[t] \in {"twai_tei", "wait_tei", "forget"}
  /\ "TEI" \in flg => /\ tcnt = 0 /\ teiTask = None
                     /\ pc[t] \in {"twai_tei", "forget", "poll_tei", "clr_tei"}
  /\ pc[t] \in {"clr_tei", "tend"} /\ ercd[t] = "E_OK" => tcnt = 0

CallOf(t) == SndOf(t) /\ ClnOf(t)
CallInv == \A t \in Tasks : CallOf(t)

SndTrue(t) ==
  (pc[t] \in SndWindow \cup {"clr_txi"} /\ pc'[t] = "idle")
    => (ercd'[t] = "E_OK" <=> left[t] = 0)
ClnTrue(t) ==
  (pc[t] = "tend" /\ pc'[t] = "idle" /\ ercd'[t] = "E_OK") => (tcnt = 0 /\ fifo = 0)

\* Steps that no call notices.
LEMMA CallAside ==
  ASSUME NEW t \in Tasks, CallOf(t), isr' # "refill" => isr # "refill",
         UNCHANGED <<sndData, teiTask, flg, pc, left, ercd, tcnt>>
  PROVE  CallOf(t)' /\ SndTrue(t) /\ ClnTrue(t)
BY DEF CallOf, SndOf, ClnOf, SndTrue, ClnTrue, SndWindow

\* The interrupt routine, in the order of txi.
LEMMA CallIntr ==
  ASSUME IInv, NEW t \in Tasks, CallOf(t), \A u \in Tasks : u = t, Intr
  PROVE  CallOf(t)' /\ SndTrue(t) /\ ClnTrue(t)
<1> USE DEF IInv, TypeOK, MngOK, TaskOK, SyncOK, CallOf
<1>1. sndData \in {None, t} /\ t # None
  BY TaskAssumption
<1>2. CASE \/ RxXon \/ RxXoff \/ RxRxoff \/ RxEnd \/ TxiStart \/ DrainFull \/ LocalFull
  BY <1>2, CallAside DEF RxXon, RxXoff, RxRxoff, RxEnd, TxiStart, DrainFull, LocalFull,
     link, mng, ring, irq, task
<1>3. CASE DrainByte
  <2>1. tcnt # 0
    BY <1>3 DEF DrainByte, DrainReady
  <2> QED
    BY <1>3, <2>1 DEF DrainByte, SndOf, ClnOf, SndTrue, ClnTrue, SndWindow, link, mng, task
<1>4. CASE RefillByte
  <2>1. pc[t] \in Served /\ "TXI" \notin flg /\ sndData = t
    BY <1>1, <1>4 DEF RefillByte, SndOf
  <2> QED
    BY <1>4, <2>1 DEF RefillByte, SndOf, ClnOf, SndTrue, ClnTrue, Served, SndWindow, link, mng, irq
<1>5. CASE RefillEnd
  BY <1>1, <1>5 DEF RefillEnd, AllTaken, SndOf, ClnOf, SndTrue, ClnTrue, SndWindow, link, mng, ring, task
<1>6. CASE RefillDone
  <2>1. pc[t] \in Served /\ sndData = t /\ left[t] = 0
    BY <1>1, <1>6 DEF RefillDone, AllTaken, SndOf
  <2>2. /\ pc'[t] = IF pc[t] = "wait_txi" THEN "clr_txi" ELSE pc[t]
        /\ ercd'[t] = IF pc[t] = "wait_txi" THEN "E_OK" ELSE ercd[t]
        /\ flg' = flg \cup {"TXI"} /\ sndData' = None
        /\ UNCHANGED <<teiTask, tcnt, left>>
    BY <1>6 DEF RefillDone, SetFlag, ring
  <2> QED
    BY <1>1, <2>1, <2>2 DEF SndOf, ClnOf, SndTrue, ClnTrue, Served, SndWindow
<1>7. CASE LocalByte
  <2>1. pc[t] \in Served /\ sndData = t /\ isr = "local" /\ "TXI" \notin flg
    BY <1>1, <1>7 DEF LocalByte, LocalReady, SndOf
  <2>2. left'[t] = Dec(left[t]) /\ UNCHANGED <<teiTask, tcnt>>
    BY <1>7, <2>1 DEF LocalByte, PassByte, ring
  <2>3. CASE Dec(left[t]) = 0
    <3>1. /\ pc'[t] = IF pc[t] = "wait_txi" THEN "clr_txi" ELSE pc[t]
          /\ ercd'[t] = IF pc[t] = "wait_txi" THEN "E_OK" ELSE ercd[t]
          /\ flg' = flg \cup {"TXI"} /\ sndData' = None
      BY <1>7, <2>1, <2>3 DEF LocalByte, SetFlag
    <3> QED
      BY <1>1, <2>1, <2>2, <2>3, <3>1 DEF SndOf, ClnOf, SndTrue, ClnTrue, Served, SndWindow
  <2>4. CASE Dec(left[t]) # 0
    BY <1>7, <2>1, <2>2, <2>4 DEF LocalByte, SndOf, ClnOf, SndTrue, ClnTrue, Served, SndWindow
  <2> QED
    BY <2>3, <2>4
<1>8. CASE TxiEnd
  <2>1. CASE TeiDue
    <3>1. /\ pc'[t] = IF pc[t] = "wait_tei" THEN "clr_tei" ELSE pc[t]
          /\ ercd'[t] = IF pc[t] = "wait_tei" THEN "E_OK" ELSE ercd[t]
          /\ flg' = flg \cup {"TEI"} /\ teiTask' = None
          /\ UNCHANGED <<sndData, tcnt, left>> /\ isr = "tail"
      BY <1>8, <2>1 DEF TxiEnd, SetFlag, ring
    <3>2. pc[t] \in {"twai_tei", "wait_tei", "forget"} /\ tcnt = 0
      BY <2>1 DEF TeiDue, ClnOf
    <3> QED
      BY <1>1, <3>1, <3>2 DEF SndOf, ClnOf, SndTrue, ClnTrue, Served, SndWindow
  <2>2. CASE ~TeiDue
    BY <1>8, <2>2, CallAside DEF TxiEnd, ring
  <2> QED
    BY <2>1, <2>2
<1> QED
  BY <1>2, <1>3, <1>4, <1>5, <1>6, <1>7, <1>8 DEF Intr

\* puts_com.
LEMMA CallSnd ==
  ASSUME IInv, NEW t \in Tasks, CallOf(t), \A u \in Tasks : u = t,
         SndRefused(t) \/ (\E n \in Lens : SndStart(t, n)) \/ SndStep(t) \/ SndExpire(t)
  PROVE  CallOf(t)' /\ SndTrue(t) /\ ClnTrue(t)
<1> USE DEF IInv, TypeOK, MngOK, TaskOK, SyncOK, CallOf, At, MayRun, Goto, Return, mng, link
<1>1. sndData \in {None, t} /\ t # None
  BY TaskAssumption
<1>2. pc[t] \in SndWindow \ {"arm"} => sndData = None
  BY DEF WindowInv, WindowClean
<1>3. CASE SndRefused(t) \/ \E n \in Lens : SndStart(t, n)
  BY <1>1, <1>3 DEF SndRefused, SndStart, SndOf, ClnOf, SndTrue, ClnTrue, Served, SndWindow,
     Admitted, ring
<1>4. CASE SendFlowChar(t) \/ SendChar(t) \/ SendCharFull(t) \/ SndUnmask(t)
  BY <1>1, <1>2, <1>4 DEF SendFlowChar, SendChar, SendCharFull, SndUnmask, PassByte,
     SndOf, ClnOf, SndTrue, ClnTrue, Served, SndWindow, ring, conf
<1>5. CASE CopyByte(t) \/ CopyLoad(t) \/ CopySave(t)
  BY <1>1, <1>2, <1>5 DEF CopyByte, CopyLoad, CopySave,
     SndOf, ClnOf, SndTrue, ClnTrue, Served, SndWindow, ring
<1>6. CASE SndDone(t) \/ SndHandOver(t) \/ SndArm(t)
  BY <1>1, <1>2, <1>6 DEF SndDone, SndHandOver, SndArm,
     SndOf, ClnOf, SndTrue, ClnTrue, Served, SndWindow, ring
<1>7. CASE SndWait(t) \/ SndExpire(t) \/ SndTieOff(t) \/ SndDrop(t)
  BY <1>1, <1>7 DEF SndWait, SndExpire, SndTieOff, SndDrop,
     SndOf, ClnOf, SndTrue, ClnTrue, Served, SndWindow, ring
<1>8. CASE SndPoll(t) \/ SndClear(t)
  BY <1>1, <1>8 DEF SndPoll, SndClear, Polled,
     SndOf, ClnOf, SndTrue, ClnTrue, Served, SndWindow, ring
<1> QED
  BY <1>3, <1>4, <1>5, <1>6, <1>7, <1>8 DEF SndStep

\* ctr_com.
LEMMA CallCtr ==
  ASSUME IInv, NEW t \in Tasks, CallOf(t), \A u \in Tasks : u = t,
         CtrCall(t) \/ CtrStep(t) \/ ClnExpire(t) \/ ClnBroken(t)
  PROVE  CallOf(t)' /\ SndTrue(t) /\ ClnTrue(t)
<1> USE DEF IInv, TypeOK, MngOK, TaskOK, SyncOK, CallOf, At, MayRun, Goto, Return, mng, link
<1>1. sndData \in {None, t} /\ t # None
  BY TaskAssumption
<1>2. CASE CtrCall(t)
  BY <1>1, <1>2 DEF CtrCall, ClnStart, RstStart, StpStart, BrkStart, EnaSend, LockTrans,
     UnlockTrans, CtrStart, SndOf, ClnOf, SndTrue, ClnTrue, Served, SndWindow, ring
<1>3. CASE ClnArm(t) \/ ClnWait(t) \/ ClnExpire(t) \/ ClnForget(t)
  <2>1. CASE ClnArm(t)
    BY <1>1, <2>1 DEF ClnArm, SndOf, ClnOf, SndTrue, ClnTrue, Served, SndWindow, ring
  <2>2. CASE ClnWait(t)
    BY <1>1, <2>2 DEF ClnWait, SndOf, ClnOf, SndTrue, ClnTrue, Served, SndWindow, ring
  <2>3. CASE ClnExpire(t) \/ ClnForget(t)
    BY <1>1, <2>3 DEF ClnExpire, ClnForget, SndOf, ClnOf, SndTrue, ClnTrue, Served, SndWindow, ring
  <2> QED
    BY <1>3, <2>1, <2>2, <2>3
<1>4. CASE ClnPoll(t) \/ ClnClear(t) \/ ClnBroken(t) \/ ClnReturn(t)
  BY <1>1, <1>4 DEF ClnPoll, ClnClear, ClnBroken, ClnReturn, Polled, Tend,
     SndOf, ClnOf, SndTrue, ClnTrue, Served, SndWindow, ring
<1>5. CASE RstTxBuf(t) \/ DisSend(t) \/ BrkOn(t) \/ BrkOff(t)
  BY <1>1, <1>5 DEF RstTxBuf, DisSend, BrkOn, BrkOff,
     SndOf, ClnOf, SndTrue, ClnTrue, Served, SndWindow, ring
<1> QED
  BY <1>2, <1>3, <1>4, <1>5 DEF CtrStep

LEMMA CallStep ==
  ASSUME IInv, CallInv, Single, [Next]_vars
  PROVE  CallInv' /\ (UNCHANGED vars \/ \A t \in Tasks : SndTrue(t) /\ ClnTrue(t))
<1>1. SUFFICES ASSUME NEW t \in Tasks
               PROVE  CallOf(t)' /\ (UNCHANGED vars \/ (SndTrue(t) /\ ClnTrue(t)))
  BY DEF CallInv
<1>2. CallOf(t) /\ \A u \in Tasks : u = t
  BY DEF CallInv, Single
<1>3. CASE LineShifts \/ IntrEnter \/ ReadXon \/ UNCHANGED vars
  BY <1>2, <1>3, CallAside DEF LineShifts, IntrEnter, ReadXon, vars, ring, mng, link, irq, task
<1>4. CASE Intr
  BY <1>2, <1>4, CallIntr
<1>5. ASSUME NEW u \in Tasks, Call(u) \/ SndStep(u) \/ CtrStep(u) \/ GiveUp(u)
      PROVE  CallOf(t)' /\ SndTrue(t) /\ ClnTrue(t)
  <2>1. u = t
    BY <1>2
  <2> QED
    BY <1>2, <1>5, <2>1, CallSnd, CallCtr DEF Call, GiveUp
<1> QED
  BY <1>3, <1>4, <1>5 DEF Next

LEMMA AlwaysCallInv ==
  ASSUME Single
  PROVE  Spec => [](IInv /\ CallInv)
<1>1. Init => CallInv
  BY TaskAssumption DEF Init, CallInv, CallOf, SndOf, ClnOf, Served
<1>2. IInv /\ CallInv /\ [Next]_vars => IInv' /\ CallInv'
  BY NextIInv, CallStep
<1> QED
  BY InitIInv, <1>1, <1>2, PTL DEF Spec

\* With one sending task the ISR has a pointer to a caller's T_COM_SND only
\* while that caller is inside puts_com, whatever the peer sends.
THEOREM NeverDangling ==
  ASSUME Single
  PROVE  Spec => []NoDanglingSndData
<1>1. IInv /\ CallInv => NoDanglingSndData
  BY DEF IInv, TypeOK, MngOK, CallInv, CallOf, SndOf, Served, NoDanglingSndData
<1> QED
  BY AlwaysCallInv, <1>1, PTL

\* With one sending task puts_com returns E_OK exactly when every byte has been
\* taken, however a time-out races with the ISR.
THEOREM ResultTrue ==
  ASSUME Single
  PROVE  Spec => SndResult
<1>1. IInv /\ CallInv /\ [Next]_vars
        => [\A t \in Tasks :
              (pc[t] \in SndWindow \cup {"clr_txi"} /\ pc'[t] = "idle")
                => (ercd'[t] = "E_OK" <=> left[t] = 0)]_vars
  BY CallStep DEF SndTrue
<1> QED
  BY AlwaysCallInv, <1>1, PTL DEF Spec, SndResult

\* With one sending task CLN_TXBUF returns E_OK only when ring and FIFO are empty.
THEOREM CleanedTrue ==
  ASSUME Single
  PROVE  Spec => ClnDrains
<1>1. IInv /\ CallInv /\ [Next]_vars
        => [\A t \in Tasks :
              (pc[t] = "tend" /\ pc'[t] = "idle" /\ ercd'[t] = "E_OK")
                => (tcnt = 0 /\ fifo = 0)]_vars
  BY CallStep DEF ClnTrue
<1> QED
  BY AlwaysCallInv, <1>1, PTL DEF Spec, ClnDrains

-----------------------------------------------------------------------------
(***************************************************************************)
(* Software flow control: an XOFF received at any moment is respected by   *)
(* the task that fills the FIFO and by the ISR.                            *)
(***************************************************************************)

\* While a task fills the FIFO itself neither half of the ISR can start, so
\* what it saw of tx_xoff stays true.
Masked ==
  \A t \in Tasks : pc[t] \in {"flow", "fill", "unmask"}
                     => (isr = "idle" /\ tie = FALSE /\ rie = FALSE)
FillAllowed == \A t \in Tasks : pc[t] = "fill" => ~txXoff
\* Inside one run of txi nothing looks for a new XOFF.
DrainAllowed == isr \in {"drain", "local"} => ~txXoff

FInv == Masked /\ FillAllowed /\ DrainAllowed

\* Data leaves for the FIFO only while the peer allows it.
Allowed == written' # written => ~txXoff

LEMMA InitFInv == Init => FInv
BY DEF Init, FInv, Masked, FillAllowed, DrainAllowed

\* A task outside the window before and after its step.
LEMMA FlowOutside ==
  ASSUME IInv, FInv, NEW t \in Tasks, MayRun(t),
         NEW place \in Places \ {"flow", "fill", "unmask"},
         pc' = [pc EXCEPT ![t] = place], UNCHANGED <<irq, txXoff>>
  PROVE  FInv'
<1>1. \A u \in Tasks : pc'[u] \notin {"flow", "fill", "unmask"}
  BY TaskAssumption
  DEF IInv, TypeOK, TaskOK, WindowInv, WindowAlone, MayRun, SndWindow
<1> QED
  BY <1>1 DEF FInv, Masked, FillAllowed, DrainAllowed, irq

LEMMA FlowSnd ==
  ASSUME IInv, FInv, NEW t \in Tasks,
         SndRefused(t) \/ (\E n \in Lens : SndStart(t, n)) \/ SndStep(t)
  PROVE  FInv' /\ Allowed
<1> USE DEF At, Goto, Return
<1>a. pc \in [Tasks -> Places]
  BY DEF IInv, TypeOK, TaskOK
<1>1. CASE \/ (\E n \in Lens : SndStart(t, n))
           \/ SendFlowChar(t) \/ SendChar(t) \/ SendCharFull(t)
  <2> USE <1>1 DEF SndStart, SendFlowChar, SendChar, SendCharFull
  <2>1. \A u \in Tasks : u # t => pc'[u] = pc[u] /\ pc[u] \notin SndWindow
    BY <1>a, TaskAssumption DEF IInv, WindowInv, WindowAlone, MayRun
  <2>2. Masked'
    BY <1>a, <2>1 DEF FInv, Masked, MayRun, SndWindow, irq, hw
  <2>3. FillAllowed'
    BY <1>a, <2>1 DEF FInv, FillAllowed, MaySend, SndWindow, mng, link, flow
  <2>4. DrainAllowed'
    BY DEF DrainAllowed, MayRun, irq
  <2>5. Allowed
    BY DEF Allowed, FInv, FillAllowed, hist, out
  <2> QED
    BY <2>2, <2>3, <2>4, <2>5 DEF FInv
<1>2. CASE \/ SndRefused(t) \/ SndUnmask(t) \/ CopyByte(t) \/ CopyLoad(t) \/ CopySave(t)
           \/ SndDone(t) \/ SndHandOver(t) \/ SndArm(t) \/ SndWait(t)
           \/ SndTieOff(t) \/ SndDrop(t) \/ SndPoll(t) \/ SndClear(t)
  <2> USE <1>2 DEF SndRefused, SndUnmask, CopyByte, CopyLoad, CopySave, SndDone,
            SndHandOver, SndArm, SndWait, SndTieOff, SndDrop, SndPoll, SndClear
  <2>1. MayRun(t) /\ UNCHANGED <<irq, txXoff, written>>
    BY DEF mng, flow, hist, out
  <2>2. \E place \in Places \ {"flow", "fill", "unmask"} : pc' = [pc EXCEPT ![t] = place]
    BY DEF Places, SndWindow, SndTail
  <2> QED
    BY <2>1, <2>2, FlowOutside DEF Allowed
<1> QED
  BY <1>1, <1>2 DEF SndStep

LEMMA FlowCtr ==
  ASSUME IInv, FInv, NEW t \in Tasks, CtrCall(t) \/ CtrStep(t) \/ ClnBroken(t)
  PROVE  FInv' /\ Allowed
<1> USE DEF At, Goto, Return, CtrCall, CtrStep, ClnStart, RstStart, StpStart, BrkStart,
            CtrStart, EnaSend, LockTrans, UnlockTrans, ClnArm, ClnWait, ClnForget, ClnPoll,
            ClnClear, ClnBroken, ClnReturn, RstTxBuf, DisSend, BrkOn, BrkOff
<1>1. MayRun(t) /\ UNCHANGED <<irq, txXoff>>
  BY DEF mng, flow
<1>2. \E place \in Places \ {"flow", "fill", "unmask"} : pc' = [pc EXCEPT ![t] = place]
  <2>1. CASE ClnBroken(t)
    <3>1. pc' = [pc EXCEPT ![t] = "tend"]
      BY <2>1 DEF IInv, TypeOK, TaskOK
    <3> QED
      BY <3>1 DEF Places, ClnPlaces
  <2>2. CASE ~ClnBroken(t)
    BY <2>2 DEF Places, ClnPlaces, CtrPlaces
  <2> QED
    BY <2>1, <2>2
<1>3. Allowed
  BY DEF Allowed, hist, out
<1> QED
  BY <1>1, <1>2, <1>3, FlowOutside

LEMMA FlowExpire ==
  ASSUME IInv, FInv, NEW t \in Tasks, SndExpire(t) \/ ClnExpire(t)
  PROVE  FInv' /\ Allowed
<1> USE DEF SndExpire, ClnExpire, Goto
<1>1. /\ UNCHANGED <<irq, tie, rie, txXoff, written>>
      /\ \A u \in Tasks : pc'[u] = pc[u] \/ pc'[u] \notin {"flow", "fill", "unmask"}
  BY DEF IInv, TypeOK, TaskOK, mng, flow, hw, hist, out
<1> QED
  BY <1>1 DEF FInv, Masked, FillAllowed, DrainAllowed, Allowed, irq

\* The ISR runs only while no task fills the FIFO, and brings none there.
LEMMA FlowIntr == ASSUME IInv, FInv, Intr PROVE FInv' /\ Allowed
<1>1. \A u \in Tasks : pc'[u] = pc[u] \/ pc'[u] \notin SndWindow
  <2>1. CASE UNCHANGED task
    BY <2>1 DEF task
  <2>2. CASE RefillByte
    BY <2>2 DEF RefillByte
  <2>3. CASE RefillDone \/ (LocalByte /\ Dec(left[sndData]) = 0) \/ (TxiEnd /\ TeiDue)
    BY <2>3, SetFlagTypes DEF IInv, RefillDone, LocalByte, TxiEnd
  <2>4. CASE LocalByte /\ Dec(left[sndData]) # 0
    BY <2>4 DEF LocalByte
  <2> QED
    BY <2>1, <2>2, <2>3, <2>4
    DEF Intr, RxXon, RxXoff, RxRxoff, RxEnd, TxiStart, DrainByte, DrainFull, RefillEnd,
        LocalFull, TxiEnd, task
<1>2. isr # "idle"
  BY DEF Intr, RxXon, RxXoff, RxRxoff, RxEnd, TxiStart, DrainByte, DrainFull, RefillByte,
     RefillDone, RefillEnd, LocalByte, LocalFull, TxiEnd
<1>3. Masked' /\ FillAllowed'
  BY <1>1, <1>2 DEF FInv, Masked, FillAllowed, SndWindow
<1>4. DrainAllowed' /\ Allowed
  BY DEF FInv, DrainAllowed, Allowed, MaySend, Intr, RxXon, RxXoff, RxRxoff, RxEnd, TxiStart,
     DrainByte, DrainFull, RefillByte, RefillDone, RefillEnd, LocalByte, PassByte, LocalFull,
     TxiEnd, IInv, TypeOK, IrqOK, irq, mng, link, flow, hist, out
<1> QED
  BY <1>3, <1>4 DEF FInv

LEMMA FlowEnter ==
  ASSUME FInv, LineShifts \/ IntrEnter \/ UNCHANGED vars
  PROVE  FInv' /\ Allowed
<1>1. UNCHANGED <<task, tie, rie, txXoff, written>>
  BY DEF LineShifts, IntrEnter, vars, hw, mng, flow, hist, out
<1>2. UNCHANGED isr \/ (isr = "idle" /\ (tie \/ rie) /\ isr' \in {"rx", "txi"})
  BY DEF LineShifts, IntrEnter, vars, irq
<1> QED
  BY <1>1, <1>2 DEF FInv, Masked, FillAllowed, DrainAllowed, Allowed, task

\* A reading task runs only while no sending task is inside the window.
LEMMA FlowRead == ASSUME IInv, FInv, ReadXon PROVE FInv' /\ Allowed
<1>1. UNCHANGED <<task, rie, txXoff, written, irq>> /\ dsp = None
  BY DEF ReadXon, mng, flow, hist, out
<1>2. \A t \in Tasks : pc[t] \notin SndWindow
  BY <1>1, TaskAssumption DEF IInv, WindowInv, WindowAlone
<1> QED
  BY <1>1, <1>2 DEF FInv, Masked, FillAllowed, DrainAllowed, Allowed, task, irq, SndWindow

LEMMA NextFInv == ASSUME IInv, FInv, [Next]_vars PROVE FInv' /\ Allowed
<1>1. CASE LineShifts \/ IntrEnter \/ UNCHANGED vars
  BY <1>1, FlowEnter
<1>2. CASE Intr \/ ReadXon
  BY <1>2, FlowIntr, FlowRead
<1>3. ASSUME NEW t \in Tasks, Call(t) \/ SndStep(t) PROVE FInv' /\ Allowed
  BY <1>3, FlowSnd, FlowCtr DEF Call
<1>4. ASSUME NEW t \in Tasks, CtrStep(t) \/ GiveUp(t) PROVE FInv' /\ Allowed
  BY <1>4, FlowCtr, FlowExpire, FlowSnd DEF GiveUp
<1> QED
  BY <1>1, <1>2, <1>3, <1>4 DEF Next

(* Whatever arrives and whenever, no data byte is written to FTDR after an *)
(* XOFF has been taken in and before the next XON: send_char and txi both  *)
(* look, and nothing can change tx_xoff between their look and their write.*)
THEOREM XoffIsRespected == Spec => XoffRespected
<1>1. Init => IInv /\ FInv
  BY InitIInv, InitFInv
<1>2. IInv /\ FInv /\ [Next]_vars => IInv' /\ FInv' /\ Allowed
  BY NextIInv, NextFInv
<1>3. Spec => [][Allowed]_vars
  BY <1>1, <1>2, PTL DEF Spec
<1> QED
  BY <1>3 DEF XoffRespected, Allowed

-----------------------------------------------------------------------------
(***************************************************************************)
(* Several callers: whose bytes are taken.                                 *)
(***************************************************************************)

\* A task takes bytes only from inside the window, where no transfer of
\* another is in progress; the ISR only from the caller SndData points to.
LEMMA NextUnmixed ==
  ASSUME IInv, [Next]_vars, NEW t \in Tasks, NEW u \in Tasks,
         t # u, taken' # taken, left'[t] # left[t]
  PROVE  ~InProgress(u)
<1>a. left \in [Tasks -> 0 .. UHMax]
  BY DEF IInv, TypeOK, TaskOK
<1>1. \/ \E v \in Tasks : SendChar(v) \/ CopyByte(v)
      \/ RefillByte \/ LocalByte
  BY DEF Next, Call, CtrCall, GiveUp, SndStep, CtrStep, Intr, vars, hist, LineShifts,
     IntrEnter, ReadXon, SndRefused, SndStart, SendFlowChar, SendCharFull, SndUnmask,
     CopyLoad, CopySave, SndDone, SndHandOver, SndArm, SndWait, SndExpire, SndTieOff,
     SndDrop, SndPoll, SndClear, ClnStart, RstStart, StpStart, BrkStart, CtrStart, EnaSend,
     LockTrans, UnlockTrans, ClnArm, ClnWait, ClnExpire, ClnForget, ClnPoll, ClnClear,
     ClnBroken, ClnReturn, RstTxBuf, DisSend, BrkOn, BrkOff, RxXon, RxXoff, RxRxoff, RxEnd,
     TxiStart, DrainByte, DrainFull, RefillDone, RefillEnd, LocalFull, TxiEnd
<1>2. CASE \E v \in Tasks : SendChar(v) \/ CopyByte(v)
  <2>1. SendChar(t) \/ CopyByte(t)
    BY <1>a, <1>2 DEF SendChar, CopyByte, PassByte
  <2>2. MayRun(t) /\ pc[t] \in SndWindow \ {"arm"}
    BY <2>1 DEF SendChar, CopyByte, At, SndWindow
  <2> QED
    BY <2>2, TaskAssumption DEF IInv, WindowInv, WindowAlone, WindowClean, InProgress, MayRun
<1>3. CASE RefillByte \/ LocalByte
  <2>1. sndData = t
    BY <1>a, <1>3 DEF RefillByte, LocalByte, PassByte
  <2>2. pc[u] \notin SndWindow
    BY <1>3, <2>1, TaskAssumption
    DEF IInv, WindowInv, WindowAlone, WindowClean
  <2> QED
    BY <2>1, <2>2 DEF InProgress
<1> QED
  BY <1>1, <1>2, <1>3

(* Any number of callers, with or without a ring, whatever the peer does:  *)
(* while one call of puts_com has bytes to send no byte of another goes in *)
(* between.                                                                *)
THEOREM TransfersUnmixed == Spec => NoMixing
<1>1. IInv /\ [Next]_vars =>
        \A t, u \in Tasks :
          (t # u /\ taken' # taken /\ left'[t] # left[t]) => ~InProgress(u)
  BY NextUnmixed
<1>2. Spec => []IInv
  BY InitIInv, NextIInv, PTL DEF Spec
<1> QED
  BY <1>1, <1>2, PTL DEF Spec, NoMixing

-----------------------------------------------------------------------------
(***************************************************************************)
(* The transmit side implements the abstract queue of bytes, for every     *)
(* number of tasks and every size, as long as the receive half is silent   *)
(* (the run tx_duplex shows that a receive interrupt may break it).        *)
(***************************************************************************)

(* The inductive invariant.                                                *)

\* With the receive half silent, a task inside the window has the driver for
\* itself: the ISR neither runs nor can start.
WindowSilent == \A t \in Tasks : pc[t] \in SndWindow => (isr = "idle" /\ tie = FALSE)

\* The caller's bytes go straight to the FIFO only past an empty ring, and
\* tcnt does not change between its load and its store.
FlowEmpty == \A t \in Tasks : pc[t] \in {"flow", "fill"} => tcnt = 0
SaveFresh == \A t \in Tasks : pc[t] = "save" => reg[t] = tcnt

\* The byte that is in the ring but not yet in tcnt.
InCopy  == \E t \in Tasks : pc[t] \in {"count", "save"}
Counted == IF InCopy THEN tcnt + 1 ELSE tcnt

\* The ring holds the last "Counted" bytes taken, the newest just behind sndp.
Slot(i) == IF i < 0 THEN i + TSize ELSE i
HeldOK ==
  /\ taken - sent = Counted
  /\ \A k \in 1 .. taken - sent : tbuf[Slot(sndp - k)] = taken - k + 1

IsrOK ==
  /\ isr # "rx" /\ ret = "idle"
  /\ isr = "drain" => isrp = Oldest
  /\ isr = "local" => TSize = 0

QInv == WindowSilent /\ FlowEmpty /\ SaveFresh /\ HeldOK /\ IsrOK

LEMMA InitQInv == Init => QInv /\ Queue!Init
<1> SUFFICES ASSUME Init PROVE QInv /\ Queue!Init
  OBVIOUS
<1> USE DEF Init
<1>1. WindowSilent /\ FlowEmpty /\ SaveFresh /\ ~InCopy
  BY DEF WindowSilent, FlowEmpty, SaveFresh, InCopy, SndWindow
<1>2. HeldOK
  BY <1>1 DEF HeldOK, Counted
<1> QED
  BY <1>1, <1>2 DEF QInv, IsrOK, Queue!Init

\* The three things that may happen to the ring.
LEMMA Kept ==
  ASSUME HeldOK, UNCHANGED <<tbuf, sndp, tcnt, taken, out>>, InCopy' <=> InCopy
  PROVE  HeldOK' /\ UNCHANGED Queue!queue
BY DEF HeldOK, Counted, Queue!queue, out

LEMMA Pushed1 ==
  ASSUME RingOK, HistOK, HeldOK, ~InCopy, tcnt < TSize,
         tbuf' = [tbuf EXCEPT ![sndp] = taken + 1],
         sndp' = Wrap(sndp + 1),
         taken' = taken + 1, UNCHANGED out, Counted' = tcnt + 1
  PROVE  HeldOK' /\ Queue!Accept
<1> USE SizeAssumption DEF RingOK, HistOK, out
<1>1. taken - sent = tcnt /\ taken' - sent' = tcnt + 1
  BY DEF HeldOK, Counted
<1>2. ASSUME NEW k \in 1 .. taken' - sent'
      PROVE  tbuf'[Slot(sndp' - k)] = taken' - k + 1
  <2>1. CASE k = 1
    <3>1. Slot(sndp' - 1) = sndp
      BY DEF Slot, Wrap
    <3> QED
      BY <3>1, <2>1 DEF Index
  <2>2. CASE k # 1
    <3>1. k - 1 \in 1 .. tcnt
      BY <1>1, <2>2
    <3>2. /\ Slot(sndp' - k) = Slot(sndp - (k - 1))
          /\ Slot(sndp' - k) # sndp /\ Slot(sndp' - k) \in Index
      BY <3>1 DEF Slot, Wrap, Index
    <3>3. tbuf[Slot(sndp - (k - 1))] = taken - (k - 1) + 1
      BY <3>1, <1>1 DEF HeldOK
    <3> QED
      BY <3>1, <3>2, <3>3
  <2> QED
    BY <2>1, <2>2
<1>3. HeldOK'
  BY <1>1, <1>2 DEF HeldOK
<1> QED
  BY <1>1, <1>3 DEF Queue!Accept

LEMMA Popped1 ==
  ASSUME RingOK, HistOK, HeldOK, ~InCopy, ~InCopy', tcnt > 0,
         UNCHANGED <<tbuf, sndp, taken, dropped>>,
         sent' = tbuf[Oldest], written' = written + 1, tcnt' = tcnt - 1
  PROVE  HeldOK' /\ Queue!Deliver
<1> USE SizeAssumption DEF RingOK, HistOK
<1>1. taken - sent = tcnt /\ Counted' = tcnt - 1
  BY DEF HeldOK, Counted
<1>2. Oldest = Slot(sndp - tcnt)
  BY DEF Oldest, Slot
<1>3. sent' = sent + 1
  BY <1>1, <1>2 DEF HeldOK
<1>4. HeldOK'
  BY <1>1, <1>3 DEF HeldOK
<1> QED
  BY <1>1, <1>3, <1>4 DEF Queue!Deliver

LEMMA Passed1 ==
  ASSUME RingOK, HistOK, HeldOK, ~InCopy, ~InCopy', tcnt = 0,
         UNCHANGED <<tcnt, dropped>>, taken' = taken + 1, sent' = taken + 1,
         written' = written + 1
  PROVE  HeldOK' /\ Queue!PassThrough
<1>1. taken = sent
  BY DEF HeldOK, Counted, HistOK
<1>2. HeldOK'
  BY DEF HeldOK, Counted, HistOK
<1> QED
  BY <1>1, <1>2 DEF Queue!PassThrough

-----------------------------------------------------------------------------
(* Steps of tasks.                                                         *)

\* A task that may run is alone in the window, if anyone is in it.
LEMMA Alone ==
  ASSUME IInv, NEW t \in Tasks, MayRun(t)
  PROVE  \A u \in Tasks : pc[u] \in SndWindow => u = t
BY TaskAssumption DEF IInv, WindowInv, WindowAlone, MayRun

\* After a step of a task to a place outside the window nobody is inside.
LEMMA NobodyInside ==
  ASSUME IInv, NEW t \in Tasks, MayRun(t), pc[t] \notin {"count", "save"},
         NEW place \in Places \ SndWindow, pc' = [pc EXCEPT ![t] = place],
         IsrOK, UNCHANGED irq
  PROVE  WindowSilent' /\ FlowEmpty' /\ SaveFresh' /\ IsrOK' /\ ~InCopy /\ ~InCopy'
<1>1. \A u \in Tasks : pc'[u] \notin SndWindow /\ pc[u] \notin {"count", "save"}
  BY Alone DEF IInv, TypeOK, TaskOK, SndWindow
<1>2. isr = "idle"
  BY DEF MayRun
<1> QED
  BY <1>1, <1>2 DEF WindowSilent, FlowEmpty, SaveFresh, IsrOK, InCopy, SndWindow, irq

LEMMA OutsideStep ==
  ASSUME IInv, QInv, NEW t \in Tasks,
         \/ SndRefused(t) \/ SndDone(t) \/ SndArm(t) \/ SndWait(t)
         \/ SndTieOff(t) \/ SndDrop(t) \/ SndPoll(t) \/ SndClear(t)
         \/ CtrCall(t) \/ (CtrStep(t) /\ ~RstTxBuf(t)) \/ ClnBroken(t)
  PROVE  QInv' /\ UNCHANGED Queue!queue
<1> USE DEF QInv, At, Goto, Return
<1>a. {"idle", "twai_txi", "wait_txi", "clr_txi", "drop", "poll_txi"}
        \cup ClnPlaces \cup CtrPlaces \subseteq Places \ SndWindow
  BY DEF Places, SndWindow, SndTail, ClnPlaces, CtrPlaces
<1>1. MayRun(t) /\ pc[t] \notin {"count", "save"} /\ UNCHANGED <<irq, ring, hist>>
  BY DEF CtrCall, CtrStep,
     SndRefused, SndDone, SndArm, SndWait, SndTieOff, SndDrop, SndPoll, SndClear,
     ClnStart, RstStart, StpStart, BrkStart, CtrStart, EnaSend, LockTrans,
     UnlockTrans, ClnArm, ClnWait, ClnForget, ClnPoll, ClnClear, ClnBroken,
     ClnReturn, DisSend, BrkOn, BrkOff
<1>2. \E place \in Places \ SndWindow : pc' = [pc EXCEPT ![t] = place]
  <2>1. CASE ClnBroken(t)
    <3>1. pc' = [pc EXCEPT ![t] = "tend"]
      BY <2>1 DEF ClnBroken, IInv, TypeOK, TaskOK
    <3> QED
      BY <3>1, <1>a DEF ClnPlaces
  <2>2. CASE ~ClnBroken(t)
    BY <2>2, <1>a DEF ClnPlaces, CtrPlaces, CtrCall, CtrStep,
     SndRefused, SndDone, SndArm, SndWait, SndTieOff, SndDrop, SndPoll, SndClear,
     ClnStart, RstStart, StpStart, BrkStart, CtrStart, EnaSend, LockTrans,
     UnlockTrans, ClnArm, ClnWait, ClnForget, ClnPoll, ClnClear, ClnBroken,
     ClnReturn, DisSend, BrkOn, BrkOff
  <2> QED
    BY <2>1, <2>2
<1>3. WindowSilent' /\ FlowEmpty' /\ SaveFresh' /\ IsrOK' /\ ~InCopy /\ ~InCopy'
  BY <1>1, <1>2, NobodyInside
<1>4. HeldOK' /\ UNCHANGED Queue!queue
  BY <1>1, <1>3, Kept DEF ring, hist, out
<1> QED
  BY <1>3, <1>4

\* The end of a wait: the task does not need the processor for it.
LEMMA ExpireStep ==
  ASSUME IInv, QInv, NEW t \in Tasks, SndExpire(t) \/ ClnExpire(t)
  PROVE  QInv' /\ UNCHANGED Queue!queue
<1> USE DEF QInv, SndExpire, ClnExpire, Goto
<1>1. /\ UNCHANGED <<irq, ring, hist, tie, reg>>
      /\ \A u \in Tasks : pc'[u] = pc[u] \/ (pc'[u] \notin SndWindow /\ pc[u] \notin SndWindow)
  BY DEF IInv, TypeOK, TaskOK, SndWindow, hw
<1>2. (InCopy' <=> InCopy) /\ HeldOK' /\ UNCHANGED Queue!queue
  <2>1. InCopy' <=> InCopy
    BY <1>1 DEF InCopy, SndWindow
  <2> QED
    BY <1>1, <2>1, Kept DEF ring, hist, out
<1>3. WindowSilent' /\ FlowEmpty' /\ SaveFresh' /\ IsrOK'
  BY <1>1 DEF WindowSilent, FlowEmpty, SaveFresh, IsrOK, Oldest, SndWindow, irq, ring
<1> QED
  BY <1>2, <1>3

LEMMA ResetStep ==
  ASSUME IInv, QInv, NEW t \in Tasks, RstTxBuf(t)
  PROVE  QInv' /\ Queue!Flush
<1> USE DEF QInv, RstTxBuf, At, Goto, Return
<1>1. "idle" \in Places \ SndWindow
  BY DEF Places, SndWindow
<1>2. WindowSilent' /\ FlowEmpty' /\ SaveFresh' /\ IsrOK' /\ ~InCopy'
  BY <1>1, NobodyInside
<1>3. ~InCopy /\ HistOK
  BY <1>1, NobodyInside DEF IInv, TypeOK
<1>4. HeldOK' /\ tcnt = taken - sent
  BY <1>2, <1>3 DEF HeldOK, Counted, HistOK
<1> QED
  BY <1>2, <1>4 DEF Queue!Flush

\* A step inside the window: the others stay outside, the ISR stays out.
LEMMA InsideMove ==
  ASSUME IInv, QInv, NEW t \in Tasks, MayRun(t), NEW place \in SndWindow,
         pc[t] \in SndWindow \/ tie' = FALSE,
         pc' = [pc EXCEPT ![t] = place], UNCHANGED irq, tie' = tie \/ tie' = FALSE,
         place \in {"flow", "fill"} => tcnt' = 0,
         place = "save" => reg'[t] = tcnt'
  PROVE  /\ WindowSilent' /\ FlowEmpty' /\ SaveFresh' /\ IsrOK'
         /\ InCopy  <=> pc[t] \in {"count", "save"}
         /\ InCopy' <=> place \in {"count", "save"}
<1>1. /\ pc'[t] = place
      /\ \A u \in Tasks : u # t => pc'[u] = pc[u] /\ pc[u] \notin SndWindow
  BY Alone DEF IInv, TypeOK, TaskOK
<1>2. isr = "idle" /\ isr' = "idle" /\ ret' = ret /\ tie' = FALSE
  BY DEF MayRun, irq, QInv, WindowSilent
<1>3. WindowSilent' /\ FlowEmpty' /\ SaveFresh' /\ IsrOK'
  BY <1>1, <1>2 DEF WindowSilent, FlowEmpty, SaveFresh, IsrOK, QInv, SndWindow
<1>4. /\ InCopy  <=> pc[t] \in {"count", "save"}
      /\ InCopy' <=> place \in {"count", "save"}
  BY <1>1 DEF InCopy, SndWindow
<1> QED
  BY <1>3, <1>4

LEMMA InsideStep ==
  ASSUME IInv, QInv, NEW t \in Tasks,
         \/ \E n \in Lens : SndStart(t, n)
         \/ SendFlowChar(t) \/ SendChar(t) \/ SendCharFull(t) \/ SndUnmask(t)
         \/ CopyByte(t) \/ CopyLoad(t) \/ CopySave(t) \/ SndHandOver(t)
  PROVE  QInv' /\ [Queue!Next]_(Queue!queue)
<1> USE DEF QInv, At, Goto
<1>a. RingOK /\ HistOK /\ TaskOK
  BY DEF IInv, TypeOK
<1>1. CASE \E n \in Lens : SndStart(t, n)
  <2>1. PICK n \in Lens : SndStart(t, n)
    BY <1>1
  <2> USE <2>1 DEF SndStart, Bypass
  <2>2. /\ WindowSilent' /\ FlowEmpty' /\ SaveFresh' /\ IsrOK'
        /\ ~InCopy /\ ~InCopy'
    BY InsideMove DEF SndWindow, ring
  <2> QED
    BY <2>2, Kept DEF ring, hist, out
<1>2. CASE SendFlowChar(t) \/ SendCharFull(t) \/ SndUnmask(t) \/ SndHandOver(t)
  <2> USE <1>2 DEF SendFlowChar, SendCharFull, SndUnmask, SndHandOver
  <2>1. MayRun(t) /\ pc[t] \in SndWindow /\ UNCHANGED <<irq, ring, hist, tie>>
    BY DEF SndWindow, hw
  <2>2. \E place \in {"unmask", "fill", "copy", "arm"} :
           /\ pc' = [pc EXCEPT ![t] = place]
           /\ place = "fill" => tcnt = 0
    BY DEF FlowEmpty
  <2>3. /\ WindowSilent' /\ FlowEmpty' /\ SaveFresh' /\ IsrOK'
        /\ ~InCopy /\ ~InCopy'
    BY <2>1, <2>2, InsideMove DEF SndWindow, ring
  <2> QED
    BY <2>1, <2>3, Kept DEF ring, hist, out
<1>3. CASE SendChar(t)
  <2> USE <1>3 DEF SendChar, PassByte
  <2>1. \E place \in {"unmask", "fill"} : pc' = [pc EXCEPT ![t] = place]
    OBVIOUS
  <2>2. tcnt = 0 /\ tcnt' = 0
    BY DEF FlowEmpty, ring
  <2>3. /\ WindowSilent' /\ FlowEmpty' /\ SaveFresh' /\ IsrOK'
        /\ ~InCopy /\ ~InCopy'
    BY <2>1, <2>2, InsideMove DEF SndWindow
  <2> QED
    BY <1>a, <2>2, <2>3, Passed1 DEF Queue!Next
<1>4. CASE CopyByte(t)
  <2> USE <1>4 DEF CopyByte, RingHasRoom
  <2>1. /\ WindowSilent' /\ FlowEmpty' /\ SaveFresh' /\ IsrOK'
        /\ ~InCopy /\ InCopy'
    BY InsideMove DEF SndWindow, hw
  <2>2. Counted' = tcnt + 1
    BY <2>1 DEF Counted
  <2> QED
    BY <1>a, <2>1, <2>2, Pushed1 DEF Queue!Next
<1>5. CASE CopyLoad(t)
  <2> USE <1>5 DEF CopyLoad
  <2>1. /\ WindowSilent' /\ FlowEmpty' /\ SaveFresh' /\ IsrOK'
        /\ InCopy /\ InCopy'
    BY <1>a, InsideMove DEF SndWindow, hw, ring, TaskOK
  <2> QED
    BY <2>1, Kept DEF ring, hist, out
<1>6. CASE CopySave(t)
  <2> USE <1>6 DEF CopySave
  <2>1. /\ WindowSilent' /\ FlowEmpty' /\ SaveFresh' /\ IsrOK'
        /\ InCopy /\ ~InCopy'
    BY InsideMove DEF SndWindow, hw
  <2>2. Counted' = Counted
    BY <2>1 DEF Counted, SaveFresh
  <2>3. HeldOK' /\ UNCHANGED Queue!queue
    BY <2>2 DEF HeldOK, Queue!queue, hist, out
  <2> QED
    BY <2>1, <2>3
<1> QED
  BY <1>1, <1>2, <1>3, <1>4, <1>5, <1>6

-----------------------------------------------------------------------------
(* Steps of the line and of the ISR.                                       *)

\* While the ISR runs nobody is inside, and it brings nobody inside.
LEMMA IsrAlone ==
  ASSUME QInv, isr # "idle",
         \A u \in Tasks : pc'[u] = pc[u] \/ pc'[u] \notin SndWindow
  PROVE  WindowSilent' /\ FlowEmpty' /\ SaveFresh' /\ ~InCopy /\ ~InCopy'
BY DEF QInv, WindowSilent, FlowEmpty, SaveFresh, InCopy, SndWindow

LEMMA IsrStep ==
  ASSUME IInv, QInv, Intr
  PROVE  QInv' /\ [Queue!Next]_(Queue!queue)
<1> USE DEF QInv
<1>a. RingOK /\ HistOK /\ TaskOK /\ TypeOK
  BY DEF IInv, TypeOK
<1>1. CASE RxXon \/ RxXoff \/ RxRxoff \/ RxEnd
  BY <1>1 DEF RxXon, RxXoff, RxRxoff, RxEnd, IsrOK
<1>2. CASE TxiStart \/ DrainFull \/ LocalFull \/ RefillEnd
  <2> USE <1>2 DEF TxiStart, DrainFull, LocalFull, RefillEnd
  <2>1. isr # "idle" /\ UNCHANGED <<ring, hist, task, ret>>
    OBVIOUS
  <2>2. WindowSilent' /\ FlowEmpty' /\ SaveFresh' /\ ~InCopy /\ ~InCopy'
    BY <2>1, IsrAlone DEF task
  <2>3. IsrOK'
    BY <2>1 DEF IsrOK, Oldest, ring
  <2> QED
    BY <2>1, <2>2, <2>3, Kept DEF ring, hist, out
<1>3. CASE DrainByte
  <2> USE <1>3 DEF DrainByte
  <2>1. tcnt > 0 /\ isrp = Oldest
    BY DEF IInv, DrainReady, IsrOK
  <2>2. WindowSilent' /\ FlowEmpty' /\ SaveFresh' /\ ~InCopy /\ ~InCopy'
    BY IsrAlone DEF task
  <2>3. IsrOK'
    BY <1>a, <2>1, SizeAssumption DEF IsrOK, Oldest, Wrap, RingOK
  <2>4. HeldOK' /\ Queue!Deliver
    BY <1>a, <2>1, <2>2, Popped1
  <2> QED
    BY <2>2, <2>3, <2>4 DEF Queue!Next
<1>4. CASE RefillByte
  <2> USE <1>4 DEF RefillByte, RingHasRoom
  <2>1. WindowSilent' /\ FlowEmpty' /\ SaveFresh' /\ ~InCopy /\ ~InCopy'
    BY IsrAlone
  <2>2. IsrOK'
    BY DEF IsrOK, irq
  <2>3. Counted' = tcnt + 1
    BY <2>1 DEF Counted
  <2>4. HeldOK' /\ Queue!Accept
    BY <1>a, <2>1, <2>3, Pushed1
  <2> QED
    BY <2>1, <2>2, <2>4 DEF Queue!Next
<1>5. CASE RefillDone
  <2> USE <1>5 DEF RefillDone
  <2>1. \A u \in Tasks : pc'[u] = pc[u] \/ pc'[u] \notin SndWindow
    BY <1>a, SetFlagTypes
  <2>2. WindowSilent' /\ FlowEmpty' /\ SaveFresh' /\ ~InCopy /\ ~InCopy'
    BY <2>1, IsrAlone
  <2>3. IsrOK'
    BY DEF IsrOK, irq
  <2> QED
    BY <2>2, <2>3, Kept DEF ring, hist, out
<1>6. CASE LocalByte
  <2> USE <1>6 DEF LocalByte, PassByte
  <2>1. \A u \in Tasks : pc'[u] = pc[u] \/ pc'[u] \notin SndWindow
    BY <1>a, SetFlagTypes
  <2>2. WindowSilent' /\ FlowEmpty' /\ SaveFresh' /\ ~InCopy /\ ~InCopy'
    BY <2>1, IsrAlone
  <2>3. IsrOK'
    BY DEF IsrOK
  <2>4. tcnt = 0 /\ UNCHANGED tcnt
    BY <1>a, SizeAssumption DEF IsrOK, RingOK, ring
  <2>5. HeldOK' /\ Queue!PassThrough
    BY <1>a, <2>2, <2>4, Passed1
  <2> QED
    BY <2>2, <2>3, <2>5 DEF Queue!Next
<1>7. CASE TxiEnd
  <2> USE <1>7 DEF TxiEnd
  <2>1. \A u \in Tasks : pc'[u] = pc[u] \/ pc'[u] \notin SndWindow
    BY <1>a, SetFlagTypes
  <2>2. WindowSilent' /\ FlowEmpty' /\ SaveFresh' /\ ~InCopy /\ ~InCopy'
    BY <2>1, IsrAlone
  <2>3. IsrOK'
    BY DEF IsrOK
  <2> QED
    BY <2>2, <2>3, Kept DEF ring, hist, out
<1> QED
  BY <1>1, <1>2, <1>3, <1>4, <1>5, <1>6, <1>7 DEF Intr

\* Nobody is interrupted inside the window: TIE is off, the receive half silent.
LEMMA EnterStep ==
  ASSUME IInv, QInv, RxEvents = {}, LineShifts \/ IntrEnter \/ UNCHANGED vars
  PROVE  QInv' /\ UNCHANGED Queue!queue
<1> USE DEF QInv
<1>1. UNCHANGED <<ring, hist, task, tie>>
  BY DEF LineShifts, IntrEnter, vars, hw
<1>2. UNCHANGED irq \/ (isr = "idle" /\ tie /\ isr' = "txi" /\ ret' = "idle")
  BY DEF LineShifts, IntrEnter, vars
<1>3. WindowSilent' /\ FlowEmpty' /\ SaveFresh'
  BY <1>1, <1>2 DEF WindowSilent, FlowEmpty, SaveFresh, task, ring, irq
<1>4. IsrOK'
  BY <1>1, <1>2 DEF IsrOK, Oldest, irq, ring
<1>5. InCopy' <=> InCopy
  BY <1>1 DEF InCopy, task
<1> QED
  BY <1>1, <1>3, <1>4, <1>5, Kept DEF ring, hist, out

LEMMA NextQInv ==
  ASSUME IInv, QInv, RxEvents = {}, [Next]_vars
  PROVE  QInv' /\ [Queue!Next]_(Queue!queue)
<1>1. CASE LineShifts \/ IntrEnter \/ ReadXon \/ UNCHANGED vars
  BY <1>1, EnterStep DEF ReadXon
<1>2. CASE Intr
  BY <1>2, IsrStep
<1>3. ASSUME NEW t \in Tasks, Call(t) \/ SndStep(t)
      PROVE  QInv' /\ [Queue!Next]_(Queue!queue)
  BY <1>3, OutsideStep, InsideStep DEF Call, SndStep
<1>4. ASSUME NEW t \in Tasks, CtrStep(t) \/ GiveUp(t)
      PROVE  QInv' /\ [Queue!Next]_(Queue!queue)
  BY <1>4, OutsideStep, ExpireStep, ResetStep DEF GiveUp, Queue!Next
<1> QED
  BY <1>1, <1>2, <1>3, <1>4 DEF Next

(* With the receive half silent, whatever the tasks do with puts_com and   *)
(* ctr_com and however the line and the ISR interleave with them, the bytes*)
(* written to FTDR are those taken from the callers, in order, each once.  *)
THEOREM ImplementsByteQueue ==
  ASSUME RxEvents = {}
  PROVE  Spec => IsByteQueue
<1>1. Init => IInv /\ QInv /\ Queue!Init
  BY InitIInv, InitQInv
<1>2. IInv /\ QInv /\ [Next]_vars => IInv' /\ QInv' /\ [Queue!Next]_(Queue!queue)
  BY NextIInv, NextQInv
<1> QED
  BY <1>1, <1>2, PTL DEF Spec, IsByteQueue, Queue!Spec
=============================================================================
