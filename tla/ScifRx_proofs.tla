--------------------------- MODULE ScifRx_proofs ---------------------------
(***************************************************************************)
(* Proofs about ScifRx for every size of ring and FIFO, every counter      *)
(* width, count of bytes and number of tasks that send and issue commands, *)
(* for one task that receives, when transmit interrupts come at any time   *)
(* but while gets_com empties the ring.                                    *)
(***************************************************************************)
EXTENDS ScifRx, TLAPS

Alone == ~TxWindow /\ \A t, u \in Readers : t = u

\* Whoever is between dis_dsp and ena_dsp is the one that disabled dispatching.
Masked == RcvWindow \cup {"snd"}
WindowAlone == \A t \in Tasks : pc[t] \in Masked <=> dsp = t

\* ... and has the receive interrupt off, with no routine under way.
WindowQuiet == dsp # None => ~rie /\ isr = "idle"

\* Between its test and rcnt-- the byte does not go away.
CountLeft ==
  \A t \in Tasks : /\ pc[t] \in {"load", "store"} => left[t] # 0
                   /\ pc[t] = "load" => rcnt > 0
                   /\ pc[t] = "store" => reg[t] > 0

\* Only readers are inside gets_com.
Roles == \A t \in Tasks : pc[t] \in {"idle", "rst", "stp", "sta", "snd"} \/ t \in Readers

\* What is handed over is handed over with an empty ring.
HandEmpty == \A t \in Tasks : pc[t] \in {"hand", "arm"} => rcnt = 0

\* The flag is set by a receive that has ended, and gone before the next.
FlagLate ==
  flg => /\ rcvData = None
         /\ \A t \in Readers : pc[t] \in {"twai", "drop", "poll", "clear"}

WindowInv == WindowAlone /\ WindowQuiet /\ CountLeft /\ Roles /\ HandEmpty
WaitInv == FlagLate /\ NoDanglingRcvData /\ RingEmptyWhileWaiting

IInv == TypeOK /\ WindowInv /\ WaitInv


LEMMA InitIInv == Init => IInv
<1> SUFFICES ASSUME Init PROVE IInv
  OBVIOUS
<1> USE DEF Init
<1>1. pc \in [Tasks -> Places] /\ ercd \in [Tasks -> Codes]
  BY DEF Places, Codes
<1>2. left \in [Tasks -> 0 .. UHMax] /\ reg \in [Tasks -> 0 .. RSize]
  BY SizeAssumption
<1>3. HwOK /\ RingOK
  BY SizeAssumption DEF HwOK, RingOK
<1>4. DrvOK /\ RunOK /\ HistOK
  BY DEF DrvOK, RunOK, HistOK, IsrPlaces
<1>5. TypeOK
  BY <1>1, <1>2, <1>3, <1>4 DEF TypeOK, TaskOK
<1>6. WindowInv
  BY TaskAssumption DEF WindowInv, WindowAlone, WindowQuiet, CountLeft, Roles, HandEmpty,
     Masked, RcvWindow
<1>7. WaitInv
  BY DEF WaitInv, FlagLate, NoDanglingRcvData, RingEmptyWhileWaiting
<1> QED
  BY <1>5, <1>6, <1>7 DEF IInv

\* What a step leaves alone keeps its type.
LEMMA FrameTypes ==
  ASSUME TypeOK
  PROVE  /\ UNCHANGED hw => HwOK'
         /\ UNCHANGED ring => RingOK'
         /\ UNCHANGED drv => DrvOK'
         /\ UNCHANGED <<dsp, isr>> => RunOK'
         /\ UNCHANGED task => TaskOK'
         /\ UNCHANGED <<read, out>> => HistOK'
<1> USE DEF TypeOK
<1>1. (UNCHANGED hw => HwOK') /\ (UNCHANGED ring => RingOK')
  BY DEF HwOK, hw, RingOK, ring, Index
<1>2. (UNCHANGED drv => DrvOK') /\ (UNCHANGED <<dsp, isr>> => RunOK')
  BY DEF DrvOK, drv, flow, conf, RunOK
<1>3. (UNCHANGED task => TaskOK') /\ (UNCHANGED <<read, out>> => HistOK')
  BY DEF TaskOK, task, HistOK, out
<1> QED
  BY <1>1, <1>2, <1>3

LEMMA ForgetTypes ==
  ASSUME TaskOK, NEW t, Forget(t)
  PROVE  /\ left' \in [Tasks -> 0 .. UHMax] /\ done' \in [Tasks -> BOOLEAN]
         /\ \A u \in Tasks \ {t} : left'[u] = left[u]
<1> USE DEF TaskOK, Forget
<1>1. 0 \in 0 .. UHMax
  BY SizeAssumption
<1>2. left' \in [Tasks -> 0 .. UHMax]
  BY <1>1
<1>3. done' \in [Tasks -> BOOLEAN]
  OBVIOUS
<1>4. \A u \in Tasks \ {t} : left'[u] = left[u]
  OBVIOUS
<1> QED
  BY <1>2, <1>3, <1>4

\* A task that is not waiting for a receive goes from one place outside gets_com
\* to another; what it changes there concerns no receive.
Outside == {"idle", "enter", "rst", "stp", "sta"}

LEMMA OutsideMove ==
  ASSUME IInv, NEW t \in Tasks, NEW place \in Outside,
         pc[t] \in Outside, pc' = [pc EXCEPT ![t] = place],
         place = "enter" => t \in Readers,
         dsp = None \/ (rie' = rie),
         UNCHANGED <<dsp, isr, rcvData, flg, reg>>,
         rcnt' = rcnt \/ (dsp = None /\ rcnt' = 0),
         \A u \in Tasks \ {t} : left'[u] = left[u]
  PROVE  WindowInv' /\ WaitInv'
<1> USE DEF IInv, TypeOK, TaskOK, DrvOK, RunOK, Outside
<1>1. pc'[t] = place /\ \A u \in Tasks \ {t} : pc'[u] = pc[u]
  OBVIOUS
<1>2. \A u \in Tasks : pc'[u] \in Masked \/ pc[u] \in Masked => u # t /\ dsp = u /\ rcnt' = rcnt
  BY <1>1, TaskAssumption DEF WindowInv, WindowAlone, Masked, RcvWindow
<1>3. WindowAlone' /\ WindowQuiet'
  BY <1>1, <1>2 DEF WindowInv, WindowAlone, WindowQuiet
<1>4. CountLeft' /\ HandEmpty'
  BY <1>1, <1>2 DEF WindowInv, CountLeft, HandEmpty, Masked, RcvWindow
<1>5. Roles'
  BY <1>1 DEF WindowInv, Roles
<1>6. FlagLate' /\ NoDanglingRcvData'
  BY <1>1 DEF WaitInv, FlagLate, NoDanglingRcvData, Tasks
<1>7. RingEmptyWhileWaiting'
  BY DEF WaitInv, RingEmptyWhileWaiting
<1> QED
  BY <1>3, <1>4, <1>5, <1>6, <1>7 DEF WindowInv, WaitInv

\* dispatching is not disabled while a task outside gets_com runs.
LEMMA OutsideRuns ==
  ASSUME IInv, NEW t \in Tasks, pc[t] \in Outside, dsp \in {None, t}
  PROVE  dsp = None
BY TaskAssumption DEF IInv, WindowInv, WindowAlone, Masked, RcvWindow, Outside

LEMMA RcvCallInv ==
  ASSUME IInv, NEW t \in Readers, NEW n \in Lens, RcvCall(t, n)
  PROVE  IInv'
<1> USE DEF IInv, RcvCall, At, MayRun, Goto, Return, drv
<1>1. t \in Tasks /\ pc[t] \in Outside
  BY DEF Tasks, Outside
<1>2. \E place \in Outside : pc' = [pc EXCEPT ![t] = place]
  BY DEF Outside
<1>3. HwOK' /\ RingOK' /\ DrvOK' /\ RunOK' /\ HistOK'
  BY FrameTypes DEF hist, out
<1>4. TaskOK'
  BY <1>1, SizeAssumption DEF TypeOK, TaskOK, Places, Codes
<1>5. TypeOK'
  BY <1>3, <1>4 DEF TypeOK
<1>6. dsp = None
  BY <1>1, OutsideRuns
<1>7. WindowInv' /\ WaitInv'
  BY <1>1, <1>2, <1>6, OutsideMove DEF TypeOK, TaskOK, hw, ring
<1> QED
  BY <1>5, <1>7

LEMMA CtrStartInv ==
  ASSUME IInv, NEW t \in Tasks, NEW test, NEW place \in {"rst", "stp", "sta"},
         CtrStart(t, test, place)
  PROVE  IInv'
<1> USE DEF IInv, CtrStart, At, MayRun, Goto, Return, drv
<1>1. pc[t] \in Outside
  BY DEF Outside
<1>2. \E p \in {"idle", "rst", "stp", "sta"} : pc' = [pc EXCEPT ![t] = p]
  OBVIOUS
<1>3. HwOK' /\ RingOK' /\ DrvOK' /\ RunOK' /\ HistOK'
  BY FrameTypes DEF hist, out
<1>4. TaskOK'
  BY DEF TypeOK, TaskOK, Places, Codes
<1>5. TypeOK'
  BY <1>3, <1>4 DEF TypeOK
<1>6. dsp = None
  BY <1>1, OutsideRuns
<1>7. WindowInv' /\ WaitInv'
  BY <1>1, <1>2, <1>6, OutsideMove DEF hw, ring, Outside
<1> QED
  BY <1>5, <1>7

LEMMA LockInv ==
  ASSUME IInv, NEW t \in Tasks, LockRecv(t) \/ UnlockRecv(t)
  PROVE  IInv'
<1> USE DEF IInv, LockRecv, UnlockRecv, At, MayRun, Goto, Return
<1>1. pc[t] \in Outside /\ pc' = [pc EXCEPT ![t] = "idle"]
  BY DEF Outside
<1>2. HwOK' /\ RingOK' /\ RunOK' /\ HistOK'
  BY FrameTypes DEF hist, out
<1>3. DrvOK'
  BY DEF TypeOK, DrvOK, flow
<1>4. TaskOK'
  BY DEF TypeOK, TaskOK, Places, Codes
<1>5. TypeOK'
  BY <1>2, <1>3, <1>4 DEF TypeOK
<1>6. dsp = None
  BY <1>1, OutsideRuns
<1>7. WindowInv' /\ WaitInv'
  BY <1>1, <1>6, OutsideMove DEF hw, ring, Outside
<1> QED
  BY <1>5, <1>7

LEMMA RstRxBufInv ==
  ASSUME IInv, NEW t \in Tasks, RstRxBuf(t)
  PROVE  IInv'
<1> USE DEF IInv, RstRxBuf, At, MayRun, Goto, Return, drv
<1>1. pc[t] \in Outside /\ pc' = [pc EXCEPT ![t] = "idle"]
  BY DEF Outside
<1>2. DrvOK' /\ RunOK'
  BY FrameTypes
<1>3. HwOK' /\ RingOK' /\ HistOK'
  BY SizeAssumption DEF TypeOK, HwOK, RingOK, HistOK, Index
<1>4. TaskOK'
  BY DEF TypeOK, TaskOK, Places, Codes
<1>5. TypeOK'
  BY <1>2, <1>3, <1>4 DEF TypeOK
<1>6. dsp = None
  BY <1>1, OutsideRuns
<1>7. WindowInv' /\ WaitInv'
  BY <1>1, <1>6, OutsideMove DEF Outside
<1> QED
  BY <1>5, <1>7

LEMMA SwitchInv ==
  ASSUME IInv, NEW t \in Tasks, DisRcv(t) \/ EnaRcv(t)
  PROVE  IInv'
<1> USE DEF IInv, DisRcv, EnaRcv, At, MayRun, Goto, Return
<1>1. pc[t] \in Outside /\ pc' = [pc EXCEPT ![t] = "idle"]
  BY DEF Outside
<1>2. RingOK' /\ RunOK' /\ HistOK'
  BY FrameTypes DEF hist, out
<1>3. HwOK' /\ DrvOK'
  BY DEF TypeOK, HwOK, DrvOK, flow
<1>4. TaskOK'
  BY DEF TypeOK, TaskOK, Places, Codes
<1>5. TypeOK'
  BY <1>2, <1>3, <1>4 DEF TypeOK
<1>6. dsp = None
  BY <1>1, OutsideRuns
<1>7. WindowInv' /\ WaitInv'
  BY <1>1, <1>6, OutsideMove DEF ring, Outside
<1> QED
  BY <1>5, <1>7

-----------------------------------------------------------------------------
(* The window.                                                             *)

\* Until it hands over, no receive of the one reader is with the ISR.
LEMMA NothingHanded ==
  ASSUME IInv, Alone, NEW t \in Readers, pc[t] \in ({"enter"} \cup RcvWindow) \ {"arm"}
  PROVE  rcvData = None /\ ~flg
BY DEF IInv, TypeOK, DrvOK, Alone, WaitInv, NoDanglingRcvData, FlagLate, RcvWindow

LEMMA WindowEnter ==
  ASSUME IInv, NEW t \in Tasks, NEW place \in {"get", "snd"},
         isr = "idle", dsp = None, dsp' = t, rie' = FALSE,
         pc[t] \in {"idle", "enter"}, pc' = [pc EXCEPT ![t] = place],
         place = "get" => t \in Readers /\ ~flg,
         UNCHANGED <<isr, rcvData, flg, reg, rcnt, left>>
  PROVE  WindowInv' /\ WaitInv'
<1> USE DEF IInv, TypeOK, TaskOK, DrvOK
<1>1. pc'[t] = place /\ \A u \in Tasks \ {t} : pc'[u] = pc[u]
  OBVIOUS
<1>2. WindowAlone' /\ WindowQuiet'
  BY <1>1, TaskAssumption DEF WindowInv, WindowAlone, WindowQuiet, Masked, RcvWindow
<1>3. CountLeft' /\ HandEmpty' /\ Roles'
  BY <1>1 DEF WindowInv, CountLeft, HandEmpty, Roles
<1>4. FlagLate' /\ NoDanglingRcvData'
  BY <1>1 DEF WaitInv, FlagLate, NoDanglingRcvData, Tasks
<1>5. RingEmptyWhileWaiting'
  BY DEF WaitInv, RingEmptyWhileWaiting
<1> QED
  BY <1>2, <1>3, <1>4, <1>5 DEF WindowInv, WaitInv

LEMMA InsideMove ==
  ASSUME IInv, Alone, NEW t \in Readers, NEW place \in RcvWindow,
         isr = "idle", pc[t] \in RcvWindow \ {"arm"}, pc' = [pc EXCEPT ![t] = place],
         UNCHANGED <<dsp, isr, rie, flg>>,
         rcvData' = IF place = "arm" THEN t ELSE rcvData,
         place \in {"hand", "arm"} => rcnt' = 0,
         place \in {"load", "store"} => left'[t] # 0,
         place = "load" => rcnt' > 0,
         place = "store" => reg'[t] > 0
  PROVE  WindowInv' /\ WaitInv'
<1> USE DEF IInv, TypeOK, TaskOK
<1>1. pc'[t] = place /\ \A u \in Tasks \ {t} : pc'[u] = pc[u]
  BY DEF Tasks
<1>2. dsp = t /\ t \in Tasks /\ t # None
  BY TaskAssumption DEF WindowInv, WindowAlone, Masked, Tasks
<1>3. \A u \in Tasks \ {t} : pc'[u] \notin Masked
  BY <1>1, <1>2 DEF WindowInv, WindowAlone
<1>4. WindowAlone' /\ WindowQuiet'
  BY <1>1, <1>2, <1>3 DEF WindowInv, WindowAlone, WindowQuiet, Masked
<1>5. CountLeft' /\ HandEmpty' /\ Roles'
  BY <1>1, <1>3 DEF WindowInv, CountLeft, HandEmpty, Roles, Masked, RcvWindow
<1>6. rcvData = None /\ ~flg
  BY NothingHanded
<1>7. WaitInv'
  BY <1>1, <1>2, <1>6 DEF WaitInv, FlagLate, NoDanglingRcvData, RingEmptyWhileWaiting
<1> QED
  BY <1>4, <1>5, <1>7 DEF WindowInv

LEMMA WindowLeave ==
  ASSUME IInv, Alone, NEW t \in Tasks, NEW place \in {"idle", "twai"},
         pc[t] \in Masked, pc' = [pc EXCEPT ![t] = place],
         place = "twai" <=> pc[t] = "arm",
         dsp' = None, UNCHANGED <<isr, rcvData, flg, reg, rcnt>>
  PROVE  WindowInv' /\ WaitInv'
<1> USE DEF IInv, TypeOK, TaskOK, DrvOK
<1>1. pc'[t] = place /\ \A u \in Tasks \ {t} : pc'[u] = pc[u]
  OBVIOUS
<1>2. dsp = t /\ t # None
  BY TaskAssumption DEF WindowInv, WindowAlone
<1>3. \A u \in Tasks : pc'[u] \notin Masked
  BY <1>1, <1>2 DEF WindowInv, WindowAlone, Masked, RcvWindow
<1>4. WindowAlone' /\ WindowQuiet'
  BY <1>3, TaskAssumption DEF WindowAlone, WindowQuiet
<1>5. CountLeft' /\ HandEmpty'
  BY <1>3 DEF CountLeft, HandEmpty, Masked, RcvWindow
<1>6. Roles'
  BY <1>1 DEF WindowInv, Roles, Masked, RcvWindow
<1>7. NoDanglingRcvData' /\ RingEmptyWhileWaiting'
  BY <1>1 DEF WaitInv, NoDanglingRcvData, RingEmptyWhileWaiting, Masked, RcvWindow, Tasks
<1>8. FlagLate'
  BY <1>1 DEF WaitInv, FlagLate, Tasks, Masked, RcvWindow
<1> QED
  BY <1>4, <1>5, <1>6, <1>7, <1>8 DEF WindowInv, WaitInv

-----------------------------------------------------------------------------
(* The steps of gets_com with dispatching disabled.                        *)

LEMMA RcvEnterInv ==
  ASSUME IInv, Alone, NEW t \in Readers, RcvEnter(t)
  PROVE  IInv'
<1> USE DEF IInv, RcvEnter, At, MayRun, Goto, Return
<1>1. t \in Tasks /\ pc[t] \in Outside
  BY DEF Tasks, Outside
<1>2. dsp = None /\ ~flg
  BY <1>1, OutsideRuns, NothingHanded
<1>3. RingOK' /\ HistOK'
  BY FrameTypes DEF hist, out
<1>a. \/ UNCHANGED <<left, done>>
      \/ Forget(t)
  OBVIOUS
<1>b. /\ left' \in [Tasks -> 0 .. UHMax] /\ done' \in [Tasks -> BOOLEAN]
      /\ \A u \in Tasks \ {t} : left'[u] = left[u]
  BY <1>a, ForgetTypes DEF TypeOK, TaskOK
<1>c. HwOK' /\ DrvOK' /\ RunOK'
  BY <1>1 DEF TypeOK, HwOK, DrvOK, RunOK, flow, conf
<1>4. TaskOK'
  BY <1>1, <1>b DEF TypeOK, TaskOK, Places, Codes, RcvWindow
<1>5. TypeOK'
  BY <1>3, <1>c, <1>4 DEF TypeOK
<1>6. WindowInv' /\ WaitInv'
  <2>1. CASE Admitted(t)
    BY <1>1, <1>2, <2>1, WindowEnter DEF ring
  <2>2. CASE ~Admitted(t)
    BY <1>1, <1>2, <1>b, <2>2, OutsideMove DEF ring, Outside
  <2> QED
    BY <2>1, <2>2
<1> QED
  BY <1>5, <1>6

LEMMA SndMaskInv ==
  ASSUME IInv, NEW t \in Tasks, SndMask(t)
  PROVE  IInv'
<1> USE DEF IInv, SndMask, At, MayRun, Goto
<1>1. dsp = None
  BY OutsideRuns DEF Outside
<1>2. RingOK' /\ HistOK'
  BY FrameTypes DEF hist, out
<1>3. HwOK' /\ DrvOK' /\ RunOK' /\ TaskOK'
  BY DEF TypeOK, HwOK, DrvOK, RunOK, TaskOK, Places, flow, conf
<1>4. TypeOK'
  BY <1>2, <1>3 DEF TypeOK
<1>5. WindowInv' /\ WaitInv'
  BY <1>1, WindowEnter DEF ring
<1> QED
  BY <1>4, <1>5

LEMMA GetStopInv ==
  ASSUME IInv, Alone, NEW t \in Readers, GetStop(t)
  PROVE  IInv'
<1> USE DEF IInv, GetStop, At, MayRun, Goto, drv
<1>1. t \in Tasks
  BY DEF Tasks
<1>2. HwOK' /\ RingOK' /\ DrvOK' /\ RunOK' /\ HistOK'
  BY FrameTypes DEF hist, out
<1>3. TaskOK'
  BY <1>1 DEF TypeOK, TaskOK, Places, RcvWindow
<1>4. TypeOK'
  BY <1>2, <1>3 DEF TypeOK
<1>5. CASE left[t] = 0
  BY <1>1, <1>4, <1>5, InsideMove DEF RcvWindow, hw, ring
<1>6. CASE left[t] # 0
  BY <1>1, <1>4, <1>6, InsideMove DEF RcvWindow, hw, ring
<1> QED
  BY <1>5, <1>6

LEMMA GetByteInv ==
  ASSUME IInv, Alone, NEW t \in Readers, GetByte(t)
  PROVE  IInv'
<1> USE DEF IInv, GetByte, At, MayRun, Goto, drv
<1>1. t \in Tasks
  BY DEF Tasks
<1>2. HwOK' /\ DrvOK' /\ RunOK'
  BY FrameTypes
<1>3. RingOK' /\ HistOK'
  BY SizeAssumption DEF TypeOK, RingOK, HistOK, Index, Wrap
<1>4. TaskOK'
  BY <1>1 DEF TypeOK, TaskOK, Places, RcvWindow
<1>5. TypeOK'
  BY <1>2, <1>3, <1>4 DEF TypeOK
<1>6. rcnt' > 0 /\ left'[t] # 0
  BY SizeAssumption DEF TypeOK, RingOK
<1>7. WindowInv' /\ WaitInv'
  BY <1>6, InsideMove DEF RcvWindow, hw
<1> QED
  BY <1>5, <1>7

LEMMA GetLoadInv ==
  ASSUME IInv, Alone, NEW t \in Readers, GetLoad(t)
  PROVE  IInv'
<1> USE DEF IInv, GetLoad, At, MayRun, Goto, drv
<1>1. t \in Tasks
  BY DEF Tasks
<1>2. HwOK' /\ RingOK' /\ DrvOK' /\ RunOK' /\ HistOK'
  BY FrameTypes DEF hist, out
<1>3. TaskOK'
  BY <1>1 DEF TypeOK, TaskOK, RingOK, Places, RcvWindow
<1>4. TypeOK'
  BY <1>2, <1>3 DEF TypeOK
<1>5. reg'[t] > 0 /\ left'[t] # 0
  BY <1>1 DEF TypeOK, TaskOK, WindowInv, CountLeft
<1>6. WindowInv' /\ WaitInv'
  BY <1>5, InsideMove DEF RcvWindow, hw
<1> QED
  BY <1>4, <1>6

LEMMA GetStoreInv ==
  ASSUME IInv, Alone, NEW t \in Readers, GetStore(t)
  PROVE  IInv'
<1> USE DEF IInv, GetStore, At, MayRun, Goto, drv
<1>1. t \in Tasks /\ reg[t] > 0 /\ left[t] # 0
  BY DEF Tasks, WindowInv, CountLeft
<1>2. HwOK' /\ DrvOK' /\ RunOK' /\ HistOK'
  BY FrameTypes DEF hist, out
<1>3. RingOK'
  BY <1>1, SizeAssumption DEF TypeOK, TaskOK, RingOK, Index
<1>4. TaskOK'
  BY <1>1, SizeAssumption DEF TypeOK, TaskOK, Places, RcvWindow
<1>5. TypeOK'
  BY <1>2, <1>3, <1>4 DEF TypeOK
<1>6. WindowInv' /\ WaitInv'
  BY InsideMove DEF RcvWindow, hw
<1> QED
  BY <1>5, <1>6

LEMMA GetCheckInv ==
  ASSUME IInv, Alone, NEW t \in Readers, GetCheck(t)
  PROVE  IInv'
<1> USE DEF IInv, GetCheck, At, MayRun, Goto
<1>1. t \in Tasks
  BY DEF Tasks
<1>2. HwOK' /\ RingOK' /\ RunOK' /\ HistOK'
  BY FrameTypes DEF hist, out
<1>3. DrvOK'
  BY DEF TypeOK, DrvOK, ChkRxon, Tell, flow, conf
<1>4. \E place \in {"done", "get"} : pc' = [pc EXCEPT ![t] = place]
  OBVIOUS
<1>5. done' \in [Tasks -> BOOLEAN]
  BY DEF TypeOK, TaskOK
<1>6. TaskOK'
  BY <1>1, <1>4, <1>5 DEF TypeOK, TaskOK, Places, RcvWindow
<1>7. TypeOK'
  BY <1>2, <1>3, <1>6 DEF TypeOK
<1>8. WindowInv' /\ WaitInv'
  BY <1>4, InsideMove DEF RcvWindow, hw, ring
<1> QED
  BY <1>7, <1>8

LEMMA RcvHandOverInv ==
  ASSUME IInv, Alone, NEW t \in Readers, RcvHandOver(t)
  PROVE  IInv'
<1> USE DEF IInv, RcvHandOver, At, MayRun, Goto
<1>1. t \in Tasks /\ rcnt = 0
  BY DEF Tasks, WindowInv, HandEmpty
<1>2. HwOK' /\ RingOK' /\ RunOK' /\ HistOK'
  BY FrameTypes DEF hist, out
<1>3. DrvOK'
  BY DEF TypeOK, DrvOK, flow, conf
<1>4. TaskOK'
  BY <1>1 DEF TypeOK, TaskOK, Places, RcvWindow
<1>5. TypeOK'
  BY <1>2, <1>3, <1>4 DEF TypeOK
<1>6. WindowInv' /\ WaitInv'
  BY <1>1, InsideMove DEF RcvWindow, hw, ring
<1> QED
  BY <1>5, <1>6

LEMMA WindowEndInv ==
  ASSUME IInv, Alone, NEW t \in Tasks, (t \in Readers /\ (RcvDone(t) \/ RcvArm(t))) \/ SndUnmask(t)
  PROVE  IInv'
<1> USE DEF IInv, RcvDone, RcvArm, SndUnmask, At, MayRun, Goto, Return
<1>1. RingOK' /\ HistOK'
  BY FrameTypes DEF hist, out
<1>2. HwOK' /\ DrvOK' /\ RunOK'
  BY DEF TypeOK, HwOK, DrvOK, RunOK, FlowChar, flow, conf
<1>a. left' \in [Tasks -> 0 .. UHMax] /\ done' \in [Tasks -> BOOLEAN]
  BY ForgetTypes DEF TypeOK, TaskOK
<1>3. TaskOK'
  BY <1>a DEF TypeOK, TaskOK, Places, Codes
<1>4. TypeOK'
  BY <1>1, <1>2, <1>3 DEF TypeOK
<1>5. WindowInv' /\ WaitInv'
  BY WindowLeave DEF Masked, RcvWindow, ring
<1> QED
  BY <1>4, <1>5

-----------------------------------------------------------------------------
(* The wait, and what becomes of it.                                       *)

LEMMA WaitMove ==
  ASSUME IInv, Alone, NEW t \in Readers, NEW place \in {"wait", "drop", "poll", "clear", "idle"},
         pc[t] \in {"twai", "wait", "drop", "poll", "clear"},
         pc' = [pc EXCEPT ![t] = place],
         rcvData' \in {rcvData, None},
         place \in {"poll", "clear", "idle"} => rcvData' = None,
         place = "wait" => ~flg,
         flg' = IF place = "idle" THEN FALSE ELSE flg,
         UNCHANGED <<dsp, isr, rie, reg, rcnt>>
  PROVE  WindowInv' /\ WaitInv'
<1> USE DEF IInv, TypeOK, TaskOK, DrvOK
<1>1. t \in Tasks /\ pc'[t] = place /\ \A u \in Tasks \ {t} : pc'[u] = pc[u]
  BY DEF Tasks
<1>2. WindowAlone' /\ WindowQuiet'
  BY <1>1 DEF WindowInv, WindowAlone, WindowQuiet, Masked, RcvWindow
<1>a. \A u \in Tasks : pc[u] \in {"load", "store"} => u \in Readers
  BY DEF WindowInv, Roles
<1>3. CountLeft' /\ HandEmpty' /\ Roles'
  BY <1>1, <1>a DEF Alone, WindowInv, CountLeft, HandEmpty, Roles
<1>4. FlagLate'
  BY <1>1 DEF Alone, WaitInv, FlagLate
<1>5. NoDanglingRcvData' /\ RingEmptyWhileWaiting'
  BY <1>1 DEF Alone, WaitInv, NoDanglingRcvData, RingEmptyWhileWaiting
<1> QED
  BY <1>2, <1>3, <1>4, <1>5 DEF WindowInv, WaitInv

LEMMA WaitStepInv ==
  ASSUME IInv, Alone, NEW t \in Readers,
         RcvWait(t) \/ RcvExpire(t) \/ RcvDrop(t) \/ RcvPoll(t) \/ RcvClear(t)
  PROVE  IInv'
<1> USE DEF IInv, RcvWait, RcvExpire, RcvDrop, RcvPoll, RcvClear, At, MayRun, Goto, Return
<1>1. t \in Tasks
  BY DEF Tasks
<1>2. HwOK' /\ RingOK' /\ RunOK' /\ HistOK'
  BY FrameTypes DEF hist, out, drv
<1>3. DrvOK'
  BY DEF TypeOK, DrvOK, flow, conf, drv
<1>a. left' \in [Tasks -> 0 .. UHMax] /\ done' \in [Tasks -> BOOLEAN]
  BY ForgetTypes DEF TypeOK, TaskOK
<1>4. TaskOK'
  BY <1>1, <1>a DEF TypeOK, TaskOK, Places, Codes, Polled
<1>5. TypeOK'
  BY <1>2, <1>3, <1>4 DEF TypeOK
<1>6. (flg => rcvData = None) /\ (pc[t] \in {"poll", "clear"} => rcvData = None)
  BY DEF TypeOK, DrvOK, Alone, WaitInv, FlagLate, NoDanglingRcvData
<1>7. pc[t] = "wait" => ~flg
  BY DEF WaitInv, FlagLate
<1>8. WindowInv' /\ WaitInv'
  <2>1. CASE RcvWait(t)
    <3>1. CASE flg
      BY <1>6, <2>1, <3>1, WaitMove DEF hw, ring, drv
    <3>2. CASE ~flg
      BY <2>1, <3>2, WaitMove DEF hw, ring, drv
    <3> QED
      BY <3>1, <3>2
  <2>2. CASE RcvExpire(t)
    BY <2>2, WaitMove DEF hw, ring, drv
  <2>3. CASE RcvDrop(t)
    BY <2>3, WaitMove DEF hw, ring
  <2>4. CASE RcvPoll(t)
    BY <1>6, <2>4, WaitMove DEF hw, ring, drv
  <2>5. CASE RcvClear(t)
    BY <1>6, <2>5, WaitMove DEF hw, ring
  <2> QED
    BY <2>1, <2>2, <2>3, <2>4, <2>5
<1> QED
  BY <1>5, <1>8

-----------------------------------------------------------------------------
(* The line and the interrupt.                                             *)

\* What the window and the wait look at is left alone.
LEMMA Untouched ==
  ASSUME WindowInv, WaitInv,
         UNCHANGED <<rie, rcnt, rcvData, flg, dsp, isr, pc, left, reg>>
  PROVE  WindowInv' /\ WaitInv'
BY DEF WindowInv, WindowAlone, WindowQuiet, CountLeft, Roles, HandEmpty,
   WaitInv, FlagLate, NoDanglingRcvData, RingEmptyWhileWaiting

LEMMA LineInv ==
  ASSUME IInv, Arrive
  PROVE  IInv'
<1> USE DEF IInv, Arrive
<1>1. RingOK' /\ DrvOK' /\ RunOK' /\ TaskOK' /\ HistOK'
  BY FrameTypes
<1>2. HwOK'
  BY SizeAssumption DEF TypeOK, HwOK
<1>3. WindowInv' /\ WaitInv'
  BY Untouched DEF hw, ring, drv, task, hist, out
<1> QED
  BY <1>1, <1>2, <1>3 DEF TypeOK

\* While the routine runs nobody has dispatching disabled.
LEMMA IsrMove ==
  ASSUME IInv, dsp = None, UNCHANGED <<dsp, pc, rcvData, flg>>,
         rcvData # None => rcnt' = rcnt
  PROVE  WindowInv' /\ WaitInv'
<1> USE DEF IInv
<1>1. \A t \in Tasks : pc[t] \notin Masked
  BY TaskAssumption DEF WindowInv, WindowAlone
<1>2. WindowInv'
  BY <1>1 DEF WindowInv, WindowAlone, WindowQuiet, CountLeft, Roles, HandEmpty,
     Masked, RcvWindow
<1>3. WaitInv'
  BY DEF WaitInv, FlagLate, NoDanglingRcvData, RingEmptyWhileWaiting
<1> QED
  BY <1>2, <1>3

\* A receive interrupt is kept out of the window by RIE, the transmit interrupt
\* by the hypothesis.
LEMMA InterruptOutside ==
  ASSUME WindowInv, Alone, RxInterrupt \/ TxInterrupt
  PROVE  dsp = None
BY DEF Alone, WindowInv, WindowQuiet, RxInterrupt, TxInterrupt, TxMayInterrupt

LEMMA InterruptInv ==
  ASSUME IInv, Alone, RxInterrupt \/ TxInterrupt
  PROVE  IInv'
<1> USE DEF IInv, RxInterrupt, TxInterrupt, EnterRxi
<1>1. dsp = None
  BY InterruptOutside
<1>2. RingOK' /\ DrvOK' /\ TaskOK' /\ HistOK'
  BY FrameTypes DEF hist, out, drv
<1>3. HwOK' /\ RunOK'
  BY DEF TypeOK, HwOK, RunOK, IsrPlaces
<1>4. WindowInv' /\ WaitInv'
  BY <1>1, IsrMove DEF ring, task
<1> QED
  BY <1>2, <1>3, <1>4 DEF TypeOK

LEMMA StoreTypes ==
  ASSUME TypeOK, RingHasRoom, Store
  PROVE  /\ rbuf' \in [Index -> Nat] /\ rcnt' \in 0 .. RSize /\ rie' \in BOOLEAN
         /\ read' \in Nat
         /\ rxXoff' \in BOOLEAN /\ req' \in BOOLEAN /\ told' \in {"xon", "xoff"}
<1> USE DEF TypeOK, Store, RingHasRoom
<1>0. read + 1 \in Nat /\ rbuf \in [Index -> Nat]
  BY DEF RingOK, HistOK
<1>1. read' \in Nat /\ rbuf' \in [Index -> Nat]
  BY <1>0
<1>2. rcnt' \in 0 .. RSize
  BY SizeAssumption DEF RingOK
<1>3. rie' \in BOOLEAN
  BY DEF HwOK
<1>4. rxXoff' \in BOOLEAN /\ req' \in BOOLEAN /\ told' \in {"xon", "xoff"}
  BY DEF DrvOK, ChkRxoff, Tell, flow
<1> QED
  BY <1>1, <1>2, <1>3, <1>4

LEMMA RxStoreInv ==
  ASSUME IInv, RxStore \/ BreakStore
  PROVE  IInv'
<1> USE DEF IInv, RxStore, BreakStore
<1>1. TaskOK'
  BY FrameTypes
<1>2. HwOK' /\ RingOK' /\ DrvOK' /\ RunOK' /\ HistOK'
  <2>1. CASE RingHasRoom /\ Store
    BY <2>1, StoreTypes, SizeAssumption
       DEF TypeOK, HwOK, RingOK, DrvOK, RunOK, HistOK, IsrPlaces, conf, out
  <2>2. CASE RxStore /\ ~RingHasRoom
    BY <2>2, SizeAssumption
       DEF TypeOK, HwOK, RingOK, DrvOK, RunOK, HistOK, IsrPlaces, conf, out, flow, Index
  <2> QED
    BY <2>1, <2>2
<1>3. dsp = None
  BY DEF WindowInv, WindowQuiet
<1>4. WindowInv' /\ WaitInv'
  BY <1>3, IsrMove DEF task
<1> QED
  BY <1>1, <1>2, <1>4 DEF TypeOK

LEMMA RxPlainInv ==
  ASSUME IInv, RxFlowChar \/ RxEmpty \/ IntrEnd
  PROVE  IInv'
<1> USE DEF IInv, RxFlowChar, RxEmpty, IntrEnd, FlowChar
<1>1. RingOK' /\ TaskOK' /\ HistOK'
  BY FrameTypes DEF hist, out
<1>2. HwOK' /\ RunOK'
  BY SizeAssumption DEF TypeOK, HwOK, RunOK, IsrPlaces, hw
<1>3. DrvOK'
  BY DEF TypeOK, DrvOK, flow, conf
<1>4. dsp = None
  BY DEF WindowInv, WindowQuiet
<1>5. WindowInv' /\ WaitInv'
  BY <1>4, IsrMove DEF ring, task
<1> QED
  BY <1>1, <1>2, <1>3, <1>5 DEF TypeOK

LEMMA DirectTypes ==
  ASSUME TypeOK, RxDirect \/ BreakDirect
  PROVE  HwOK' /\ RingOK' /\ RunOK' /\ HistOK' /\ left' \in [Tasks -> 0 .. UHMax]
<1> USE DEF TypeOK, RxDirect, BreakDirect, GiveDirect
<1>1. RingOK' /\ HistOK'
  BY DEF RingOK, HistOK, ring, Index
<1>2. HwOK' /\ RunOK'
  BY SizeAssumption DEF HwOK, RunOK, IsrPlaces, hw
<1>3. Dec(left[rcvData]) \in 0 .. UHMax
  BY SizeAssumption DEF Dec, TaskOK, DrvOK, Tasks
<1> QED
  BY <1>1, <1>2, <1>3 DEF TaskOK

LEMMA RxDirectInv ==
  ASSUME IInv, Alone, RxDirect \/ BreakDirect
  PROVE  IInv'
<1> USE DEF IInv, RxDirect, BreakDirect, GiveDirect
<1>1. dsp = None /\ rcvData \in Readers /\ rcvData \in Tasks
  BY DEF TypeOK, DrvOK, Tasks, WindowInv, WindowQuiet
<1>2. HwOK' /\ RingOK' /\ RunOK' /\ HistOK' /\ left' \in [Tasks -> 0 .. UHMax]
  BY DirectTypes
<1>3. CASE UNCHANGED <<rcvData, flg, done, pc, ercd>>
  <2>1. DrvOK' /\ TaskOK'
    BY <1>2, <1>3 DEF TypeOK, DrvOK, TaskOK, flow, conf
  <2>2. WindowInv' /\ WaitInv'
    BY <1>1, <1>3, IsrMove DEF ring
  <2> QED
    BY <1>2, <2>1, <2>2 DEF TypeOK
<1>4. CASE Complete(rcvData) /\ UNCHANGED <<ring, flow, conf, dsp, reg>>
  <2> USE DEF Complete
  <2>1. DrvOK' /\ TaskOK'
    BY <1>1, <1>2, <1>4 DEF TypeOK, DrvOK, TaskOK, flow, conf, Places, Codes
  <2>2. \A u \in Tasks : pc[u] \notin Masked /\ pc'[u] \notin Masked
    BY <1>1, <1>4, TaskAssumption
       DEF TypeOK, TaskOK, WindowInv, WindowAlone, Masked, RcvWindow
  <2>3. WindowAlone' /\ WindowQuiet'
    BY <1>1, <1>4, <2>2, TaskAssumption DEF WindowAlone, WindowQuiet
  <2>4. CountLeft' /\ HandEmpty' /\ Roles'
    BY <1>4, <2>2
       DEF TypeOK, TaskOK, WindowInv, CountLeft, HandEmpty, Roles, Masked, RcvWindow
  <2>5. FlagLate'
    BY <1>1, <1>4, <2>2 DEF Alone, WaitInv, FlagLate, NoDanglingRcvData, Masked, RcvWindow
  <2>6. NoDanglingRcvData' /\ RingEmptyWhileWaiting'
    BY <1>4 DEF NoDanglingRcvData, RingEmptyWhileWaiting
  <2> QED
    BY <1>2, <2>1, <2>3, <2>4, <2>5, <2>6 DEF TypeOK, WindowInv, WaitInv
<1> QED
  BY <1>3, <1>4

-----------------------------------------------------------------------------
LEMMA StepIInv == IInv /\ Alone /\ [Next]_vars => IInv'
<1> SUFFICES ASSUME IInv, Alone, [Next]_vars PROVE IInv'
  OBVIOUS
<1>1. CASE Arrive
  BY <1>1, LineInv
<1>2. CASE RxInterrupt \/ TxInterrupt
  BY <1>2, InterruptInv
<1>3. CASE Intr
  BY <1>3, RxPlainInv, RxDirectInv, RxStoreInv DEF Intr
<1>4. ASSUME NEW t \in Readers, NEW n \in Lens, RcvCall(t, n) PROVE IInv'
  BY <1>4, RcvCallInv
<1>5. ASSUME NEW t \in Readers, RcvStep(t) \/ RcvExpire(t) PROVE IInv'
  <2>1. t \in Tasks
    BY DEF Tasks
  <2> QED
    BY <1>5, <2>1, RcvEnterInv, GetStopInv, GetByteInv, GetLoadInv, GetStoreInv, GetCheckInv,
       RcvHandOverInv, WindowEndInv, WaitStepInv DEF RcvStep
<1>6. ASSUME NEW t \in Tasks, CtrCall(t) PROVE IInv'
  BY <1>6, CtrStartInv, LockInv, SndMaskInv DEF CtrCall, RstStart, StpStart, StaStart
<1>7. ASSUME NEW t \in Tasks, CtrStep(t) PROVE IInv'
  BY <1>7, RstRxBufInv, SwitchInv, WindowEndInv DEF CtrStep
<1>8. CASE UNCHANGED vars
  <2>1. HwOK' /\ RingOK' /\ DrvOK' /\ RunOK' /\ TaskOK' /\ HistOK'
    BY <1>8, FrameTypes DEF IInv, vars, drv, hist, out
  <2>2. WindowInv' /\ WaitInv'
    BY <1>8, Untouched DEF IInv, vars, hw, ring, task
  <2> QED
    BY <2>1, <2>2 DEF IInv, TypeOK
<1> QED
  BY <1>1, <1>2, <1>3, <1>4, <1>5, <1>6, <1>7, <1>8 DEF Next

LEMMA AlwaysIInv ==
  ASSUME Alone
  PROVE  Spec => []IInv
<1>1. Alone'
  BY DEF Alone
<1>2. IInv /\ [Next]_vars => IInv'
  BY StepIInv
<1> QED
  BY InitIInv, <1>2, PTL DEF Spec

\* Every counter of the receive half stays inside its buffer and every place is
\* one of the code (rcnt, rcvp, the copy of rcnt in a register, the task's count).
THEOREM TypeCorrect ==
  ASSUME Alone
  PROVE  Spec => []TypeOK
BY AlwaysIInv, PTL DEF IInv

\* The interrupt routine uses RcvData only while the task that set it is still
\* inside gets_com, whichever of time-out, completion and command comes first.
THEOREM NeverDangling ==
  ASSUME Alone
  PROVE  Spec => []NoDanglingRcvData
<1>1. IInv => NoDanglingRcvData
  BY DEF IInv, WaitInv
<1> QED
  BY AlwaysIInv, <1>1, PTL

\* While a task waits for the interrupt routine the ring is empty: no byte that
\* arrives later reaches the task before one that lies in the ring.
THEOREM RingEmpty ==
  ASSUME Alone
  PROVE  Spec => []RingEmptyWhileWaiting
<1>1. IInv => RingEmptyWhileWaiting
  BY DEF IInv, WaitInv
<1> QED
  BY AlwaysIInv, <1>1, PTL

-----------------------------------------------------------------------------
(* The result.                                                             *)

\* From the hand-over on the flag says whether the receive has ended, and what
\* the call is about to return says so too.
ResultOf(r) ==
  /\ pc[r] = "done" => done[r]
  /\ pc[r] \in {"hand", "arm", "twai", "wait", "drop", "poll"} => (done[r] <=> flg)
  /\ pc[r] = "clear" => (ercd[r] = "E_OK" <=> done[r])
ResultInv == \A r \in Readers : ResultOf(r)

Truthful ==
  \A r \in Readers :
    (pc[r] \in {"done", "clear"} /\ pc'[r] = "idle") => (ercd'[r] = "E_OK" <=> done[r])

\* Steps that concern no receive.
LEMMA ResultAside ==
  ASSUME TypeOK, ResultInv, UNCHANGED <<done, flg>>,
         \A r \in Readers : \/ pc'[r] = pc[r] /\ ercd'[r] = ercd[r]
                            \/ pc[r] \in Outside \cup {"snd"} /\ pc'[r] \in Outside \cup {"snd"}
  PROVE  ResultInv' /\ Truthful
BY DEF ResultInv, ResultOf, Truthful, Outside

LEMMA ResultCommand ==
  ASSUME TypeOK, ResultInv, NEW t \in Tasks, CtrCall(t) \/ CtrStep(t)
  PROVE  ResultInv' /\ Truthful
<1>1. /\ UNCHANGED <<done, flg>> /\ pc[t] \in Outside \cup {"snd"}
      /\ \E place \in Outside \cup {"snd"} : pc' = [pc EXCEPT ![t] = place]
      /\ ercd' = ercd \/ \E code \in Codes : ercd' = [ercd EXCEPT ![t] = code]
  BY DEF CtrCall, CtrStep, RstStart, StpStart, StaStart, CtrStart, LockRecv, UnlockRecv,
     SndMask, RstRxBuf, DisRcv, EnaRcv, SndUnmask, At, Goto, Return, drv, Outside, Codes
<1>2. \A r \in Readers : \/ pc'[r] = pc[r] /\ ercd'[r] = ercd[r]
                         \/ pc[r] \in Outside \cup {"snd"} /\ pc'[r] \in Outside \cup {"snd"}
  BY <1>1 DEF TypeOK, TaskOK, Tasks
<1> QED
  BY <1>1, <1>2, ResultAside

\* Steps of the one reader.
LEMMA ResultReader ==
  ASSUME IInv, ResultInv, Alone, NEW t \in Readers,
         (\E n \in Lens : RcvCall(t, n)) \/ RcvStep(t) \/ RcvExpire(t)
  PROVE  ResultInv' /\ Truthful
<1> USE DEF At, Goto, Return
<1>1. t \in Tasks /\ \A r \in Readers : r = t
  BY DEF Tasks, Alone
<1>2. pc \in [Tasks -> Places] /\ ercd \in [Tasks -> Codes] /\ done \in [Tasks -> BOOLEAN]
      /\ flg \in BOOLEAN
  BY DEF IInv, TypeOK, TaskOK, DrvOK
<1>3. ResultOf(t)
  BY DEF ResultInv
<1>4. pc[t] \in {"get", "load", "store", "check"} => ~flg
  BY NothingHanded DEF RcvWindow
<1>5. SUFFICES ResultOf(t)'
               /\ ((pc[t] \in {"done", "clear"} /\ pc'[t] = "idle")
                    => (ercd'[t] = "E_OK" <=> done[t]))
  BY <1>1 DEF ResultInv, Truthful
<1>6. CASE (\E n \in Lens : RcvCall(t, n)) \/ RcvEnter(t)
  BY <1>1, <1>2, <1>6 DEF ResultOf, RcvCall, RcvEnter, Forget, drv
<1>7. CASE GetByte(t) \/ GetLoad(t) \/ GetStore(t)
  BY <1>1, <1>2, <1>7 DEF ResultOf, GetByte, GetLoad, GetStore, drv
<1>8. CASE GetStop(t) \/ GetCheck(t)
  BY <1>1, <1>2, <1>4, <1>8 DEF ResultOf, GetStop, GetCheck, drv
<1>9. CASE RcvDone(t) \/ RcvHandOver(t) \/ RcvArm(t)
  BY <1>1, <1>2, <1>3, <1>9 DEF ResultOf, RcvDone, RcvHandOver, RcvArm, Forget
<1>10. CASE RcvWait(t) \/ RcvExpire(t) \/ RcvDrop(t)
  BY <1>1, <1>2, <1>3, <1>10 DEF ResultOf, RcvWait, RcvExpire, RcvDrop, drv
<1>11. CASE RcvPoll(t) \/ RcvClear(t)
  BY <1>1, <1>2, <1>3, <1>11 DEF ResultOf, RcvPoll, RcvClear, Polled, Forget, drv
<1> QED
  BY <1>6, <1>7, <1>8, <1>9, <1>10, <1>11 DEF RcvStep

\* The routine ends the receive of the task whose buffer it has.
LEMMA ResultDirect ==
  ASSUME IInv, ResultInv, Alone, RxDirect
  PROVE  ResultInv' /\ Truthful
<1>1. rcvData \in Readers /\ rcvData \in Tasks /\ \A r \in Readers : r = rcvData
  BY DEF RxDirect, IInv, TypeOK, DrvOK, Tasks, Alone
<1>2. pc \in [Tasks -> Places] /\ ercd \in [Tasks -> Codes] /\ done \in [Tasks -> BOOLEAN]
  BY DEF IInv, TypeOK, TaskOK
<1>3. CASE UNCHANGED <<rcvData, flg, done, pc, ercd>>
  BY <1>3, ResultAside DEF IInv
<1>4. CASE Complete(rcvData)
  <2>1. pc[rcvData] \in {"arm", "twai", "wait", "drop"}
    BY <1>1, TaskAssumption DEF Tasks, IInv, WaitInv, NoDanglingRcvData
  <2>2. \A r \in Readers :
          /\ done'[r] /\ flg'
          /\ pc'[r] \in {"arm", "twai", "drop", "clear"}
          /\ pc'[r] = "clear" => ercd'[r] = "E_OK"
    BY <1>1, <1>2, <1>4, <2>1 DEF Complete
  <2> QED
    BY <1>1, <2>1, <2>2 DEF ResultInv, ResultOf, Truthful
<1> QED
  BY <1>3, <1>4 DEF RxDirect

LEMMA ResultStep ==
  ASSUME IInv, ResultInv, Alone, [Next]_vars
  PROVE  ResultInv' /\ (UNCHANGED vars \/ Truthful)
<1>1. CASE UNCHANGED vars
  BY <1>1 DEF ResultInv, ResultOf, vars, task
<1>2. CASE Arrive \/ RxInterrupt \/ TxInterrupt
  BY <1>2, ResultAside DEF IInv, Arrive, RxInterrupt, TxInterrupt, task, drv
<1>3. CASE Intr /\ ~RxDirect
  BY <1>3, ResultAside
     DEF IInv, Intr, RxFlowChar, RxStore, RxEmpty, BreakDirect, BreakStore, IntrEnd, task, drv
<1>4. CASE RxDirect
  BY <1>4, ResultDirect
<1>5. ASSUME NEW t \in Readers,
             (\E n \in Lens : RcvCall(t, n)) \/ RcvStep(t) \/ RcvExpire(t)
      PROVE  ResultInv' /\ Truthful
  BY <1>5, ResultReader
<1>6. ASSUME NEW t \in Tasks, CtrCall(t) \/ CtrStep(t)
      PROVE  ResultInv' /\ Truthful
  BY <1>6, ResultCommand DEF IInv
<1> QED
  BY <1>1, <1>2, <1>3, <1>4, <1>5, <1>6 DEF Next

\* gets_com returns E_OK exactly when its receive has ended (count used up,
\* terminator or error status), however a time-out races with the routine.
THEOREM ResultTrue ==
  ASSUME Alone
  PROVE  Spec => RcvResult
<1>1. Alone'
  BY DEF Alone
<1>2. Init => ResultInv
  BY DEF Init, ResultInv, ResultOf, Tasks
<1>3. IInv /\ ResultInv /\ [Next]_vars => ResultInv'
  BY ResultStep
<1>4. IInv /\ ResultInv /\ [Next]_vars
        => [\A t \in Readers :
              (pc[t] \in {"done", "clear"} /\ pc'[t] = "idle")
                => (ercd'[t] = "E_OK" <=> done[t])]_vars
  BY ResultStep DEF Truthful
<1> QED
  BY AlwaysIInv, <1>2, <1>3, <1>4, PTL DEF Spec, RcvResult


-----------------------------------------------------------------------------
(* The order of the bytes.                                                 *)

\* The byte that a caller has and rcnt still counts.
InTake == \E t \in Tasks : pc[t] \in {"load", "store"}
Held   == IF InTake THEN rcnt - 1 ELSE rcnt

\* The ring holds the last "Held" bytes read, the oldest at rcvp.
Slot(i) == IF i >= RSize THEN i - RSize ELSE i
HeldOK ==
  /\ read - got = Held
  /\ \A k \in 1 .. read - got : rbuf[Slot(rcvp + k - 1)] = got + k

\* rcnt does not change between its load and its store.
StoreFresh == \A t \in Tasks : pc[t] = "store" => reg[t] = rcnt

\* rxi reads from the FIFO only what it has a place for.
RoomLeft == isr = "rx" => rcvData # None \/ rcnt < RSize

OrderInv == HeldOK /\ StoreFresh /\ RoomLeft

LEMMA InitOrder == Init => OrderInv /\ Queue!Init
<1> SUFFICES ASSUME Init PROVE OrderInv /\ Queue!Init
  OBVIOUS
<1> USE DEF Init
<1>1. ~InTake /\ StoreFresh /\ RoomLeft
  BY DEF InTake, StoreFresh, RoomLeft
<1>2. HeldOK
  BY <1>1 DEF HeldOK, Held
<1> QED
  BY <1>1, <1>2 DEF OrderInv, Queue!Init

\* The four things that may happen to the ring.
LEMMA Kept ==
  ASSUME HeldOK, UNCHANGED <<rbuf, rcvp, read, out>>, Held' = Held
  PROVE  HeldOK' /\ UNCHANGED Queue!queue
BY DEF HeldOK, Queue!queue, out

LEMMA Pushed ==
  ASSUME RingOK, HistOK, HeldOK, ~InTake, ~InTake', rcnt < RSize,
         rbuf' = [rbuf EXCEPT ![Newest] = read + 1],
         rcnt' = rcnt + 1, read' = read + 1, UNCHANGED <<rcvp, out>>
  PROVE  HeldOK' /\ Queue!Accept
<1> USE SizeAssumption DEF RingOK, HistOK, out
<1>1. read - got = rcnt /\ read' - got' = rcnt + 1 /\ Held' = rcnt + 1
  BY DEF HeldOK, Held
<1>2. ASSUME NEW k \in 1 .. read' - got'
      PROVE  rbuf'[Slot(rcvp' + k - 1)] = got' + k
  <2>1. CASE k = rcnt + 1
    <3>1. Slot(rcvp + k - 1) = Newest /\ Newest \in Index /\ got + k = read + 1
      BY <1>1, <2>1 DEF Slot, Newest, Index
    <3> QED
      BY <3>1
  <2>2. CASE k # rcnt + 1
    <3>1. k \in 1 .. read - got
      BY <1>1, <2>2
    <3>2. Slot(rcvp + k - 1) # Newest /\ Slot(rcvp + k - 1) \in Index
      BY <1>1, <3>1 DEF Slot, Newest, Index
    <3>3. rbuf[Slot(rcvp + k - 1)] = got + k
      BY <3>1 DEF HeldOK
    <3> QED
      BY <3>2, <3>3
  <2> QED
    BY <2>1, <2>2
<1> QED
  BY <1>1, <1>2 DEF HeldOK, Queue!Accept

LEMMA Popped ==
  ASSUME RingOK, HistOK, HeldOK, ~InTake, InTake', rcnt # 0,
         got' = rbuf[rcvp], given' = given + 1, rcvp' = Wrap(rcvp + 1), UNCHANGED <<rbuf, rcnt, read, dropped>>
  PROVE  HeldOK' /\ Queue!Deliver
<1> USE SizeAssumption DEF RingOK, HistOK
<1>1. read - got = rcnt /\ Held' = rcnt - 1
  BY DEF HeldOK, Held
<1>2. Slot(rcvp + 1 - 1) = rcvp
  BY DEF Slot
<1>3. got' = got + 1
  BY <1>1, <1>2 DEF HeldOK
<1>4. ASSUME NEW k \in 1 .. read' - got'
      PROVE  rbuf'[Slot(rcvp' + k - 1)] = got' + k
  <2>1. k + 1 \in 1 .. read - got
    BY <1>3
  <2>2. Slot(rcvp' + k - 1) = Slot(rcvp + (k + 1) - 1)
    BY <1>1, <2>1 DEF Slot, Wrap
  <2>3. rbuf[Slot(rcvp + (k + 1) - 1)] = got + (k + 1)
    BY <2>1 DEF HeldOK
  <2> QED
    BY <1>3, <2>2, <2>3
<1> QED
  BY <1>1, <1>3, <1>4 DEF HeldOK, Queue!Deliver

LEMMA Passed ==
  ASSUME HistOK, HeldOK, ~InTake, ~InTake', rcnt = 0,
         UNCHANGED <<rcnt, dropped>>, read' = read + 1, got' = read + 1, given' = given + 1
  PROVE  HeldOK' /\ Queue!PassThrough
<1>1. read = got
  BY DEF HeldOK, Held, HistOK
<1> QED
  BY <1>1 DEF HeldOK, Held, HistOK, Queue!PassThrough

\* Nobody takes a byte out while somebody else may run.
LEMMA NoTake ==
  ASSUME IInv, dsp = None \/ \E t \in Tasks : MayRun(t) /\ pc[t] \notin {"load", "store"}
  PROVE  ~InTake
BY TaskAssumption DEF IInv, WindowInv, WindowAlone, InTake, MayRun, Masked, RcvWindow

\* Steps that neither take a byte out nor put one in.
LEMMA OrderAside ==
  ASSUME IInv, OrderInv, UNCHANGED <<ring, read, out, reg>>,
         \A t \in Tasks : pc'[t] \in {"load", "store"} <=> pc[t] \in {"load", "store"},
         \A t \in Tasks : pc'[t] = "store" <=> pc[t] = "store",
         isr' = "rx" => isr = "rx" /\ rcvData' = rcvData
  PROVE  OrderInv' /\ UNCHANGED Queue!queue
<1>1. Held' = Held
  BY DEF Held, InTake, ring
<1>2. StoreFresh' /\ RoomLeft'
  BY DEF OrderInv, StoreFresh, RoomLeft, ring
<1> QED
  BY <1>1, <1>2, Kept DEF OrderInv, ring

LEMMA OrderCommand ==
  ASSUME IInv, OrderInv, NEW t \in Tasks, CtrCall(t) \/ CtrStep(t)
  PROVE  OrderInv' /\ [Queue!Next]_(Queue!queue)
<1> USE DEF At, Goto, Return
<1>1. /\ MayRun(t) /\ pc[t] \in Outside \cup {"snd"} /\ UNCHANGED <<isr, reg, read>>
      /\ \E place \in Outside \cup {"snd"} : pc' = [pc EXCEPT ![t] = place]
  BY DEF CtrCall, CtrStep, RstStart, StpStart, StaStart, CtrStart, LockRecv, UnlockRecv,
     SndMask, RstRxBuf, DisRcv, EnaRcv, SndUnmask, hist, out, Outside
<1>2. pc \in [Tasks -> Places]
  BY DEF IInv, TypeOK, TaskOK
<1>3. /\ \A u \in Tasks : pc'[u] \in {"load", "store"} <=> pc[u] \in {"load", "store"}
      /\ \A u \in Tasks : pc'[u] = "store" <=> pc[u] = "store"
  BY <1>1, <1>2 DEF Outside
<1>4. CASE ~RstRxBuf(t)
  <2>1. UNCHANGED <<ring, out>> /\ isr = "idle"
    BY <1>1, <1>4 DEF CtrCall, CtrStep, RstStart, StpStart, StaStart, CtrStart, LockRecv,
       UnlockRecv, SndMask, DisRcv, EnaRcv, SndUnmask, hist, out, MayRun
  <2> QED
    BY <1>1, <1>3, <2>1, OrderAside
<1>5. CASE RstRxBuf(t)
  <2>1. ~InTake /\ ~InTake'
    BY <1>1, <1>3, NoTake DEF InTake, Outside
  <2>2. read - got = rcnt /\ read \in Nat /\ read' - got' = 0 /\ rcnt' = 0
    BY <1>5, <2>1 DEF RstRxBuf, OrderInv, HeldOK, Held, IInv, TypeOK, HistOK
  <2>3. HeldOK'
    BY <2>1, <2>2 DEF HeldOK, Held
  <2>4. Queue!Flush
    BY <1>5, <2>2 DEF RstRxBuf, Queue!Flush
  <2>5. StoreFresh' /\ RoomLeft'
    BY <1>1, <2>1 DEF StoreFresh, RoomLeft, InTake, MayRun
  <2> QED
    BY <2>3, <2>4, <2>5 DEF OrderInv, Queue!Next
<1> QED
  BY <1>4, <1>5

LEMMA OrderReader ==
  ASSUME IInv, OrderInv, Alone, NEW t \in Readers,
         (\E n \in Lens : RcvCall(t, n)) \/ RcvStep(t) \/ RcvExpire(t)
  PROVE  OrderInv' /\ [Queue!Next]_(Queue!queue)
<1> USE DEF At, Goto, Return
<1>1. t \in Tasks /\ \A u \in Tasks : pc[u] \in {"load", "store"} => u = t
  BY DEF Tasks, Alone, IInv, WindowInv, Roles
<1>2. pc \in [Tasks -> Places] /\ reg \in [Tasks -> 0 .. RSize]
  BY DEF IInv, TypeOK, TaskOK
<1>3. RingOK /\ HistOK /\ HeldOK
  BY DEF IInv, TypeOK, OrderInv
<1>4. CASE GetByte(t)
  <2>1. ~InTake /\ InTake'
    BY <1>1, <1>2, <1>4 DEF GetByte, InTake
  <2>2. HeldOK' /\ Queue!Deliver
    BY <1>3, <1>4, <2>1, Popped DEF GetByte
  <2>3. StoreFresh' /\ RoomLeft'
    BY <1>1, <1>2, <1>4 DEF GetByte, MayRun, StoreFresh, RoomLeft
  <2> QED
    BY <2>2, <2>3 DEF OrderInv, Queue!Next
<1>5. CASE GetLoad(t)
  <2>1. InTake /\ InTake' /\ StoreFresh'
    BY <1>1, <1>2, <1>5 DEF GetLoad, InTake, StoreFresh, ring
  <2>2. Held' = Held /\ RoomLeft'
    BY <1>5, <2>1 DEF GetLoad, Held, RoomLeft, MayRun, ring
  <2> QED
    BY <1>3, <1>5, <2>1, <2>2, Kept DEF GetLoad, OrderInv, ring, hist, out
<1>6. CASE GetStore(t)
  <2>1. InTake /\ ~InTake' /\ reg[t] = rcnt
    BY <1>1, <1>2, <1>6 DEF GetStore, InTake, OrderInv, StoreFresh
  <2>2. Held' = Held /\ StoreFresh' /\ RoomLeft'
    BY <1>6, <2>1 DEF GetStore, Held, InTake, StoreFresh, RoomLeft, MayRun
  <2> QED
    BY <1>3, <1>6, <2>2, Kept DEF GetStore, OrderInv, hist, out
<1>7. CASE ~GetByte(t) /\ ~GetLoad(t) /\ ~GetStore(t)
  <2>1. UNCHANGED <<ring, read, out, reg, isr>> /\ isr = "idle"
    BY <1>7 DEF RcvStep, RcvCall, RcvEnter, GetStop, GetCheck, RcvDone, RcvHandOver, RcvArm,
       RcvWait, RcvExpire, RcvDrop, RcvPoll, RcvClear, MayRun, hist, out
  <2>2. /\ pc[t] \notin {"load", "store"}
        /\ \E place \in Places \ {"load", "store"} : pc' = [pc EXCEPT ![t] = place]
    BY <1>2, <1>1, <1>7 DEF RcvStep, RcvCall, RcvEnter, GetStop, GetCheck, RcvDone, RcvHandOver,
       RcvArm, RcvWait, RcvExpire, RcvDrop, RcvPoll, RcvClear, Places, RcvWindow
  <2>3. /\ \A u \in Tasks : pc'[u] \in {"load", "store"} <=> pc[u] \in {"load", "store"}
        /\ \A u \in Tasks : pc'[u] = "store" <=> pc[u] = "store"
    BY <1>2, <2>2
  <2> QED
    BY <2>1, <2>3, OrderAside
<1> QED
  BY <1>4, <1>5, <1>6, <1>7

\* While the routine runs, and where it starts, nobody takes a byte out.
LEMMA OrderInterrupt ==
  ASSUME IInv, OrderInv, Alone, RSize > 0, RxInterrupt \/ TxInterrupt \/ Intr
  PROVE  OrderInv' /\ [Queue!Next]_(Queue!queue)
<1>1. ~InTake
  <2>1. dsp = None
    BY InterruptOutside DEF IInv, WindowInv, WindowQuiet, Intr,
       RxFlowChar, RxDirect, RxStore, RxEmpty, BreakDirect, BreakStore, IntrEnd
  <2> QED
    BY <2>1, NoTake
<1>2. \A u \in Tasks : pc'[u] \in {pc[u], "clear"}
  BY DEF RxInterrupt, TxInterrupt, Intr, RxFlowChar, RxDirect, RxStore, RxEmpty, BreakDirect, BreakStore,
     IntrEnd, Complete, task
<1>3. ~InTake' /\ StoreFresh'
  BY <1>1, <1>2 DEF InTake, StoreFresh
<1>4. RingOK /\ HistOK /\ HeldOK /\ RoomLeft
  BY DEF IInv, TypeOK, OrderInv
<1>5. CASE RxInterrupt \/ TxInterrupt \/ RxFlowChar \/ RxEmpty \/ IntrEnd
  <2>1. UNCHANGED <<ring, hist, rcvData>>
    BY <1>5 DEF RxInterrupt, TxInterrupt, RxFlowChar, RxEmpty, IntrEnd
  <2>2. Held' = Held /\ RoomLeft'
    BY <1>1, <1>3, <1>4, <1>5, <2>1
       DEF Held, RoomLeft, RxInterrupt, TxInterrupt, EnterRxi, RxiReads, RxFlowChar, RxEmpty,
           IntrEnd, ring
  <2> QED
    BY <1>3, <1>4, <2>1, <2>2, Kept DEF OrderInv, ring, hist, out
<1>6. CASE RxDirect \/ BreakDirect
  <2>1. rcnt = 0 /\ UNCHANGED rcnt
    BY <1>6 DEF RxDirect, BreakDirect, IInv, WaitInv, RingEmptyWhileWaiting, ring
  <2>2. RoomLeft'
    BY <1>4, <2>1 DEF RoomLeft
  <2>3. HeldOK' /\ Queue!PassThrough
    BY <1>1, <1>3, <1>4, <1>6, <2>1, Passed DEF RxDirect, BreakDirect, GiveDirect
  <2> QED
    BY <1>3, <2>2, <2>3 DEF OrderInv, Queue!Next
<1>7. CASE RxStore \/ BreakStore
  <2>1. RingHasRoom
    BY <1>4, <1>7 DEF RxStore, BreakStore, RoomLeft, RingHasRoom
  <2>2. Store /\ UNCHANGED <<rcvp, out>>
    BY <1>7, <2>1 DEF RxStore, BreakStore
  <2>3. RoomLeft'
    BY <1>4, <1>7, <2>1, SizeAssumption
       DEF RxStore, BreakStore, Store, RingHasRoom, RoomLeft, RingOK
  <2>4. HeldOK' /\ Queue!Accept
    BY <1>1, <1>3, <1>4, <2>1, <2>2, Pushed DEF Store, RingHasRoom
  <2> QED
    BY <1>3, <2>3, <2>4 DEF OrderInv, Queue!Next
<1> QED
  BY <1>5, <1>6, <1>7 DEF Intr

LEMMA OrderStep ==
  ASSUME IInv, OrderInv, Alone, RSize > 0, [Next]_vars
  PROVE  OrderInv' /\ [Queue!Next]_(Queue!queue)
<1>1. CASE Arrive \/ UNCHANGED vars
  BY <1>1, OrderAside DEF Arrive, vars, task, hist, out, drv
<1>2. CASE RxInterrupt \/ TxInterrupt \/ Intr
  BY <1>2, OrderInterrupt
<1>3. ASSUME NEW t \in Readers,
             (\E n \in Lens : RcvCall(t, n)) \/ RcvStep(t) \/ RcvExpire(t)
      PROVE  OrderInv' /\ [Queue!Next]_(Queue!queue)
  BY <1>3, OrderReader
<1>4. ASSUME NEW t \in Tasks, CtrCall(t) \/ CtrStep(t)
      PROVE  OrderInv' /\ [Queue!Next]_(Queue!queue)
  BY <1>4, OrderCommand
<1> QED
  BY <1>1, <1>2, <1>3, <1>4 DEF Next

(* gets_com gives its callers the bytes read from FRDR, in order, each     *)
(* once, through the ring or straight from the routine, however time-outs, *)
(* commands and the routine interleave; only a reset drops bytes.  A ring  *)
(* of size 0 would lose what arrives in the interrupt that ends a receive. *)
THEOREM ImplementsByteQueue ==
  ASSUME Alone, RSize > 0
  PROVE  Spec => IsByteQueue
<1>1. Alone' /\ (RSize > 0)'
  BY DEF Alone
<1>2. Init => OrderInv /\ Queue!Init
  BY InitOrder
<1>3. IInv /\ OrderInv /\ [Next]_vars => OrderInv' /\ [Queue!Next]_(Queue!queue)
  BY OrderStep
<1> QED
  BY AlwaysIInv, <1>2, <1>3, PTL DEF Spec, IsByteQueue, Queue!Spec

-----------------------------------------------------------------------------
(* Flow control towards the peer.                                          *)

\* Once the driver has let the peer go, an XON went out last or one waits to.
FlowInv ==
  /\ rxXoff => SoftFlow
  /\ ~rxXoff => told = "xon" \/ req

Kindly == XoffJustified /\ ~(\E t \in Tasks : RstRxBuf(t)) => XoffJustified'

\* Steps that touch neither the ring's count nor the flow control.
LEMMA FlowAside ==
  ASSUME FlowInv, UNCHANGED <<flow, rcnt>>, Quiet' => Quiet
  PROVE  FlowInv' /\ Kindly
BY DEF FlowInv, Kindly, XoffJustified, Standing, flow

\* A flow character that waited goes out.
LEMMA FlowSent ==
  ASSUME FlowInv, FlowChar, UNCHANGED <<rxXoff, rcnt>>, Quiet' => Quiet
  PROVE  FlowInv' /\ Kindly
BY DEF FlowInv, FlowChar, Kindly, XoffJustified, Standing

\* What enters the ring, and the XOFF that may go out for it.
LEMMA FlowStore ==
  ASSUME TypeOK, FlowInv, XonSize <= XoffSize, Store, Quiet' => Quiet
  PROVE  FlowInv' /\ Kindly
<1> USE SizeAssumption DEF TypeOK, RingOK, Store, Tell
<1>1. CASE UNCHANGED flow
  BY <1>1 DEF FlowInv, Kindly, XoffJustified, Standing, flow
<1>2. CASE SoftFlow /\ rcnt >= XoffSize /\ rxXoff'
  BY <1>2 DEF FlowInv, Kindly, XoffJustified
<1> QED
  BY <1>1, <1>2 DEF ChkRxoff

\* What has left the ring, and the XON that may go out for it.
LEMMA FlowCheck ==
  ASSUME TypeOK, Alone, FlowInv, NEW t \in Tasks, GetCheck(t)
  PROVE  FlowInv' /\ Kindly
<1> USE SizeAssumption DEF TypeOK, RingOK, GetCheck, Alone, Tell, ring
<1>1. CASE UNCHANGED flow /\ (SoftFlow /\ rxXoff => rcnt > XonSize)
  BY <1>1 DEF FlowInv, Kindly, XoffJustified, Standing, flow
<1>2. CASE ~rxXoff' /\ Tell("xon")
  BY <1>2 DEF FlowInv, Kindly, XoffJustified, Standing
<1>3. ChkRxon /\ (rcnt <= XonSize \/ rcnt > XonSize)
  OBVIOUS
<1>4. CASE SoftFlow /\ rxXoff /\ rcnt <= XonSize
  BY <1>2, <1>3, <1>4 DEF ChkRxon
<1>5. CASE ~(SoftFlow /\ rxXoff /\ rcnt <= XonSize)
  BY <1>1, <1>3, <1>5 DEF ChkRxon
<1> QED
  BY <1>4, <1>5

LEMMA FlowStep ==
  ASSUME IInv, FlowInv, Alone, XonSize <= XoffSize, [Next]_vars
  PROVE  FlowInv' /\ Kindly
<1>a. pc \in [Tasks -> Places] /\ TypeOK
  BY DEF IInv, TypeOK, TaskOK
<1>1. CASE UNCHANGED vars
  BY <1>1, FlowAside DEF vars, ring, task, Quiet
<1>2. CASE Arrive \/ RxInterrupt \/ TxInterrupt \/ (Intr /\ ~Store /\ ~RxFlowChar /\ ~IntrEnd)
  <2>1. UNCHANGED <<flow, rcnt>>
    BY <1>2 DEF Arrive, RxInterrupt, TxInterrupt, Intr, RxDirect, RxStore, RxEmpty, BreakDirect,
       BreakStore, ring, drv
  <2>2. \A t \in Tasks : pc'[t] = pc[t] \/ pc[t] = "wait"
    BY <1>2 DEF Arrive, RxInterrupt, TxInterrupt, Intr, RxDirect, RxStore, RxEmpty, BreakDirect,
       BreakStore, Complete, task
  <2> QED
    BY <2>1, <2>2, FlowAside DEF Quiet
<1>3. CASE Intr /\ Store
  <2>1. UNCHANGED pc
    BY <1>3, <1>a DEF Intr, RxFlowChar, RxDirect, RxStore, RxEmpty, BreakDirect,
       BreakStore, IntrEnd, Store, ring, hist, out, task, RingOK, HistOK, TypeOK
  <2> QED
    BY <1>a, <1>3, <2>1, FlowStore DEF Quiet
<1>4. CASE RxFlowChar \/ IntrEnd
  BY <1>4, FlowSent DEF RxFlowChar, IntrEnd, Quiet, ring, task
<1>5. ASSUME NEW t \in Tasks,
             \/ t \in Readers /\ ((\E n \in Lens : RcvCall(t, n)) \/ RcvStep(t) \/ RcvExpire(t))
             \/ CtrCall(t) \/ CtrStep(t),
             ~GetCheck(t), ~SndUnmask(t)
      PROVE  FlowInv' /\ Kindly
  <2>1. UNCHANGED flow
    BY <1>5 DEF RcvStep, RcvCall, RcvEnter, GetStop, GetByte, GetLoad, GetStore, RcvDone,
       RcvHandOver, RcvArm, RcvWait, RcvExpire, RcvDrop, RcvPoll, RcvClear, CtrCall, CtrStep,
       RstStart, StpStart, StaStart, CtrStart, LockRecv, UnlockRecv, SndMask, RstRxBuf, DisRcv,
       EnaRcv, drv
  <2>2. FlowInv'
    BY <2>1 DEF FlowInv, flow
  <2>3. CASE RstRxBuf(t)
    BY <2>2, <2>3 DEF Kindly
  <2>4. CASE GetStore(t)
    <3>1. ~Quiet'
      BY <1>a, <2>4 DEF GetStore, Goto, Quiet
    <3> QED
      BY <2>2, <3>1 DEF Kindly, XoffJustified
  <2>5. CASE ~RstRxBuf(t) /\ ~GetStore(t)
    <3>1. UNCHANGED rcnt
      BY <1>5, <2>5 DEF RcvStep, RcvCall, RcvEnter, GetStop, GetByte, GetLoad, RcvDone,
       RcvHandOver, RcvArm, RcvWait, RcvExpire, RcvDrop, RcvPoll, RcvClear, CtrCall, CtrStep,
       RstStart, StpStart, StaStart, CtrStart, LockRecv, UnlockRecv, SndMask, DisRcv,
       EnaRcv, ring
    <3>2. (pc[t] \notin {"load", "store", "check"}
             /\ \A u \in Tasks \ {t} : pc'[u] = pc[u]) \/ pc'[t] \in {"load", "store"}
      BY <1>a, <1>5, <2>5 DEF RcvStep, RcvCall, RcvEnter, GetStop, GetByte, GetLoad, RcvDone,
       RcvHandOver, RcvArm, RcvWait, RcvExpire, RcvDrop, RcvPoll, RcvClear, CtrCall, CtrStep,
       RstStart, StpStart, StaStart, CtrStart, LockRecv, UnlockRecv, SndMask, DisRcv,
       EnaRcv, At, Goto, Return
    <3> QED
      BY <2>1, <3>1, <3>2, FlowAside DEF Quiet
  <2> QED
    BY <2>3, <2>4, <2>5
<1>6. ASSUME NEW t \in Tasks, GetCheck(t)
      PROVE  FlowInv' /\ Kindly
  BY <1>a, <1>6, FlowCheck
<1>7. ASSUME NEW t \in Tasks, SndUnmask(t)
      PROVE  FlowInv' /\ Kindly
  BY <1>a, <1>7, FlowSent DEF SndUnmask, At, Goto, Quiet, ring
<1> QED
  BY <1>1, <1>2, <1>3, <1>4, <1>5, <1>6, <1>7 DEF Next, Tasks

(* While rx_xoff is set, or an XOFF was the last flow character to go out, *)
(* the ring holds more than xon_size bytes, so that the reader will send   *)
(* the XON; only a reset of the ring breaks this.  The level for XON must  *)
(* not lie above the one for XOFF.                                         *)
THEOREM PeerNotForgotten ==
  ASSUME Alone, XonSize <= XoffSize
  PROVE  Spec => XoffStands
<1>1. Alone' /\ (XonSize <= XoffSize)'
  BY DEF Alone
<1>2. Init => FlowInv
  BY DEF Init, FlowInv
<1>3. IInv /\ FlowInv /\ [Next]_vars => FlowInv'
  BY FlowStep
<1>4. IInv /\ FlowInv /\ [Next]_vars
        => [XoffJustified /\ ~(\E t \in Tasks : RstRxBuf(t)) => XoffJustified']_vars
  BY FlowStep DEF Kindly
<1> QED
  BY AlwaysIInv, <1>2, <1>3, <1>4, PTL DEF Spec, XoffStands
=============================================================================
