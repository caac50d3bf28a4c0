------------------------------- MODULE ScifRx -------------------------------
(***************************************************************************)
(* Receive side of one SCIFA channel (DDR_RZG1_SCIFA.c; DDR_RZG1_SCIF.c is *)
(* the same code over a shallower FIFO).  The interrupt service routine    *)
(* moves bytes from the hardware FIFO into the driver's ring, or straight  *)
(* into the buffer of the task that waits in gets_com; that task first     *)
(* empties the ring itself, with the receive interrupt disabled.           *)
(*                                                                         *)
(* Steps interleave as in ScifTx.  A byte gets its number when it is read  *)
(* from FRDR, so the FIFO is only its level.  Whether a byte ends a receive*)
(* (terminator or error status) is chosen where check_chr looks at it.     *)
(*                                                                         *)
(* The transmit half is ScifTx; what reaches over from there is the        *)
(* transmit interrupt, for a flow character that waits or for bytes that   *)
(* are being sent.  It may come at any time, and the routine looks at the  *)
(* receive flags too.  gets_com keeps the receive interrupt out while it   *)
(* empties the ring, but not this one; with TxWindow = FALSE it is assumed *)
(* to stay away just then.                                                 *)
(***************************************************************************)
EXTENDS Integers, FiniteSets

CONSTANTS
  Readers,    \* tasks that call gets_com
  Others,     \* tasks that only send and issue commands
  None,       \* the null task id / null pointer
  RSize,      \* rsize, size of the receive ring
  FifoDepth,  \* depth of the receive FIFO
  XoffSize, XonSize, \* ring levels at which XOFF and XON are sent
  SoftFlow,   \* status.sft_flw
  TxWindow,   \* transmit interrupts fall into the window of rcv, too
  Breaks,     \* the line may carry BREAK signals
  Lens,       \* byte counts callers pass to gets_com
  UHMax,      \* largest value of a UH counter (65535)
  MaxBytes    \* bound: bytes that arrive

Tasks == Readers \cup Others

ASSUME SizeAssumption ==
  /\ RSize \in Nat
  /\ FifoDepth \in Nat \ {0}
  /\ XoffSize \in Nat /\ XonSize \in Nat
  /\ UHMax \in Nat
  /\ Lens \subseteq 0 .. UHMax
  /\ MaxBytes \in Nat
ASSUME FlagAssumption == {SoftFlow, TxWindow, Breaks} \subseteq BOOLEAN
ASSUME TaskAssumption == None \notin Tasks

VARIABLES
  rxf,      \* level of the receive FIFO
  rie, re,  \* SCR.RIE (with it ERIE, BRIE and DRIE) and SCR.RE
  rbuf, rcvp, rcnt,   \* ring, read position, bytes in it
  rcvData,  \* task whose T_COM_RCV the ISR may use, or None
  rxXoff,   \* status.rx_xoff: we stopped the peer
  req,      \* status.req_xon_xoff: that XON/XOFF waits for transmit FIFO room
  told,     \* history: last of "xon", "xoff" that went out
  enaRx,    \* status.ena_rx
  rlock,    \* rlockid
  flg,      \* is RXI_FLG set
  dsp,      \* task that disabled dispatching, or None
  isr,      \* where the ISR is
  pc, left, reg, ercd,\* per task: place, ReceiveData->rcnt, a register, result
  done,     \* per task, history: check_chr found the end of this receive
  came, read, got,\* history: bytes that arrived, data bytes read from FRDR,
                  \* last byte given to a caller or dropped
  given, dropped  \* history: bytes given to callers, lost by RST_RXBUF

hw   == <<rxf, rie, re>>
ring == <<rbuf, rcvp, rcnt>>
flow == <<rxXoff, req, told>>
conf == <<enaRx, rlock>>
drv  == <<rcvData, flow, conf, flg>>
task == <<pc, left, reg, ercd, done>>
out  == <<got, given, dropped>>
hist == <<came, read, out>>
vars == <<hw, ring, rcvData, flow, conf, flg, dsp, isr, task, hist>>

Index == 0 .. RSize - 1

\* Where a task is inside _ddr_rzg1_scifa_rcv with dispatching disabled.
RcvWindow == {"get", "load", "store", "check", "hand", "arm", "done"}
Places ==
  {"idle", "enter"} \cup RcvWindow \cup {"twai", "wait", "drop", "poll", "clear"}
    \cup {"rst", "stp", "sta", "snd"}
IsrPlaces == {"idle", "rx", "brk", "tx"}
Codes == {"E_OK", "E_OBJ", "E_TMOUT"}

Dec(n)  == IF n = 0 THEN UHMax ELSE n - 1
Wrap(i) == IF i >= RSize THEN 0 ELSE i
\* Position behind the newest byte of the ring.
Newest  == IF rcvp + rcnt >= RSize THEN rcvp + rcnt - RSize ELSE rcvp + rcnt

\* Room in the ring; rxi may read from the FIFO; pol_flg.  (Each has a seeded
\* fault before it.)
RingHasRoomLate == rcnt <= RSize
RingHasRoom == rcnt < RSize
RxiReadsBlind == TRUE
RxiReads == rcnt < RSize \/ rcvData # None
PolledNever == "E_TMOUT"
Polled == IF flg THEN "E_OK" ELSE "E_TMOUT"

MayRun(t) == isr = "idle" /\ dsp \in {None, t}
At(t, place) == pc[t] = place /\ MayRun(t)
Goto(t, place) == pc' = [pc EXCEPT ![t] = place]
Return(t, code) ==
  /\ Goto(t, "idle")
  /\ ercd' = [ercd EXCEPT ![t] = code]
\* The caller's T_COM_RCV, on its stack, is gone with the call.
Forget(t) ==
  /\ left' = [left EXCEPT ![t] = 0]
  /\ done' = [done EXCEPT ![t] = FALSE]
Admitted(t) == rlock \in {None, t} /\ rcvData = None

Init ==
  /\ rxf = 0 /\ rie = TRUE /\ re = TRUE
  /\ rbuf = [i \in Index |-> 0] /\ rcvp = 0 /\ rcnt = 0
  /\ rcvData = None /\ rxXoff = FALSE /\ req = FALSE /\ told = "xon"
  /\ enaRx = TRUE /\ rlock = None /\ flg = FALSE /\ dsp = None /\ isr = "idle"
  /\ pc = [t \in Tasks |-> "idle"] /\ left = [t \in Tasks |-> 0]
  /\ reg = [t \in Tasks |-> 0] /\ ercd = [t \in Tasks |-> "E_OK"]
  /\ done = [t \in Tasks |-> FALSE]
  /\ came = 0 /\ read = 0 /\ got = 0 /\ given = 0 /\ dropped = 0

-----------------------------------------------------------------------------
(* The line: a byte arrives.  With the FIFO full it is lost (ORER).        *)
Arrive ==
  /\ re /\ rxf < FifoDepth /\ came < MaxBytes
  /\ rxf' = rxf + 1
  /\ came' = came + 1
  /\ UNCHANGED <<rie, re, ring, drv, dsp, isr, task, read, out>>

\* The XON/XOFF that waited gets into the transmit FIFO, if that has room (txi
\* and send_char); it says what rx_xoff is by then.
FlowChar ==
  \/ req /\ req' = FALSE /\ told' = IF rxXoff THEN "xoff" ELSE "xon"
  \/ UNCHANGED <<req, told>>

\* The transmit FIFO has room for the flow character or it has to wait.
Tell(char) ==
  \/ told' = char /\ UNCHANGED req
  \/ req' = TRUE /\ UNCHANGED told

\* chk_rxoff, evaluated before the new byte is counted.
ChkRxoff ==
  IF SoftFlow /\ ~rxXoff /\ rcnt >= XoffSize
    THEN rxXoff' = TRUE /\ Tell("xoff")
    ELSE UNCHANGED flow

\* Seeded fault: one byte too few.
ChkRxonBelow ==
  IF SoftFlow /\ rxXoff /\ rcnt < XonSize
    THEN rxXoff' = FALSE /\ Tell("xon")
    ELSE UNCHANGED flow

\* chk_rxon, run by the reading task: a transmit interrupt between its look
\* at the FIFO level and its write may fill the FIFO, and the XON is lost.
ChkRxon ==
  IF SoftFlow /\ rxXoff /\ rcnt <= XonSize
    THEN /\ rxXoff' = FALSE
         /\ Tell("xon") \/ (TxWindow /\ UNCHANGED <<req, told>>)
    ELSE UNCHANGED flow

-----------------------------------------------------------------------------
(* gets_com: _ddr_rzg1_scifa_rcv                                           *)

\* ena_rx is tested before dispatching is disabled.
RcvCall(t, n) ==
  /\ At(t, "idle")
  /\ IF enaRx
       THEN /\ left' = [left EXCEPT ![t] = n]
            /\ done' = [done EXCEPT ![t] = FALSE]
            /\ Goto(t, "enter") /\ UNCHANGED ercd
       ELSE Return(t, "E_OBJ") /\ UNCHANGED <<left, done>>
  /\ UNCHANGED <<hw, ring, drv, dsp, isr, reg, hist>>

\* Seeded fault: leaves the receive interrupt enabled.
RcvEnterNoMask(t) ==
  /\ At(t, "enter")
  /\ IF Admitted(t)
       THEN /\ dsp' = t /\ UNCHANGED rie
            /\ Goto(t, "get") /\ UNCHANGED <<left, ercd, done>>
       ELSE Return(t, "E_OBJ") /\ Forget(t) /\ UNCHANGED <<dsp, rie>>
  /\ UNCHANGED <<rxf, re, ring, rcvData, flow, conf, flg, isr, reg, hist>>

RcvEnter(t) ==
  /\ At(t, "enter")
  /\ IF Admitted(t)
       THEN /\ dsp' = t /\ rie' = FALSE
            /\ Goto(t, "get") /\ UNCHANGED <<left, ercd, done>>
       ELSE Return(t, "E_OBJ") /\ Forget(t) /\ UNCHANGED <<dsp, rie>>
  /\ UNCHANGED <<rxf, re, ring, rcvData, flow, conf, flg, isr, reg, hist>>

\* recv_strings: nothing (more) to receive, or the ring is empty.
GetStop(t) ==
  /\ At(t, "get")
  /\ left[t] = 0 \/ rcnt = 0
  /\ Goto(t, IF left[t] = 0 THEN "done" ELSE "hand")
  /\ done' = [done EXCEPT ![t] = (left[t] = 0)]
  /\ UNCHANGED <<hw, ring, drv, dsp, isr, left, reg, ercd, hist>>

\* One byte out of the ring; rcnt-- is a load and a store (the
\* register is cleared when dead).
GetByte(t) ==
  /\ At(t, "get")
  /\ left[t] # 0 /\ rcnt # 0
  /\ got' = rbuf[rcvp] /\ given' = given + 1
  /\ rcvp' = Wrap(rcvp + 1)
  /\ Goto(t, "load")
  /\ UNCHANGED <<hw, rbuf, rcnt, drv, dsp, isr, left, reg, ercd, done, came, read, dropped>>

GetLoad(t) ==
  /\ At(t, "load")
  /\ reg' = [reg EXCEPT ![t] = rcnt]
  /\ Goto(t, "store")
  /\ UNCHANGED <<hw, ring, drv, dsp, isr, left, ercd, done, hist>>

GetStore(t) ==
  /\ At(t, "store")
  /\ rcnt' = reg[t] - 1
  /\ reg' = [reg EXCEPT ![t] = 0]
  /\ left' = [left EXCEPT ![t] = left[t] - 1]
  /\ Goto(t, "check")
  /\ UNCHANGED <<hw, rbuf, rcvp, drv, dsp, isr, ercd, done, hist>>

\* chk_rxon, then check_chr: the count is used up, or the byte ends it.
GetCheck(t) ==
  /\ At(t, "check")
  /\ ChkRxon
  /\ \E ends \in BOOLEAN :
       LET last == ends \/ left[t] = 0
       IN  /\ done' = [done EXCEPT ![t] = last]
           /\ Goto(t, IF last THEN "done" ELSE "get")
  /\ UNCHANGED <<hw, ring, rcvData, conf, flg, dsp, isr, left, reg, ercd, hist>>

RcvDone(t) ==
  /\ At(t, "done")
  /\ rie' = TRUE
  /\ dsp' = None
  /\ Return(t, "E_OK") /\ Forget(t)
  /\ UNCHANGED <<rxf, re, ring, rcvData, flow, conf, flg, isr, reg, hist>>

\* The rest is left to the ISR; then its interrupt is enabled.
RcvHandOver(t) ==
  /\ At(t, "hand")
  /\ rcvData' = t
  /\ Goto(t, "arm")
  /\ UNCHANGED <<hw, ring, flow, conf, flg, dsp, isr, left, reg, ercd, done, hist>>

\* Seeded fault: waits without enabling the interrupt.
RcvArmNoRie(t) ==
  /\ At(t, "arm")
  /\ dsp' = None
  /\ Goto(t, "twai")
  /\ UNCHANGED <<hw, ring, rcvData, flow, conf, flg, isr, left, reg, ercd, done, hist>>

RcvArm(t) ==
  /\ At(t, "arm")
  /\ rie' = TRUE
  /\ dsp' = None
  /\ Goto(t, "twai")
  /\ UNCHANGED <<rxf, re, ring, rcvData, flow, conf, flg, isr, left, reg, ercd, done, hist>>

RcvWait(t) ==
  /\ At(t, "twai")
  /\ IF flg
       THEN /\ Goto(t, "clear")
            /\ ercd' = [ercd EXCEPT ![t] = "E_OK"]
       ELSE Goto(t, "wait") /\ UNCHANGED ercd
  /\ UNCHANGED <<hw, ring, drv, dsp, isr, left, reg, done, hist>>

\* Time-out (also TMO_POL) or rel_wai.
RcvExpire(t) ==
  /\ pc[t] = "wait" /\ isr = "idle"
  /\ Goto(t, "drop")
  /\ UNCHANGED <<hw, ring, drv, dsp, isr, left, reg, ercd, done, hist>>

\* Seeded fault: the ISR keeps the pointer after the time-out.
RcvDropKeeps(t) ==
  /\ At(t, "drop")
  /\ Goto(t, "poll")
  /\ UNCHANGED <<hw, ring, drv, dsp, isr, left, reg, ercd, done, hist>>

RcvDrop(t) ==
  /\ At(t, "drop")
  /\ rcvData' = None
  /\ Goto(t, "poll")
  /\ UNCHANGED <<hw, ring, flow, conf, flg, dsp, isr, left, reg, ercd, done, hist>>

\* pol_flg decides the result: the ISR may have finished after the time-out.
RcvPoll(t) ==
  /\ At(t, "poll")
  /\ ercd' = [ercd EXCEPT ![t] = Polled]
  /\ Goto(t, "clear")
  /\ UNCHANGED <<hw, ring, drv, dsp, isr, left, reg, done, hist>>

RcvClear(t) ==
  /\ At(t, "clear")
  /\ flg' = FALSE
  /\ Return(t, ercd[t]) /\ Forget(t)
  /\ UNCHANGED <<hw, ring, rcvData, flow, conf, dsp, isr, reg, hist>>

RcvStep(t) ==
  \/ RcvEnter(t) \/ GetStop(t) \/ GetByte(t) \/ GetLoad(t) \/ GetStore(t) \/ GetCheck(t)
  \/ RcvDone(t) \/ RcvHandOver(t) \/ RcvArm(t) \/ RcvWait(t)
  \/ RcvDrop(t) \/ RcvPoll(t) \/ RcvClear(t)

-----------------------------------------------------------------------------
(* ctr_com, and puts_com as far as it touches the receive interrupt.       *)

CtrStart(t, test, place) ==
  /\ At(t, "idle")
  /\ IF test
       THEN Goto(t, place) /\ UNCHANGED ercd
       ELSE Return(t, "E_OBJ")
  /\ UNCHANGED <<hw, ring, drv, dsp, isr, left, reg, done, hist>>

\* RST_RXBUF: rx_xoff and RIE stay as they are.
RstStart(t) == CtrStart(t, Admitted(t), "rst")

RstRxBuf(t) ==
  /\ At(t, "rst")
  /\ rxf' = 0
  /\ rcnt' = 0
  /\ got' = read /\ dropped' = dropped + rcnt
  /\ Return(t, "E_OK")
  /\ UNCHANGED <<rie, re, rbuf, rcvp, drv, dsp, isr, left, reg, done, came, read, given>>

\* STP_RX: granted only while the FIFO holds something.
StpStart(t) == CtrStart(t, Admitted(t) /\ rcnt = 0 /\ rxf # 0, "stp")

DisRcv(t) ==
  /\ At(t, "stp")
  /\ enaRx' = FALSE /\ rie' = FALSE /\ re' = FALSE
  /\ Return(t, "E_OK")
  /\ UNCHANGED <<rxf, ring, rcvData, flow, rlock, flg, dsp, isr, left, reg, done, hist>>

\* STA_RX
StaStart(t) == CtrStart(t, rlock \in {None, t}, "sta")

EnaRcv(t) ==
  /\ At(t, "sta")
  /\ enaRx' = TRUE /\ rie' = TRUE /\ re' = TRUE
  /\ Return(t, "E_OK")
  /\ UNCHANGED <<rxf, ring, rcvData, flow, rlock, flg, dsp, isr, left, reg, done, hist>>

\* LOC_RX and UNL_RX
LockRecv(t) ==
  /\ At(t, "idle")
  /\ IF rlock \in {None, t} \/ rcvData = None
       THEN rlock' = t /\ Return(t, "E_OK")
       ELSE Return(t, "E_OBJ") /\ UNCHANGED rlock
  /\ UNCHANGED <<hw, ring, rcvData, flow, enaRx, flg, dsp, isr, left, reg, done, hist>>

UnlockRecv(t) ==
  /\ At(t, "idle")
  /\ IF rlock \in {None, t}
       THEN rlock' = None /\ Return(t, "E_OK")
       ELSE Return(t, "E_OBJ") /\ UNCHANGED rlock
  /\ UNCHANGED <<hw, ring, rcvData, flow, enaRx, flg, dsp, isr, left, reg, done, hist>>

\* puts_com disables RIE and TIE while it fills the transmit FIFO, with the flow
\* character first, then enables RIE.
SndMask(t) ==
  /\ At(t, "idle")
  /\ dsp' = t /\ rie' = FALSE
  /\ Goto(t, "snd")
  /\ UNCHANGED <<rxf, re, ring, rcvData, flow, conf, flg, isr, left, reg, ercd, done, hist>>

SndUnmask(t) ==
  /\ At(t, "snd")
  /\ FlowChar
  /\ dsp' = None /\ rie' = TRUE
  /\ Goto(t, "idle")
  /\ UNCHANGED <<rxf, re, ring, rcvData, rxXoff, conf, flg, isr, left, reg, ercd, done, hist>>

CtrCall(t) ==
  \/ RstStart(t) \/ StpStart(t) \/ StaStart(t)
  \/ LockRecv(t) \/ UnlockRecv(t) \/ SndMask(t)

CtrStep(t) == RstRxBuf(t) \/ DisRcv(t) \/ EnaRcv(t) \/ SndUnmask(t)

-----------------------------------------------------------------------------
(* The interrupt.  intr looks at the receive flags, at BREAK and at the     *)
(* transmit FIFO in this order, whichever of them raised it, so a transmit  *)
(* interrupt runs rxi with RIE off.                                        *)

\* rxi, when it may not read, turns its own interrupt off.
EnterRxi ==
  /\ rxf > 0
  /\ IF RxiReads
       THEN isr' = "rx" /\ UNCHANGED rie
       ELSE isr' = "brk" /\ rie' = FALSE

RxInterrupt ==
  /\ isr = "idle" /\ rie
  /\ EnterRxi
  /\ UNCHANGED <<rxf, re, ring, rcvData, flow, conf, flg, dsp, task, hist>>

\* TIE is on when the transmit half has it on; only puts_com turns it off for
\* as long as it has dispatching disabled.
TxMayInterrupt == dsp = None \/ (TxWindow /\ \A t \in Tasks : pc[t] # "snd")

\* A byte in the FIFO may not have raised its flag yet.
TxInterrupt ==
  /\ isr = "idle" /\ TxMayInterrupt
  /\ EnterRxi \/ (isr' = "brk" /\ UNCHANGED rie)
  /\ UNCHANGED <<rxf, re, ring, rcvData, flow, conf, flg, dsp, task, hist>>

\* The peer's XON/XOFF: acted on by ScifTx, never stored.  An XON runs txi.
RxFlowChar ==
  /\ isr = "rx" /\ rxf > 0 /\ SoftFlow
  /\ rxf' = rxf - 1
  /\ FlowChar
  /\ UNCHANGED <<rie, re, ring, rcvData, rxXoff, conf, flg, dsp, isr, task, hist>>

\* iset_flg(RXI_FLG) and the end of the hand-over.
Complete(t) ==
  /\ rcvData' = None
  /\ flg' = TRUE
  /\ done' = [done EXCEPT ![t] = TRUE]
  /\ pc' = [u \in Tasks |-> IF pc[u] = "wait" THEN "clear" ELSE pc[u]]
  /\ ercd' = [u \in Tasks |-> IF pc[u] = "wait" THEN "E_OK" ELSE ercd[u]]

\* Straight into the buffer of the waiting task.
GiveDirect ==
  /\ read' = read + 1
  /\ got' = read + 1 /\ given' = given + 1
  /\ left' = [left EXCEPT ![rcvData] = Dec(left[rcvData])]
  /\ UNCHANGED dropped

RxDirect ==
  /\ isr = "rx" /\ rxf > 0 /\ rcvData # None
  /\ rxf' = rxf - 1
  /\ GiveDirect
  /\ \E ends \in BOOLEAN :
       IF ends \/ Dec(left[rcvData]) = 0
         THEN Complete(rcvData)
         ELSE UNCHANGED <<rcvData, flg, done, pc, ercd>>
  /\ UNCHANGED <<rie, re, ring, flow, conf, dsp, isr, reg, came>>

\* A byte, or the mark of a BREAK, at the end of the ring; a ring that is
\* full now disables the interrupt.
Store ==
  /\ rbuf' = [rbuf EXCEPT ![Newest] = read + 1]
  /\ read' = read + 1
  /\ ChkRxoff
  /\ rcnt' = rcnt + 1
  /\ rie' = (rie /\ rcnt + 1 # RSize)

\* Nobody waits: into the ring; with no room there the byte is read and gone.
RxStore ==
  /\ isr = "rx" /\ rxf > 0 /\ rcvData = None
  /\ rxf' = rxf - 1
  /\ IF RingHasRoom
       THEN Store /\ isr' = IF rcnt + 1 = RSize THEN "brk" ELSE "rx"
       ELSE read' = read + 1 /\ UNCHANGED <<rie, rbuf, rcnt, flow, isr>>
  /\ UNCHANGED <<re, rcvp, rcvData, conf, flg, dsp, task, came, out>>

RxEmpty ==
  /\ isr = "rx" /\ rxf = 0
  /\ isr' = "brk"
  /\ UNCHANGED <<hw, ring, rcvData, flow, conf, flg, dsp, task, hist>>

\* bri: the waiting task (one that asked for statuses) gets a mark that uses
\* up one of its bytes, but its receive does not end ...
BreakDirect ==
  /\ isr = "brk" /\ Breaks /\ rcvData # None /\ came < MaxBytes
  /\ came' = came + 1
  /\ GiveDirect
  /\ isr' = "tx"
  /\ UNCHANGED <<hw, ring, rcvData, flow, conf, flg, dsp, pc, reg, ercd, done>>

\* ... otherwise the mark goes into the ring.
BreakStore ==
  /\ isr = "brk" /\ Breaks /\ rcvData = None /\ RingHasRoom /\ came < MaxBytes
  /\ Store /\ came' = came + 1
  /\ isr' = "tx"
  /\ UNCHANGED <<rxf, re, rcvp, rcvData, conf, flg, dsp, task, out>>

\* bri done, or no BREAK on the line, or one that is dropped: txi, if the
\* transmit FIFO is low.
IntrEnd ==
  /\ isr \in {"brk", "tx"}
  /\ FlowChar
  /\ isr' = "idle"
  /\ UNCHANGED <<hw, ring, rcvData, rxXoff, conf, flg, dsp, task, hist>>

Intr ==
  \/ RxFlowChar \/ RxDirect \/ RxStore \/ RxEmpty
  \/ BreakDirect \/ BreakStore \/ IntrEnd

-----------------------------------------------------------------------------
Next ==
  \/ Arrive
  \/ RxInterrupt
  \/ TxInterrupt
  \/ Intr
  \/ \E t \in Readers, n \in Lens : RcvCall(t, n)
  \/ \E t \in Readers : RcvStep(t) \/ RcvExpire(t)
  \/ \E t \in Tasks : CtrCall(t) \/ CtrStep(t)

Spec == Init /\ [][Next]_vars

\* A receive interrupt that is raised again and again is taken some time
\* (puts_com masks it only for a moment) and its routine runs to the end; a
\* runnable task gets the processor.  Nobody has to send or to call anything,
\* and no transmit interrupt has to come.
Fairness ==
  /\ SF_vars(RxInterrupt)
  /\ WF_vars(Intr)
  /\ \A t \in Tasks : WF_vars((t \in Readers /\ RcvStep(t)) \/ CtrStep(t))

FairSpec == Spec /\ Fairness

-----------------------------------------------------------------------------
(* Properties                                                              *)

HwOK == rxf \in 0 .. FifoDepth /\ rie \in BOOLEAN /\ re \in BOOLEAN

RingOK ==
  /\ rbuf \in [Index -> Nat]
  /\ rcvp \in 0 .. RSize /\ (RSize > 0 => rcvp < RSize)
  /\ rcnt \in 0 .. RSize

DrvOK ==
  /\ rcvData \in Readers \cup {None}
  /\ rxXoff \in BOOLEAN /\ req \in BOOLEAN /\ told \in {"xon", "xoff"}
  /\ enaRx \in BOOLEAN /\ rlock \in Tasks \cup {None} /\ flg \in BOOLEAN

RunOK == dsp \in Tasks \cup {None} /\ isr \in IsrPlaces

TaskOK ==
  /\ pc \in [Tasks -> Places]
  /\ left \in [Tasks -> 0 .. UHMax] /\ reg \in [Tasks -> 0 .. RSize]
  /\ ercd \in [Tasks -> Codes] /\ done \in [Tasks -> BOOLEAN]

HistOK == read \in Nat /\ got \in Nat /\ given \in Nat /\ dropped \in Nat

\* Every counter stays inside its buffer and every place is one of the code.
TypeOK == HwOK /\ RingOK /\ DrvOK /\ RunOK /\ TaskOK /\ HistOK

(* The bytes given to callers are the bytes read from the hardware, in     *)
(* order, none twice and none skipped, whether they went through the ring  *)
(* or straight from the ISR to the caller; only a reset drops what is held.*)
Queue == INSTANCE ByteQueue
           WITH Capacity <- RSize, accepted <- read, delivered <- got,
                handed <- given
IsByteQueue == Queue!Spec

(* The ISR writes through rcvData only while its caller is still inside    *)
(* gets_com: the structure and the buffer are on the caller's stack.       *)
NoDanglingRcvData ==
  rcvData # None => pc[rcvData] \in {"arm", "twai", "wait", "drop"}

(* While a task waits for the ISR the ring is empty, so no newer byte can  *)
(* overtake an older one that lies in the ring.                            *)
RingEmptyWhileWaiting == rcvData # None => rcnt = 0

(* gets_com returns E_OK exactly when its receive has ended (count used up,*)
(* terminator or error status), however a time-out races with the ISR.     *)
RcvResult ==
  [][\A t \in Readers :
       (pc[t] \in {"done", "clear"} /\ pc'[t] = "idle")
         => (ercd'[t] = "E_OK" <=> done[t])]_vars

(* The peer is not left stopped by us with a ring that will cause no XON:  *)
(* while rx_xoff is set, or an XOFF of ours was the last to go out, the    *)
(* ring holds more than xon_size bytes. Only RST_RXBUF breaks this (it     *)
(* empties the ring and leaves rx_xoff), whatever the reader, the ISR and  *)
(* a flow character that had to wait do to each other.                     *)
Standing == rxXoff \/ (told = "xoff" /\ ~req)
Quiet == \A t \in Tasks : pc[t] \notin {"load", "store", "check"}
XoffJustified == Standing /\ Quiet => rcnt > XonSize
XoffStands ==
  [][XoffJustified /\ ~(\E t \in Tasks : RstRxBuf(t)) => XoffJustified']_vars

(* A byte in the FIFO reaches the task that waits for it, unless the port  *)
(* is stopped: no path leaves the receive interrupt off.                   *)
ReaderServed ==
  (rxf > 0 /\ rcvData # None /\ enaRx)
    ~> (rxf = 0 \/ rcvData = None \/ ~enaRx)
=============================================================================
