------------------------------- MODULE ScifTx -------------------------------
(***************************************************************************)
(* Transmit side of one SCIF channel (DDR_RZG1_SCIF.c; DDR_RZG1_SCIFA.c is *)
(* the same code over a deeper FIFO).  Tasks call puts_com and ctr_com, an *)
(* interrupt service routine drains the driver's ring into the hardware    *)
(* FIFO, and an event flag wakes the tasks that wait for it.               *)
(*                                                                         *)
(* A step is what runs between two points where another actor can get in:  *)
(* the line empties the FIFO at any time; the ISR runs between any two     *)
(* steps of a task that is not inside loc_cpu/unl_cpu; another task runs   *)
(* between any two steps unless dispatching is disabled (dis_dsp).  One    *)
(* core: while the ISR runs no task does.                                  *)
(*                                                                         *)
(* Bytes are numbers: the k-th byte the driver takes out of any caller's   *)
(* buffer is k.  FIFO order itself is the hardware's, so the FIFO is only  *)
(* its level (FDR), "sent" the last data byte written to FTDR or dropped,  *)
(* "written" the number of data bytes written and "dropped" the number of  *)
(* those a reset of the ring threw away.                                   *)
(***************************************************************************)
EXTENDS Integers, FiniteSets

CONSTANTS
  Tasks,      \* tasks that use the channel
  None,       \* the null task id / null pointer
  TSize,      \* tsize, size of the transmit ring (0: no ring)
  FifoDepth,  \* MAX_FIFO_COUNT
  TxTrig,     \* FIFO level at or below which the hardware sets TDFE
  Lens,       \* byte counts callers pass to puts_com
  UHMax,      \* largest value of a UH counter (65535)
  MaxBytes,   \* bound: no new puts_com once this many bytes were taken
  RxEvents    \* what the receive half may do: a subset of AllRxEvents

\* A received XON, a received XOFF, and the receive ring crossing its XOFF mark
\* (seen by the ISR) and its XON mark (seen by a reading task).
AllRxEvents == {"xon", "xoff", "rxoff", "rxon"}

ASSUME SizeAssumption ==
  /\ TSize \in Nat
  /\ FifoDepth \in Nat \ {0}
  /\ TxTrig \in 0 .. FifoDepth - 1
  /\ UHMax \in Nat
  /\ Lens \subseteq 0 .. UHMax
  /\ MaxBytes \in Nat
ASSUME TaskAssumption == None \notin Tasks
ASSUME RxAssumption == RxEvents \subseteq AllRxEvents

VARIABLES
  fifo,     \* level of the transmit FIFO, the byte being shifted out included
  tie, rie, \* SCR.TIE and SCR.RIE
  te,       \* SCR.TE
  tbuf, sndp, tcnt,   \* ring, write position, bytes in it
  sndData,  \* task whose T_COM_SND the ISR may read, or None
  txXoff,   \* status.tx_xoff: the peer stopped us
  req,      \* status.req_xon_xoff: an XON/XOFF of ours waits for FIFO room
  enaTx,    \* status.ena_tx
  tlock,    \* tlockid
  teiTask,  \* aux[1]: task waiting for the ring to run empty
  flg,      \* pattern of the event flag
  dsp,      \* task that disabled dispatching, or None
  isr, ret, isrp,     \* where the ISR is, where txi returns to, its local sndp
  pc, left, reg, ercd,\* per task: place, TransmiteData->tcnt, a register, result
  taken, sent,        \* history: bytes taken from callers, last byte done with,
  written, dropped    \* data bytes written to FTDR, bytes lost by RST_TXBUF

hw    == <<fifo, tie, rie, te>>
ring  == <<tbuf, sndp, tcnt>>
link  == <<sndData, teiTask>>
flow  == <<txXoff, req>>
conf  == <<enaTx, tlock>>
mng   == <<link, flow, conf>>
irq   == <<isr, ret, isrp>>
task  == <<pc, left, reg, ercd>>
out   == <<sent, written, dropped>>
hist  == <<taken, out>>
vars  == <<hw, ring, mng, flg, dsp, irq, task, hist>>

Index == 0 .. TSize - 1

\* Where a task is inside _ddr_rzg1_scif_snd with dispatching disabled.
SndWindow == {"flow", "fill", "unmask", "copy", "count", "save", "arm"}
\* The rest of snd: waiting for TXI_FLG and the end of the wait.
SndTail   == {"twai_txi", "wait_txi", "off", "drop", "poll_txi", "clr_txi"}
ClnPlaces == {"cln", "twai_tei", "wait_tei", "forget", "poll_tei", "clr_tei", "tend"}
CtrPlaces == {"rst", "stp", "brk_on", "brk_off"}
Places    == {"idle"} \cup SndWindow \cup SndTail \cup ClnPlaces \cup CtrPlaces
IsrPlaces == {"idle", "rx", "txi", "drain", "refill", "local", "tail"}
Codes     == {"E_OK", "E_OBJ", "E_TMOUT", "E_RLWAI"}

Wrap(i) == IF i >= TSize THEN 0 ELSE i
\* A UH counter stepped down; from 0 it wraps.
Dec(n)  == IF n = 0 THEN UHMax ELSE n - 1
\* Writing FTDR: a full FIFO ignores the byte.
Pushed  == IF fifo < FifoDepth THEN fifo + 1 ELSE fifo
\* Position of the oldest byte of the ring.
Oldest == IF tcnt > sndp THEN sndp - tcnt + TSize ELSE sndp - tcnt

\* Room in the ring; room in the FIFO for a byte that no older one precedes;
\* the last byte has left.  (The first two have a seeded fault before them.)
RingHasRoomLate == tcnt <= TSize
RingHasRoom == tcnt < TSize
BypassAnyway == fifo < FifoDepth
Bypass == tcnt = 0 /\ fifo < FifoDepth
Tend == fifo = 0
\* The peer lets us send.
MaySendBlind == TRUE
MaySend == ~txXoff

MayRun(t) == isr = "idle" /\ dsp \in {None, t}
At(t, place) == pc[t] = place /\ MayRun(t)
Goto(t, place) == pc' = [pc EXCEPT ![t] = place]
\* pol_flg.
Polled(pattern) == IF pattern \in flg THEN "E_OK" ELSE "E_TMOUT"
Return(t, code) ==
  /\ Goto(t, "idle")
  /\ ercd' = [ercd EXCEPT ![t] = code]
\* Own lock or no lock, and no transfer in progress.  (Seeded fault: only the
\* lock is looked at.)
AdmittedBusy(t) == tlock \in {None, t}
Admitted(t) == tlock \in {None, t} /\ sndData = None

\* A byte from the caller's buffer straight into the FIFO.
PassByte(t) ==
  /\ fifo' = fifo + 1
  /\ taken' = taken + 1 /\ sent' = taken + 1
  /\ written' = written + 1 /\ UNCHANGED dropped
  /\ left' = [left EXCEPT ![t] = Dec(left[t])]

\* iset_flg: the pattern is set and every task waiting for it is released
\* (TA_WMUL without TA_CLR); "wait" and "then" are its places before and after.
SetFlag(pattern, wait, then) ==
  /\ flg' = flg \cup {pattern}
  /\ pc' = [t \in Tasks |-> IF pc[t] = wait THEN then ELSE pc[t]]
  /\ ercd' = [t \in Tasks |-> IF pc[t] = wait THEN "E_OK" ELSE ercd[t]]

Init ==
  /\ fifo = 0 /\ tie = FALSE /\ rie = TRUE /\ te = TRUE
  /\ tbuf = [i \in Index |-> 0] /\ sndp = 0 /\ tcnt = 0
  /\ sndData = None /\ txXoff = FALSE /\ req = FALSE /\ enaTx = TRUE
  /\ tlock = None /\ teiTask = None /\ flg = {} /\ dsp = None
  /\ isr = "idle" /\ ret = "idle" /\ isrp = 0
  /\ pc = [t \in Tasks |-> "idle"] /\ left = [t \in Tasks |-> 0]
  /\ reg = [t \in Tasks |-> 0] /\ ercd = [t \in Tasks |-> "E_OK"]
  /\ taken = 0 /\ sent = 0 /\ written = 0 /\ dropped = 0

-----------------------------------------------------------------------------
(* The line shifts one byte out of the FIFO. *)
LineShifts ==
  /\ te /\ fifo > 0
  /\ fifo' = fifo - 1
  /\ UNCHANGED <<tie, rie, te, ring, mng, flg, dsp, irq, task, hist>>

-----------------------------------------------------------------------------
(* puts_com: _ddr_rzg1_scif_snd                                            *)

\* Refused: the port is locked by another task, stopped, or busy.
SndRefused(t) ==
  /\ At(t, "idle")
  /\ ~(Admitted(t) /\ enaTx)
  /\ Return(t, "E_OBJ")
  /\ UNCHANGED <<hw, ring, mng, flg, dsp, irq, left, reg, hist>>

SndStart(t, n) ==
  /\ At(t, "idle")
  /\ taken + n <= MaxBytes
  /\ Admitted(t) /\ enaTx
  /\ dsp' = t
  /\ tie' = FALSE /\ rie' = FALSE
  /\ left' = [left EXCEPT ![t] = n]
  /\ Goto(t, IF Bypass THEN "flow" ELSE "unmask")
  /\ UNCHANGED <<fifo, te, ring, mng, flg, irq, reg, ercd, hist>>

\* send_char first writes the XON/XOFF that waits.
SendFlowChar(t) ==
  /\ At(t, "flow")
  /\ fifo' = IF req THEN Pushed ELSE fifo
  /\ req' = FALSE
  /\ Goto(t, IF MaySend THEN "fill" ELSE "unmask")
  /\ UNCHANGED <<tie, rie, te, ring, link, txXoff, conf, flg, dsp, irq, left, reg, ercd, hist>>

\* send_char then writes the caller's bytes while the FIFO has room.
SendChar(t) ==
  /\ At(t, "fill")
  /\ fifo < FifoDepth
  /\ PassByte(t)
  /\ Goto(t, IF Dec(left[t]) = 0 THEN "unmask" ELSE "fill")
  /\ UNCHANGED <<tie, rie, te, ring, mng, flg, dsp, irq, reg, ercd>>

SendCharFull(t) ==
  /\ At(t, "fill")
  /\ fifo >= FifoDepth
  /\ Goto(t, "unmask")
  /\ UNCHANGED <<hw, ring, mng, flg, dsp, irq, left, reg, ercd, hist>>

SndUnmask(t) ==
  /\ At(t, "unmask")
  /\ rie' = TRUE
  /\ Goto(t, "copy")
  /\ UNCHANGED <<fifo, tie, te, ring, mng, flg, dsp, irq, left, reg, ercd, hist>>

\* The two halves of one round of _ddr_rzg1_scif_copy: the byte and sndp,
\* then tcnt++, itself a load and a store between which the ISR may run.
CopyByte(t) ==
  /\ At(t, "copy")
  /\ left[t] # 0 /\ RingHasRoom
  /\ tbuf' = [tbuf EXCEPT ![sndp] = taken + 1]
  /\ sndp' = Wrap(sndp + 1)
  /\ taken' = taken + 1
  /\ left' = [left EXCEPT ![t] = left[t] - 1]
  /\ Goto(t, "count")
  /\ UNCHANGED <<hw, tcnt, mng, flg, dsp, irq, reg, ercd, out>>

CopyLoad(t) ==
  /\ At(t, "count")
  /\ reg' = [reg EXCEPT ![t] = tcnt]
  /\ Goto(t, "save")
  /\ UNCHANGED <<hw, ring, mng, flg, dsp, irq, left, ercd, hist>>

CopySave(t) ==
  /\ At(t, "save")
  /\ tcnt' = reg[t] + 1
  /\ Goto(t, "copy")
  /\ UNCHANGED <<hw, tbuf, sndp, mng, flg, dsp, irq, left, reg, ercd, hist>>

\* Everything fitted: arm the interrupt if the ring holds anything, return.
SndDone(t) ==
  /\ At(t, "copy")
  /\ left[t] = 0
  /\ tie' = (tie \/ tcnt # 0)
  /\ dsp' = None
  /\ Return(t, "E_OK")
  /\ UNCHANGED <<fifo, rie, te, ring, mng, flg, irq, left, reg, hist>>

\* It did not fit: leave the rest to the ISR ...
SndHandOver(t) ==
  /\ At(t, "copy")
  /\ left[t] # 0 /\ ~RingHasRoom
  /\ sndData' = t
  /\ Goto(t, "arm")
  /\ UNCHANGED <<hw, ring, flow, conf, teiTask, flg, dsp, irq, left, reg, ercd, hist>>

\* Seeded fault: waits without enabling the interrupt.
SndArmNoTie(t) ==
  /\ At(t, "arm")
  /\ dsp' = None
  /\ Goto(t, "twai_txi")
  /\ UNCHANGED <<hw, ring, mng, flg, irq, left, reg, ercd, hist>>

\* ... enable its interrupt, and dispatching, and wait.
SndArm(t) ==
  /\ At(t, "arm")
  /\ tie' = TRUE
  /\ dsp' = None
  /\ Goto(t, "twai_txi")
  /\ UNCHANGED <<fifo, rie, te, ring, mng, flg, irq, left, reg, ercd, hist>>

\* twai_flg(TXI_FLG) returns at once when the pattern is already set.
SndWait(t) ==
  /\ At(t, "twai_txi")
  /\ IF "TXI" \in flg
       THEN /\ Goto(t, "clr_txi")
            /\ ercd' = [ercd EXCEPT ![t] = "E_OK"]
       ELSE Goto(t, "wait_txi") /\ UNCHANGED ercd
  /\ UNCHANGED <<hw, ring, mng, flg, dsp, irq, left, reg, hist>>

\* The wait ends without the flag: time-out (also TMO_POL) or rel_wai.
SndExpire(t) ==
  /\ pc[t] = "wait_txi" /\ isr = "idle"
  /\ Goto(t, "off")
  /\ UNCHANGED <<hw, ring, mng, flg, dsp, irq, left, reg, ercd, hist>>

SndTieOff(t) ==
  /\ At(t, "off")
  /\ tie' = FALSE
  /\ Goto(t, "drop")
  /\ UNCHANGED <<fifo, rie, te, ring, mng, flg, dsp, irq, left, reg, ercd, hist>>

\* Seeded fault: the ISR keeps the pointer after the time-out.
SndDropKeeps(t) ==
  /\ At(t, "drop")
  /\ Goto(t, "poll_txi")
  /\ UNCHANGED <<hw, ring, mng, flg, dsp, irq, left, reg, ercd, hist>>

SndDrop(t) ==
  /\ At(t, "drop")
  /\ sndData' = None
  /\ Goto(t, "poll_txi")
  /\ UNCHANGED <<hw, ring, flow, conf, teiTask, flg, dsp, irq, left, reg, ercd, hist>>

\* pol_flg decides the result: the ISR may have finished after the time-out.
SndPoll(t) ==
  /\ At(t, "poll_txi")
  /\ ercd' = [ercd EXCEPT ![t] = Polled("TXI")]
  /\ Goto(t, "clr_txi")
  /\ UNCHANGED <<hw, ring, mng, flg, dsp, irq, left, reg, hist>>

SndClear(t) ==
  /\ At(t, "clr_txi")
  /\ flg' = flg \ {"TXI"}
  /\ Return(t, ercd[t])
  /\ UNCHANGED <<hw, ring, mng, dsp, irq, left, reg, hist>>

\* What a call that has started does until it returns or waits.
SndStep(t) ==
  \/ SendFlowChar(t) \/ SendChar(t) \/ SendCharFull(t) \/ SndUnmask(t)
  \/ CopyByte(t) \/ CopyLoad(t) \/ CopySave(t)
  \/ SndDone(t) \/ SndHandOver(t) \/ SndArm(t) \/ SndWait(t)
  \/ SndTieOff(t) \/ SndDrop(t) \/ SndPoll(t) \/ SndClear(t)

-----------------------------------------------------------------------------
(* ctr_com.  Each command tests the lock and sndData outside loc_cpu and    *)
(* acts in a later step; a failed test returns E_OBJ and changes nothing.  *)

CtrStart(t, test, place) ==
  /\ At(t, "idle")
  /\ IF test
       THEN Goto(t, place) /\ UNCHANGED ercd
       ELSE Return(t, "E_OBJ")
  /\ UNCHANGED <<hw, ring, mng, flg, dsp, irq, left, reg, hist>>

\* CLN_TXBUF: _ddr_rzg1_scif_cln_tx_buf
ClnStart(t) == CtrStart(t, Admitted(t), "cln")

ClnArm(t) ==
  /\ At(t, "cln")
  /\ IF tcnt # 0
       THEN /\ tie' = TRUE
            /\ teiTask' = t
            /\ Goto(t, "twai_tei")
            /\ UNCHANGED ercd
       ELSE /\ Goto(t, "tend")
            /\ ercd' = [ercd EXCEPT ![t] = "E_OK"]
            /\ UNCHANGED <<tie, teiTask>>
  /\ UNCHANGED <<fifo, rie, te, ring, sndData, flow, conf, flg, dsp, irq, left, reg, hist>>

ClnWait(t) ==
  /\ At(t, "twai_tei")
  /\ IF "TEI" \in flg
       THEN /\ Goto(t, "clr_tei")
            /\ ercd' = [ercd EXCEPT ![t] = "E_OK"]
       ELSE Goto(t, "wait_tei") /\ UNCHANGED ercd
  /\ UNCHANGED <<hw, ring, mng, flg, dsp, irq, left, reg, hist>>

ClnExpire(t) ==
  /\ pc[t] = "wait_tei" /\ isr = "idle"
  /\ Goto(t, "forget")
  /\ UNCHANGED <<hw, ring, mng, flg, dsp, irq, left, reg, ercd, hist>>

ClnForget(t) ==
  /\ At(t, "forget")
  /\ teiTask' = None
  /\ Goto(t, "poll_tei")
  /\ UNCHANGED <<hw, ring, sndData, flow, conf, flg, dsp, irq, left, reg, ercd, hist>>

ClnPoll(t) ==
  /\ At(t, "poll_tei")
  /\ ercd' = [ercd EXCEPT ![t] = Polled("TEI")]
  /\ Goto(t, "clr_tei")
  /\ UNCHANGED <<hw, ring, mng, flg, dsp, irq, left, reg, hist>>

ClnClear(t) ==
  /\ At(t, "clr_tei")
  /\ flg' = flg \ {"TEI"}
  /\ Goto(t, "tend")
  /\ UNCHANGED <<hw, ring, mng, dsp, irq, left, reg, ercd, hist>>

\* dly_tsk(0) until TEND; a released wait (rel_wai) ends the loop too.
ClnBroken(t) ==
  /\ At(t, "tend")
  /\ ~Tend /\ ercd[t] = "E_OK"
  /\ ercd' = [ercd EXCEPT ![t] = "E_RLWAI"]
  /\ UNCHANGED <<hw, ring, mng, flg, dsp, irq, pc, left, reg, hist>>

ClnReturn(t) ==
  /\ At(t, "tend")
  /\ Tend \/ ercd[t] # "E_OK"
  /\ Return(t, ercd[t])
  /\ UNCHANGED <<hw, ring, mng, flg, dsp, irq, left, reg, hist>>

\* RST_TXBUF: _ddr_rzg1_scif_rst_tx_buf
RstStart(t) == CtrStart(t, Admitted(t), "rst")

RstTxBuf(t) ==
  /\ At(t, "rst")
  /\ fifo' = 0
  /\ tcnt' = 0
  /\ sent' = taken /\ dropped' = dropped + tcnt
  /\ Return(t, "E_OK")
  /\ UNCHANGED <<tie, rie, te, tbuf, sndp, mng, flg, dsp, irq, left, reg, taken, written>>

\* STP_TX and STA_TX: _ddr_rzg1_scif_dis_send, _ddr_rzg1_scif_ena_send.
StpStart(t) == CtrStart(t, Admitted(t) /\ tcnt = 0, "stp")

DisSend(t) ==
  /\ At(t, "stp")
  /\ enaTx' = FALSE
  /\ Return(t, "E_OK")
  /\ UNCHANGED <<hw, ring, link, flow, tlock, flg, dsp, irq, left, reg, hist>>

\* ena_send tests the receive lock, which this module does not hold: the
\* command may succeed or be refused at any time (refused: CtrStart).
EnaSend(t) ==
  /\ At(t, "idle")
  /\ enaTx' = TRUE
  /\ te' = TRUE
  /\ Return(t, "E_OK")
  /\ UNCHANGED <<fifo, tie, rie, ring, link, flow, tlock, flg, dsp, irq, left, reg, hist>>

\* SND_BRK: _ddr_rzg1_scif_snd_brk, the transmitter off for dly_tsk(time).
BrkStart(t) == CtrStart(t, Admitted(t) /\ tcnt = 0 /\ Tend, "brk_on")

BrkOn(t) ==
  /\ At(t, "brk_on")
  /\ te' = FALSE
  /\ Goto(t, "brk_off")
  /\ UNCHANGED <<fifo, tie, rie, ring, mng, flg, dsp, irq, left, reg, ercd, hist>>

BrkOff(t) ==
  /\ At(t, "brk_off")
  /\ te' = TRUE
  /\ Return(t, "E_OK")
  /\ UNCHANGED <<fifo, tie, rie, ring, mng, flg, dsp, irq, left, reg, hist>>

\* LOC_TX and UNL_TX: _ddr_rzg1_scif_lock_trans, _ddr_rzg1_scif_unlock_trans.
LockTrans(t) ==
  /\ At(t, "idle")
  /\ IF tlock \in {None, t} \/ sndData = None
       THEN tlock' = t /\ Return(t, "E_OK")
       ELSE Return(t, "E_OBJ") /\ UNCHANGED tlock
  /\ UNCHANGED <<hw, ring, link, flow, enaTx, flg, dsp, irq, left, reg, hist>>

UnlockTrans(t) ==
  /\ At(t, "idle")
  /\ IF tlock \in {None, t}
       THEN tlock' = None /\ Return(t, "E_OK")
       ELSE Return(t, "E_OBJ") /\ UNCHANGED tlock
  /\ UNCHANGED <<hw, ring, link, flow, enaTx, flg, dsp, irq, left, reg, hist>>

\* The commands a task may issue, and the rest of a command once begun.
CtrCall(t) ==
  \/ ClnStart(t) \/ RstStart(t) \/ StpStart(t) \/ BrkStart(t)
  \/ EnaSend(t) \/ LockTrans(t) \/ UnlockTrans(t)

CtrStep(t) ==
  \/ ClnArm(t) \/ ClnWait(t) \/ ClnForget(t) \/ ClnPoll(t) \/ ClnClear(t) \/ ClnReturn(t)
  \/ RstTxBuf(t) \/ DisSend(t) \/ BrkOn(t) \/ BrkOff(t)

-----------------------------------------------------------------------------
(* The interrupt: _ddr_rzg1_scif_intr looks at every status flag, whichever*)
(* of them raised it, so a receive interrupt runs txi with TIE off.        *)

Tdfe == fifo <= TxTrig

IntrEnter ==
  /\ isr = "idle"
  /\ (tie /\ Tdfe) \/ (rie /\ RxEvents # {})
  /\ IF RxEvents # {}
       THEN isr' = "rx" /\ UNCHANGED ret
       ELSE isr' = "txi" /\ ret' = "idle"
  /\ UNCHANGED <<hw, ring, mng, flg, dsp, isrp, task, hist>>

\* rxi, as far as it touches the transmit side: an XON restarts transmission
\* at once if the FIFO has room, an XOFF stops it.
RxXon ==
  /\ isr = "rx" /\ "xon" \in RxEvents
  /\ txXoff' = FALSE
  /\ tie' = TRUE
  /\ IF fifo < FifoDepth
       THEN isr' = "txi" /\ ret' = "rx"
       ELSE UNCHANGED <<isr, ret>>
  /\ UNCHANGED <<fifo, rie, te, ring, link, req, conf, flg, dsp, isrp, task, hist>>

RxXoff ==
  /\ isr = "rx" /\ "xoff" \in RxEvents
  /\ txXoff' = TRUE
  /\ tie' = FALSE
  /\ UNCHANGED <<fifo, rie, te, ring, link, req, conf, flg, dsp, irq, task, hist>>

\* chk_rxoff: our own XOFF goes into the FIFO, or waits for room there.
RxRxoff ==
  /\ isr = "rx" /\ "rxoff" \in RxEvents
  /\ IF fifo < FifoDepth
       THEN fifo' = fifo + 1 /\ UNCHANGED <<req, tie>>
       ELSE req' = TRUE /\ tie' = TRUE /\ UNCHANGED fifo
  /\ UNCHANGED <<rie, te, ring, link, txXoff, conf, flg, dsp, irq, task, hist>>

\* chk_rxon, run by a task in gets_com that has emptied the receive ring.
ReadXon ==
  /\ isr = "idle" /\ dsp = None /\ "rxon" \in RxEvents
  /\ IF fifo < FifoDepth
       THEN fifo' = fifo + 1 /\ UNCHANGED <<req, tie>>
       ELSE req' = TRUE /\ tie' = TRUE /\ UNCHANGED fifo
  /\ UNCHANGED <<rie, te, ring, link, txXoff, conf, flg, dsp, irq, task, hist>>

RxEnd ==
  /\ isr = "rx"
  /\ IF Tdfe
       THEN isr' = "txi" /\ ret' = "idle"
       ELSE isr' = "idle" /\ UNCHANGED ret
  /\ UNCHANGED <<hw, ring, mng, flg, dsp, isrp, task, hist>>

\* txi: the XON/XOFF that waits, then the ring, or with no ring the caller's
\* buffer; nothing to send, or XOFF received, disables the interrupt.
TxiStart ==
  /\ isr = "txi"
  /\ fifo' = IF req THEN Pushed ELSE fifo
  /\ req' = FALSE
  /\ IF MaySend /\ tcnt # 0
       THEN isr' = "drain" /\ isrp' = Oldest /\ UNCHANGED tie
       ELSE IF MaySend /\ TSize = 0 /\ sndData # None
         THEN isr' = "local" /\ UNCHANGED <<isrp, tie>>
         ELSE isr' = "tail" /\ tie' = FALSE /\ UNCHANGED isrp
  /\ UNCHANGED <<rie, te, ring, link, txXoff, conf, flg, dsp, ret, task, hist>>

\* The waiting caller has nothing left.
AllTakenEarly == left[sndData] <= 1
AllTaken == left[sndData] = 0

\* send_drv_buf: first the ring into the FIFO ...
DrainByte ==
  /\ isr = "drain" /\ fifo < FifoDepth
  /\ fifo' = fifo + 1
  /\ sent' = tbuf[isrp] /\ written' = written + 1
  /\ isrp' = Wrap(isrp + 1)
  /\ tcnt' = tcnt - 1
  /\ isr' = IF tcnt = 1 THEN "refill" ELSE "drain"
  /\ UNCHANGED <<tie, rie, te, tbuf, sndp, mng, flg, dsp, ret, task, taken, dropped>>

DrainFull ==
  /\ isr = "drain" /\ fifo >= FifoDepth
  /\ isr' = "refill"
  /\ UNCHANGED <<hw, ring, mng, flg, dsp, ret, isrp, task, hist>>

\* ... then the waiting caller's bytes into the ring ...
RefillByte ==
  /\ isr = "refill" /\ sndData # None
  /\ ~AllTaken /\ RingHasRoom
  /\ tbuf' = [tbuf EXCEPT ![sndp] = taken + 1]
  /\ sndp' = Wrap(sndp + 1)
  /\ tcnt' = tcnt + 1
  /\ taken' = taken + 1
  /\ left' = [left EXCEPT ![sndData] = left[sndData] - 1]
  /\ UNCHANGED <<hw, mng, flg, dsp, irq, pc, reg, ercd, out>>

\* ... the caller released when none is left ...
RefillDone ==
  /\ isr = "refill" /\ sndData # None
  /\ AllTaken
  /\ sndData' = None
  /\ SetFlag("TXI", "wait_txi", "clr_txi")
  /\ UNCHANGED <<hw, ring, flow, conf, teiTask, dsp, irq, left, reg, hist>>

\* ... and the interrupt disabled when the ring is empty too.
RefillEnd ==
  /\ isr = "refill"
  /\ sndData # None => (~AllTaken /\ ~RingHasRoom)
  /\ tie' = (tie /\ ~(tcnt = 0 /\ sndData = None))
  /\ isr' = "tail"
  /\ UNCHANGED <<fifo, rie, te, ring, mng, flg, dsp, ret, isrp, task, hist>>

\* send_local_buf: no ring, straight from the caller's buffer.
LocalByte ==
  /\ isr = "local" /\ fifo < FifoDepth
  /\ PassByte(sndData)
  /\ IF Dec(left[sndData]) = 0
       THEN /\ sndData' = None
            /\ tie' = FALSE
            /\ isr' = "tail"
            /\ SetFlag("TXI", "wait_txi", "clr_txi")
       ELSE UNCHANGED <<sndData, tie, isr, flg, pc, ercd>>
  /\ UNCHANGED <<rie, te, ring, flow, conf, teiTask, dsp, ret, isrp, reg>>

LocalFull ==
  /\ isr = "local" /\ fifo >= FifoDepth
  /\ isr' = "tail"
  /\ UNCHANGED <<hw, ring, mng, flg, dsp, ret, isrp, task, hist>>

\* A task waits for an empty ring, and it is empty.
TeiDueEager == teiTask # None
TeiDue == tcnt = 0 /\ teiTask # None

\* End of txi: the task in cln_tx_buf is told that the ring is empty.
TxiEnd ==
  /\ isr = "tail"
  /\ isr' = ret
  /\ IF TeiDue
       THEN SetFlag("TEI", "wait_tei", "clr_tei") /\ teiTask' = None
       ELSE UNCHANGED <<flg, pc, ercd, teiTask>>
  /\ UNCHANGED <<hw, ring, sndData, flow, conf, dsp, ret, isrp, left, reg, hist>>

Intr ==
  \/ RxXon \/ RxXoff \/ RxRxoff \/ RxEnd
  \/ TxiStart \/ DrainByte \/ DrainFull
  \/ RefillByte \/ RefillDone \/ RefillEnd
  \/ LocalByte \/ LocalFull \/ TxiEnd

-----------------------------------------------------------------------------
Call(t) ==
  \/ SndRefused(t)
  \/ \E n \in Lens : SndStart(t, n)
  \/ CtrCall(t)

\* Ends of waits nobody controls: time-outs and rel_wai.
GiveUp(t) == SndExpire(t) \/ ClnExpire(t) \/ ClnBroken(t)

Next ==
  \/ LineShifts
  \/ IntrEnter
  \/ Intr
  \/ ReadXon
  \/ \E t \in Tasks : Call(t) \/ SndStep(t) \/ CtrStep(t) \/ GiveUp(t)

Spec == Init /\ [][Next]_vars

\* The line keeps its pace, a raised interrupt is taken and its routine runs
\* to the end, a runnable task gets the processor.  No caller has to call, no
\* wait has to time out, the peer has to send nothing.
Fairness ==
  /\ WF_vars(LineShifts)
  /\ WF_vars(IntrEnter)
  /\ WF_vars(Intr)
  /\ \A t \in Tasks : WF_vars(SndStep(t) \/ CtrStep(t))

FairSpec == Spec /\ Fairness

-----------------------------------------------------------------------------
(* Properties                                                              *)

\* Every counter stays inside its buffer and every place is one of the code.
HwOK ==
  /\ fifo \in 0 .. FifoDepth
  /\ tie \in BOOLEAN /\ rie \in BOOLEAN /\ te \in BOOLEAN
RingOK ==
  /\ tbuf \in [Index -> Nat]
  /\ sndp \in 0 .. TSize /\ (TSize > 0 => sndp < TSize)
  /\ tcnt \in 0 .. TSize
MngOK ==
  /\ sndData \in Tasks \cup {None}
  /\ txXoff \in BOOLEAN /\ req \in BOOLEAN /\ enaTx \in BOOLEAN
  /\ tlock \in Tasks \cup {None} /\ teiTask \in Tasks \cup {None}
SyncOK == flg \subseteq {"TXI", "TEI"} /\ dsp \in Tasks \cup {None}
IrqOK ==
  /\ isr \in IsrPlaces /\ ret \in {"idle", "rx"}
  /\ isrp \in 0 .. TSize
TaskOK ==
  /\ pc \in [Tasks -> Places]
  /\ left \in [Tasks -> 0 .. UHMax]
  /\ reg \in [Tasks -> 0 .. TSize]
  /\ ercd \in [Tasks -> Codes]
HistOK == taken \in Nat /\ sent \in Nat /\ written \in Nat /\ dropped \in Nat
TypeOK == HwOK /\ RingOK /\ MngOK /\ SyncOK /\ IrqOK /\ TaskOK /\ HistOK

(* The bytes written to the FIFO are the bytes taken from the callers, in  *)
(* order, none twice and none skipped, and the driver never holds more     *)
(* than its ring: the transmit side is a queue of tsize bytes (snd,        *)
(* send_char, copy, send_drv_buf, rst_tx_buf).                             *)
Queue == INSTANCE ByteQueue
           WITH Capacity <- TSize, accepted <- taken, delivered <- sent,
                handed <- written
IsByteQueue == Queue!Spec

(* The ISR holds a pointer to a caller's T_COM_SND only while that caller  *)
(* is still inside puts_com: the structure lives on the caller's stack.    *)
NoDanglingSndData ==
  sndData # None => pc[sndData] \in {"arm", "twai_txi", "wait_txi", "off", "drop"}

(* puts_com returns E_OK exactly when every byte has been taken: a time-out*)
(* that races with the ISR never reports a transfer that is not complete,  *)
(* nor a failure of one that is.                                           *)
SndResult ==
  [][\A t \in Tasks :
       (pc[t] \in SndWindow \cup {"clr_txi"} /\ pc'[t] = "idle")
         => (ercd'[t] = "E_OK" <=> left[t] = 0)]_vars

(* CLN_TXBUF returns E_OK only once the ring is empty and the last byte has*)
(* left the FIFO.                                                          *)
ClnDrains ==
  [][\A t \in Tasks :
       (pc[t] = "tend" /\ pc'[t] = "idle" /\ ercd'[t] = "E_OK")
         => (tcnt = 0 /\ fifo = 0)]_vars

(* A peer that sent XOFF gets no more data bytes until it sends XON: the   *)
(* ISR and the task both look before they write.                           *)
XoffRespected == [][written' # written => ~txXoff]_vars

(* The bytes of one puts_com go out together.  A caller is let in when no  *)
(* transfer is in progress, but its bytes are taken in several later steps,*)
(* by itself and then by the ISR: none is taken while another caller's call*)
(* still has bytes to send, from its start until it is done or SndData is  *)
(* dropped.                                                                *)
InProgress(t) == left[t] # 0 /\ (pc[t] \in SndWindow \/ sndData = t)
NoMixing ==
  [][\A t, u \in Tasks :
       (t # u /\ taken' # taken /\ left'[t] # left[t]) => ~InProgress(u)]_vars

(* A task waiting for its bytes to be taken, or for the ring to run empty, *)
(* is released though nothing ever times out.                              *)
WaitersReleased ==
  \A t \in Tasks : (pc[t] \in {"wait_txi", "wait_tei"}) ~> (pc[t] = "idle")
=============================================================================
