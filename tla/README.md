# tkernel-rz: models and proofs

This directory holds TLA+ models of the board support package and of the
network samples in `src/`: the serial drivers of the RZ/G1E (SCIF and SCIFA),
the interrupt controller, the multi-core start-up, the system timer, the DHCP
client task, the RAM file system, the reception of multipart forms in the web
server and the line input of the shell. They are checked with TLC, and about each of
them there are proofs for TLAPS: every safety property that a passing run checks is a
theorem for all values of the constants, under the hypotheses section 5 names.

## 1. The system

`src/` is a port of a µITRON kernel to the Renesas RZ/G1E (two Cortex-A7). The
kernel and the TCP/IP stack are binary libraries (`src/Kernel/Standard/lib`,
`src/Network/TCPIP/lib`); what is there as source is the code around them.

| Component | Source | State it keeps | Operations | What makes it correct |
|---|---|---|---|---|
| Serial API | `Driver/Standard/src/DDR_COM.c` | none: packs arguments into `T_COM_SND`/`T_COM_RCV` on the caller's stack | `ini_com ref_com ctr_com putc_com puts_com getc_com gets_com` | the structure is not used after the call returns |
| SCIF / SCIFA drivers | `DDR_RZG1_SCIF.c`, `DDR_RZG1_SCIFA.c` | `T_RZG1_SCIF_MNG`: transmit and receive rings, `SndData`/`RcvData` (a caller the ISR serves), locks, status bits; the SCIF registers; one event flag | `snd rcv`, the commands of `ctr`, `ini ref`; the ISR `intr` (`rxi bri txi`) | byte order, results, flow control, nobody left waiting |
| Interrupt controller | `DDR_CortexA_GIC.c` | GIC registers, shared by the cores | `ena_int dis_int _ddr_gic_int_type send_sgi`, backup and restore | an SPI has one owner; no update of a shared register is lost |
| Multi-core start-up | `DDR_CortexA_MCORE.c` | `_kernel_sync_core`, `ready[]` | `_ddr_mcore_syscall_init _kernel_start_multi_task` | no core runs tasks before every core has arrived; all do in the end |
| System timer | `DDR_CortexA_GTIMER.c` | `g_tmr_systim`, rate, tick, suspended count; CNTP registers | `tmr_isr _kernel_micro_systim`, stop/start, backup/restore | time never steps back; the tick has the configured period |
| DHCP / SNTP client tasks | `Network/sample/sample_tsk_dhcpc.c`, `sample_tsk_sntpc.c` | lease, event flag, task state | the task loop, `..._renew`, `..._stop` | a stop request stops the task |
| RAM file system | `Network/sample/ffsys.c` | a table of files, one directory cursor | `ffs_fopen` ... `ffs_stat` | it is a map from names to contents; a listing is exact while files come and go |
| Multipart parser | `Network/NetApp/httpd_mp_cgi.c` | receive buffer, how much of it is used up, where in the form it is | `httpd_mp_cgi` with `mp_find_chk bdry_chk setup content_rcv` | the bodies arrive as sent, however the socket cuts them; it ends |
| Shell | `Network/sample/shell.c` | line buffer, escape sequence, history, who is logged in | `uart_gets utl_his_* shell_input shell_auth`, commands | no line is lost by editing; no password gets into the history |
| Samples, board start-up | `Sample/...` | message pools, mailbox | the tasks of the samples | pool blocks are conserved |
| Loop-back / template network drivers | `DDR_LOOPBACK_NET.c`, `DDR_TEMPLATE_NET.c` | none | `net_drv_*` | the interesting half is in the library |

How they interact: tasks call the driver through `DDR_COM.c`; the driver and
its ISR share the management structure and the SCIF registers; the ISR wakes a
task through an event flag of the kernel. The kernel is called for `dis_dsp`,
`loc_cpu`, `twai_flg` and so on, and is modelled only as the drivers use it. The
network samples (shell, CGI, start-up) are tasks that share one port.

What is hard here: the ISR interrupts a task between any two instructions that
are not inside `loc_cpu`; a time-out of `twai_flg` races with the ISR that
completes the transfer; a pointer to a caller's stack is shared with the ISR; one
interrupt routine serves receive and transmit, so masking one does not keep
it out of the other; and flow control characters of one direction travel in the
other. `PROJECT.json` lists each such place as a hazard with the properties that
cover it.

## 2. Modules

| Module | Models |
|---|---|
| `ByteQueue` | abstract: what one direction of a serial port promises |
| `ScifTx` | transmit half of a channel: `puts_com`, transmit commands of `ctr_com`, `txi` |
| `ScifRx` | receive half: `gets_com`, receive commands, `rxi`, `bri`, our XON/XOFF |
| `ScifTx_proofs` | types of `ScifTx`; calls do not mix; results and pointers with one sender; it implements `ByteQueue`; XOFF is respected |
| `Distributor` | abstract: what the interrupt controller promises the cores |
| `Gic`, `MCGic` | `ena_int`, `dis_int`, `_ddr_gic_int_type` of several cores; its instance for TLC |
| `Gic_proofs` | mutual exclusion, `Gic` implements `Distributor`, results stand |
| `CoreStart` | registration for inter-core calls and the start-up barrier |
| `GTimer` | system timer: tick interrupt, reading the time, standby |
| `CortexA_proofs` | of the start-up: no core starts alone, no request is wiped out; of the timer: no tick is lost, the time read is true and goes forward |
| `ScifRx_proofs` | the safety of `ScifRx` for all parameters, one reader; it implements `ByteQueue` |
| `DhcpcTask` | the DHCP client task and requests to renew or stop it |
| `DhcpcTask_proofs` | types and times of the client, for every lease |
| `FileStore` | abstract: a map from names to contents and a position for each user |
| `FfSys`, `MCFfSys` | the RAM file system; its instance for TLC |
| `FfSys_proofs` | types, ownership and listings for any table; it implements `FileStore` |
| `MultipartRx`, `MCMultipartRx` | the multipart receiver; the forms and cuts TLC tries |
| `MultipartRx_proofs` | the searches find what they should; every form arrives exactly |
| `LineEditor` | abstract: an editable line and a memory of a few lines |
| `Shell`, `MCShell` | the shell on a UART, byte by byte; two users and two commands |
| `Shell_proofs` | no byte outside the buffer, no secret recalled; it implements `LineEditor` |

### ByteQueue

Bytes carry the numbers 1, 2, 3, ... in the order in which the driver takes them
in. `accepted` is the last taken in, `delivered` the last handed on, and the
driver holds exactly the numbers in between. A byte is accepted, delivered, or
passes straight through an empty queue; a reset drops everything held. `handed`
counts the bytes handed on and `dropped` those lost by a reset, so that no step of
either kind can pass for a stutter: a byte sent twice, skipped or out of order is no
step of it. In `ScifTx` and `ScifRx` `dropped` is changed by nothing but the reset of the
buffer (`RstTxBuf`, `RstRxBuf`).

### ScifTx

It follows `DDR_RZG1_SCIF.c`. Variables are the fields of
`T_RZG1_SCIF_MNG` and the register bits the code looks at, under their names in
the source (`tbuf sndp tcnt sndData tlock enaTx txXoff req`; `teiTask` is
`aux[1]`; `tie rie te` are bits of SCR; `fifo` is the level FDR shows). Each task
has a place `pc`, the count left in its `T_COM_SND` (`left`), a register (`reg`)
and a result (`ercd`); `isr` is the place of the interrupt routine. `taken` and
`sent`, the last byte taken from a caller and the last written to the FIFO, `written`
and `dropped`, how many were written and how many a reset dropped, are history.

*Steps.* What runs inside one `loc_cpu`/`unl_cpu` pair is one step. Outside,
everything that another actor can see is a step of its own: each byte written
to the FIFO, each round of `copy`, and in that round `tcnt++` as a load
(`CopyLoad`) and a store (`CopySave`), because the ISR decrements the same
counter. `dis_dsp` keeps other tasks out (`dsp`) but not the ISR. While the ISR
runs, no task does (one core serves the port).

*Actions.* `SndStart` ... `SndClear` are `snd`, in order, with `send_char` and
`copy` inlined; `CtrStart` and the actions after it are the commands of `ctr`,
whose test of lock and `SndData` is made outside `loc_cpu` and hence a step
before the action. `IntrEnter` ... `TxiEnd` are `intr` and `txi` with
`send_drv_buf` and `send_local_buf`. `SndExpire`, `ClnExpire` and `ClnBroken` are
waits that end without the flag (time-out, `TMO_POL`, `rel_wai`). A composed command
(`STP_COM`, `RST_BUF`) is a sequence of calls by one task.

*The other half.* `RxEvents` says what the receive half may do at any moment:
a received XON, a received XOFF, the receive ring crossing its XOFF mark, and a
reading task that empties it again and sends our XON (`ReadXon`). With
`RxEvents = {}` the peer is silent.

*Start.* The model starts after `ini_com` and `ctr_com(STA_COM)`. Initialising
a port that is in use, `ref_com` and RTS/CTS are not modelled.

### ScifRx

It follows `DDR_RZG1_SCIFA.c`, where RIE, ERIE, BRIE and DRIE are switched together
(`rie`). A byte is numbered when it is read from FRDR; `read` and `got` are the
last one read and the last one given to a caller, `given` and `dropped` count as in
`ByteQueue`. `done` records whether
`check_chr` said that this receive has ended; which byte is a terminator or
carries an error status is a free choice in `GetCheck` and `RxDirect`. `told` is
the last flow control character that went out, `req` that one waits for room.

The routine looks at the receive flags whichever interrupt raised it. `RxInterrupt` is
one of the receive side and needs RIE; `TxInterrupt`, raised for an XON/XOFF that waits or
for bytes being sent, runs `rxi` whatever RIE is. It comes at any time TIE may be on,
that is not while `puts_com` has both masked (`SndMask` to `SndUnmask`). Inside the window of
`gets_com`, which masks RIE only, it comes when `TxWindow` is TRUE. The run and the proofs
have FALSE: nothing is being sent, and no XON/XOFF waits, just then. That is an
assumption about the use of the port, and section 4 says what fails without it.
`FlowChar` is what `txi` and `send_char` do about an XON/XOFF that waits.

### Distributor and Gic

`Distributor` knows for each shared interrupt who owns it, its priority, trigger
type and whether it is enabled; every step of it changes one interrupt, and only
an owner changes anything but the type.

`Gic` follows `DDR_CortexA_GIC.c`. There the target (`iptr`) and priority (`ipr`)
fields of four interrupts, and the types (`icfr`) of sixteen, share a 32-bit
register that is loaded, changed and stored. `iser` is written bit by bit. Load
and store are steps of their own and the store writes the whole word that was
loaded, so that only the spin lock `flag` keeps two cores apart (`SpinFree`, here and in
`CoreStart`, is the exclusive load and store of `_kernel_spin_lock` in
`EWARM/DDR_ARMv7_EXL.s79`). `Iptr`, `Ipr` and
`Icfr` say which interrupts share a word. `EnaLoad` ... `EnaEnable` are `_ena_int`, with the early return
(`Fail`) that happens inside the lock; `DisLoad` ... `DisDisable` are `_dis_int`.
`Remote` is `REMOTE_CORE_ID`, a core outside this system that gets the interrupts
nobody here takes; the run has `None`, the theorems cover both. `mine` is
history: the interrupts a core has been told are its own.

`Sample/` configures one core, for which the lock macros are empty and each
call runs alone. The model is of the multi-core build the source supports.
Private interrupts (their registers are banked per core) and backup and restore
(called by a power management that is not in the repository) are left out.

### CoreStart

It follows `DDR_CortexA_MCORE.c`. `SyscallInit` clears the tables a core keeps for
calls of other cores and sets its ready byte; `Lock` ... `Unlock` are the `|=` on
`_kernel_sync_core`, `Spin` is the loop that waits for `MCORE_SYNC_WORD`, `Mark`
the last store. `Post` and `Serve` are what the kernel library does with the
tables afterwards, as far as the callbacks in the file show it.

### GTimer

It follows `DDR_CortexA_GTIMER.c`. `now` is the physical counter and `cval` the
count at which the down-counter shows zero (`Tval`). `Count` moves the counter
between any two register accesses. `IsrEnter`, `IsrReload` and `IsrAdd` are
`tmr_isr`; `Read` ... `ReadSum` are `_kernel_micro_systim` with its second look at
the status, and `Stop`, `TmrStop`, `TmrStart` are stop and start, which standby
also uses. UW arithmetic is modulo `Word`, with the product `tcn * tick` and the
reload computed signed and written unsigned. The kernel calls
`_kernel_micro_systim` with interrupts masked. `epoch` is history: the count at
which the system time was zero.

The reload is written as `Rate + cur_tval - 1` counts. The one count stands for the
time between the read and the write; when the write comes earlier or later than
that the timer really drifts, and `epoch` moves by as much. So the properties say
that nothing else makes it drift.

`RateAssumption` says what the configuration must give: more than one count and one
microsecond to a tick (lines 196 and 197 make thousands), and `tcn * tick` within a UW
for every count the interrupt can be late. With one count to a tick the reload, which is
one short, would set the deadline to the present.

### DhcpcTask

It follows `sample_tsk_dhcpc.c`. `pc` says where the client is: in one of four
sleeps (`start`, `down`, `settle`, `forever`), in `wait_evt` (`twai`, `wait`,
`tmout`, `clr`), in the network library (`func`), or between. `loop` tells the
first loop (until there is an address) from the second (T1, T2, end of the lease).
`since` is the time since `sec1`; `age`, the time since the server granted the lease,
is history. So is `stop`: the request to stop has set its bit, and not in the one place
where `clr_flg` wipes it out unseen. A wait of 1000 short ones is one wait of `rem`, which a link that is
down cuts short. Time is discrete and passes only while the client waits: running
takes none. How long the first loop waits between attempts is a free choice.

The other task is `AskRenew`, `AskStop` (what `ref_tsk` showed), and later `SetDo`,
`SetStop`, `RelWai`: one request at a time. RESET is reserved, and nobody sets it. A
renewal is taken to keep a lease with an end one with an end.

### FileStore and FfSys

`FileStore` is what users who keep out of each other's files may expect: names
with contents, a position and an "end seen" for each user, whole elements read
and written, and a refusal only for a reason. To who reads behind the end of a file it
promises only that no file changes (`ReadBehind`). `FfSys` follows `ffsys.c`. A file is
a slot of `ffs_tbl` with state, name, length, position and buffer; `First` and
`LastOf` are the searches by name and for a free slot. `Hold` is `ffs_fopen`, whose
two modes and failures are three actions; the others are one call each, `remove`,
`rename` and `stat` with the open they make to find the file. `stat` leaves the file
open and a rename that is refused closes the other one; both are in the model.
`Fseek` takes any of `Offsets`, behind the end too; `Sum` and `Diff` are the arithmetic of
UWs with which `Fread` then goes on, and what `memcpy` fetches from outside the buffer may be
anything (`Bytes`). `Rename` takes a name for free when `fopen` does not find it, which is so
of every path that `fopen` refuses (`Refused`); `RenameTooLong` is the refusal that comes when
the old file has been found.
`hnd` and `mode` say who has what open; `stayed` and `shown` are history of a
listing. The refinement maps a used slot to its name and the first `len` bytes of
its buffer, so that a slot left dirty by a removed file must not show.

The file system has no lock and marks nothing as taken: it relies on its callers. What they
keep to in `FfSys` (in the sample only an FTP server with one session uses it,
`CFG_FTPS_SES_NUM`): nobody opens, removes, renames or asks about a file that is open
(`NotOpen`); only who opened a file for writing writes, and who writes does not seek;
`size * n` does not wrap, and a name longer than its field is not given to `fopen` to create.

In a run a behaviour is either about contents, with no listing open, or about
listings, with files that stay empty (`MCFfSys`): no field is used by both.

### MultipartRx

It follows `httpd_mp_cgi.c`. The client's form (`upload`) comes through `net` in
pieces of any size; `rbuf`, `rdlen` and `contentLen` are the buffer, how much of it is
used up, and what is still to come. `Start` and `Setup` take over what the server has
already read, `ContentRcv` is one receive, `Head1`, `Head2` and `Body` one round of
parsing, each with the error paths (time-out, callback refuses, buffer full).
`FindChk` and `BdryChk` are the search as written: after a mismatch only the current
character is tried as a new beginning. `told` is what the callback was given.
`HeadAssumption` says that the HTTP header ends in its first blank line, and
`FormAssumption` what a well-formed form is: behind each body the first boundary that
there is is the one that ends it, and none of a further part follows the last. A body may
hold any beginning of a boundary.
The boundary is one character, since the search compares character by character and
the boundary holds no CR; a NUL is one too, since `strstr` stops at it.

### LineEditor and Shell

`LineEditor` has a line that grows and shrinks at its end, and a bag of remembered
lines with which it may be exchanged: looking at a line loses none. `Shell` follows
`shell.c`. A step is one byte received: `Typed`, `TooLong`, `Backspace`, `DropLine` (a
receive error), `CarriageReturn`, `Escape` and the bytes after it. `buf` is the line
buffer up to `i`, in which the bytes of an escape sequence lie as well, `hist` the
ring with its two counters. What follows a line is in the same step: the name
and password of `shell_auth`, the command found by `shell_input`, the questions a
command asks (`Answered`), leaving and the next login. Keys arrive whole (`keys`),
and `Escape` has room for three bytes: see 4.

## 3. What is checked

| Run | Question | Bounds | Distinct states |
|---|---|---|---|
| `tx_stream` | is the transmit side right with a silent peer, and is everybody served | 1 task, ring 2, FIFO 2, calls of 1, 4 and 5 bytes, 9 bytes | 149 thousand |
| `tx_flow` | results and flow control with XON, XOFF and our own XOFF at any moment | 1 task, ring 2, FIFO 2, calls of 2 and 5 bytes, 5 bytes | 6.6 million |
| `tx_shared` | do two calls of `puts_com` on one unbuffered port mix their bytes | 2 tasks, no ring, FIFO 2, calls of 1 and 3 bytes, 5 bytes | 1.2 million |
| `rx_stream` | is the receive side right, is a waiting reader served, is the peer only stopped with a reason | 1 reader, 1 other task, ring 2, FIFO 2, 3 bytes, BREAKs, transmit interrupts outside the window | 1.6 million |
| `gic_shared` | do calls of several cores on interrupts that share registers lose an update, contradict each other or get stuck | 2 cores, 3 interrupts, words of 2 and of 3 fields | 807 thousand |
| `core_start` | do the cores meet at the barrier in every order | 4 cores, the most the source supports | 25 thousand |
| `gtimer` | is the time right at every count | tick of 3 counts and 4 µs, interrupt up to 4 counts late, `Word` 40, 34 counts | 2.2 million |
| `dhcp_client` | does a stop request end the client, does it keep to the times of its lease | T1, T2 and lease of 1, 2 and 3 units, two losses of the link | 37 thousand |
| `ram_files` | is the file table a map from names to contents, are listings exact | 2 files of 2 bytes, 3 names, 2 users, elements of 1 and 2 bytes, seeks to 1 and 4 (behind the end), `UWMax` 4, no `Refused` | 170 thousand |
| `multipart` | do bodies arrive as sent however they are cut, and does it end | every body of up to 3 characters and 8 longer ones, 1 or 2 parts, buffer of 14 | 44 thousand |
| `shell` | is the shell a line editor, and does the history stay free of answers | lines of up to 3 bytes, history of 2, one retry, 2 questions | 321 thousand |
| `tx_duplex` | (violation) does `IsByteQueue` survive a byte received during `copy` | 1 task, ring 2, FIFO 2, calls of 1 and 4 bytes, 5 bytes, XON only | |

*Why the bounds are enough.* A ring of two and a FIFO of two are the smallest
where every position of the code is reached: partly full, full, wrapped, one byte
left. Four bytes fill both, five leave one for the ISR to take, nine make a
second call start with the ring in any position. `UHMax` stands for 65535: it
is the value a UH counter takes below zero. `MaxBytes` bounds the history counters and, in `ScifRx`, what arrives.
Three interrupts are the fewest where two share a target word and one does not,
while all three share a type word; two cores are the fewest that can race, and the
proofs are for any number. `MaxLate` is more than a tick, so that a missed tick
happens; 34 counts are eleven ticks, and with `Word` 40 the time wraps after ten.
Two slots and three names make a full table, a name in another slot than before and a
rename onto each; two bytes make elements that fit, fit once, and do not fit. An offset of 4
lies behind the end and the buffer, and with `UWMax` 4 the sums and differences of a
reader who goes on from there wrap. A
buffer of 14 holds a part header and two characters more, so that every receive
ends with a piece of a header or boundary somewhere. Lines of three bytes are the
shortest into which an escape sequence does and does not fit.

*Properties.* `IsByteQueue` is refinement of `ByteQueue`. `NoMixing` says that the bytes of
one `puts_com` go out together. `SndResult` and
`RcvResult` say that the result is `E_OK` exactly when the transfer is complete,
however a time-out races with the ISR. `NoDanglingSndData` and
`NoDanglingRcvData` say that the ISR holds a pointer to a caller's stack only
while the caller is inside the call. `RingEmptyWhileWaiting` is why direct
delivery cannot overtake the ring. `ClnDrains` is what CLN_TXBUF promises,
`XoffRespected` what the peer may rely on. `XoffStands`
says that the peer is not left stopped: while our XOFF stands, the ring holds enough
to cause the XON. No step breaks that but `RST_RXBUF` (see 4). `WaitersReleased`
and `ReaderServed` are liveness. `IsDistributor` is refinement of `Distributor`: an update of one
interrupt that undoes that of another is no step of it. `ResultsHold` says that
what a call returned stays true until the core calls again, `NoStrayInterrupt`
that with the lock free exactly the claimed interrupts are enabled, and
`CallsEnd` that spinning cores mean one gets the lock, and that each call that
got it returns. `NoneStartsAlone`, `NoRequestErased` and
`AllStart` are the barrier. `TimeTrue` says that the time returned is that of an
instant between call and return, `TimeForward` that it does not step back until the
UW wraps, and
`TickPeriod` that ticks are neither lost nor drift. `StopObeyed` says that a stop
request ends the client, wherever the client is when the bit is set (its wait on the flag
included) and whatever it was doing when the request looked at it,
except in two cases (see 4). `NoWaitBeyondLease` says that in the loop of a finite lease
no wait outlasts the lease, and `KeptToTheEnd` that the clock alone gives no address up
early; the first loop is another matter (see 4). `IsFileStore` and `IsLineEditor` are refinement of `FileStore`
and `LineEditor`. `OwnFiles` says that a name finds one file and that what a user has
open is his, `ListingExact` that a listing shows each file that stays once. `PartsExact`
says that the callback gets the bodies byte for byte, and that success means all of
them; `EndReached` that the loop ends. `SecretsNotRecalled` says that nothing typed as a
password or an answer is in the history. The type invariants of `MultipartRx` and
`Shell` bound the buffers. `gic_shared`, `core_start` and `dhcp_client` check no
`TypeOK`: it is a part of the inductive invariants of `Gic_proofs`, `CortexA_proofs` and
`DhcpcTask_proofs`.

*Fairness.* The line keeps shifting while the transmitter is on; a raised
interrupt is taken (in `ScifRx` with strong fairness, since `puts_com` masks RIE
for a moment again and again) and its routine runs to the end; a task that can run
gets the processor, which holds when no task of higher priority uses all of it. No
caller has to call anything, no time-out has to happen and the peer has to send
nothing. In `Gic` and `CoreStart` a core goes on with what it has begun, and a free
spin lock is taken by some core that wants it; that each one gets it is not
assumed, because `ldrex`/`strex` do not promise it, and `CallsEnd` does not ask for it.
In `CoreStart` each core takes the lock once, so that the last one gets it too. `GTimer` has safety
properties only. In `DhcpcTask` time passes, the client and a request go on, and a
link that is down comes up again (it goes down twice at most). No server answers. In
`MultipartRx` the task goes on; `rcv_soc` has a time-out, so that a client that sends no
more is a failure and not a wait. `FfSys` and `Shell` have safety properties only:
their steps are calls and bytes that need not come.

## 4. Findings

1. **`tx_duplex`.** `snd` masks RIE and TIE (`DDR_RZG1_SCIF.c:1221`) but enables RIE
   at line 1230, before `copy`. A byte received then enters `intr`, which calls
   `txi` whenever TDFE is set (line 1130), whatever TIE is. `txi` takes bytes out
   of the ring between the load and the store of `tcnt++` (line 831): the count is
   one too high, and the ring sends bytes it has sent before. `rcv` does not have
   the problem on the SCIFA since it keeps RIE off to the end, unless a transmit
   interrupt comes (see the first point below).

Seen while reading, modelled as written, and kept out of the properties where they
would fail:

* *Serial, both directions at once.* `rcv` masks RIE while it empties the ring, but not TIE
  (`DDR_RZG1_SCIFA.c:926`). A transmit interrupt there, for bytes that are being sent or for an
  XON/XOFF that waits (lines 498, 518), enters `intr`, which runs `rxi` on the receive flags
  (line 763). It may store a byte behind the last look at `rcnt`, so that later bytes
  overtake it, its `++rcnt` and the task's `rcnt--` may be lost in each other, and the FIFO
  may fill between `chk_rxon`'s look and its write, which loses the XON. With `TxWindow = TRUE`
  `RingEmptyWhileWaiting`, `IsByteQueue` and `XoffStands` fail in `ScifRx`; `TypeOK`,
  `NoDanglingRcvData` and `RcvResult` still hold on the bounds of `rx_stream`.
* *Serial.* `lock_trans` (line 1560) grants the lock when `tlockid` is 0 *or* no
  transfer waits, so that any task can take it from its holder. `rst_rx_buf` empties
  the ring but leaves `rx_xoff` set, and no XON is ever sent then, because `chk_rxon`
  runs only when a byte is taken from the ring; `XoffStands` excepts it. `dis_rcv`
  grants STP_RX only while the receive FIFO is *not* empty; `ena_send` tests the
  receive lock; a `puts_com` of no bytes decrements the count below zero; a BREAK
  decrements the caller's count without looking whether it is used up.
* *DHCP client.* With an unlimited lease the client sleeps in a loop
  (`sample_tsk_dhcpc.c:157`) that never reads the event flag, so that a stop request is
  not heeded, however often it comes. `clr_flg(flgid, 0)` (line 148, and
  `sample_tsk_sntpc.c:120`) clears all bits, so that a stop request between `twai_flg`
  and `clr_flg` is lost. `StopObeyed` leaves these two out. A request to renew in the last
  part of a lease gives the address up (line 194). A client that loses its link goes back to
  the first loop with its address; when the link is up again and the reboot fails, it
  waits there for its next attempt (lines 131 to 144) and does not look at its lease, so
  that it keeps the address longer than it was granted. `NoWaitBeyondLease` is about the
  second loop only.
* *Multipart.* For content whose last line is "--B--" without a CR LF behind it, the loop
  does not end: the rest is kept as the possible beginning of a boundary, nothing more
  is received, and the condition of the loop holds, so that the END notification that
  `httpd_mp_cgi.h:42` speaks of does not come. `EndReached` is checked for forms that
  end in CR LF.
* *File system.* Nothing keeps a second caller from opening, removing or renaming a file
  that is open; see `NotOpen`. `rename` takes a new name for free when `ffs_fopen` does not
  find it (`ffsys.c:223`), and `ffs_fopen` finds no path on another drive or of fewer than
  four characters (lines 64 to 69); the name stored is what follows the third character
  (line 239). So a file gets the empty name, or the name of another file. With `Refused =
  {n1, n4}` (a path that ends in a file's name, and one that does not) `OwnFiles` and
  `IsFileStore` fail in `FfSys` and `TypeOK` holds; the run and the proofs have `Refused = {}`.
  `fseek` has no bound (line 193): behind the end `fread` takes what is left for a very
  large number (line 131), and returns bytes that are not of the file.
* *Shell.* The bytes of an escape sequence are written to the line buffer and the bound
  of the loop moves with them (line 266): behind a nearly full line they lie past its
  end, and an LF or a receive error inside a sequence takes out bytes that were not
  put in. A blank behind the last argument counts as one more argument (line 628). What
  follows the limit of an overlong line is read as the next command (line 330). The
  password is echoed on a UART. After a line was brought back and entered, the first Up
  does not show the line just entered, since the two counters of the ring differ then.

A time-out of `puts_com` turns TIE off and then clears `SndData` (lines 1243 and 1245); when
the ISR has completed the transfer in between the two, and another task has handed over
its rest, that one is dropped. Two tasks sending at once through a ring break `SndResult`, `NoDanglingSndData`,
`ClnDrains` and `WaitersReleased` (stale event flags, test and action apart). The
repository does not say that this is allowed, so these are checked with one
sender and the assumption is recorded as a hazard.

## 5. What is proved

Every theorem is for all constants that the named assumptions of its module admit;
for `ScifTx` these are number of tasks, ring size, FIFO depth, trigger level, byte
counts and counter width.

* **`TypeCorrect`** (`ScifTx_proofs`): `Spec => []TypeOK`. Type correctness is not
  inductive: that `CopySave` stores at most `tsize` needs that the count has not
  grown since the load, and that `send_drv_buf` does not take from an empty ring
  needs that it was entered with one that is not. `IInv` adds: a task inside the
  window of `snd` is the one that disabled dispatching, and it is alone
  (`WindowAlone`); while it is, nobody is served by the ISR (`WindowClean`);
  between test, load and store the count stays below the size
  (`CountRoom`); the ISR drains only a ring that holds something (`DrainReady`)
  and uses `SndData` only when it is set (`LocalReady`). One step per action.
* **`TransfersUnmixed`** (`ScifTx_proofs`): `Spec => NoMixing`, for any tasks, ring and peer,
  from `IInv`: who is in the window has nobody served by the ISR, and the ISR takes bytes of
  none but `SndData`.
* **`NeverDangling`**, **`ResultTrue`**, **`CleanedTrue`** (`ScifTx_proofs`), with one
  sending task (`Single`) and any peer. `CallInv` ties what the ISR may see to where the
  caller is: `sndData` is set only at the places where a call waits or is about to take it
  back (`Served`), the flag is set only when the ISR has taken the last byte, and the one
  of CLN_TXBUF only when the ring is empty, which it stays until the call returns. A
  time-out and the ISR's last byte can then come in either order.
* **`ImplementsByteQueue`** (`ScifTx_proofs`): with `RxEvents = {}`,
  `Spec => IsByteQueue`. `QInv` says that the ISR is out while a task is in the
  window (`WindowSilent`), that with a silent peer no flow character waits
  (`FlowEmpty`), that the loaded count is the count (`SaveFresh`), that the ring
  holds exactly the numbers from `sent + 1` to `taken` from its oldest position
  on (`HeldOK`), and that the read position of the ISR is that position (`IsrOK`).
  Each action then maps to a step of `ByteQueue` or a stutter. Without
  `RxEvents = {}` the theorem is false: `tx_duplex` is the counterexample.
* **`XoffIsRespected`** (`ScifTx_proofs`): `Spec => XoffRespected`, for any peer.
  The key is that RIE and TIE are both off from `SndStart` to `SndUnmask`
  (`Masked`), so `tx_xoff` cannot change between its test and the last byte
  written (`FillAllowed`), and that the ISR decides before it drains
  (`DrainAllowed`).
* **`NeverDangling`**, **`RingEmpty`**, **`TypeCorrect`**, **`ResultTrue`**
  (`ScifRx_proofs`), with one task that receives, any number of others, and transmit
  interrupts at any time but inside the window of `rcv` (`Alone`: one reader, `~TxWindow`). Inside the window of `rcv` the task is alone (`WindowAlone`), the
  receive interrupt is off and no routine is under way (`WindowQuiet`), so that the byte
  seen by the test of `rcnt` is still there at `rcnt--` (`CountLeft`) and a caller is handed
  to the ISR with an empty ring (`HandEmpty`); the flag is set by a receive that has ended and
  is gone before the next (`FlagLate`). `ResultInv` adds what each place of a call knows
  about its bytes. With transmit interrupts inside the window `WindowQuiet` is false, and so
  are `RingEmpty` and `ImplementsByteQueue` (see 4).
* **`ImplementsByteQueue`** and **`PeerNotForgotten`** (`ScifRx_proofs`), under `Alone` too.
  For the first, `OrderInv` says which number lies in each slot of the ring from `rcvp` on
  (`HeldOK`), counting the byte that a task already has while `rcnt--` is between its load
  and its store, that the loaded count is the count (`StoreFresh`), and that the routine
  reads from the FIFO only what it has a place for (`RoomLeft`). It assumes `RSize > 0`:
  with no ring, bytes behind the one that completes a receive are read and dropped. The
  second assumes `XonSize <= XoffSize` and needs only that once the driver has let the
  peer go an XON is the last flow character out, or waits (`FlowInv`).
* **`ImplementsDistributor`**, **`ResultsStand`**, **`NoStray`**, **`MutualExclusion`**
  (`Gic_proofs`), for any cores, interrupts and layout of words. `Frame` is about
  places: a core at a place inside the lock holds it (`Exclusion`), its call fits
  the place (`CallsFit`), and the word it loaded is still the word in the register
  (`WordsFresh`), so that its store changes one field. `Meaning` is about fields:
  a target field holds one core or none, and what a core in the middle of a call has
  done so far (`StagesOK`), every other interrupt being enabled exactly when it is
  owned (`EnabledOwned`), and what was answered still holds (`MineTrue`). The
  refinement maps a target field to its owner.
* **`Barrier`**, **`RequestsKept`** (`CortexA_proofs`), for any number of cores. The
  invariant says that the lock excludes, that the loaded word is still the word
  (`WordFresh`), that a core's bit is in it exactly from its store on
  (`WordExact`), and that a core past the loop saw all of them (`Passed`); the ready
  bytes (`ReadyOK`) and the requests (`PostedOK`) follow.
* **`WaitsEndInTime`**, **`AddressKept`** (`DhcpcTask_proofs`), for every lease. The first is about the loop of a lease, not about
  the one before it (see 4). In the second loop `since` is the age of the lease (`Synchronous`), and the wait on the flag
  ends no later than the lease and, in its last part, no earlier (`WaitBounded`).
* **`TypeCorrect`**, **`FilesOwned`**, **`ListingIsExact`** (`FfSys_proofs`), for any
  number and length of files, names, users, offsets, element sizes and counts, when rename is
  given no path that fopen refuses (`Proper`: `Refused = {}`; without it `OwnFiles` is false of
  the code). `ListInv` says of
  a file that has been there since `opendir` that it still is, and that it has been shown
  exactly when its slot lies before the directory cursor: it needs that a name finds one
  file (`OwnFiles`) and that a rename or a removal takes the old name out of `stayed`.
  That the first and last slot of a search exist is proved from well-foundedness.
* **`ImplementsFileStore`** (`FfSys_proofs`): `Spec => IsFileStore`, under `Proper` too. `StoreOf` says that a
  map from names to contents is what a table holds; a table determines it
  (`StoreUnique`), so that it is enough to say what becomes of it when one slot changes:
  it stays (`SameHeld`), gets a name (`NewHeld`), loses one (`GoneHeld`) or renames
  one (`RenamedHeld`). That a full table is one of `FileCnt` names is a bijection
  (`RoomIs`). `FileStore` lets a writer write at the end, the code writes at `pos`: the
  one more invariant, `Writers` (a part of `TypeOK`), says that a writer's `pos` is the length.
  It is why only who reads seeks in `FfSys`: after `fseek` the code's `fwrite` adds all it wrote
  to the length. A reader's `pos` may lie anywhere: inside the file what is left does not wrap
  and the bytes are those of the file (`FreadInside`), behind the end the step is a
  `ReadBehind` (`FreadBehind`).
* **`PeriodKept`**, **`TypeCorrect`**, **`TimeIsTrue`**, **`TimeGoesForward`**
  (`CortexA_proofs`), for any rate, tick, counter width and lateness that
  `RateAssumption` admits. `Ticks` is the heart: the deadline is a whole number K of ticks
  after the epoch and the system time that of K - 1 ticks, or the part of it that the step
  of the interrupt routine has come to (`Cycle`). `Deadline` says how far the
  down-counter may be past zero, `Reads` what each place of a read has seen, and `LastRead`
  that the last time read was that of an instant not behind us. The rest is arithmetic of
  remainders (`Remainder`, `RemainderShift`): what is computed modulo `Word` is right
  as long as the true value fits.
* **`TypeCorrect`**, **`SecretsKept`**, **`ImplementsLineEditor`** (`Shell_proofs`), for any
  buffers, history, users and words. `Pressing` says that the bytes to come are the rest of
  one escape sequence and `Buffer` that there is room for them; `Ring` that the history holds
  lines of the command prompt and is enabled exactly there. For the refinement the memory is
  the bag of the lines in the ring: an exchange of the line with a slot takes one line out of
  the bag and puts one in (`MemoryExchange`).

* **`TypeCorrect`**, **`BodiesExact`** (`MultipartRx_proofs`), for any well-formed forms, any
  size of buffer, any cut of the content and any failures. There are three layers.
  *The searches.* `FindChkFinds` says that the one-pass search of `mp_find_chk` returns the
  first place of its pattern, or else the first where it may begin at the end of the data.
  It is true because a match that fails cannot have a shorter one inside that goes on
  (`NoFallback`), which the three patterns have and a pattern need not have.
  `BdryChkBounds` says the same of `httpd_mp_bdry_chk`, which searches twice more from the
  place it found. *The form.* `Laid` says where in all that is sent each head, body and
  the end lies, and that no boundary begins earlier; what a search sees in any window of it
  follows: a head is recognised as soon as its blank line is there (`HeadSeen`) and never
  taken for the end (`HeadNoEnd`), behind the last part no head is seen (`TailNoHeader`), and
  of a body never too much and at its boundary exactly the rest is handed on
  (`BodyHanded`). *The steps.* `Place` is how much of what is sent is used up. `IInv` says
  that the buffer shows what follows there (`BufShows`, but for the NULs put in behind the
  last part), and that `Place` is the end of the last part handed on (`InHead`) or as far
  behind a head as the body has grown (`InBody`). Then a loop that ends with success has
  come past the last part: with `contentLen` at zero the end of the form is in the
  buffer, or already seen.

Induction over numbers is not built into the provers, and the library's theorem of it takes
an operator as a parameter. `Induction` in `MultipartRx_proofs` states it for a *set* of
numbers, proved from the least number outside; so that what `CHOOSE` picks for the
recursive functions of the search and of `FlattenSeq` satisfies their recursion is proved
there too (`ScanExists`, `FlattenIs`).

Only model-checked: liveness (`WaitersReleased`, `ReaderServed`, `CallsEnd`, `AllStart`,
`StopObeyed`, `EndReached`), which is out of the prover's reach under fairness, as is
ENABLED.

## 6. Not modelled, and what is left

*Not modelled.* About half of the lines of the repository are headers: declarations of
registers, of the interfaces of the binary libraries and of their configuration, with no
behaviour. The receive half of `DDR_RZG1_SCIF.c` and the transmit half of
`DDR_RZG1_SCIFA.c` are the same code as the halves modelled, with other register
names. Of the serial drivers, `ini` of a port in use, `ref` and RTS/CTS are left out, and
the two halves are modelled each with what the other does to it, not together. The
SNTP client is the protocol of the DHCP client once more, without the sleeps. The UART
sample passes memory-pool blocks through a mailbox, each step inside the kernel. Of the
shell, the text of the commands and the telnet side (its server is not in the
repository); of the web server, what the parser looks up in a part header. The
loop-back and template drivers, the assembler and the board start-up are straight-line
copies and register writes; the kernel and the TCP/IP stack are binary.

*Left.* One model of both halves over one status word, with two senders and
re-initialisation.

## 7. Running

In this directory: `tlc -config MCScifTx.cfg ScifTx` (and so on, see
`PROJECT.json` "runs"), `tlapm ScifTx_proofs.tla`.
