------------------------------- MODULE GTimer -------------------------------
(* The system timer (DDR_CortexA_GTIMER.c): a down-counter that interrupts when *)
(* it reaches zero and goes on below, the interrupt routine that sets it up     *)
(* again and adds a tick to the system time, the reading of the time between    *)
(* ticks (_kernel_micro_systim), and stopping and starting for standby. Every   *)
(* access to a timer register is a step: the counter moves between any two.     *)
(* The module starts after _ddr_cortexa_gtimer_init.                            *)
EXTENDS Integers

CONSTANTS
  Rate,      \* g_tmr_rate: counts in a tick
  Tick,      \* g_tmr_tick: microseconds in a tick
  Word,      \* 2^32: where UW arithmetic wraps
  MaxLate,   \* the longest the interrupt waits after zero, in counts
  MaxNow     \* bound of the run: counts in all

\* A tick is thousands of counts and of microseconds, so more than one of each
\* (with Rate = 1 the reload, one count short, would never get ahead). The product
\* tcn * g_tmr_tick fits a UW, or else no time is right.
ASSUME RateAssumption ==
  /\ Rate \in Nat /\ Rate > 1
  /\ Tick \in Nat /\ Tick > 1
  /\ MaxLate \in Nat \ {0} /\ MaxNow \in Nat \ {0}
  /\ Word \in Nat /\ (Rate + MaxLate + 2) * Tick < Word

VARIABLES
  now,       \* the system counter, never stopped
  cval,      \* the count at which CNTP_TVAL is zero
  running,   \* CNTP_CTL: enabled and not masked
  systim,    \* g_tmr_systim
  suspend,   \* g_tmr_suspend
  isr,       \* place of tmr_isr, or idle
  tval,      \* cur_tval
  pc,        \* place of the task that reads, stops or starts
  clk, tcn,  \* locals of _kernel_micro_systim
  epoch,     \* history: the count at which the system time was zero
  asked,     \* history: the count when the task began (to read, or to stop)
  told       \* history: the last time read

timer  == <<cval, running, systim, suspend>>
local  == <<clk, tcn>>
hist   == <<epoch, asked, told>>
vars   == <<now, timer, isr, tval, pc, local, hist>>

Tval == cval - now

\* CNTP_CTL.ISTATUS of an enabled timer.
Stat == Tval <= 0

\* (Seeded fault: an int instead of a UW.)
WrapNever(n) == n
Wrap(n) == n % Word

\* A UW that is written to CNTP_TVAL counts as signed.
Signed(n) == IF Wrap(n) < Word \div 2 THEN Wrap(n) ELSE Wrap(n) - Word

\* The time when the counter shows n.
TimeAt(n) == Wrap(((n - epoch) * Tick) \div Rate)

\* The time since the epoch still fits the UW that counts it.
BeforeWrap == (now - epoch) * Tick < Word * Rate

TypeOK ==
  /\ now \in 0..MaxNow
  /\ cval \in -MaxLate..(MaxNow + Rate)
  /\ running \in BOOLEAN
  /\ systim \in 0..(Word - 1)
  /\ suspend \in -MaxLate..Rate
  /\ isr \in {"idle", "reload", "add"}
  /\ tval \in -(MaxLate + 1)..0
  /\ pc \in {"idle", "stat", "tval", "again", "late", "sum", "stop", "stopped"}
  /\ clk \in 0..(Word - 1)
  /\ tcn \in 0..(Rate + MaxLate + 2)
  /\ epoch \in -(MaxNow + 1)..MaxNow
  /\ asked \in 0..MaxNow
  /\ told \in 0..(Word - 1)

Init ==
  /\ now = 0
  /\ cval = Rate - 1 /\ running = TRUE
  /\ systim = 0 /\ suspend = 0
  /\ isr = "idle" /\ tval = 0
  /\ pc = "idle" /\ clk = 0 /\ tcn = 0
  /\ epoch = -1 /\ asked = 0
  /\ told = 0

\* The counter moves. Interrupts are never masked so long that it shows more
\* than MaxLate below zero.
Count ==
  /\ now < MaxNow
  /\ running => now - cval < MaxLate
  /\ now' = now + 1
  /\ UNCHANGED <<timer, isr, tval, pc, local, hist>>

(****************************************************************************)
(* tmr_isr, in a CPU-locked section                                           *)
(****************************************************************************)

\* The interrupt is taken while no task is inside a kernel section.
IsrEnter ==
  /\ isr = "idle" /\ pc = "idle" /\ running /\ Stat
  /\ tval' = Tval
  /\ asked' = now
  /\ isr' = "reload"
  /\ UNCHANGED <<now, timer, pc, local, epoch, told>>

\* The count that is left of the next tick. (Seeded fault: a full tick.)
ReloadFull == Rate
Reload == Wrap(Rate + tval)

\* The reload is one count short, which stands for the time between reading and
\* writing the register; a write that came at another count shifts the epoch.
IsrReload ==
  /\ isr = "reload"
  /\ cval' = now + Signed(Reload - 1)
  /\ epoch' = epoch + (now - asked) - 1
  /\ tval' = 0
  /\ isr' = "add"
  /\ UNCHANGED <<now, running, systim, suspend, pc, local, asked, told>>

IsrAdd ==
  /\ isr = "add"
  /\ systim' = Wrap(systim + Tick)
  /\ isr' = "idle"
  /\ UNCHANGED <<now, cval, running, suspend, tval, pc, local, hist>>

(****************************************************************************)
(* _kernel_micro_systim, called with interrupts masked                        *)
(****************************************************************************)

\* (Seeded fault: the interrupt routine does not lock the CPU.)
ReadAnytime ==
  /\ pc = "idle" /\ running
  /\ asked' = now
  /\ pc' = "stat"
  /\ UNCHANGED <<now, timer, isr, tval, local, epoch, told>>

Read ==
  /\ pc = "idle" /\ isr = "idle" /\ running
  /\ asked' = now
  /\ pc' = "stat"
  /\ UNCHANGED <<now, timer, isr, tval, local, epoch, told>>

\* A tick that is due but not yet counted.
ReadStat ==
  /\ pc = "stat"
  /\ \/ Stat  /\ clk' = Wrap(systim + Tick) /\ pc' = "late"
     \/ ~Stat /\ clk' = systim /\ pc' = "tval"
  /\ UNCHANGED <<now, timer, isr, tval, tcn, hist>>

ReadTval ==
  /\ pc = "tval"
  /\ tcn' = Wrap(Rate - Tval)
  /\ pc' = "again"
  /\ UNCHANGED <<now, timer, isr, tval, clk, hist>>

\* The tick may have come between the two reads.
ReadAgain ==
  /\ pc = "again"
  /\ \/ Stat  /\ clk' = Wrap(clk + Tick) /\ pc' = "late"
     \/ ~Stat /\ clk' = clk /\ pc' = "sum"
  /\ UNCHANGED <<now, timer, isr, tval, tcn, hist>>

\* (Seeded fault: the tick is in clk and in tcn.)
ReadLateTwice ==
  /\ pc = "late"
  /\ tcn' = Wrap(Rate - Tval)
  /\ pc' = "sum"
  /\ UNCHANGED <<now, timer, isr, tval, clk, hist>>

ReadLate ==
  /\ pc = "late"
  /\ tcn' = Wrap(-Tval)
  /\ pc' = "sum"
  /\ UNCHANGED <<now, timer, isr, tval, clk, hist>>

ReadSum ==
  /\ pc = "sum"
  /\ told' = Wrap(clk + Wrap(tcn * Tick) \div Rate)
  /\ clk' = 0 /\ tcn' = 0
  /\ pc' = "idle"
  /\ UNCHANGED <<now, timer, isr, tval, epoch, asked>>

(****************************************************************************)
(* Standby                                                                    *)
(****************************************************************************)

\* _kernel_micro_systim_stop: the count is saved, then the timer is disabled.
Stop ==
  /\ pc = "idle" /\ isr = "idle" /\ running
  /\ suspend' = Tval
  /\ asked' = now
  /\ pc' = "stop"
  /\ UNCHANGED <<now, cval, running, systim, isr, tval, local, epoch, told>>

TmrStop ==
  /\ pc = "stop"
  /\ running' = FALSE
  /\ pc' = "stopped"
  /\ UNCHANGED <<now, cval, systim, suspend, isr, tval, local, hist>>

\* _kernel_micro_systim_start. The time did not pass meanwhile.
TmrStart ==
  /\ pc = "stopped"
  /\ cval' = now + suspend
  /\ running' = TRUE
  /\ epoch' = epoch + (now - asked)
  /\ suspend' = 0
  /\ pc' = "idle"
  /\ UNCHANGED <<now, systim, isr, tval, local, asked, told>>

Next ==
  \/ Count
  \/ IsrEnter \/ IsrReload \/ IsrAdd
  \/ Read \/ ReadStat \/ ReadTval \/ ReadAgain \/ ReadLate \/ ReadSum
  \/ Stop \/ TmrStop \/ TmrStart

Spec == Init /\ [][Next]_vars

(****************************************************************************)
(* Properties                                                                 *)
(****************************************************************************)

\* The time returned is that of an instant between call and return, however late
\* the tick interrupt is and wherever the counter reaches zero.
TimeTrue == [][ReadSum => \E n \in asked..now : told' = TimeAt(n)]_vars

\* Time read later is never earlier, across ticks, late interrupts and standby.
\* (Until the UW wraps: a time read after that is smaller, as it must be.)
TimeForward == [][ReadSum /\ BeforeWrap => told <= told']_vars

\* The interrupt comes a tick after the last one, neither lost nor drifting: with
\* the reload written one count after the read the epoch never moves, so that the
\* deadline is a whole number of ticks after it.
TickPeriod == running /\ isr = "idle" => Wrap(systim + Tick) = TimeAt(cval)

=============================================================================
