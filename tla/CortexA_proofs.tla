---------------------------- MODULE CortexA_proofs ----------------------------
(* The drivers of the core itself (DDR_CortexA_*.c): the system timer, for every *)
(* rate, tick, word, lateness and bound of the run, and the start-up barrier,    *)
(* for any number of cores.                                                      *)
EXTENDS GTimer, CoreStart, TLAPS


(****************************************************************************)
(* UW arithmetic                                                              *)
(****************************************************************************)

\* What the assumption gives: the counts that occur fit half a word.
LEMMA Widths ==
  /\ Rate \in Nat /\ Rate > 1 /\ Tick \in Nat /\ Tick > 1
  /\ MaxLate \in Nat /\ MaxLate > 0 /\ MaxNow \in Nat
  /\ Word \in Nat /\ Word > 0
  /\ Rate + MaxLate + 2 <= Word \div 2
  /\ \A t \in 0..(Rate + MaxLate + 2) : t * Tick \in 0..(Word - 1)
<1>1. (Rate + MaxLate + 2) * 2 <= (Rate + MaxLate + 2) * Tick
  BY RateAssumption
<1>2. \A t \in 0..(Rate + MaxLate + 2) : t * Tick <= (Rate + MaxLate + 2) * Tick
  BY RateAssumption
<1> QED BY <1>1, <1>2, RateAssumption

\* An integer is a multiple of a number and what remains, in one way only.
LEMMA Division ==
  \A a \in Int, w \in Nat : w > 0 =>
    /\ a \div w \in Int /\ a % w \in 0..(w - 1)
    /\ a = ((a \div w) * w) + (a % w)
  OBVIOUS

LEMMA Remainder ==
  \A a, q, s \in Int, w \in Nat :
    w > 0 /\ a = q * w + s /\ 0 <= s /\ s < w => a % w = s
  OBVIOUS

\* Whole multiples do not change what remains.
LEMMA RemainderShift ==
  \A a, k \in Int, w \in Nat : w > 0 => (a + k * w) % w = a % w
<1> SUFFICES ASSUME NEW a \in Int, NEW k \in Int, NEW w \in Nat, w > 0
             PROVE  (a + k * w) % w = a % w
  OBVIOUS
<1> DEFINE q == a \div w
           s == a % w
<1>1. q \in Int /\ s \in 0..(w - 1) /\ a = q * w + s
  BY Division
<1> HIDE DEF q, s
<1>2. PICK p \in Int : p = q + k
  BY <1>1
<1>3. a + k * w = p * w + s
  BY <1>1, <1>2
<1>4. (p * w + s) % w = s
  BY <1>1, <1>2, Remainder
<1> QED BY <1>3, <1>4 DEF s

\* Quotients keep the order, and a whole number of divisors comes out of them.
LEMMA QuotientMono == \A a, b \in Int, w \in Nat : w > 0 /\ a <= b => a \div w <= b \div w
  OBVIOUS

LEMMA QuotientSum == \A a, t \in Int, r \in Nat : r > 0 => (a * r + t) \div r = a + t \div r
  OBVIOUS

LEMMA WrapType == \A n \in Int : Wrap(n) \in 0..(Word - 1)
  BY Widths, Division DEF Wrap

LEMMA WrapSmall == \A n \in 0..(Word - 1) : Wrap(n) = n
  BY Widths, Remainder DEF Wrap

\* UW addition need not wrap its operands first.
LEMMA WrapAdd == \A a, b \in Int : Wrap(Wrap(a) + b) = Wrap(a + b)
<1> SUFFICES ASSUME NEW a \in Int, NEW b \in Int PROVE Wrap(Wrap(a) + b) = Wrap(a + b)
  OBVIOUS
<1> DEFINE q == a \div Word
           s == a % Word
<1>1. q \in Int /\ s \in Int /\ a = q * Word + s
  BY Widths, Division
<1> HIDE DEF q, s
<1>2. a + b = (s + b) + q * Word /\ s + b \in Int
  BY <1>1, Widths
<1>3. ((s + b) + q * Word) % Word = (s + b) % Word
  BY <1>1, <1>2, Widths, RemainderShift
<1> QED BY <1>2, <1>3 DEF Wrap, s

\* The value written to CNTP_TVAL is the number meant, when that is small.
LEMMA SignedReload ==
  \A n \in Int : -(Word \div 2) <= n - 1 /\ n < Word \div 2 => Signed(Wrap(n) - 1) = n - 1
<1> SUFFICES ASSUME NEW n \in Int, -(Word \div 2) <= n - 1, n < Word \div 2
             PROVE  Signed(Wrap(n) - 1) = n - 1
  OBVIOUS
<1>1. Wrap(Wrap(n) - 1) = Wrap(n - 1)
  <2>1. Wrap(Wrap(n) + (-1)) = Wrap(n + (-1)) /\ Wrap(n) \in Int
    BY WrapAdd, WrapType, Widths
  <2> QED BY <2>1
<1>2. CASE n - 1 >= 0
  <2>1. Wrap(n - 1) = n - 1
    BY <1>2, WrapSmall, Widths
  <2> QED BY <1>1, <1>2, <2>1, Widths DEF Signed
<1>3. CASE n - 1 < 0
  <2>1. Wrap(n - 1) = n - 1 + Word
    BY <1>3, Widths, Remainder DEF Wrap
  <2> QED BY <1>1, <1>3, <2>1, Widths DEF Signed
<1> QED BY <1>2, <1>3

\* So many whole ticks and so many counts, in microseconds.
LEMMA Microseconds ==
  \A k, t \in Int : ((k * Rate + t) * Tick) \div Rate = k * Tick + (t * Tick) \div Rate
<1> SUFFICES ASSUME NEW k \in Int, NEW t \in Int
             PROVE  ((k * Rate + t) * Tick) \div Rate = k * Tick + (t * Tick) \div Rate
  OBVIOUS
<1>1. (k * Rate + t) * Tick = (k * Tick) * Rate + t * Tick
  BY Widths
<1>2. k * Tick \in Int /\ t * Tick \in Int
  BY Widths
<1> QED BY <1>1, <1>2, Widths, QuotientSum

(****************************************************************************)
(* The inductive invariant                                                    *)
(****************************************************************************)

Types ==
  /\ now \in 0..MaxNow
  /\ cval \in Int /\ running \in BOOLEAN
  /\ suspend \in -MaxLate..Rate
  /\ isr \in {"idle", "reload", "add"} /\ tval \in -(MaxLate + 1)..0
  /\ pc \in {"idle", "stat", "tval", "again", "late", "sum", "stop", "stopped"}
  /\ clk \in 0..(Word - 1) /\ tcn \in 0..(Rate + MaxLate + 2)
  /\ epoch \in Int /\ asked \in 0..now
  /\ told \in 0..(Word - 1)

\* The deadline is K ticks after the epoch; all but the last of them, which is
\* running, are in the system time, or will be when the routine has added it. An
\* epoch moves back by no more than a count a tick, and a tick takes at least
\* Rate - 1 counts.
Cycle(K) ==
  /\ cval - epoch = K * Rate
  /\ epoch >= -K
  /\ (K - 1) * (Rate - 1) <= now
  /\ isr # "add" => systim = Wrap((K - 1) * Tick)
  /\ isr = "add" => K >= 2 /\ systim = Wrap((K - 2) * Tick)
Ticks == \E K \in Nat : K >= 1 /\ Cycle(K)

\* The deadline of a running timer is less than a tick ahead, and no more than
\* MaxLate behind; that of a stopped one is so from the count at which it stopped.
Deadline ==
  /\ running <=> pc # "stopped"
  /\ running => Tval \in -MaxLate..(Rate - 1)
  /\ isr # "idle" => pc = "idle"
  /\ isr = "reload" => tval = cval - asked
  /\ pc \in {"stop", "stopped"} => suspend = cval - asked /\ suspend < Rate

\* What a task that reads the time has in its locals is true of a count n since
\* the call.
Reads ==
  /\ pc \in {"tval", "again"} => clk = systim
  /\ pc = "late" => clk = Wrap(systim + Tick) /\ Stat
  /\ pc = "again" => \E n \in asked..now : tcn = Rate - (cval - n)
  /\ pc = "sum" => \E n \in asked..now :
       \/ clk = systim /\ tcn = Rate - (cval - n)
       \/ clk = Wrap(systim + Tick) /\ tcn = n - cval

\* The counts since the epoch that the system time is sure to have passed, and the
\* last time that was read, which is that of one of them.
Age == IF isr = "reload" \/ pc # "idle" THEN asked - epoch ELSE now - epoch
LastRead == \E a \in Int : a >= 0 /\ a <= Age /\ told = Wrap((a * Tick) \div Rate)

IInv == Types /\ Ticks /\ Deadline /\ Reads /\ LastRead

LEMMA InitIInv == Init => IInv
<1> SUFFICES ASSUME Init PROVE IInv
  OBVIOUS
<1> USE DEF Init
<1>1. Types
  BY Widths DEF Types
<1>2. Ticks
  <2>1. Wrap(0) = 0
    BY WrapSmall, Widths
  <2>2. Cycle(1)
    BY <2>1, Widths DEF Cycle
  <2> QED BY <2>2 DEF Ticks
<1>3. Deadline /\ Reads
  BY Widths DEF Deadline, Reads, Tval
<1>4. LastRead
  <2>1. Wrap(0) = 0 /\ (0 * Tick) \div Rate = 0
    BY WrapSmall, Widths
  <2>2. told = Wrap((0 * Tick) \div Rate) /\ Age = 1
    BY <2>1 DEF Age
  <2> QED BY <2>2 DEF LastRead
<1> QED BY <1>1, <1>2, <1>3, <1>4 DEF IInv

\* The bounds that the type invariant states of deadline and epoch.
LEMMA IInvTypeOK == IInv => TypeOK
<1> SUFFICES ASSUME IInv PROVE TypeOK
  OBVIOUS
<1> USE Widths
<1>1. PICK K \in Nat : K >= 1 /\ Cycle(K)
  BY DEF IInv, Ticks
<1>2. K - 1 <= (K - 1) * (Rate - 1) /\ Rate <= K * Rate /\ K * Rate \in Nat
  BY <1>1
<1>3. cval - now \in -MaxLate..(Rate - 1) \/ cval - asked \in -MaxLate..(Rate - 1)
  BY DEF IInv, Types, Deadline, Tval
<1>4. cval \in -MaxLate..(now + Rate - 1)
  BY <1>3 DEF IInv, Types
<1>5. epoch \in -(MaxNow + 1)..MaxNow
  BY <1>1, <1>2, <1>4 DEF IInv, Types, Cycle
<1>6. systim \in 0..(Word - 1)
  <2>1. (K - 1) * Tick \in Int /\ (K - 2) * Tick \in Int
    BY <1>1
  <2> QED BY <1>1, <2>1, WrapType DEF Cycle
<1> QED BY <1>4, <1>5, <1>6 DEF IInv, Types, TypeOK

\* A time read is that of a count between call and return.
LEMMA TimeRead == IInv /\ ReadSum => \E n \in asked..now : told' = TimeAt(n)
<1> SUFFICES ASSUME IInv, ReadSum PROVE \E n \in asked..now : told' = TimeAt(n)
  OBVIOUS
<1> USE Widths
<1>1. PICK K \in Nat : K >= 1 /\ Cycle(K)
  BY DEF IInv, Ticks
<1>2. PICK n \in asked..now : \/ clk = systim /\ tcn = Rate - (cval - n)
                              \/ clk = Wrap(systim + Tick) /\ tcn = n - cval
  BY DEF IInv, Reads, ReadSum
<1>3. n \in Int /\ cval \in Int /\ epoch \in Int /\ tcn \in 0..(Rate + MaxLate + 2)
  BY <1>2 DEF IInv, Types
<1>4. Wrap(tcn * Tick) = tcn * Tick /\ tcn * Tick \in Int /\ (tcn * Tick) \div Rate \in Int
  BY <1>3, WrapSmall, Division
<1>5. systim = Wrap((K - 1) * Tick)
  BY <1>1 DEF IInv, Deadline, ReadSum, Cycle
<1>6. \E k \in Int : clk = Wrap(k * Tick) /\ n - epoch = k * Rate + tcn
  <2>1. CASE clk = systim /\ tcn = Rate - (cval - n)
    <3>1. n - epoch = (K - 1) * Rate + tcn
      BY <1>1, <1>3, <2>1 DEF Cycle
    <3>2. PICK k \in Int : k = K - 1
      OBVIOUS
    <3> QED BY <1>5, <2>1, <3>1, <3>2
  <2>2. CASE clk = Wrap(systim + Tick) /\ tcn = n - cval
    <3>1. n - epoch = K * Rate + tcn
      BY <1>1, <1>3, <2>2 DEF Cycle
    <3>2. Wrap(systim + Tick) = Wrap((K - 1) * Tick + Tick)
      BY <1>5, WrapAdd
    <3>3. (K - 1) * Tick + Tick = K * Tick
      OBVIOUS
    <3>4. K \in Int
      OBVIOUS
    <3> QED BY <2>2, <3>1, <3>2, <3>3, <3>4
  <2> QED BY <1>2, <2>1, <2>2
<1>7. PICK k \in Int : clk = Wrap(k * Tick) /\ n - epoch = k * Rate + tcn
  BY <1>6
<1>8. ((n - epoch) * Tick) \div Rate = k * Tick + (tcn * Tick) \div Rate
  BY <1>3, <1>7, Microseconds
<1>9. Wrap(Wrap(k * Tick) + (tcn * Tick) \div Rate) = Wrap(k * Tick + (tcn * Tick) \div Rate)
  BY <1>4, WrapAdd
<1>10. told' = TimeAt(n)
  BY <1>4, <1>7, <1>8, <1>9 DEF ReadSum, TimeAt
<1> QED BY <1>10

\* A step that leaves the deadline, the epoch and the system time alone.
LEMMA SameTicks ==
  ASSUME IInv, now' \in Int, now' >= now, UNCHANGED <<cval, epoch, systim>>,
         isr' = "add" <=> isr = "add"
  PROVE  Ticks'
<1>1. PICK K \in Nat : K >= 1 /\ Cycle(K)
  BY DEF IInv, Ticks
<1>2. Cycle(K)'
  BY <1>1, Widths DEF Cycle, IInv, Types, Wrap
<1> QED BY <1>1, <1>2 DEF Ticks

\* A step that reads no time and does not make the system younger.
LEMMA SameRead ==
  ASSUME IInv, told' = told, Age' \in Int, Age' >= Age
  PROVE  LastRead'
<1>1. PICK a \in Int : a >= 0 /\ a <= Age /\ told = Wrap((a * Tick) \div Rate)
  BY DEF IInv, LastRead
<1>2. Age \in Int
  BY DEF IInv, Types, Age
<1>3. Wrap((a * Tick) \div Rate)' = Wrap((a * Tick) \div Rate)
  BY DEF Wrap
<1> QED BY <1>1, <1>2, <1>3 DEF LastRead, Wrap

LEMMA StepIInv == IInv /\ [Next]_vars => IInv'
<1> SUFFICES ASSUME IInv, [Next]_vars PROVE IInv'
  OBVIOUS
<1> USE Widths
<1>1. CASE Count
  <2>1. Types' /\ Deadline'
    BY <1>1 DEF Count, timer, local, hist, IInv, Types, Deadline, Tval
  <2>2. Ticks'
    BY <1>1, SameTicks DEF Count, timer, hist, IInv, Types
  <2>3. Reads'
    <3>1. \A n \in asked..now : n \in asked'..now'
      BY <1>1 DEF Count, hist, IInv, Types
    <3>2. now' = now + 1 /\ UNCHANGED <<cval, systim, pc, clk, tcn>>
      BY <1>1 DEF Count, timer, local
    <3>3. Wrap(systim + Tick)' = Wrap(systim + Tick)
      BY <3>2 DEF Wrap
    <3>4. Stat => Stat'
      BY <3>2 DEF Stat, Tval, IInv, Types
    <3>5. (pc = "sum" => \E n \in asked..now :
             \/ clk = systim /\ tcn = Rate - (cval - n)
             \/ clk = Wrap(systim + Tick) /\ tcn = n - cval)'
      BY <3>1, <3>2, <3>3 DEF IInv, Reads
    <3>6. (pc = "again" => \E n \in asked..now : tcn = Rate - (cval - n))'
      BY <3>1, <3>2 DEF IInv, Reads
    <3> QED BY <3>2, <3>3, <3>4, <3>5, <3>6 DEF IInv, Reads
  <2>4. LastRead'
    BY <1>1, SameRead DEF Count, hist, IInv, Types, Age
  <2> QED BY <2>1, <2>2, <2>3, <2>4 DEF IInv
<1>2. CASE IsrEnter
  <2>1. Types' /\ Deadline' /\ Reads'
    BY <1>2 DEF IsrEnter, timer, local, IInv, Types, Deadline, Reads, Tval, Stat
  <2>2. Ticks'
    BY <1>2, SameTicks DEF IsrEnter, timer, IInv, Types
  <2>3. LastRead'
    BY <1>2, SameRead DEF IsrEnter, IInv, Types, Age
  <2> QED BY <2>1, <2>2, <2>3 DEF IInv
<1>3. CASE IsrReload
  <2>1. Signed(Reload - 1) = Rate + tval - 1 /\ tval \in -MaxLate..0
    <3>1. tval = cval - asked /\ tval \in Int /\ tval <= 0 /\ tval >= -MaxLate
      BY <1>3 DEF IsrReload, IInv, Types, Deadline, Tval
    <3>2. Rate + tval \in Int /\ -(Word \div 2) <= Rate + tval - 1 /\ Rate + tval < Word \div 2
      BY <3>1
    <3> QED BY <3>1, <3>2, SignedReload DEF Reload
  <2>2. cval' = now + Rate + tval - 1 /\ epoch' = epoch + (now - asked) - 1
    BY <1>3, <2>1 DEF IsrReload, IInv, Types
  <2>3. Types' /\ Deadline' /\ Reads'
    BY <1>3, <2>1, <2>2 DEF IsrReload, local, IInv, Types, Deadline, Reads, Tval
  <2>4. Ticks'
    <3>1. PICK K \in Nat : K >= 1 /\ Cycle(K)
      BY DEF IInv, Ticks
    <3>2. tval = cval - asked /\ asked <= now
      BY <1>3 DEF IsrReload, IInv, Types, Deadline
    <3>3. cval' - epoch' = (K + 1) * Rate
      BY <2>2, <3>1, <3>2 DEF IInv, Types, Cycle
    <3>4. epoch' >= -(K + 1)
      BY <2>2, <3>1, <3>2 DEF IInv, Types, Cycle
    <3>5. K * (Rate - 1) <= now
      BY <2>1, <3>1, <3>2 DEF IInv, Types, Cycle
    <3>6. systim = Wrap((K - 1) * Tick)
      BY <1>3, <3>1 DEF IsrReload, Cycle
    <3>7. PICK L \in Nat : L = K + 1
      OBVIOUS
    <3>8. Cycle(L)'
      BY <1>3, <3>1, <3>3, <3>4, <3>5, <3>6, <3>7 DEF IsrReload, Cycle, Wrap
    <3> QED BY <3>1, <3>7, <3>8 DEF Ticks
  <2>5. LastRead'
    <3>1. Age' = Age + 1 /\ Age \in Int
      BY <1>3, <2>2 DEF IsrReload, IInv, Types, Deadline, Age
    <3> QED BY <1>3, <3>1, SameRead DEF IsrReload
  <2> QED BY <2>3, <2>4, <2>5 DEF IInv
<1>4. CASE IsrAdd
  <2>1. Types' /\ Deadline' /\ Reads'
    BY <1>4 DEF IsrAdd, local, hist, IInv, Types, Deadline, Reads, Tval
  <2>2. Ticks'
    <3>1. PICK K \in Nat : K >= 2 /\ Cycle(K)
      BY <1>4 DEF IsrAdd, IInv, Ticks, Cycle
    <3>2. systim' = Wrap((K - 2) * Tick + Tick)
      BY <1>4, <3>1, WrapAdd DEF IsrAdd, Cycle
    <3>3. (K - 2) * Tick + Tick = (K - 1) * Tick
      OBVIOUS
    <3>4. Cycle(K)'
      BY <1>4, <3>1, <3>2, <3>3 DEF IsrAdd, hist, Cycle, Wrap
    <3> QED BY <3>1, <3>4 DEF Ticks
  <2>3. LastRead'
    BY <1>4, SameRead DEF IsrAdd, hist, IInv, Types, Age
  <2> QED BY <2>1, <2>2, <2>3 DEF IInv
<1>5. CASE Read
  <2>1. Types' /\ Deadline' /\ Reads'
    BY <1>5 DEF Read, timer, local, IInv, Types, Deadline, Reads, Tval
  <2>2. Ticks'
    BY <1>5, SameTicks DEF Read, timer, IInv, Types
  <2>3. LastRead'
    BY <1>5, SameRead DEF Read, IInv, Types, Age
  <2> QED BY <2>1, <2>2, <2>3 DEF IInv
<1>6. CASE ReadStat
  <2>0. Wrap(systim + Tick) \in 0..(Word - 1) /\ systim \in 0..(Word - 1)
    BY IInvTypeOK, WrapType DEF TypeOK
  <2>1. Types' /\ Deadline' /\ Reads'
    BY <1>6, <2>0 DEF ReadStat, timer, hist, IInv, Types, Deadline, Reads, Tval, Stat, Wrap
  <2>2. Ticks'
    BY <1>6, SameTicks DEF ReadStat, timer, hist, IInv, Types
  <2>3. LastRead'
    BY <1>6, SameRead DEF ReadStat, hist, IInv, Types, Age
  <2> QED BY <2>1, <2>2, <2>3 DEF IInv
<1>7. CASE ReadTval
  <2>1. Tval \in -MaxLate..(Rate - 1) /\ Rate - Tval \in 1..(Rate + MaxLate)
    BY <1>7 DEF ReadTval, IInv, Deadline
  <2>2. Rate - Tval \in 0..(Word - 1)
    BY <2>1
  <2>3. tcn' = Rate - (cval - now)
    BY <1>7, <2>2, WrapSmall DEF ReadTval, Tval
  <2>4. Types' /\ Deadline' /\ Reads'
    BY <1>7, <2>1, <2>3 DEF ReadTval, timer, hist, IInv, Types, Deadline, Reads, Tval
  <2>5. Ticks'
    BY <1>7, SameTicks DEF ReadTval, timer, hist, IInv, Types
  <2>6. LastRead'
    BY <1>7, SameRead DEF ReadTval, hist, IInv, Types, Age
  <2> QED BY <2>4, <2>5, <2>6 DEF IInv
<1>8. CASE ReadAgain
  <2>0. Wrap(systim + Tick) \in 0..(Word - 1)
    BY IInvTypeOK, WrapType DEF TypeOK
  <2>1. Types' /\ Deadline' /\ Reads'
    BY <1>8, <2>0 DEF ReadAgain, timer, hist, IInv, Types, Deadline, Reads, Tval, Stat, Wrap
  <2>2. Ticks'
    BY <1>8, SameTicks DEF ReadAgain, timer, hist, IInv, Types
  <2>3. LastRead'
    BY <1>8, SameRead DEF ReadAgain, hist, IInv, Types, Age
  <2> QED BY <2>1, <2>2, <2>3 DEF IInv
<1>9. CASE ReadLate
  <2>1. -Tval \in 0..MaxLate /\ now - cval = -Tval
    BY <1>9 DEF ReadLate, IInv, Types, Deadline, Reads, Stat, Tval
  <2>2. -Tval \in 0..(Word - 1)
    BY <2>1
  <2>3. tcn' = now - cval
    BY <1>9, <2>1, <2>2, WrapSmall DEF ReadLate
  <2>4. Types' /\ Deadline' /\ Reads'
    BY <1>9, <2>1, <2>3 DEF ReadLate, timer, hist, IInv, Types, Deadline, Reads, Tval, Wrap
  <2>5. Ticks'
    BY <1>9, SameTicks DEF ReadLate, timer, hist, IInv, Types
  <2>6. LastRead'
    BY <1>9, SameRead DEF ReadLate, hist, IInv, Types, Age
  <2> QED BY <2>4, <2>5, <2>6 DEF IInv
<1>10. CASE ReadSum
  <2>1. PICK n \in asked..now : told' = TimeAt(n)
    BY <1>10, TimeRead
  <2>2. told' \in 0..(Word - 1) /\ told' = Wrap(((n - epoch) * Tick) \div Rate)
    <3>1. ((n - epoch) * Tick) \div Rate \in Int
      BY Division DEF IInv, Types
    <3> QED BY <2>1, <3>1, WrapType DEF TimeAt
  <2>3. Types' /\ Deadline' /\ Reads'
    BY <1>10, <2>2 DEF ReadSum, timer, IInv, Types, Deadline, Reads, Tval
  <2>4. Ticks'
    BY <1>10, SameTicks DEF ReadSum, timer, IInv, Types
  <2>5. LastRead'
    <3>1. Age >= 0 /\ Age = asked - epoch
      BY <1>10 DEF ReadSum, IInv, Types, LastRead, Age
    <3>2. PICK a \in Int : a = n - epoch
      BY DEF IInv, Types
    <3>3. a >= 0 /\ a <= now - epoch
      BY <3>1, <3>2 DEF IInv, Types
    <3>4. Age' = now - epoch
      BY <1>10 DEF ReadSum, IInv, Deadline, Age
    <3> QED BY <2>2, <3>2, <3>3, <3>4 DEF LastRead, Wrap
  <2> QED BY <2>3, <2>4, <2>5 DEF IInv
<1>11. CASE Stop
  <2>1. Types' /\ Deadline' /\ Reads'
    BY <1>11 DEF Stop, local, IInv, Types, Deadline, Reads, Tval
  <2>2. Ticks'
    BY <1>11, SameTicks DEF Stop, IInv, Types
  <2>3. LastRead'
    BY <1>11, SameRead DEF Stop, IInv, Types, Age
  <2> QED BY <2>1, <2>2, <2>3 DEF IInv
<1>12. CASE TmrStop
  <2>1. Types' /\ Deadline' /\ Reads'
    BY <1>12 DEF TmrStop, local, hist, IInv, Types, Deadline, Reads, Tval
  <2>2. Ticks'
    BY <1>12, SameTicks DEF TmrStop, hist, IInv, Types
  <2>3. LastRead'
    BY <1>12, SameRead DEF TmrStop, hist, IInv, Types, Age
  <2> QED BY <2>1, <2>2, <2>3 DEF IInv
<1>13. CASE TmrStart
  <2>1. Types' /\ Deadline' /\ Reads'
    BY <1>13 DEF TmrStart, local, IInv, Types, Deadline, Reads, Tval
  <2>2. Ticks'
    <3>1. PICK K \in Nat : K >= 1 /\ Cycle(K)
      BY DEF IInv, Ticks
    <3>2. cval' - epoch' = cval - epoch /\ epoch' >= epoch
      BY <1>13 DEF TmrStart, IInv, Types, Deadline
    <3>3. Cycle(K)'
      BY <1>13, <3>1, <3>2 DEF TmrStart, IInv, Types, Deadline, Cycle, Wrap
    <3> QED BY <3>1, <3>3 DEF Ticks
  <2>3. LastRead'
    <3>1. Age' = Age /\ Age \in Int
      BY <1>13 DEF TmrStart, IInv, Types, Deadline, Age
    <3> QED BY <1>13, <3>1, SameRead DEF TmrStart
  <2> QED BY <2>1, <2>2, <2>3 DEF IInv
<1>14. CASE UNCHANGED vars
  <2>1. Types' /\ Deadline' /\ Reads'
    BY <1>14 DEF vars, timer, local, hist, IInv, Types, Deadline, Reads, Tval, Stat, Wrap
  <2>2. Ticks'
    BY <1>14, SameTicks DEF vars, timer, hist, IInv, Types
  <2>3. LastRead'
    BY <1>14, SameRead DEF vars, hist, IInv, Types, Age
  <2> QED BY <2>1, <2>2, <2>3 DEF IInv
<1> QED
  BY <1>1, <1>2, <1>3, <1>4, <1>5, <1>6, <1>7, <1>8, <1>9, <1>10, <1>11, <1>12, <1>13, <1>14
  DEF Next

LEMMA IInvHolds == Spec => []IInv
<1> QED BY InitIInv, StepIInv, PTL DEF Spec

(****************************************************************************)
(* The properties                                                             *)
(****************************************************************************)

\* Every variable keeps its range: no deadline is set at the wrong side of zero,
\* and no product of the reading overflows.
THEOREM TypeCorrect == Spec => []TypeOK
<1> QED BY IInvHolds, IInvTypeOK, PTL

LEMMA IInvPeriod == IInv => TickPeriod
<1> SUFFICES ASSUME IInv, isr = "idle" PROVE Wrap(systim + Tick) = TimeAt(cval)
  BY DEF TickPeriod
<1> USE Widths
<1>1. PICK K \in Nat : K >= 1 /\ Cycle(K)
  BY DEF IInv, Ticks
<1>2. Wrap(systim + Tick) = Wrap((K - 1) * Tick + Tick)
  BY <1>1, WrapAdd DEF Cycle
<1>3. (K - 1) * Tick + Tick = K * Tick /\ K * Tick \in Int
  OBVIOUS
<1>4. ((K * Rate + 0) * Tick) \div Rate = K * Tick + (0 * Tick) \div Rate
  BY Microseconds
<1>5. (0 * Tick) \div Rate = 0 /\ cval - epoch = K * Rate + 0
  BY <1>1 DEF Cycle
<1> QED BY <1>2, <1>3, <1>4, <1>5 DEF TimeAt

\* However late the interrupt is taken, and however often, the deadline stays a
\* whole number of ticks after the epoch, all of them counted.
THEOREM PeriodKept == Spec => []TickPeriod
<1> QED BY IInvHolds, IInvPeriod, PTL

\* _kernel_micro_systim returns the time of an instant between call and return.
THEOREM TimeIsTrue == Spec => TimeTrue
<1>1. IInv => (ReadSum => \E n \in asked..now : told' = TimeAt(n))
  BY TimeRead
<1>2. IInv /\ [Next]_vars => [ReadSum => \E n \in asked..now : told' = TimeAt(n)]_vars
  BY <1>1
<1> QED BY <1>2, IInvHolds, PTL DEF Spec, TimeTrue

LEMMA TimeOrder == IInv /\ ReadSum /\ BeforeWrap => told <= told'
<1> SUFFICES ASSUME IInv, ReadSum, BeforeWrap PROVE told <= told'
  OBVIOUS
<1> USE Widths
<1>1. PICK n \in asked..now : told' = Wrap(((n - epoch) * Tick) \div Rate)
  BY TimeRead DEF TimeAt
<1>2. PICK a \in Int : a >= 0 /\ a <= asked - epoch /\ told = Wrap((a * Tick) \div Rate)
  BY DEF IInv, LastRead, Age, ReadSum
<1>3. PICK b \in Int : b = n - epoch
  BY DEF IInv, Types
<1>4. a <= b /\ b <= now - epoch
  BY <1>2, <1>3 DEF IInv, Types
<1>5. a * Tick \in Nat /\ b * Tick \in Nat /\ a * Tick <= b * Tick /\ b * Tick < Word * Rate
  BY <1>2, <1>4 DEF BeforeWrap, IInv, Types
<1>6. (a * Tick) \div Rate <= (b * Tick) \div Rate
  BY <1>5, QuotientMono
<1>7. (a * Tick) \div Rate \in 0..(Word - 1) /\ (b * Tick) \div Rate \in 0..(Word - 1)
  <2>1. \A t \in Nat : t < Word * Rate => t \div Rate \in 0..(Word - 1)
    OBVIOUS
  <2> QED BY <1>5, <2>1
<1> QED BY <1>1, <1>2, <1>3, <1>6, <1>7, WrapSmall

\* Of two times read one after the other the second is not the smaller, whatever
\* ticks, late interrupts and standby come between, until the UW wraps.
THEOREM TimeGoesForward == Spec => TimeForward
<1>1. IInv /\ [Next]_vars => [ReadSum /\ BeforeWrap => told <= told']_vars
  BY TimeOrder
<1> QED BY <1>1, IInvHolds, PTL DEF Spec, TimeForward

(****************************************************************************)
(* The start-up barrier                                                        *)
(****************************************************************************)

Exclusion == \A c \in Cores : place[c] \in {"load", "store", "unlock"} <=> flag = c

\* A core that still spins, or has started, has its bits in the word; a core that
\* has not come so far has not.
Arrived == {c \in Cores : place[c] \in {"unlock", "spin", "mark", "tasks"}}
WordExact == sync = Arrived

\* The word a core loaded is still the one it is about to store.
WordFresh == \A c \in Cores : place[c] = "store" => word[c] = sync

\* Once a core is past the loop, all have arrived.
Passed == (\E c \in Cores : place[c] \in {"mark", "tasks"}) => Arrived = Cores

\* Nobody is called before it has set up its tables.
ReadyOK == \A c \in Cores : ready[c] = 0 <=> place[c] = "boot"
PostedOK == \A c \in Cores : c \in posted => place[c] # "boot"

CoreInv == CoreTypeOK /\ Exclusion /\ WordExact /\ WordFresh /\ Passed /\ ReadyOK /\ PostedOK

USE DEF At, Goto

LEMMA CoreInvInit == CoreInit => CoreInv
BY CoresAssumption
DEF CoreInit, CoreInv, CoreTypeOK, Places, Exclusion, WordExact, Arrived, WordFresh, Passed, ReadyOK, PostedOK

LEMMA CoreInvStep == CoreInv /\ [CoreNext]_coreVars => CoreInv'
<1> SUFFICES ASSUME CoreInv, [CoreNext]_coreVars PROVE CoreInv'
  OBVIOUS
<1> USE CoresAssumption
<1>1. ASSUME NEW c \in Cores, SyscallInit(c) PROVE CoreInv'
  BY <1>1 DEF SyscallInit, CoreInv, CoreTypeOK, Places, Exclusion, WordExact, Arrived, WordFresh,
    Passed, ReadyOK, PostedOK
<1>2. ASSUME NEW c \in Cores, Lock(c) PROVE CoreInv'
  BY <1>2 DEF Lock, SpinFree, CoreInv, CoreTypeOK, Places, Exclusion, WordExact, Arrived, WordFresh,
    Passed, ReadyOK, PostedOK
<1>3. ASSUME NEW c \in Cores, Load(c) PROVE CoreInv'
  BY <1>3 DEF Load, CoreInv, CoreTypeOK, Places, Exclusion, WordExact, Arrived, WordFresh,
    Passed, ReadyOK, PostedOK
<1>4. ASSUME NEW c \in Cores, Store(c) PROVE CoreInv'
  BY <1>4 DEF Store, CoreInv, CoreTypeOK, Places, Exclusion, WordExact, Arrived, WordFresh,
    Passed, ReadyOK, PostedOK
<1>5. ASSUME NEW c \in Cores, Unlock(c) PROVE CoreInv'
  BY <1>5 DEF Unlock, CoreInv, CoreTypeOK, Places, Exclusion, WordExact, Arrived, WordFresh,
    Passed, ReadyOK, PostedOK
<1>6. ASSUME NEW c \in Cores, Spin(c) PROVE CoreInv'
  BY <1>6 DEF Spin, AllIn, CoreInv, CoreTypeOK, Places, Exclusion, WordExact, Arrived, WordFresh,
    Passed, ReadyOK, PostedOK
<1>7. ASSUME NEW c \in Cores, Mark(c) PROVE CoreInv'
  BY <1>7 DEF Mark, CoreInv, CoreTypeOK, Places, Exclusion, WordExact, Arrived, WordFresh,
    Passed, ReadyOK, PostedOK
<1>8. ASSUME NEW c \in Cores, Serve(c) PROVE CoreInv'
  BY <1>8 DEF Serve, CoreInv, CoreTypeOK, Exclusion, WordExact, Arrived, WordFresh,
    Passed, ReadyOK, PostedOK
<1>9. ASSUME NEW c \in Cores, NEW d \in Cores, Post(c, d) PROVE CoreInv'
  BY <1>9 DEF Post, CoreInv, CoreTypeOK, Exclusion, WordExact, Arrived, WordFresh,
    Passed, ReadyOK, PostedOK
<1>10. CASE UNCHANGED coreVars
  BY <1>10 DEF coreVars, CoreInv, CoreTypeOK, Exclusion, WordExact, Arrived, WordFresh, Passed,
    ReadyOK, PostedOK
<1> QED
  BY <1>1, <1>2, <1>3, <1>4, <1>5, <1>6, <1>7, <1>8, <1>9, <1>10 DEF CoreNext, Step

LEMMA CoreInvariance == CoreSpec => []CoreInv
BY CoreInvInit, CoreInvStep, PTL DEF CoreSpec

\* No core runs tasks before every core is set up for inter-core calls.
THEOREM Barrier == CoreSpec => []NoneStartsAlone
<1>1. CoreInv => NoneStartsAlone
  BY DEF CoreInv, Passed, Arrived, ReadyOK, NoneStartsAlone
<1> QED
  BY <1>1, CoreInvariance, PTL

\* No request of a started core is erased by the set-up of a late one.
THEOREM RequestsKept == CoreSpec => NoRequestErased
<1>1. CoreInv => (\A d \in Cores : At(d, "boot") /\ d \in posted => d \in posted')
  BY DEF CoreInv, PostedOK
<1> QED
  BY <1>1, CoreInvariance, PTL DEF NoRequestErased

=============================================================================
