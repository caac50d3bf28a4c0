-------------------------- MODULE DhcpcTask_proofs --------------------------
(* For every lease and every request: the client is typed, its wait for the next *)
(* step of a lease does not outlast the lease, and it does not give its address  *)
(* up earlier.                                                                   *)
EXTENDS DhcpcTask, TLAPS

\* In the second loop the time since sec1 is the age of the lease.
InLoop == loop = "lease" /\ pc \in {"twai", "wait", "tmout", "clr", "func", "arm"}

Synchronous ==
  InLoop => IF At("arm") /\ func = "renew" THEN age = 0 ELSE since = age

\* The wait ends no later than the lease, and in its last part no earlier.
WaitBounded ==
  loop = "lease" =>
    /\ (At("twai") /\ rem > 0) \/ At("wait") => age + rem <= Lease
    /\ pc \in {"twai", "wait"} /\ func = "none" => age + rem >= Lease
    /\ At("tmout") /\ func = "none" => age >= Lease

IInv == TypeOK /\ Synchronous /\ WaitBounded

LEMMA Parameters ==
  /\ T1 \in Nat /\ T2 \in Nat /\ Lease \in Nat /\ MaxRetry \in Nat /\ MaxDrops \in Nat
  /\ T1 <= T2 /\ T2 <= Lease
  BY LeaseAssumption

LEMMA InitIInv == Init => IInv
<1> SUFFICES ASSUME Init PROVE IInv
  OBVIOUS
<1>1. pc \in {"link", "start"} /\ loop = "bind" /\ func = "bind"
  BY DEF Init
<1>2. /\ rem \in 0..(Lease + MaxRetry) /\ since \in 0..(Lease + 1)
      /\ age \in 0..(Lease + 1) /\ drops \in 0..MaxDrops
  BY Parameters DEF Init
<1>3. /\ addr \in BOOLEAN /\ link \in BOOLEAN
      /\ lease = "none" /\ flg = {} /\ got = {} /\ req = "none" /\ seen = "none"
      /\ stop = FALSE
  BY DEF Init
<1>4. TypeOK
  BY <1>1, <1>2, <1>3 DEF TypeOK, Places
<1> QED
  BY <1>1, <1>4 DEF IInv, Synchronous, InLoop, WaitBounded, At

\* Time passes for both clocks alike.
LEMMA TickStep == IInv /\ Tick => IInv'
<1> SUFFICES ASSUME IInv, Tick PROVE IInv'
  OBVIOUS
<1> USE Parameters DEF IInv, Tick, At
<1>1. UNCHANGED <<pc, loop, func, got, addr, lease, flg, link, drops, req, seen, stop>>
  BY DEF net, wire, asks
<1>2. /\ since' \in 0..(Lease + 1) /\ age' \in 0..(Lease + 1)
      /\ since = age => since' = age'
      /\ age <= Lease => age' = age + 1
      /\ age > Lease => age' = age
  BY DEF TypeOK, Later
<1>3. rem' \in 0..(Lease + MaxRetry) /\ (pc = "wait" => rem' = rem - 1 /\ rem > 0)
      /\ (pc # "wait" => rem' = rem)
  BY DEF TypeOK
<1>4. TypeOK'
  BY <1>1, <1>2, <1>3 DEF TypeOK
<1>5. Synchronous'
  BY <1>1, <1>2 DEF Synchronous, InLoop, Waiting, Delaying
<1>6. WaitBounded'
  BY <1>1, <1>2, <1>3 DEF WaitBounded, TypeOK, Waiting, Delaying
<1> QED
  BY <1>4, <1>5, <1>6

\* Steps between two waits.
LEMMA MoveStep ==
  IInv /\ (DelayOver \/ CheckLink \/ Begin \/ FuncOK \/ FuncFail \/ Expire) => IInv'
<1> SUFFICES ASSUME IInv, DelayOver \/ CheckLink \/ Begin \/ FuncOK \/ FuncFail \/ Expire
             PROVE IInv'
  OBVIOUS
<1> USE Parameters DEF IInv, At, Goto, net, time, wire, asks
<1>1. CASE DelayOver
  <2>1. pc' \in {"link", "downchk", "begin", "foreverchk"}
    BY <1>1 DEF DelayOver, Delaying, Delayed
  <2> QED
    BY <1>1, <2>1 DEF DelayOver, TypeOK, Places, Synchronous, InLoop, WaitBounded
<1>2. CASE CheckLink
  <2>1. pc' \in {"begin", "down", "settle", "forever", "link"}
    BY <1>2 DEF CheckLink
  <2> QED
    BY <1>2, <2>1 DEF CheckLink, TypeOK, Places, Synchronous, InLoop, WaitBounded
<1>3. CASE Begin
  BY <1>3 DEF Begin, TypeOK, Places, Synchronous, InLoop, WaitBounded
<1>4. CASE FuncOK
  BY <1>4 DEF FuncOK, TypeOK, Places, Synchronous, InLoop, WaitBounded
<1>5. CASE FuncFail
  BY <1>5 DEF FuncFail, TypeOK, Places, Synchronous, InLoop, WaitBounded
<1>6. CASE Expire
  BY <1>6 DEF Expire, TypeOK, Places, Synchronous, InLoop, WaitBounded
<1> QED
  BY <1>1, <1>2, <1>3, <1>4, <1>5, <1>6

\* The length of a wait is computed.
LEMMA ArmStep == IInv /\ Arm => IInv'
<1> SUFFICES ASSUME IInv, Arm PROVE IInv'
  OBVIOUS
<1> USE Parameters DEF IInv, Arm, At, Goto, net, wire, asks
<1>1. CASE func = "renew"
  BY <1>1 DEF TypeOK, Places, Synchronous, InLoop, WaitBounded
<1>2. CASE func = "rebind"
  BY <1>2 DEF Left, TypeOK, Places, Synchronous, InLoop, WaitBounded
<1>3. CASE func \notin {"renew", "rebind"}
  BY <1>3 DEF Left, TypeOK, Places, Synchronous, InLoop, WaitBounded
<1> QED
  BY <1>1, <1>2, <1>3

\* The wait on the flag, and what ends it.
LEMMA WaitStep ==
  IInv /\ (Twai \/ WaitOver \/ Timeout \/ Clear) => IInv'
<1> SUFFICES ASSUME IInv, Twai \/ WaitOver \/ Timeout \/ Clear PROVE IInv'
  OBVIOUS
<1> USE Parameters DEF IInv, At, Goto, net, time, wire, asks
<1>1. CASE Twai
  BY <1>1 DEF Twai, TypeOK, Places, Synchronous, InLoop, WaitBounded
<1>2. CASE WaitOver
  BY <1>2 DEF WaitOver, TypeOK, Places, Synchronous, InLoop, WaitBounded
<1>3. CASE Timeout
  BY <1>3 DEF Timeout, Resume, TypeOK, Places, Synchronous, InLoop, WaitBounded
<1>4. CASE Clear
  BY <1>4 DEF Clear, Resume, TypeOK, Places, Synchronous, InLoop, WaitBounded
<1> QED
  BY <1>1, <1>2, <1>3, <1>4

\* A request: set_flg and rel_wai may end a wait of the client.
LEMMA AskStep ==
  IInv /\ (AskRenew \/ AskStop \/ SetDo \/ SetStop \/ RelWai) => IInv'
<1> SUFFICES ASSUME IInv, AskRenew \/ AskStop \/ SetDo \/ SetStop \/ RelWai
             PROVE IInv'
  OBVIOUS
<1> USE Parameters DEF IInv, At, Goto, task, net, time, wire
<1>1. CASE AskRenew \/ AskStop
  BY <1>1 DEF AskRenew, AskStop, TypeOK, Synchronous, InLoop, WaitBounded
<1>2. CASE SetDo \/ SetStop
  <2>1. /\ \/ pc = "wait" /\ pc' = "clr" /\ got' = flg'
           \/ pc # "wait" /\ pc' = pc /\ got' = got
        /\ UNCHANGED <<loop, func, rem, net, time, wire>>
    BY <1>2 DEF SetDo, SetStop, SetFlg
  <2>2. flg' \in SUBSET {"STOP", "DO"}
    BY <1>2 DEF SetDo, SetStop, SetFlg, TypeOK
  <2>3. /\ req' \in {"none", "rel"} /\ seen' \in {"none", "flag", "other"}
        /\ stop' \in BOOLEAN
    BY <1>2 DEF SetDo, SetStop, TypeOK
  <2>4. got' \in SUBSET {"STOP", "DO"} /\ pc' \in Places
    BY <2>1, <2>2 DEF TypeOK, Places
  <2>5. TypeOK'
    BY <2>1, <2>2, <2>3, <2>4 DEF TypeOK
  <2>6. Synchronous'
    BY <2>1 DEF Synchronous, InLoop
  <2>7. WaitBounded'
    BY <2>1 DEF WaitBounded
  <2> QED
    BY <2>5, <2>6, <2>7
<1>3. CASE RelWai
  <2>1. \/ Delaying /\ pc' \in {"link", "settle", "begin"}
        \/ pc = "wait" /\ pc' \in {"func", "expire"}
        \/ pc' = pc /\ pc # "wait"
    BY <1>3 DEF RelWai, Delaying, Released, Resume
  <2>2. rem' = IF pc = "wait" THEN 0 ELSE rem
    BY <1>3 DEF RelWai
  <2>3. UNCHANGED <<loop, func, got, net, flg, time, wire, seen, stop>> /\ req' = "none"
    BY <1>3 DEF RelWai
  <2>4. TypeOK'
    BY <2>1, <2>2, <2>3 DEF TypeOK, Places
  <2>5. Synchronous'
    BY <2>1, <2>2, <2>3 DEF Delaying, Synchronous, InLoop
  <2>6. WaitBounded'
    BY <2>1, <2>2, <2>3 DEF WaitBounded
  <2> QED
    BY <2>4, <2>5, <2>6
<1> QED
  BY <1>1, <1>2, <1>3

THEOREM Invariance == Spec => []IInv
<1>1. IInv /\ [Next]_vars => IInv'
  <2> SUFFICES ASSUME IInv, [Next]_vars PROVE IInv'
    OBVIOUS
  <2>1. CASE Tick
    BY <2>1, TickStep
  <2>2. CASE LinkDown \/ LinkUp
    <3>1. UNCHANGED <<task, net, flg, time, asks>> /\ link' \in BOOLEAN
      BY <2>2 DEF LinkDown, LinkUp
    <3>2. drops' \in 0..MaxDrops
      BY <2>2, Parameters DEF LinkDown, LinkUp, IInv, TypeOK
    <3> QED
      BY <3>1, <3>2
      DEF IInv, TypeOK, Synchronous, InLoop, WaitBounded, At, task, net, time, asks
  <2>3. CASE Client
    BY <2>3, MoveStep, ArmStep, WaitStep DEF Client
  <2>4. CASE AskRenew \/ AskStop \/ Acting
    BY <2>4, AskStep DEF Acting
  <2>5. CASE UNCHANGED vars
    BY <2>5
    DEF IInv, TypeOK, Synchronous, InLoop, WaitBounded, At, vars, task, net, time, wire, asks
  <2> QED
    BY <2>1, <2>2, <2>3, <2>4, <2>5 DEF Next
<1> QED
  BY InitIInv, <1>1, PTL DEF Spec

\* TypeOK: no difference of times wraps below zero.
THEOREM TypeCorrect == Spec => []TypeOK
  BY Invariance, PTL DEF IInv

\* NoWaitBeyondLease: in the loop of a finite lease, however long renewing and
\* rebinding took, the wait for the next step ends with the lease at the latest.
THEOREM WaitsEndInTime == Spec => []NoWaitBeyondLease
<1>1. IInv => NoWaitBeyondLease
  BY DEF IInv, WaitBounded, NoWaitBeyondLease
<1> QED
  BY <1>1, Invariance, PTL

\* KeptToTheEnd: the clock alone does not end a lease early.
THEOREM AddressKept == Spec => KeptToTheEnd
<1>1. IInv /\ [Next]_vars =>
        [~At("expire") /\ pc' = "expire" => age >= Lease \/ At("clr") \/ req = "rel"]_vars
  <2> SUFFICES ASSUME IInv, Next, pc # "expire", pc' = "expire"
               PROVE age >= Lease \/ pc = "clr" \/ req = "rel"
    BY DEF At
  <2> USE DEF At, Goto
  <2>1. CASE Timeout
    BY <2>1 DEF Timeout, Resume, IInv, WaitBounded
  <2>2. CASE Clear \/ RelWai
    BY <2>2 DEF Clear, RelWai
  <2>3. CASE DelayOver
    BY <2>3 DEF DelayOver, Delaying, Delayed
  <2>4. CASE CheckLink \/ Begin \/ FuncOK \/ FuncFail \/ Arm \/ Expire \/ WaitOver
    <3>1. pc' \in {"begin", "down", "settle", "forever", "link", "func", "arm", "twai", "tmout"}
      BY <2>2, <2>4 DEF CheckLink, Begin, FuncOK, FuncFail, Arm, Expire, WaitOver
    <3> QED
      BY <3>1
  <2>5. CASE Twai
    <3>1. pc' \in {"clr", "wait", "tmout"}
      BY <2>5 DEF Twai
    <3> QED
      BY <3>1
  <2>6. CASE Tick \/ LinkDown \/ LinkUp \/ AskRenew \/ AskStop \/ SetDo \/ SetStop
    <3>1. pc' = pc \/ pc' = "clr"
      BY <2>6 DEF Tick, LinkDown, LinkUp, AskRenew, AskStop, SetDo, SetStop, SetFlg, task
    <3> QED
      BY <3>1
  <2> QED
    BY <2>1, <2>2, <2>3, <2>4, <2>5, <2>6 DEF Next, Client, Acting
<1> QED
  BY <1>1, Invariance, PTL DEF Spec, KeptToTheEnd

=============================================================================
