------------------------------ MODULE DhcpcTask ------------------------------
(* The DHCP client task (sample_tsk_dhcpc.c) and a task that asks it to renew   *)
(* or to stop. The client waits in three ways: on its event flag, which a       *)
(* request sets; in dly_tsk, which only rel_wai ends early; and in the network   *)
(* library. A request looks at the client first and acts afterwards, and the     *)
(* client may have moved on in between. A step is what runs between two kernel   *)
(* calls. Time is counted in units that tell T1, T2 and the end of a lease apart. *)
EXTENDS Naturals

CONSTANTS
  T1, T2, Lease,   \* times of a finite lease
  Leases,          \* the leases the server grants: "finite", "infinite"
  Requests,        \* what is asked of the client: "renew", "stop"
  MaxRetry,        \* bound: longest wait before the next attempt, in units
  MaxDrops         \* bound: times the link goes down

ASSUME LeaseAssumption ==
  /\ {T1, T2, Lease, MaxRetry, MaxDrops} \subseteq Nat
  /\ T1 <= T2 /\ T2 <= Lease
  /\ Leases \subseteq {"finite", "infinite"}
  /\ Requests \subseteq {"renew", "stop"}

VARIABLES
  pc, loop,     \* where the client is, and in which of its two wait loops
  func,         \* dhcp_func
  addr,         \* dc.ipaddr is not 0: the address is in use
  lease,        \* dc.lease
  flg,          \* pattern of the event flag
  got,          \* the pattern twai_flg returned
  rem,          \* what is left of the wait on the flag
  since,        \* time since sec1
  age,          \* history: time since the lease was granted
  link, drops,  \* the link is up; times it went down
  req, seen,    \* the request being made; what ref_tsk showed
  stop          \* history: dhcpc_tsk_stop set its bit, and not in the one place
                \* where clr_flg wipes it out unseen

task == <<pc, loop, func, got, rem>>
net  == <<addr, lease>>
time == <<since, age>>
wire == <<link, drops>>
asks == <<req, seen, stop>>
vars == <<task, net, flg, time, wire, asks>>

Places == {"start", "link", "down", "downchk", "settle", "begin", "func", "arm",
           "twai", "wait", "tmout", "clr", "forever", "foreverchk", "expire", "exit"}

TypeOK ==
  /\ pc \in Places /\ loop \in {"bind", "lease"}
  /\ func \in {"bind", "reboot", "renew", "rebind", "none"}
  /\ addr \in BOOLEAN /\ lease \in Leases \cup {"none"}
  /\ flg \subseteq {"STOP", "DO"} /\ got \subseteq {"STOP", "DO"}
  /\ rem \in 0..(Lease + MaxRetry)
  /\ since \in 0..(Lease + 1) /\ age \in 0..(Lease + 1)
  /\ link \in BOOLEAN /\ drops \in 0..MaxDrops
  /\ req \in {"none", "renew", "stop", "rel"}
  /\ seen \in {"none", "flag", "other"} /\ stop \in BOOLEAN

\* A client that starts without an address waits for a random time first.
Init ==
  /\ addr \in BOOLEAN /\ lease = "none"
  /\ pc = IF addr THEN "link" ELSE "start"
  /\ loop = "bind" /\ func = "bind"
  /\ flg = {} /\ got = {} /\ rem = 0 /\ since = 0 /\ age = 0
  /\ link \in BOOLEAN /\ drops = 0
  /\ req = "none" /\ seen = "none" /\ stop = FALSE

At(place) == pc = place
Goto(place) == pc' = place

\* Inside a kernel call or the network library; between them it takes no time.
Delaying == pc \in {"start", "down", "settle", "forever"}
Waiting  == Delaying \/ pc \in {"wait", "func"}

(****************************************************************************)
(* Time and the link                                                          *)
(****************************************************************************)

Later(t) == IF t > Lease THEN t ELSE t + 1

\* A wait on the flag does not outlast its time.
Tick ==
  /\ Waiting /\ (At("wait") => rem > 0)
  /\ rem' = IF At("wait") THEN rem - 1 ELSE rem
  /\ since' = Later(since) /\ age' = Later(age)
  /\ UNCHANGED <<pc, loop, func, got, net, flg, wire, asks>>

LinkDown ==
  /\ link /\ drops < MaxDrops
  /\ link' = FALSE /\ drops' = drops + 1
  /\ UNCHANGED <<task, net, flg, time, asks>>

LinkUp ==
  /\ ~link
  /\ link' = TRUE
  /\ UNCHANGED <<task, net, flg, time, drops, asks>>

(****************************************************************************)
(* dhcpc_tsk: delays and the state of the link                                *)
(****************************************************************************)

\* Where a delay leads that has ended by itself, or by rel_wai.
Delayed  == [start |-> "link", down |-> "downchk", settle |-> "begin", forever |-> "foreverchk"]
Released == [start |-> "link", down |-> "settle", settle |-> "begin", forever |-> "link"]

DelayOver ==
  /\ Delaying
  /\ Goto(Delayed[pc])
  /\ UNCHANGED <<loop, func, got, rem, net, flg, time, wire, asks>>

CheckLink ==
  /\ \/ At("link") /\ Goto(IF link THEN "begin" ELSE "down")
     \/ At("downchk") /\ Goto(IF link THEN "settle" ELSE "down")
     \/ At("foreverchk") /\ Goto(IF link THEN "forever" ELSE "link")
  /\ UNCHANGED <<loop, func, got, rem, net, flg, time, wire, asks>>

(****************************************************************************)
(* dhcpc_tsk: attempts                                                        *)
(****************************************************************************)

Begin ==
  /\ At("begin")
  /\ func' = IF addr THEN "reboot" ELSE "bind"
  /\ loop' = "bind"
  /\ Goto("func")
  /\ UNCHANGED <<got, rem, net, flg, time, wire, asks>>

\* The server answers. A renewal does not change the kind of lease.
FuncOK ==
  /\ At("func") /\ link
  /\ addr' = TRUE /\ age' = 0
  /\ \/ /\ loop = "bind" /\ lease' \in Leases
        /\ \/ lease' = "infinite" /\ Goto("forever") /\ UNCHANGED <<loop, func>>
           \/ lease' = "finite" /\ Goto("arm") /\ loop' = "lease" /\ func' = "renew"
     \/ loop = "lease" /\ Goto("arm") /\ func' = "renew" /\ UNCHANGED <<loop, lease>>
  /\ UNCHANGED <<got, rem, flg, since, wire, asks>>

\* No answer, a refusal, or a wait in the library that rel_wai ended. How long
\* the next attempt in the first loop waits is any time up to MaxRetry.
FuncFail ==
  /\ At("func")
  /\ \/ loop = "bind" /\ func' = "bind" /\ rem' \in 0..MaxRetry /\ Goto("twai")
     \/ /\ loop = "lease" /\ Goto("arm") /\ UNCHANGED rem
        /\ func' = IF func = "rebind" THEN "none" ELSE "rebind"
  /\ UNCHANGED <<loop, got, net, flg, time, wire, asks>>

\* What is left until t.
Left(t) == IF t > since THEN t - since ELSE 0

\* (Seeded faults: the time since sec1 is not taken off; no wait in the last part.)
ArmWhole ==
  /\ At("arm")
  /\ since' = IF func = "renew" THEN 0 ELSE since
  /\ rem' = CASE func = "renew" -> T1 [] func = "rebind" -> T2 [] OTHER -> Lease
  /\ Goto("twai")
  /\ UNCHANGED <<loop, func, got, net, flg, age, wire, asks>>
ArmNoLast ==
  /\ At("arm")
  /\ since' = IF func = "renew" THEN 0 ELSE since
  /\ rem' = CASE func = "renew" -> T1 [] func = "rebind" -> Left(T2) [] OTHER -> 0
  /\ Goto("twai")
  /\ UNCHANGED <<loop, func, got, net, flg, age, wire, asks>>

\* How long to wait in the second loop.
Arm ==
  /\ At("arm")
  /\ since' = IF func = "renew" THEN 0 ELSE since
  /\ rem' = CASE func = "renew" -> T1 [] func = "rebind" -> Left(T2) [] OTHER -> Left(Lease)
  /\ Goto("twai")
  /\ UNCHANGED <<loop, func, got, net, flg, age, wire, asks>>

\* The lease ends: the address is given up.
Expire ==
  /\ At("expire")
  /\ addr' = FALSE /\ lease' = "none"
  /\ Goto("link")
  /\ UNCHANGED <<loop, func, got, rem, flg, time, wire, asks>>

(****************************************************************************)
(* dhcpc_tsk: wait_evt and what follows                                       *)
(****************************************************************************)

\* After a wait that was not ended by the link or by a stop request.
Resume == IF loop = "lease" /\ func = "none" THEN "expire" ELSE "func"

\* twai_flg is called: a bit is there, or the client waits, or polls (TMO_POL).
Twai ==
  /\ At("twai")
  /\ got' = flg
  /\ Goto(CASE flg # {} -> "clr" [] rem > 0 -> "wait" [] OTHER -> "tmout")
  /\ UNCHANGED <<loop, func, rem, net, flg, time, wire, asks>>

\* The wait consists of many short ones, with a look at the link after each.
WaitOver ==
  /\ At("wait")
  /\ \/ rem = 0 /\ Goto("tmout")
     \/ rem > 0 /\ ~link /\ Goto("link")
  /\ rem' = 0
  /\ UNCHANGED <<loop, func, got, net, flg, time, wire, asks>>

Timeout ==
  /\ At("tmout")
  /\ Goto(IF link THEN Resume ELSE "link")
  /\ UNCHANGED <<loop, func, got, rem, net, flg, time, wire, asks>>

\* clr_flg clears the whole pattern; then the bits that twai_flg saw are looked at.
\* (Seeded fault: the bits are taken from the flag afterwards.)
ClearBlind ==
  /\ At("clr")
  /\ flg' = {} /\ got' = {} /\ rem' = 0
  /\ Goto(Resume)
  /\ UNCHANGED <<loop, func, net, time, wire, asks>>
Clear ==
  /\ At("clr")
  /\ flg' = {} /\ got' = {} /\ rem' = 0
  /\ Goto(IF "STOP" \in got THEN "exit" ELSE Resume)
  /\ UNCHANGED <<loop, func, net, time, wire, asks>>

Client ==
  \/ DelayOver \/ CheckLink \/ Begin \/ FuncOK \/ FuncFail \/ Arm \/ Expire
  \/ Twai \/ WaitOver \/ Timeout \/ Clear

(****************************************************************************)
(* dhcpc_tsk_renew and dhcpc_tsk_stop, called by another task                 *)
(****************************************************************************)

\* ref_tsk. A client that has ended is left alone, and one that does not wait on
\* its flag is not asked to renew.
AskRenew ==
  /\ req = "none" /\ "renew" \in Requests /\ At("wait")
  /\ req' = "renew"
  /\ UNCHANGED <<task, net, flg, time, wire, seen, stop>>

AskStop ==
  /\ req = "none" /\ "stop" \in Requests /\ ~At("exit")
  /\ req' = "stop"
  /\ seen' = IF At("wait") THEN "flag" ELSE "other"
  /\ UNCHANGED <<task, net, flg, time, wire, stop>>

\* set_flg ends a wait on the flag.
SetFlg(bit) ==
  /\ flg' = flg \cup {bit}
  /\ IF At("wait") THEN got' = flg' /\ Goto("clr") ELSE UNCHANGED <<got, pc>>

SetDo ==
  /\ req = "renew"
  /\ SetFlg("DO")
  /\ req' = "none"
  /\ UNCHANGED <<loop, func, rem, net, time, wire, seen, stop>>

SetStop ==
  /\ req = "stop"
  /\ SetFlg("STOP")
  /\ req' = IF seen = "flag" THEN "none" ELSE "rel"
  /\ seen' = "none"
  /\ stop' = (stop \/ ~At("clr"))
  /\ UNCHANGED <<loop, func, rem, net, time, wire>>

\* rel_wai. (In the library it ends the attempt or not: FuncFail may come anyway.)
RelWai ==
  /\ req = "rel"
  /\ \/ Delaying /\ Goto(Released[pc])
     \/ At("wait") /\ Goto(Resume)
     \/ ~Delaying /\ ~At("wait") /\ UNCHANGED pc
  /\ rem' = IF At("wait") THEN 0 ELSE rem
  /\ req' = "none"
  /\ UNCHANGED <<loop, func, got, net, flg, time, wire, seen, stop>>

Acting == SetDo \/ SetStop \/ RelWai

Next ==
  \/ Tick \/ LinkDown \/ LinkUp
  \/ Client
  \/ AskRenew \/ AskStop \/ Acting

Spec == Init /\ [][Next]_vars

\* Time passes, the client and a request that is under way go on, and an unplugged
\* link is plugged in again. No server has to answer, nobody has to ask.
Fairness ==
  WF_vars(Tick) /\ WF_vars(Client) /\ WF_vars(Acting) /\ WF_vars(LinkUp)

FairSpec == Spec /\ Fairness

(****************************************************************************)
(* Properties                                                                 *)
(****************************************************************************)

\* A stop request ends the client, wherever the client is when the bit is set (in
\* its wait on the flag, in a delay, in the library or between two calls), wherever
\* it was when the request looked at it, and whatever renewals come in between.
\* Not so for a bit set between the end of twai_flg and clr_flg, which is wiped out
\* unseen, and for a client that sits in the loop of a lease without end.
StopObeyed == stop ~> At("exit") \/ At("forever")

\* In the loop of a finite lease (renew, rebind, last part) no wait is as long as to
\* outlast the lease, however long the attempts to renew and to rebind took. (Not so
\* in the first loop, where a client that lost its link and whose reboot failed waits
\* for its next attempt with the address it has, whatever the age of the lease.)
NoWaitBeyondLease == At("wait") /\ loop = "lease" => age + rem <= Lease

\* By the clock alone an address is never given up before its lease has ended; only
\* a request in the last part of the lease makes the client do that.
KeptToTheEnd ==
  [][~At("expire") /\ pc' = "expire" => age >= Lease \/ At("clr") \/ req = "rel"]_vars

=============================================================================
