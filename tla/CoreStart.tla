------------------------------ MODULE CoreStart ------------------------------
(* Start-up of a multi-core system (DDR_CortexA_MCORE.c). Each core registers   *)
(* for inter-core system calls, sets its bits in _kernel_sync_core under the    *)
(* spin lock ddr_mcore_flag, and spins until the word shows all cores. The     *)
(* load and the store of the |= are steps of their own, as are the stores to   *)
(* the ready bytes that system calls of other cores look at.                   *)
EXTENDS Naturals, FiniteSets

CONSTANTS Cores,   \* all CORE_NUM cores
          None     \* no core

ASSUME CoresAssumption == None \notin Cores

VARIABLES
  flag,       \* ddr_mcore_flag: the core that holds the spin lock
  sync,       \* _kernel_sync_core: the cores whose bits are set
  ready,      \* _kernel_mcore_ext.ready
  place,      \* where a core is
  word,       \* the value of _kernel_sync_core it loaded
  posted      \* cores with a request of another core in their tables

coreVars == <<flag, sync, ready, place, word, posted>>

Places == {"boot", "lock", "load", "store", "unlock", "spin", "mark", "tasks"}

CoreTypeOK ==
  /\ flag \in Cores \cup {None}
  /\ sync \subseteq Cores
  /\ ready \in [Cores -> 0..2]
  /\ place \in [Cores -> Places]
  /\ word \in [Cores -> SUBSET Cores]
  /\ posted \subseteq Cores

CoreInit ==
  /\ flag = None /\ sync = {} /\ posted = {}
  /\ ready = [c \in Cores |-> 0]
  /\ place = [c \in Cores |-> "boot"]
  /\ word = [c \in Cores |-> {}]

Goto(c, p) == place' = [place EXCEPT ![c] = p]
At(c, p) == place[c] = p

\* _ddr_mcore_syscall_init: the tables of the core are cleared, the interrupt of
\* inter-core calls is registered and enabled.
SyscallInit(c) ==
  /\ At(c, "boot")
  /\ posted' = posted \ {c}
  /\ ready' = [ready EXCEPT ![c] = 1]
  /\ Goto(c, "lock")
  /\ UNCHANGED <<flag, sync, word>>

\* (Empty lock: seeded fault.)
SpinFreeNever(c) == TRUE
SpinFree(c) == flag = None

Lock(c) ==
  /\ At(c, "lock") /\ SpinFree(c)
  /\ flag' = c
  /\ Goto(c, "load")
  /\ UNCHANGED <<sync, ready, word, posted>>

Load(c) ==
  /\ At(c, "load")
  /\ word' = [word EXCEPT ![c] = sync]
  /\ Goto(c, "store")
  /\ UNCHANGED <<flag, sync, ready, posted>>

Store(c) ==
  /\ At(c, "store")
  /\ sync' = word[c] \cup {c}
  /\ Goto(c, "unlock")
  /\ UNCHANGED <<flag, ready, word, posted>>

Unlock(c) ==
  /\ At(c, "unlock")
  /\ flag' = IF flag = c THEN None ELSE flag
  /\ Goto(c, "spin")
  /\ UNCHANGED <<sync, ready, word, posted>>

\* The loop ends when the word is MCORE_SYNC_WORD. (Seeded fault: a word that
\* does not wait for all cores.)
AllInAnyOther(c) == \E d \in Cores \ {c} : {c, d} \subseteq sync
AllIn(c) == sync = Cores

Spin(c) ==
  /\ At(c, "spin") /\ AllIn(c)
  /\ Goto(c, "mark")
  /\ UNCHANGED <<flag, sync, ready, word, posted>>

Mark(c) ==
  /\ At(c, "mark")
  /\ ready' = [ready EXCEPT ![c] = 2]
  /\ Goto(c, "tasks")
  /\ UNCHANGED <<flag, sync, word, posted>>

\* A core that runs tasks makes a system call on an object of core d: a request
\* in the tables of d, and the event that tells d (the kernel library).
Post(c, d) ==
  /\ At(c, "tasks") /\ c # d
  /\ posted' = posted \cup {d}
  /\ UNCHANGED <<flag, sync, ready, place, word>>

\* The interrupt routine of the library serves it.
Serve(d) ==
  /\ d \in posted /\ ready[d] # 0
  /\ posted' = posted \ {d}
  /\ UNCHANGED <<flag, sync, ready, place, word>>

Step(c) ==
  SyscallInit(c) \/ Lock(c) \/ Load(c) \/ Store(c) \/ Unlock(c) \/ Spin(c) \/ Mark(c)

CoreNext ==
  \/ \E c \in Cores : Step(c) \/ Serve(c)
  \/ \E c, d \in Cores : Post(c, d)

CoreSpec == CoreInit /\ [][CoreNext]_coreVars

\* Every core runs. A core takes the lock once, so that it is free in the end
\* for the one that still waits. Requests are served, none has to be made.
CoreFairness == \A c \in Cores : WF_coreVars(Step(c)) /\ WF_coreVars(Serve(c))
CoreFairSpec == CoreSpec /\ CoreFairness

(****************************************************************************)
(* Properties                                                                 *)
(****************************************************************************)

\* A core that runs tasks finds every other core set up for its system calls
\* (what _kernel_start_multi_task waits for).
NoneStartsAlone == \A c \in Cores : At(c, "tasks") => \A d \in Cores : ready[d] # 0

\* A request of a core that has started is never wiped out by the memset with
\* which a late core sets up its tables.
NoRequestErased == [][\A d \in Cores : At(d, "boot") /\ d \in posted => d \in posted']_coreVars

\* No update of _kernel_sync_core is lost: all cores get past the barrier.
AllStart == <>(\A c \in Cores : At(c, "tasks") /\ ready[c] = 2)

=============================================================================
