----------------------------- MODULE FileStore -----------------------------
(* What a file system with room for FileCnt files of FileLen bytes promises to *)
(* users who keep out of each other's files: a map from names to contents, a    *)
(* reading or writing position for each user, and answers that tell the truth.  *)
EXTENDS Integers, FiniteSets

CONSTANTS Names, Users, Data, FileCnt, FileLen, None, Sizes, Counts, Offsets, UWMax

VARIABLES store,   \* the contents of each file there is
          cur,     \* the open file of each user: name, position, end seen; or None
          ret      \* what the last call returned

vars == <<store, cur, ret>>

Exists(n) == n \in DOMAIN store
Empty == [k \in {} |-> 0]
SizeOf(n) == Cardinality(DOMAIN store[n])
With(n, c) == [m \in DOMAIN store \cup {n} |-> IF m = n THEN c ELSE store[m]]
Without(n) == [m \in DOMAIN store \ {n} |-> store[m]]
At(n, p, e) == [name |-> n, pos |-> p, ended |-> e]
Moved(u, p, e) == [cur EXCEPT ![u] = At(cur[u].name, p, e)]
Fail == [ok |-> FALSE]
Done == [ok |-> TRUE]

Init == store = [m \in {} |-> Empty] /\ cur = [u \in Users |-> None] /\ ret = Done

Open(u, n) ==
  /\ cur[u] = None
  /\ \/ ret' = Done /\ Exists(n) /\ cur' = [cur EXCEPT ![u] = At(n, 0, FALSE)]
     \/ ret' = Fail /\ ~Exists(n) /\ cur' = cur
  /\ UNCHANGED store

(* An existing file is emptied; a new one is refused only when the table is     *)
(* full.                                                                         *)
HasRoom(n) == Exists(n) \/ Cardinality(DOMAIN store) < FileCnt
Create(u, n) ==
  /\ cur[u] = None
  /\ \/ ret' = Done /\ HasRoom(n) /\ store' = With(n, Empty)
        /\ cur' = [cur EXCEPT ![u] = At(n, 0, FALSE)]
     \/ ret' = Fail /\ ~HasRoom(n) /\ UNCHANGED <<store, cur>>

(* As many whole elements as there are, at most cnt. Who asked for as much as    *)
(* there was, or more, has seen the end and gets nothing more.                   *)
Fits(size, k, cnt, room) == size * k <= room /\ (k < cnt => room < size * (k + 1))

Read(u, size, cnt) ==
  /\ cur[u] # None
  /\ LET f == cur[u]
         c == store[f.name]
         rest == SizeOf(f.name) - f.pos
     IN \E k \in 0..cnt :
          /\ rest >= 0 \/ f.ended
          /\ IF f.ended THEN k = 0 ELSE Fits(size, k, cnt, rest)
          /\ ret' = [n |-> k, data |-> [i \in 0..(size * k - 1) |-> c[f.pos + i]]]
          /\ cur' = Moved(u, f.pos + size * k, f.ended \/ rest <= size * cnt)
  /\ UNCHANGED store

(* Who reads behind the end of a file gets some bytes and a new position, and       *)
(* changes no file. No more is promised.                                             *)
ReadBehind(u, size, cnt) ==
  /\ cur[u] # None /\ ~cur[u].ended /\ SizeOf(cur[u].name) < cur[u].pos
  /\ \E k \in 0..cnt, p \in 0..UWMax, e \in BOOLEAN :
       /\ \E b \in [0..(size * k - 1) -> Data] : ret' = [n |-> k, data |-> b]
       /\ cur' = Moved(u, p, e)
  /\ UNCHANGED store

(* As many whole elements as there is room for are added at the end, where a      *)
(* writer always is.                                                              *)
Write(u, size, cnt) ==
  /\ cur[u] # None
  /\ \E k \in 0..cnt :
       /\ ret' = [n |-> k]
       /\ LET n == cur[u].name
              len == SizeOf(n)
          IN /\ IF cur[u].ended THEN k = 0 ELSE Fits(size, k, cnt, FileLen - len)
             /\ cur' = Moved(u, len + size * k, cur[u].ended)
             /\ \E d \in [0..(size * k - 1) -> Data] :
                  store' = With(n, [i \in 0..(len + size * k - 1) |->
                                      IF i < len THEN store[n][i] ELSE d[i - len]])

Seek(u, p) ==
  /\ cur[u] # None
  /\ \/ ret' = Done /\ ~cur[u].ended /\ cur' = Moved(u, p, FALSE)
     \/ ret' = Fail /\ cur[u].ended /\ cur' = cur
  /\ UNCHANGED store

Ended(u) == cur[u] # None /\ ret' = [ok |-> cur[u].ended] /\ UNCHANGED <<store, cur>>

Close(u) ==
  /\ cur[u] # None /\ ret' = Done
  /\ cur' = [cur EXCEPT ![u] = None]
  /\ UNCHANGED store

Remove(n) ==
  /\ \/ ret' = Done /\ Exists(n) /\ store' = Without(n)
     \/ ret' = Fail /\ ~Exists(n) /\ store' = store
  /\ UNCHANGED cur

Rename(a, b) ==
  /\ \/ /\ ret' = Done /\ Exists(a) /\ ~Exists(b)
        /\ store' = [m \in (DOMAIN store \ {a}) \cup {b} |->
                       IF m = b THEN store[a] ELSE store[m]]
     \/ ret' = Fail /\ (~Exists(a) \/ Exists(b)) /\ store' = store
  /\ UNCHANGED cur

Size(n) ==
  /\ \/ Exists(n) /\ ret' = [n |-> SizeOf(n)]
     \/ ~Exists(n) /\ ret' = Fail
  /\ UNCHANGED <<store, cur>>

(* A listing names files there are; it may be refused and it ends.               *)
List ==
  /\ ret' \in {[entry |-> n] : n \in DOMAIN store \cup {None}} \cup {Done, Fail}
  /\ UNCHANGED <<store, cur>>

Next ==
  \/ \E u \in Users :
       \/ \E n \in Names : Open(u, n) \/ Create(u, n)
       \/ \E size \in Sizes, cnt \in Counts :
            Read(u, size, cnt) \/ ReadBehind(u, size, cnt) \/ Write(u, size, cnt)
       \/ \E p \in Offsets : Seek(u, p)
       \/ Ended(u) \/ Close(u)
  \/ \E n \in Names : Remove(n) \/ Size(n)
  \/ \E a, b \in Names : Rename(a, b)
  \/ List

Spec == Init /\ [][Next]_vars

=============================================================================
