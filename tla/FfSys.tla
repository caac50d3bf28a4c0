------------------------------- MODULE FfSys -------------------------------
(* The RAM file system of the network samples (src/Network/sample/ffsys.c): a *)
(* table of files, found by name, and one directory cursor. The sample has one  *)
(* FTP session, so that a call is one step; between two calls of one user       *)
(* others may come. What callers keep to is said at NotOpen.                      *)
EXTENDS Integers, FiniteSets

CONSTANTS Names,    \* names of files, those that paths lead to
          Refused,  \* names that rename gives a file for a path that fopen refuses
          Offsets,  \* arguments of fseek, as UW
          UWMax,    \* largest value of a UW
          Users,    \* those who hold one FILE* each
          Data,     \* values of a byte
          FileCnt,  \* CFG_FFS_FILE_CNT
          FileLen,  \* CFG_FFS_FILE_LEN
          None,     \* the null pointer
          Sizes, Counts  \* arguments of fread and fwrite

ASSUME SizeAssumption ==
  /\ FileCnt \in Nat \ {0} /\ FileLen \in Nat
  /\ Sizes \subseteq Nat \ {0} /\ Sizes # {}
  /\ Counts \subseteq Nat \ {0} /\ Counts # {}
  /\ Data # {} /\ None \notin Names \cup Refused /\ None \notin 0..(FileCnt - 1)
  /\ UWMax \in Nat /\ FileLen <= UWMax /\ Offsets \subseteq 0..UWMax
  /\ \A size \in Sizes, n \in Counts : size * n <= UWMax

ASSUME NoneAssumption ==
  None \notin [name : Names \cup Refused, pos : 0..UWMax, ended : BOOLEAN]

VARIABLES ffs_tbl,      \* the file table
          hnd,          \* the slot each user has open (FILE pointer), or None
          mode,         \* what each user opened it for
          ffs_dir_cnt,  \* open directories
          dirEntId,     \* where readdir goes on (ffs_dir_ent_id)
          ret,          \* what the last call returned
          stayed, shown \* history: files that exist since opendir; names listed

dirVars == <<ffs_dir_cnt, dirEntId, shown>>
vars == <<ffs_tbl, hnd, mode, ret, stayed, dirVars>>

Slots == 0..(FileCnt - 1)
Lengths == 0..FileLen
AnyData == CHOOSE d \in Data : TRUE
Titles == Names \cup Refused
File == [sts : {"none", "opn", "cls"}, eof : BOOLEAN, name : Titles,
         len : Lengths, pos : 0..UWMax, buf : [0..(FileLen - 1) -> Data]]

(* Sums and differences of two UWs.                                              *)
Sum(a, b)  == IF a + b > UWMax THEN a + b - (UWMax + 1) ELSE a + b
Diff(a, b) == IF a < b THEN a - b + (UWMax + 1) ELSE a - b

Fail == [ok |-> FALSE]
Done == [ok |-> TRUE]

(* Searching the table: the first file of that name, the last free slot.         *)
Used == {s \in Slots : ffs_tbl[s].sts # "none"}
Named(n) == {s \in Used : ffs_tbl[s].name = n}
(* (Seeded fault: the search goes on after a match.)                                *)
FirstNoBreak(S) == CHOOSE s \in S : \A t \in S : s >= t

First(S) == CHOOSE s \in S : \A t \in S : s <= t
LastOf(S) == CHOOSE s \in S : \A t \in S : s >= t

(* (Seeded fault: opening leaves the position.)                                      *)
ReopenedHere(f) == [f EXCEPT !.sts = "opn", !.eof = FALSE]

Reopened(f) == [f EXCEPT !.sts = "opn", !.eof = FALSE, !.pos = 0]
Closed(f) == [f EXCEPT !.sts = "cls", !.eof = FALSE]

(* What callers keep to: a FILE* is used from fopen to fclose; nobody opens,       *)
(* removes, renames or asks about a file that is open; only who opened it for      *)
(* writing writes, and who writes does not move the position.                      *)
NotOpen(n) == \A u \in Users : hnd[u] # None => ffs_tbl[hnd[u]].name # n

Init ==
  /\ \E n \in Names : ffs_tbl =
       [s \in Slots |-> [sts |-> "none", eof |-> FALSE, name |-> n, len |-> 0,
                         pos |-> 0, buf |-> [i \in 0..(FileLen - 1) |-> AnyData]]]
  /\ hnd = [u \in Users |-> None] /\ mode = [u \in Users |-> "r"]
  /\ ffs_dir_cnt = 0 /\ dirEntId = 0
  /\ ret = Done /\ stayed = {} /\ shown = {}

(* ---- files ---- *)

Hold(u, s, m, f) ==
  /\ ffs_tbl' = [ffs_tbl EXCEPT ![s] = Reopened(f)]
  /\ hnd' = [hnd EXCEPT ![u] = s] /\ mode' = [mode EXCEPT ![u] = m]
  /\ ret' = Done

FopenRead(u, n) ==
  /\ hnd[u] = None /\ NotOpen(n) /\ Named(n) # {}
  /\ LET s == First(Named(n)) IN Hold(u, s, "r", ffs_tbl[s])
  /\ UNCHANGED <<stayed, dirVars>>

FopenWrite(u, n) ==
  /\ hnd[u] = None /\ NotOpen(n)
  /\ Named(n) # {} \/ Slots \ Used # {}
  /\ LET s == IF Named(n) # {} THEN First(Named(n)) ELSE LastOf(Slots \ Used)
     IN Hold(u, s, "w", [ffs_tbl[s] EXCEPT !.name = n, !.len = 0])
  /\ UNCHANGED <<stayed, dirVars>>

FopenFail(u, n, m) ==
  /\ hnd[u] = None /\ NotOpen(n) /\ Named(n) = {}
  /\ m = "w" => Used = Slots
  /\ ret' = Fail
  /\ UNCHANGED <<ffs_tbl, hnd, mode, stayed, dirVars>>

Using(u, f) == hnd[u] # None /\ f = ffs_tbl[hnd[u]]
Ready(f) == f.sts = "opn" /\ ~f.eof
Put(u, f) ==
  /\ ffs_tbl' = [ffs_tbl EXCEPT ![hnd[u]] = f]
  /\ UNCHANGED <<hnd, mode, stayed, dirVars>>

(* (Seeded fault: what is read comes from the start of the buffer.)                  *)
BytesFromStart(f, len) ==
  {b \in [0..(len - 1) -> Data] : \A i \in 0..(len - 1) : i < FileLen => b[i] = f.buf[i]}

(* What memcpy fetches from fp->buf + fp->pos; outside the buffer it may be anything. *)
Bytes(f, len) ==
  {b \in [0..(len - 1) -> Data] :
     \A i \in 0..(len - 1) : Sum(f.pos, i) < FileLen => b[i] = f.buf[Sum(f.pos, i)]}

(* Asking for all that is left sets the end marks, also when all was delivered. When *)
(* the position lies behind the end, what is left is a very large number.            *)
Fread(u, size, n) ==
  \E f \in {ffs_tbl[s] : s \in Slots} :
    /\ Using(u, f) /\ Ready(f)
    /\ LET left == Diff(f.len, f.pos)
           end == left <= size * n
           cnt == IF end THEN left \div size ELSE n
       IN /\ Put(u, [f EXCEPT !.pos = Sum(@, size * cnt), !.eof = end])
          /\ \E b \in Bytes(f, size * cnt) : ret' = [n |-> cnt, data |-> b]

(* After the end, or on a handle that is no longer open, fread returns 0.        *)
FreadNothing(u) ==
  \E f \in {ffs_tbl[s] : s \in Slots} :
    /\ Using(u, f) /\ ~Ready(f)
    /\ \E b \in Bytes(f, 0) : ret' = [n |-> 0, data |-> b]
    /\ UNCHANGED <<ffs_tbl, hnd, mode, stayed, dirVars>>

Fwrite(u, size, n) ==
  \E f \in {ffs_tbl[s] : s \in Slots}, d \in [0..(size * n - 1) -> Data] :
    /\ mode[u] = "w" /\ Using(u, f) /\ Ready(f)
    /\ LET room == FileLen - f.len
           cnt == IF room > size * n THEN n ELSE room \div size
           len == size * cnt
       IN /\ Put(u, [f EXCEPT !.pos = Sum(@, len), !.len = @ + len,
                     !.buf = [i \in 0..(FileLen - 1) |->
                                IF i \in f.pos..(f.pos + len - 1) THEN d[i - f.pos]
                                ELSE f.buf[i]]])
          /\ ret' = [n |-> cnt]

FwriteNothing(u) ==
  \E f \in {ffs_tbl[s] : s \in Slots} :
    /\ mode[u] = "w" /\ Using(u, f) /\ ~Ready(f)
    /\ ret' = [n |-> 0]
    /\ UNCHANGED <<ffs_tbl, hnd, mode, stayed, dirVars>>

(* Any offset is taken, one behind the end of the file too.                       *)
Fseek(u, offset) ==
  \E f \in {ffs_tbl[s] : s \in Slots} :
    /\ mode[u] = "r" /\ Using(u, f)
    /\ IF Ready(f) THEN Put(u, [f EXCEPT !.pos = offset]) /\ ret' = Done
       ELSE Put(u, f) /\ ret' = Fail

Feof(u) ==
  /\ hnd[u] # None
  /\ ret' = [ok |-> ffs_tbl[hnd[u]].eof]
  /\ UNCHANGED <<ffs_tbl, hnd, mode, stayed, dirVars>>

Fclose(u) ==
  /\ hnd[u] # None
  /\ ffs_tbl' = [ffs_tbl EXCEPT ![hnd[u]] = Closed(@)]
  /\ hnd' = [hnd EXCEPT ![u] = None] /\ mode' = [mode EXCEPT ![u] = "r"]
  /\ ret' = Done
  /\ UNCHANGED <<stayed, dirVars>>

(* ---- names ---- *)

(* remove, rename and stat open the file to find it.                              *)
Remove(n) ==
  /\ NotOpen(n) /\ Named(n) # {}
  /\ ffs_tbl' = [ffs_tbl EXCEPT ![First(Named(n))] = [Reopened(@) EXCEPT !.sts = "none"]]
  /\ stayed' = stayed \ {n}
  /\ ret' = Done
  /\ UNCHANGED <<hnd, mode, dirVars>>

(* When the new name exists its file is closed again.                             *)
RenameTaken(old, new) ==
  /\ NotOpen(old) /\ NotOpen(new) /\ Named(new) # {}
  /\ ffs_tbl' = [ffs_tbl EXCEPT ![First(Named(new))] = Closed(Reopened(@))]
  /\ ret' = Fail
  /\ UNCHANGED <<hnd, mode, stayed, dirVars>>

Found(n) == NotOpen(n) /\ Named(n) # {}

(* A path too long for a name is noticed when the old file has been found.          *)
RenameTooLong(old) ==
  /\ Found(old)
  /\ ffs_tbl' = [ffs_tbl EXCEPT ![First(Named(old))] = Closed(Reopened(@))]
  /\ ret' = Fail
  /\ UNCHANGED <<hnd, mode, stayed, dirVars>>

(* (Seeded fault: the new name is not looked for.)                                   *)
RenameBlind(old, new) ==
  /\ Found(old)
  /\ ffs_tbl' = [ffs_tbl EXCEPT ![First(Named(old))] =
                   [Closed(Reopened(@)) EXCEPT !.name = new]]
  /\ stayed' = stayed \ {old}
  /\ ret' = Done
  /\ UNCHANGED <<hnd, mode, dirVars>>

(* The new name is free when fopen does not find it. It never finds a path that it    *)
(* refuses (another drive, under 4 characters), and what follows the third character   *)
(* becomes the name: the empty name, or the name of a file that is there.              *)
Rename(old, new) ==
  /\ Found(old) /\ (Named(new) = {} \/ new \in Refused)
  /\ ffs_tbl' = [ffs_tbl EXCEPT ![First(Named(old))] =
                   [Closed(Reopened(@)) EXCEPT !.name = new]]
  /\ stayed' = stayed \ {old}
  /\ ret' = Done
  /\ UNCHANGED <<hnd, mode, dirVars>>

(* stat leaves the file it asked about open, at its start.                        *)
Stat(n) ==
  /\ NotOpen(n) /\ Named(n) # {}
  /\ LET s == First(Named(n))
     IN ffs_tbl' = [ffs_tbl EXCEPT ![s] = Reopened(@)] /\ ret' = [n |-> ffs_tbl[s].len]
  /\ UNCHANGED <<hnd, mode, stayed, dirVars>>

NotFound(n) ==
  /\ Named(n) = {}
  /\ ret' = Fail
  /\ UNCHANGED <<ffs_tbl, hnd, mode, stayed, dirVars>>

(* ---- the directory ---- *)

FileVars == <<ffs_tbl, hnd, mode>>

Opendir ==
  /\ IF ffs_dir_cnt > 0 THEN ret' = Fail /\ UNCHANGED <<stayed, dirVars>>
     ELSE /\ ffs_dir_cnt' = 1 /\ dirEntId' = 0
          /\ stayed' = {ffs_tbl[s].name : s \in Used} /\ shown' = {}
          /\ ret' = Done
  /\ UNCHANGED FileVars

Readdir ==
  /\ ffs_dir_cnt = 1
  /\ LET rest == {s \in Used : s >= dirEntId}
     IN IF rest = {} THEN ret' = [entry |-> None] /\ UNCHANGED <<dirEntId, shown>>
        ELSE LET s == First(rest) IN
             /\ ret' = [entry |-> ffs_tbl[s].name]
             /\ dirEntId' = s + 1
             /\ shown' = shown \cup {ffs_tbl[s].name}
  /\ UNCHANGED <<ffs_dir_cnt, stayed, FileVars>>

Closedir ==
  /\ ffs_dir_cnt' = 0 /\ ret' = Done
  /\ stayed' = {} /\ shown' = {}
  /\ UNCHANGED <<dirEntId, FileVars>>

UserStep(u) ==
  \/ \E n \in Names : \/ FopenRead(u, n) \/ FopenWrite(u, n)
                      \/ \E m \in {"r", "w"} : FopenFail(u, n, m)
  \/ \E size \in Sizes, n \in Counts : Fread(u, size, n) \/ Fwrite(u, size, n)
  \/ FreadNothing(u) \/ FwriteNothing(u) \/ Feof(u) \/ Fclose(u)
  \/ \E offset \in Offsets : Fseek(u, offset)

Next ==
  \/ \E u \in Users : UserStep(u)
  \/ \E n \in Names : Remove(n) \/ Stat(n) \/ NotFound(n)
  \/ \E old, new \in Names : RenameTaken(old, new)
  \/ \E old \in Names : RenameTooLong(old) \/ \E new \in Titles : Rename(old, new)
  \/ Opendir \/ Readdir \/ Closedir

Spec == Init /\ [][Next]_vars

(* ---- properties ---- *)

Typed ==
  /\ ffs_tbl \in [Slots -> File]
  /\ hnd \in [Users -> Slots \cup {None}] /\ mode \in [Users -> {"r", "w"}]
  /\ ffs_dir_cnt \in {0, 1} /\ dirEntId \in 0..FileCnt
  /\ stayed \subseteq Titles /\ shown \subseteq Titles

(* Who writes is at the end of the file: fwrite stores at pos and counts len.      *)
Writers ==
  \A u \in Users : hnd[u] # None /\ mode[u] = "w" => ffs_tbl[hnd[u]].pos = ffs_tbl[hnd[u]].len

(* Types, and a writer at the end of the file, whatever position an earlier user,   *)
(* a seek or another's rename left in the slot. (A reader's position is any UW.)     *)
TypeOK == Typed /\ Writers

(* A name finds one file: no history of creating, renaming and removing leaves    *)
(* two files of one name, and what a user has open is a file of his own that is    *)
(* still there (fopen, rename, remove, and stat, which leaves a file open). A rename *)
(* to a path that fopen refuses breaks this: Refused = {}.                           *)
OwnFiles ==
  /\ \A s, t \in Used : ffs_tbl[s].name = ffs_tbl[t].name => s = t
  /\ \A u \in Users : hnd[u] # None => ffs_tbl[hnd[u]].sts = "opn"
  /\ \A u, v \in Users : hnd[u] # None /\ hnd[u] = hnd[v] => u = v

(* A listing shows each file that is there all the while once, whatever is          *)
(* created, removed or renamed between two calls of readdir: no name comes twice,    *)
(* and at the end none is missing.                                                   *)
ListingExact ==
  [][Readdir => IF ret'.entry = None THEN stayed \subseteq shown
                                     ELSE ret'.entry \notin stayed \cap shown]_vars

Contents(f) == [i \in 0..(f.len - 1) |-> f.buf[i]]
Held == [n \in {ffs_tbl[s].name : s \in Used} |-> Contents(ffs_tbl[First(Named(n))])]
Place(f) == [name |-> f.name, pos |-> f.pos, ended |-> f.eof]
Places == [u \in Users |-> IF hnd[u] = None THEN None ELSE Place(ffs_tbl[hnd[u]])]

(* Names, contents, positions and every answer are those of a map from names to     *)
(* contents: what was written is read again, in whatever slot it lies and whatever   *)
(* lay there before. Of a reader behind the end FileStore promises no more than that  *)
(* he changes no file.                                                               *)
Store == INSTANCE FileStore WITH store <- Held, cur <- Places
IsFileStore == Store!Spec

=============================================================================
