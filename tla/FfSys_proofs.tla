---------------------------- MODULE FfSys_proofs ----------------------------
(* Proofs about FfSys for any number of files, file length, names, users and   *)
(* byte counts: types and positions, whom a file belongs to, listings, and that  *)
(* the table is a map from names to contents (FileStore).                        *)
EXTENDS FfSys, TLAPS, FiniteSetTheorems, FunctionTheorems

(* What is used up at the end of a listing: where a file that was there all the *)
(* while lies tells whether it has been shown.                                  *)
ListInv ==
  ffs_dir_cnt = 1 =>
    /\ \A n \in stayed : Named(n) # {}
    /\ \A s \in Used : ffs_tbl[s].name \in stayed =>
         (s < dirEntId <=> ffs_tbl[s].name \in shown)

(* rename is given no path that fopen refuses.                                  *)
Proper == Refused = {}

IInv == Proper /\ Typed /\ OwnFiles /\ ListInv

-----------------------------------------------------------------------------
(* Searching the table.                                                        *)

LEMMA SlotsFinite == IsFiniteSet(Slots) /\ Slots \subseteq Nat
BY SizeAssumption, FS_Interval DEF Slots

(* A set of slots has a last one ...                                           *)
LEMMA LastExists ==
  ASSUME NEW S, S \subseteq Slots, S # {}
  PROVE  LastOf(S) \in S
<1> DEFINE From(x) == {y \in S : y >= x}
           F == {From(x) : x \in S}
<1>1. IsWellFoundedOn(StrictSubsetOrdering(Slots), FiniteSubsetsOf(Slots))
  BY FS_StrictSubsetOrderingWellFounded
<1>2. FiniteSubsetsOf(Slots) = SUBSET Slots
  BY SlotsFinite, FS_FiniteSubsetsOfFinite
<1>3. F \subseteq SUBSET Slots /\ F # {}
  OBVIOUS
<1>4. PICK U \in F : \A V \in F : ~(<<V, U>> \in StrictSubsetOrdering(Slots))
  <2> HIDE DEF F
  <2> QED
    BY <1>1, <1>2, <1>3, WFMin
<1>5. PICK x \in S : U = From(x)
  OBVIOUS
<1>6. ASSUME NEW y \in S PROVE x >= y
  <2>1. x \in Nat /\ y \in Nat
    BY SlotsFinite
  <2>2. SUFFICES ASSUME y > x PROVE FALSE
    BY <2>1
  <2>3. From(y) \subseteq From(x) /\ From(x) \subseteq Slots
    <3>1. \A z \in S : z \in Int
      BY SlotsFinite
    <3>2. \A z \in S : z \in From(y) => z \in From(x)
      BY <2>1, <2>2, <3>1
    <3> QED
      BY <3>2
  <2>4. x \notin From(y) /\ x \in From(x)
    BY <2>1, <2>2
  <2>5. <<From(y), From(x)>> \in StrictSubsetOrdering(Slots)
    <3> HIDE DEF From
    <3>1. From(y) # From(x) /\ From(y) \in SUBSET Slots /\ From(x) \in SUBSET Slots
      BY <2>3, <2>4
    <3> QED
      BY <2>3, <3>1 DEF StrictSubsetOrdering
  <2> QED
    BY <1>4, <1>5, <2>5
<1> QED
  BY <1>6 DEF LastOf

(* ... and a first one.                                                        *)
LEMMA FirstExists ==
  ASSUME NEW S, S \subseteq Slots, S # {}
  PROVE  First(S) \in S /\ \A s \in S : First(S) <= s
<1> DEFINE Upto(x) == {y \in S : y <= x}
           F == {Upto(x) : x \in S}
<1>1. IsWellFoundedOn(StrictSubsetOrdering(Slots), FiniteSubsetsOf(Slots))
  BY FS_StrictSubsetOrderingWellFounded
<1>2. FiniteSubsetsOf(Slots) = SUBSET Slots
  BY SlotsFinite, FS_FiniteSubsetsOfFinite
<1>3. F \subseteq SUBSET Slots /\ F # {}
  OBVIOUS
<1>4. PICK U \in F : \A V \in F : ~(<<V, U>> \in StrictSubsetOrdering(Slots))
  <2> HIDE DEF F
  <2> QED
    BY <1>1, <1>2, <1>3, WFMin
<1>5. PICK x \in S : U = Upto(x)
  OBVIOUS
<1>6. ASSUME NEW y \in S PROVE x <= y
  <2>1. x \in Nat /\ y \in Nat
    BY SlotsFinite
  <2>2. SUFFICES ASSUME y < x PROVE FALSE
    BY <2>1
  <2>3. Upto(y) \subseteq Upto(x) /\ Upto(x) \subseteq Slots
    <3>1. \A z \in S : z \in Int
      BY SlotsFinite
    <3>2. \A z \in S : z \in Upto(y) => z \in Upto(x)
      BY <2>1, <2>2, <3>1
    <3> QED
      BY <3>2
  <2>4. x \notin Upto(y) /\ x \in Upto(x)
    BY <2>1, <2>2
  <2>5. <<Upto(y), Upto(x)>> \in StrictSubsetOrdering(Slots)
    <3> HIDE DEF Upto
    <3>1. Upto(y) # Upto(x) /\ Upto(y) \in SUBSET Slots /\ Upto(x) \in SUBSET Slots
      BY <2>3, <2>4
    <3> QED
      BY <2>3, <3>1 DEF StrictSubsetOrdering
  <2> QED
    BY <1>4, <1>5, <2>5
<1> QED
  BY <1>6 DEF First

LEMMA FirstNamed ==
  ASSUME NEW n, Named(n) # {}
  PROVE  /\ First(Named(n)) \in Slots /\ First(Named(n)) \in Used
         /\ ffs_tbl[First(Named(n))].name = n
<1>1. Named(n) \subseteq Slots
  BY DEF Named, Used
<1> QED
  BY <1>1, FirstExists DEF Named, Used

(* Whole elements that fit into a room.                                        *)
LEMMA WholeFits ==
  ASSUME NEW size \in Nat \ {0}, NEW room \in Nat
  PROVE  room \div size \in Nat /\ size * (room \div size) <= room
OBVIOUS

-----------------------------------------------------------------------------
(* One slot changes.                                                           *)

FileOK(f) == f \in File

(* Sums and differences of UWs.                                                 *)
LEMMA UWSum ==
  ASSUME NEW a \in 0..UWMax, NEW b \in 0..UWMax
  PROVE  Sum(a, b) \in 0..UWMax /\ (a + b <= UWMax => Sum(a, b) = a + b)
BY SizeAssumption DEF Sum

LEMMA UWDiff ==
  ASSUME NEW a \in 0..UWMax, NEW b \in 0..UWMax
  PROVE  Diff(a, b) \in 0..UWMax /\ (b <= a => Diff(a, b) = a - b)
BY SizeAssumption DEF Diff

LEMMA SlotFile == ASSUME Typed, NEW s \in Slots PROVE FileOK(ffs_tbl[s])
BY DEF Typed, FileOK

(* Opening, closing, removing and seeking leave a file a file.                  *)
LEMMA ClosedOK ==
  ASSUME NEW f, FileOK(f)
  PROVE  /\ FileOK(Closed(f))
         /\ Closed(f).name = f.name /\ Closed(f).sts = "cls"
<1> DEFINE no == FALSE
<1>1. no \in BOOLEAN
  OBVIOUS
<1>2. Closed(f) = [f EXCEPT !.sts = "cls", !.eof = no]
  BY DEF Closed
<1> HIDE DEF no
<1> QED
  BY <1>1, <1>2 DEF FileOK, File

LEMMA ReopenedOK ==
  ASSUME NEW f, FileOK(f)
  PROVE  /\ FileOK(Reopened(f))
         /\ Reopened(f).name = f.name /\ Reopened(f).sts = "opn"
<1> DEFINE no == FALSE
<1>1. no \in BOOLEAN
  OBVIOUS
<1>2. Reopened(f) = [f EXCEPT !.sts = "opn", !.eof = no, !.pos = 0]
  BY DEF Reopened
<1> HIDE DEF no
<1>3. 0 \in 0..UWMax
  BY SizeAssumption
<1> QED
  BY <1>1, <1>2, <1>3 DEF FileOK, File

LEMMA RemovedOK ==
  ASSUME NEW f, FileOK(f), NEW g, g = [Reopened(f) EXCEPT !.sts = "none"]
  PROVE  FileOK(g) /\ g.sts = "none"
BY ReopenedOK DEF FileOK, File

LEMMA SoughtOK ==
  ASSUME NEW f, FileOK(f), NEW p \in 0..UWMax, NEW g, g = [f EXCEPT !.pos = p]
  PROVE  FileOK(g) /\ g.name = f.name /\ g.sts = f.sts
BY DEF FileOK, File

LEMMA TableTypes ==
  ASSUME Typed, NEW s \in Slots, NEW f, FileOK(f),
         ffs_tbl' = [ffs_tbl EXCEPT ![s] = f],
         hnd' \in [Users -> Slots \cup {None}], mode' \in [Users -> {"r", "w"}],
         stayed' \subseteq Titles, UNCHANGED dirVars
  PROVE  Typed'
BY DEF Typed, FileOK, dirVars

(* Names stay different and a listing stays exact when a slot keeps its name or   *)
(* gets one that nobody has.                                                       *)
LEMMA SlotChange ==
  ASSUME IInv, NEW s \in Slots, NEW f,
         ffs_tbl' = [ffs_tbl EXCEPT ![s] = f],
         f.sts # "none",
         (s \in Used /\ f.name = ffs_tbl[s].name) \/ Named(f.name) = {},
         stayed' \subseteq stayed,
         s \in Used /\ f.name # ffs_tbl[s].name => ffs_tbl[s].name \notin stayed',
         UNCHANGED dirVars
  PROVE  /\ (\A x, y \in Used : ffs_tbl[x].name = ffs_tbl[y].name => x = y)'
         /\ ListInv'
<1> USE DEF IInv, Typed
<1>1. /\ ffs_tbl'[s] = f
      /\ \A x \in Slots \ {s} : ffs_tbl'[x] = ffs_tbl[x]
  OBVIOUS
<1>2. Used' = Used \cup {s}
  BY <1>1 DEF Used
<1>3. (\A x, y \in Used : ffs_tbl[x].name = ffs_tbl[y].name => x = y)'
  <2>1. \A x \in Used \ {s} : ffs_tbl[x].name # f.name
    BY DEF OwnFiles, Named
  <2> QED
    BY <1>1, <1>2, <2>1 DEF OwnFiles, Used
<1>4. ASSUME ffs_dir_cnt = 1 PROVE ListInv'
  <2>1. \A n \in stayed' : Named(n)' # {}
    <3>1. TAKE n \in stayed'
    <3>2. PICK x \in Used : ffs_tbl[x].name = n
      BY <1>4 DEF ListInv, Named
    <3>3. x \in Used' /\ ffs_tbl'[x].name = n
      BY <1>1, <1>2, <3>2 DEF Used
    <3> QED
      BY <3>3 DEF Named
  <2>2. s \notin Used \/ f.name # ffs_tbl[s].name => f.name \notin stayed
    BY <1>4 DEF ListInv
  <2>3. \A x \in Used' : ffs_tbl'[x].name \in stayed' =>
          (x < dirEntId' <=> ffs_tbl'[x].name \in shown')
    BY <1>1, <1>2, <1>4, <2>2 DEF ListInv, dirVars, Used
  <2> QED
    BY <2>1, <2>3 DEF ListInv, dirVars
<1> QED
  BY <1>3, <1>4 DEF ListInv, dirVars

(* A slot nobody holds.                                                         *)
LEMMA NotHeld ==
  ASSUME NEW n, NotOpen(n), NEW s \in Slots, ffs_tbl[s].name = n
  PROVE  \A u \in Users : hnd[u] # s
BY SizeAssumption DEF NotOpen, Slots

(* Nobody's file changes its marks or its owner.                                 *)
LEMMA OwnersKept ==
  ASSUME IInv, NEW s \in Slots, NEW f, ffs_tbl' = [ffs_tbl EXCEPT ![s] = f],
         UNCHANGED hnd, \A u \in Users : hnd[u] = s => f.sts = "opn",
         (\A x, y \in Used : ffs_tbl[x].name = ffs_tbl[y].name => x = y)'
  PROVE  OwnFiles'
BY DEF IInv, OwnFiles, Typed

-----------------------------------------------------------------------------
(* The calls.                                                                  *)

LEMMA HoldInv ==
  ASSUME IInv, NEW u \in Users, NEW s \in Slots, NEW m \in {"r", "w"},
         NEW f, NEW n, Hold(u, s, m, f), hnd[u] = None, FileOK(Reopened(f)),
         Reopened(f).name = n, Reopened(f).sts = "opn",
         \A v \in Users : hnd[v] # s,
         (s \in Used /\ n = ffs_tbl[s].name) \/ (s \notin Used /\ Named(n) = {}),
         UNCHANGED <<stayed, dirVars>>
  PROVE  IInv'
<1> USE DEF IInv, Typed, Hold, Proper
<1>1. Typed'
  BY TableTypes
<1>2. (\A x, y \in Used : ffs_tbl[x].name = ffs_tbl[y].name => x = y)' /\ ListInv'
  BY SlotChange
<1>3. OwnFiles'
  BY <1>2, SizeAssumption DEF OwnFiles, Slots
<1> QED
  BY <1>1, <1>2, <1>3

LEMMA FopenReadInv ==
  ASSUME IInv, NEW u \in Users, NEW n \in Names, FopenRead(u, n)
  PROVE  IInv'
<1> DEFINE s == First(Named(n))
<1>1. s \in Slots /\ s \in Used /\ ffs_tbl[s].name = n
  BY FirstNamed DEF FopenRead
<1>2. FileOK(ffs_tbl[s]) /\ \A v \in Users : hnd[v] # s
  BY <1>1, SlotFile, NotHeld DEF FopenRead, IInv
<1>3. Hold(u, s, "r", ffs_tbl[s]) /\ hnd[u] = None /\ UNCHANGED <<stayed, dirVars>>
  BY DEF FopenRead
<1> QED
  BY <1>1, <1>2, <1>3, ReopenedOK, HoldInv

LEMMA FopenWriteInv ==
  ASSUME IInv, NEW u \in Users, NEW n \in Names, FopenWrite(u, n)
  PROVE  IInv'
<1> DEFINE s == IF Named(n) # {} THEN First(Named(n)) ELSE LastOf(Slots \ Used)
           f == [ffs_tbl[s] EXCEPT !.name = n, !.len = 0]
<1>1. /\ s \in Slots
      /\ (s \in Used /\ ffs_tbl[s].name = n) \/ (s \notin Used /\ Named(n) = {})
  <2>1. CASE Named(n) # {}
    BY <2>1, FirstNamed
  <2>2. CASE Named(n) = {}
    <3>1. Slots \ Used # {}
      BY <2>2 DEF FopenWrite
    <3> QED
      BY <2>2, <3>1, LastExists
  <2> QED
    BY <2>1, <2>2
<1>2. \A v \in Users : hnd[v] # s
  <2>1. CASE s \in Used
    BY <1>1, <2>1, NotHeld DEF FopenWrite
  <2>2. CASE s \notin Used
    BY <1>1, <2>2, SizeAssumption DEF IInv, OwnFiles, Used, Slots
  <2> QED
    BY <2>1, <2>2
<1>3. FileOK(ffs_tbl[s])
  BY <1>1, SlotFile DEF IInv
<1>4. Hold(u, s, "w", f) /\ hnd[u] = None /\ UNCHANGED <<stayed, dirVars>>
  BY DEF FopenWrite
<1>5. FileOK(Reopened(f)) /\ Reopened(f).name = n /\ Reopened(f).sts = "opn"
  <2> DEFINE o == ffs_tbl[s]
             no == FALSE
             g == Reopened(f)
  <2>1. FileOK(o) /\ no \in BOOLEAN
    BY <1>3
  <2>2. g = [[o EXCEPT !.name = n, !.len = 0] EXCEPT !.sts = "opn", !.eof = no, !.pos = 0]
    BY DEF Reopened
  <2>3. 0 \in Lengths /\ 0 \in 0..UWMax /\ n \in Titles
    BY SizeAssumption DEF Lengths, Titles
  <2> HIDE DEF o, no, g
  <2>4. FileOK(g) /\ g.name = n /\ g.sts = "opn"
    BY <2>1, <2>2, <2>3 DEF FileOK, File
  <2> QED
    BY <2>4 DEF g
<1> HIDE DEF s, f
<1> QED
  BY <1>1, <1>2, <1>4, <1>5, HoldInv

(* Reading, writing and seeking: the file stays what it is to everybody else.     *)
LEMMA PutInv ==
  ASSUME IInv, NEW u \in Users, NEW f, hnd[u] # None, FileOK(f),
         f.name = ffs_tbl[hnd[u]].name, f.sts = "opn", Put(u, f)
  PROVE  IInv'
<1> USE DEF IInv, Typed, Put, Proper
<1>1. hnd[u] \in Slots /\ hnd[u] \in Used
  BY DEF OwnFiles, Used
<1>2. Typed'
  BY <1>1, TableTypes
<1>3. (\A x, y \in Used : ffs_tbl[x].name = ffs_tbl[y].name => x = y)' /\ ListInv'
  BY <1>1, SlotChange
<1>4. OwnFiles'
  BY <1>1, <1>3, OwnersKept
<1> QED
  BY <1>2, <1>3, <1>4

LEMMA UsedFile ==
  ASSUME IInv, NEW u \in Users, hnd[u] # None
  PROVE  /\ hnd[u] \in Slots /\ FileOK(ffs_tbl[hnd[u]])
         /\ ffs_tbl[hnd[u]].sts = "opn"
         /\ ffs_tbl[hnd[u]].pos \in 0..UWMax /\ ffs_tbl[hnd[u]].len \in 0..UWMax
         /\ ffs_tbl[hnd[u]].pos \in Nat /\ ffs_tbl[hnd[u]].len \in Nat
         /\ ffs_tbl[hnd[u]].len <= FileLen
<1>1. hnd[u] \in Slots
  BY DEF IInv, Typed
<1> QED
  BY <1>1, SlotFile, SizeAssumption DEF IInv, OwnFiles, FileOK, File, Lengths

(* Whole elements of what is left, or as many as asked for, are a UW of bytes.    *)
LEMMA CountedBytes ==
  ASSUME NEW size \in Sizes, NEW n \in Counts, NEW left \in 0..UWMax, NEW end,
         end <=> left <= size * n, NEW cnt, cnt = IF end THEN left \div size ELSE n
  PROVE  /\ cnt \in Nat /\ size * cnt \in Nat /\ size * cnt <= left
         /\ size * cnt \in 0..UWMax
<1>1. size \in Nat \ {0} /\ n \in Nat /\ left \in Nat /\ left <= UWMax
  BY SizeAssumption
<1>2. cnt \in Nat /\ size * cnt \in Nat /\ size * cnt <= left
  <2>1. CASE end
    <3>1. left \div size \in Nat /\ size * (left \div size) <= left
      BY <1>1, WholeFits
    <3> QED
      BY <1>1, <2>1, <3>1
  <2>2. CASE ~end
    BY <1>1, <2>2
  <2> QED
    BY <2>1, <2>2
<1> DEFINE k == size * cnt
<1>3. k \in Nat /\ k <= left
  BY <1>2
<1> HIDE DEF k
<1>4. k \in 0..UWMax
  BY <1>1, <1>3, SizeAssumption
<1> QED
  BY <1>2, <1>4 DEF k

LEMMA FreadInv ==
  ASSUME IInv, NEW u \in Users, NEW size \in Sizes, NEW n \in Counts, Fread(u, size, n)
  PROVE  IInv'
<1> DEFINE f == ffs_tbl[hnd[u]]
           left == Diff(f.len, f.pos)
           end == left <= size * n
           cnt == IF end THEN left \div size ELSE n
           k == size * cnt
<1>1. hnd[u] # None /\ Put(u, [f EXCEPT !.pos = Sum(@, k), !.eof = end])
  BY DEF Fread, Using
<1>2. FileOK(f) /\ f.sts = "opn" /\ f.pos \in 0..UWMax /\ f.len \in 0..UWMax
  BY <1>1, UsedFile
<1>3. left \in 0..UWMax
  BY <1>2, UWDiff
<1>4. k \in 0..UWMax
  <2> HIDE DEF left
  <2> QED
    BY <1>3, CountedBytes
<1>5. Sum(f.pos, k) \in 0..UWMax
  BY <1>2, <1>4, UWSum
<1>6. end \in BOOLEAN
  OBVIOUS
<1> DEFINE p == Sum(f.pos, k)
           g == [f EXCEPT !.pos = p, !.eof = end]
<1>7. Put(u, g)
  BY <1>1
<1>8. p \in 0..UWMax
  BY <1>5
<1> HIDE DEF f, end, p
<1>9. FileOK(g) /\ g.name = f.name /\ g.sts = "opn"
  BY <1>2, <1>6, <1>8 DEF FileOK, File
<1> HIDE DEF g
<1> QED
  BY <1>1, <1>7, <1>9, PutInv DEF f

LEMMA FwriteInv ==
  ASSUME IInv, NEW u \in Users, NEW size \in Sizes, NEW n \in Counts, Fwrite(u, size, n)
  PROVE  IInv'
<1> DEFINE f == ffs_tbl[hnd[u]]
           room == FileLen - f.len
           cnt == IF room > size * n THEN n ELSE room \div size
           k == size * cnt
<1>1. PICK d \in [0..(size * n - 1) -> Data] :
        Put(u, [f EXCEPT !.pos = Sum(@, k), !.len = @ + k,
                  !.buf = [i \in 0..(FileLen - 1) |->
                             IF i \in f.pos..(f.pos + k - 1) THEN d[i - f.pos]
                             ELSE f.buf[i]]])
  BY DEF Fwrite, Using
<1>2. hnd[u] # None
  BY DEF Fwrite, Using
<1>3. /\ FileOK(f) /\ f.sts = "opn" /\ room \in Nat /\ f.pos \in Nat /\ f.len \in Nat
      /\ f.pos \in 0..UWMax /\ f.buf \in [0..(FileLen - 1) -> Data]
  BY <1>2, UsedFile, SizeAssumption DEF FileOK, File
<1>4. size \in Nat \ {0} /\ n \in Nat /\ size * n \in Nat
  BY SizeAssumption
<1>5. k \in Nat /\ k <= room /\ k <= size * n
  <2> HIDE DEF room
  <2>1. CASE room > size * n
    BY <1>3, <1>4, <2>1
  <2>2. CASE ~(room > size * n)
    <3>1. room \div size \in Nat /\ size * (room \div size) <= room
      BY <1>3, <1>4, WholeFits
    <3> QED
      BY <1>3, <1>4, <2>2, <3>1
  <2> QED
    BY <2>1, <2>2
<1>6. f.len + k <= FileLen
  <2> HIDE DEF k, f
  <2> QED
    BY <1>3, <1>5, SizeAssumption
<1> DEFINE b == [i \in 0..(FileLen - 1) |->
                   IF i \in f.pos..(f.pos + k - 1) THEN d[i - f.pos] ELSE f.buf[i]]
<1>7. b \in [0..(FileLen - 1) -> Data]
  <2> HIDE DEF k, f
  <2>1. ASSUME NEW i \in f.pos..(f.pos + k - 1) PROVE i - f.pos \in 0..(size * n - 1)
    BY <1>3, <1>4, <1>5
  <2> QED
    BY <1>3, <2>1
<1>9. Sum(f.pos, k) \in 0..UWMax
  <2>1. k \in 0..UWMax
    <3> HIDE DEF k
    <3> QED
      BY <1>4, <1>5, SizeAssumption
  <2> QED
    BY <1>3, <2>1, UWSum
<1> DEFINE p == Sum(f.pos, k)
<1>10. p \in 0..UWMax
  BY <1>9
<1> HIDE DEF f, k, b, p
<1>8. Put(u, [f EXCEPT !.pos = p, !.len = @ + k, !.buf = b])
  BY <1>1 DEF b, p
<1> QED
  <2> DEFINE g == [f EXCEPT !.pos = p, !.len = @ + k, !.buf = b]
  <2>1. Put(u, g) /\ g = [f EXCEPT !.pos = p, !.len = @ + k, !.buf = b]
    BY <1>8
  <2> HIDE DEF g
  <2>2. f.len + k \in Lengths
    BY <1>3, <1>5, <1>6, SizeAssumption DEF FileOK, File, Lengths
  <2>3. FileOK(g) /\ g.name = f.name /\ g.sts = "opn"
    BY <1>3, <1>7, <1>10, <2>1, <2>2 DEF FileOK, File
  <2> QED
    BY <1>2, <2>1, <2>3, PutInv DEF f

LEMMA FseekInv ==
  ASSUME IInv, NEW u \in Users, NEW offset \in Offsets, Fseek(u, offset)
  PROVE  IInv'
<1> DEFINE f == ffs_tbl[hnd[u]]
<1>1. /\ hnd[u] # None
      /\ Put(u, [f EXCEPT !.pos = offset]) \/ Put(u, f)
  BY DEF Fseek, Using
<1>2. FileOK(f) /\ f.sts = "opn" /\ offset \in 0..UWMax
  BY <1>1, UsedFile, SizeAssumption
<1> HIDE DEF f
<1> QED
  BY <1>1, <1>2, SoughtOK, PutInv DEF f

(* A closed file is nobody's.                                                   *)
LEMMA FcloseInv ==
  ASSUME IInv, NEW u \in Users, Fclose(u)
  PROVE  IInv'
<1> DEFINE s == hnd[u]
           f == Closed(ffs_tbl[s])
<1> USE DEF IInv, Fclose, Proper
<1>1. s \in Slots /\ s \in Used /\ hnd[u] # None
  BY UsedFile DEF Used
<1>2. FileOK(f) /\ f.name = ffs_tbl[s].name /\ f.sts = "cls"
  BY <1>1, SlotFile, ClosedOK
<1>3. ffs_tbl' = [ffs_tbl EXCEPT ![s] = f]
  OBVIOUS
<1> HIDE DEF f
<1>4. Typed'
  BY <1>1, <1>2, <1>3, TableTypes DEF Typed
<1>5. (\A x, y \in Used : ffs_tbl[x].name = ffs_tbl[y].name => x = y)' /\ ListInv'
  BY <1>1, <1>2, <1>3, SlotChange
<1>6. OwnFiles'
  BY <1>1, <1>3, <1>5 DEF OwnFiles, Typed
<1> QED
  BY <1>4, <1>5, <1>6

(* rename and stat open or close a file that nobody has.                        *)
LEMMA RemarkInv ==
  ASSUME IInv, NEW s \in Slots, s \in Used, NEW f, FileOK(f), f.sts # "none",
         ffs_tbl' = [ffs_tbl EXCEPT ![s] = f],
         f.name = ffs_tbl[s].name \/ Named(f.name) = {},
         \A u \in Users : hnd[u] # s, UNCHANGED <<hnd, mode, dirVars>>,
         stayed' \subseteq stayed,
         f.name # ffs_tbl[s].name => ffs_tbl[s].name \notin stayed'
  PROVE  IInv'
<1> USE DEF IInv, Proper
<1>1. Typed'
  BY TableTypes DEF Typed
<1>2. (\A x, y \in Used : ffs_tbl[x].name = ffs_tbl[y].name => x = y)' /\ ListInv'
  BY SlotChange
<1>3. OwnFiles'
  BY <1>2, OwnersKept
<1> QED
  BY <1>1, <1>2, <1>3

LEMMA StatInv ==
  ASSUME IInv, NEW n \in Names, Stat(n)
  PROVE  IInv'
<1> DEFINE s == First(Named(n))
<1>1. /\ s \in Slots /\ s \in Used /\ ffs_tbl[s].name = n
      /\ \A u \in Users : hnd[u] # s
  BY FirstNamed, NotHeld DEF Stat
<1>2. /\ FileOK(Reopened(ffs_tbl[s])) /\ Reopened(ffs_tbl[s]).name = n
      /\ Reopened(ffs_tbl[s]).sts = "opn"
  BY <1>1, SlotFile, ReopenedOK DEF IInv
<1>3. ffs_tbl' = [ffs_tbl EXCEPT ![s] = Reopened(ffs_tbl[s])]
      /\ UNCHANGED <<hnd, mode, stayed, dirVars>>
  BY DEF Stat
<1> HIDE DEF s
<1> QED
  BY <1>1, <1>2, <1>3, RemarkInv

LEMMA RenameTakenInv ==
  ASSUME IInv, NEW old \in Names, NEW new \in Names, RenameTaken(old, new)
  PROVE  IInv'
<1> DEFINE s == First(Named(new))
           f == Closed(Reopened(ffs_tbl[s]))
<1>1. /\ s \in Slots /\ s \in Used /\ ffs_tbl[s].name = new
      /\ \A u \in Users : hnd[u] # s
  BY FirstNamed, NotHeld DEF RenameTaken
<1>2. FileOK(f) /\ f.name = new /\ f.sts = "cls"
  BY <1>1, SlotFile, ReopenedOK, ClosedOK DEF IInv
<1>3. ffs_tbl' = [ffs_tbl EXCEPT ![s] = f] /\ UNCHANGED <<hnd, mode, stayed, dirVars>>
  BY DEF RenameTaken
<1> HIDE DEF s, f
<1> QED
  BY <1>1, <1>2, <1>3, RemarkInv

LEMMA RenameTooLongInv ==
  ASSUME IInv, NEW old \in Names, RenameTooLong(old)
  PROVE  IInv'
<1> DEFINE s == First(Named(old))
           f == Closed(Reopened(ffs_tbl[s]))
<1>1. /\ s \in Slots /\ s \in Used /\ ffs_tbl[s].name = old
      /\ \A u \in Users : hnd[u] # s
  BY FirstNamed, NotHeld DEF RenameTooLong, Found
<1>2. FileOK(f) /\ f.name = old /\ f.sts = "cls"
  BY <1>1, SlotFile, ReopenedOK, ClosedOK DEF IInv
<1>3. ffs_tbl' = [ffs_tbl EXCEPT ![s] = f] /\ UNCHANGED <<hnd, mode, stayed, dirVars>>
  BY DEF RenameTooLong
<1> HIDE DEF s, f
<1> QED
  BY <1>1, <1>2, <1>3, RemarkInv

LEMMA RenameInv ==
  ASSUME IInv, NEW old \in Names, NEW new \in Titles, Rename(old, new)
  PROVE  IInv'
<1> DEFINE s == First(Named(old))
           f == [Closed(Reopened(ffs_tbl[s])) EXCEPT !.name = new]
<1>1. /\ s \in Slots /\ s \in Used /\ ffs_tbl[s].name = old
      /\ \A u \in Users : hnd[u] # s
  BY FirstNamed, NotHeld DEF Rename, Found
<1>2. FileOK(f) /\ f.name = new /\ f.sts = "cls"
  <2> DEFINE c == Closed(Reopened(ffs_tbl[s]))
  <2>1. FileOK(c) /\ c.sts = "cls"
    BY <1>1, SlotFile, ReopenedOK, ClosedOK DEF IInv
  <2>2. f = [c EXCEPT !.name = new]
    OBVIOUS
  <2> HIDE DEF c, f
  <2> QED
    BY <2>1, <2>2 DEF FileOK, File
<1>3. /\ ffs_tbl' = [ffs_tbl EXCEPT ![s] = f]
      /\ stayed' = stayed \ {old} /\ Named(new) = {}
      /\ UNCHANGED <<hnd, mode, dirVars>>
  BY DEF Rename, IInv, Proper
<1> HIDE DEF s, f
<1> QED
  BY <1>1, <1>2, <1>3, RemarkInv

(* The slot of a removed file is free again.                                    *)
LEMMA RemoveInv ==
  ASSUME IInv, NEW n \in Names, Remove(n)
  PROVE  IInv'
<1> USE DEF IInv, Proper
<1> DEFINE s == First(Named(n))
           f == [Reopened(ffs_tbl[s]) EXCEPT !.sts = "none"]
<1>1. /\ s \in Slots /\ s \in Used /\ ffs_tbl[s].name = n
      /\ \A u \in Users : hnd[u] # s
  BY FirstNamed, NotHeld DEF Remove
<1>2. FileOK(f) /\ f.sts = "none"
  BY <1>1, SlotFile, RemovedOK
<1>3. /\ ffs_tbl' = [ffs_tbl EXCEPT ![s] = f]
      /\ stayed' = stayed \ {n} /\ UNCHANGED <<hnd, mode, dirVars>>
  BY DEF Remove
<1> HIDE DEF s, f
<1>4. Typed'
  BY <1>1, <1>2, <1>3, TableTypes DEF Typed
<1>5. /\ Used' = Used \ {s} /\ \A x \in Used' : ffs_tbl'[x] = ffs_tbl[x]
  BY <1>1, <1>2, <1>3 DEF Used, Typed
<1>6. OwnFiles'
  BY <1>1, <1>3, <1>5 DEF OwnFiles, Typed
<1>7. ASSUME ffs_dir_cnt = 1 PROVE ListInv'
  <2>1. ASSUME NEW m \in stayed' PROVE Named(m)' # {}
    <3>1. m \in stayed /\ m # n
      BY <1>3
    <3>2. PICK x \in Used : ffs_tbl[x].name = m
      BY <1>7, <3>1 DEF ListInv, Named
    <3>3. x \in Used' /\ ffs_tbl'[x].name = m
      BY <1>1, <1>5, <3>1, <3>2
    <3> QED
      BY <3>3 DEF Named
  <2>2. \A x \in Used' : ffs_tbl'[x].name \in stayed' =>
          (x < dirEntId' <=> ffs_tbl'[x].name \in shown')
    BY <1>3, <1>5, <1>7 DEF ListInv, dirVars
  <2> QED
    BY <2>1, <2>2 DEF ListInv
<1>8. ListInv'
  BY <1>3, <1>7 DEF ListInv, dirVars
<1> QED
  BY <1>4, <1>6, <1>8

(* What a listing gives is the next file that has not come yet.                  *)
LEMMA NextShown ==
  ASSUME IInv, {s \in Used : s >= dirEntId} # {}, NEW s,
         s = First({x \in Used : x >= dirEntId})
  PROVE  /\ s \in Used /\ s \in Slots /\ s >= dirEntId
         /\ \A x \in Used : x >= dirEntId => s <= x
<1> DEFINE rest == {x \in Used : x >= dirEntId}
<1>1. rest \subseteq Slots
  BY DEF Used
<1>2. s \in rest /\ \A x \in rest : s <= x
  <2> HIDE DEF rest
  <2> QED
    BY <1>1, FirstExists DEF rest
<1> QED
  BY <1>1, <1>2

LEMMA ReaddirInv ==
  ASSUME IInv, Readdir
  PROVE  IInv'
<1> USE DEF IInv, Proper
<1> DEFINE rest == {x \in Used : x >= dirEntId}
           s == First(rest)
<1>1. CASE rest = {}
  BY <1>1 DEF Readdir, FileVars, Typed, OwnFiles, ListInv, Used, Named
<1>2. CASE rest # {}
  <2>1. /\ s \in Used /\ s \in Slots /\ s >= dirEntId
        /\ \A x \in Used : x >= dirEntId => s <= x
    BY <1>2, NextShown
  <2>2. /\ dirEntId' = s + 1 /\ shown' = shown \cup {ffs_tbl[s].name}
        /\ UNCHANGED <<ffs_dir_cnt, stayed, FileVars>>
    BY <1>2 DEF Readdir
  <2> HIDE DEF s, rest
  <2>3. Used' = Used /\ \A n : Named(n)' = Named(n)
    BY <2>2 DEF Used, Named, FileVars
  <2>4. dirEntId' \in 0..FileCnt /\ dirEntId \in Int /\ s \in Int
    BY <2>1, <2>2, SizeAssumption DEF Slots, Typed
  <2>5. shown' \subseteq Titles
    BY <2>1, <2>2, SlotFile DEF Typed, FileOK, File
  <2>6. Typed'
    BY <2>2, <2>4, <2>5 DEF Typed, FileVars
  <2>7. OwnFiles'
    BY <2>2, <2>3 DEF OwnFiles, FileVars
  <2>8. ListInv'
    <3>1. ASSUME ffs_dir_cnt = 1, NEW x \in Used, ffs_tbl[x].name \in stayed
          PROVE  x < s + 1 <=> ffs_tbl[x].name \in shown \cup {ffs_tbl[s].name}
      <4>1. x \in Int /\ (x < dirEntId <=> ffs_tbl[x].name \in shown)
        BY <3>1, SlotsFinite DEF ListInv, Used
      <4>2. CASE x = s
        BY <2>4, <4>2
      <4>3. CASE x # s
        <5>1. ffs_tbl[x].name # ffs_tbl[s].name
          BY <2>1, <4>3 DEF OwnFiles
        <5>2. x < s + 1 <=> x < dirEntId
          BY <2>1, <2>4, <4>1, <4>3
        <5> QED
          BY <4>1, <5>1, <5>2
      <4> QED
        BY <4>2, <4>3
    <3> QED
      BY <2>2, <2>3, <3>1 DEF ListInv, FileVars
  <2> QED
    BY <2>6, <2>7, <2>8
<1> QED
  BY <1>1, <1>2

LEMMA OpendirInv ==
  ASSUME IInv, Opendir
  PROVE  IInv'
<1> USE DEF IInv, Proper
<1>1. Used' = Used /\ \A n : Named(n)' = Named(n)
  BY DEF Used, Named, Opendir, FileVars
<1>2. OwnFiles'
  BY <1>1 DEF OwnFiles, Opendir, FileVars
<1>3. CASE ffs_dir_cnt > 0
  BY <1>1, <1>2, <1>3 DEF Opendir, FileVars, dirVars, Typed, ListInv
<1>4. CASE ~(ffs_dir_cnt > 0)
  <2>1. /\ ffs_dir_cnt' = 1 /\ dirEntId' = 0 /\ shown' = {} /\ UNCHANGED FileVars
        /\ stayed' = {ffs_tbl[s].name : s \in Used}
    BY <1>4 DEF Opendir
  <2>2. Typed'
    <3>1. stayed' \subseteq Titles
      BY <2>1, SlotFile DEF Used, FileOK, File
    <3>2. dirEntId' \in 0..FileCnt
      BY <2>1, SizeAssumption
    <3> QED
      BY <2>1, <3>1, <3>2 DEF Typed, FileVars
  <2>3. ListInv'
    <3>1. \A n \in stayed' : Named(n) # {}
      BY <2>1 DEF Named
    <3>2. \A s \in Used : s \in Nat
      BY SlotsFinite DEF Used
    <3> QED
      BY <1>1, <2>1, <3>1, <3>2 DEF ListInv, FileVars
  <2> QED
    BY <1>2, <2>2, <2>3
<1> QED
  BY <1>3, <1>4

(* Calls that change nothing but their answer, and the end of a listing.          *)
LEMMA UntouchedInv ==
  ASSUME IInv, UNCHANGED <<ffs_tbl, hnd, mode, stayed, dirVars>>
  PROVE  IInv'
BY DEF IInv, Proper, Typed, OwnFiles, ListInv, Used, Named, dirVars

LEMMA ClosedirInv ==
  ASSUME IInv, Closedir
  PROVE  IInv'
BY DEF IInv, Proper, Typed, OwnFiles, ListInv, Used, Named, Closedir, FileVars

LEMMA InitInv == Proper /\ Init => IInv
<1> SUFFICES ASSUME Proper, Init PROVE IInv
  OBVIOUS
<1>1. PICK n \in Names : ffs_tbl =
        [s \in Slots |-> [sts |-> "none", eof |-> FALSE, name |-> n, len |-> 0,
                          pos |-> 0, buf |-> [i \in 0..(FileLen - 1) |-> AnyData]]]
  BY DEF Init
<1> DEFINE no == FALSE
           f == [sts |-> "none", eof |-> no, name |-> n, len |-> 0,
                 pos |-> 0, buf |-> [i \in 0..(FileLen - 1) |-> AnyData]]
<1>2. ffs_tbl = [s \in Slots |-> f]
  BY <1>1
<1>3. no \in BOOLEAN
  OBVIOUS
<1>4. AnyData \in Data /\ 0 \in Lengths /\ 0 \in 0..UWMax /\ n \in Titles
  BY SizeAssumption DEF AnyData, Lengths, Titles
<1> HIDE DEF no
<1>5. f \in File /\ f.sts = "none"
  BY <1>3, <1>4 DEF File
<1> HIDE DEF f
<1>6. Typed
  <2>1. ffs_tbl \in [Slots -> File]
    BY <1>2, <1>5
  <2>2. 0 \in 0..FileCnt
    BY SizeAssumption
  <2> QED
    BY <2>1, <2>2 DEF Typed, Init
<1>7. Used = {}
  BY <1>2, <1>5 DEF Used
<1>8. OwnFiles
  BY <1>7 DEF OwnFiles, Init
<1>9. ListInv
  BY DEF ListInv, Init
<1> QED
  BY <1>6, <1>8, <1>9 DEF IInv

LEMMA NextInv == IInv /\ [Next]_vars => IInv'
<1> SUFFICES ASSUME IInv, [Next]_vars PROVE IInv'
  OBVIOUS
<1>1. ASSUME NEW u \in Users, UserStep(u) PROVE IInv'
  <2>1. CASE \E n \in Names : FopenRead(u, n) \/ FopenWrite(u, n)
    BY <2>1, FopenReadInv, FopenWriteInv
  <2>2. CASE \E n \in Names, m \in {"r", "w"} : FopenFail(u, n, m)
    BY <2>2, UntouchedInv DEF FopenFail
  <2>3. CASE \E size \in Sizes, n \in Counts : Fread(u, size, n) \/ Fwrite(u, size, n)
    BY <2>3, FreadInv, FwriteInv
  <2>4. CASE FreadNothing(u) \/ FwriteNothing(u) \/ Feof(u)
    BY <2>4, UntouchedInv DEF FreadNothing, FwriteNothing, Feof
  <2>5. CASE Fclose(u)
    BY <2>5, FcloseInv
  <2>6. CASE \E offset \in Offsets : Fseek(u, offset)
    BY <2>6, FseekInv
  <2> QED
    BY <1>1, <2>1, <2>2, <2>3, <2>4, <2>5, <2>6 DEF UserStep
<1>2. ASSUME NEW n \in Names, Remove(n) \/ Stat(n) \/ NotFound(n) PROVE IInv'
  BY <1>2, RemoveInv, StatInv, UntouchedInv DEF NotFound
<1>3. ASSUME NEW old \in Names,
             \/ \E new \in Names : RenameTaken(old, new)
             \/ RenameTooLong(old)
             \/ \E new \in Titles : Rename(old, new)
      PROVE  IInv'
  BY <1>3, RenameTakenInv, RenameTooLongInv, RenameInv
<1>4. CASE Opendir \/ Readdir \/ Closedir
  BY <1>4, OpendirInv, ReaddirInv, ClosedirInv
<1>5. CASE UNCHANGED vars
  BY <1>5, UntouchedInv DEF vars
<1> QED
  BY <1>1, <1>2, <1>3, <1>4, <1>5 DEF Next

-----------------------------------------------------------------------------
(* The invariant holds of every behaviour.                                      *)
LEMMA Invariance == ASSUME Proper PROVE Spec => []IInv
<1>1. Init => IInv
  BY InitInv
<1>2. IInv /\ [Next]_vars => IInv'
  BY NextInv
<1> QED
  BY <1>1, <1>2, PTL DEF Spec

(* A name never finds two files, and what a user has open is his own and still     *)
(* there (fopen, fclose, remove, rename, and stat, which leaves a file open), when  *)
(* rename is given no path that fopen refuses.                                      *)
THEOREM FilesOwned == ASSUME Proper PROVE Spec => []OwnFiles
<1>1. IInv => OwnFiles
  BY DEF IInv
<1> QED
  BY <1>1, Invariance, PTL

(* A listing shows every file that stays once, whatever happens between two calls   *)
(* of readdir; no rename is given a path that fopen refuses.                         *)
THEOREM ListingIsExact == ASSUME Proper PROVE Spec => ListingExact
<1> DEFINE Shows == IF ret'.entry = None THEN stayed \subseteq shown
                    ELSE ret'.entry \notin stayed \cap shown
           rest == {x \in Used : x >= dirEntId}
           s == First(rest)
<1>1. ASSUME IInv, Readdir PROVE Shows
  <2>0. ffs_dir_cnt = 1
    BY <1>1 DEF Readdir
  <2>1. CASE rest = {}
    <3>1. ret'.entry = None
      BY <1>1, <2>1 DEF Readdir
    <3>2. ASSUME NEW n \in stayed PROVE n \in shown
      <4>1. PICK x \in Used : ffs_tbl[x].name = n
        BY <1>1, <2>0 DEF IInv, ListInv, Named
      <4>2. x \in Int /\ dirEntId \in Int
        BY <1>1, SlotsFinite, SizeAssumption DEF Used, IInv, Typed
      <4>3. x < dirEntId
        BY <2>1, <4>2
      <4> QED
        BY <1>1, <2>0, <4>1, <4>3 DEF IInv, ListInv
    <3> QED
      BY <3>1, <3>2
  <2>2. CASE rest # {}
    <3>1. s \in Used /\ s \in Slots /\ s >= dirEntId
      BY <1>1, <2>2, NextShown
    <3>2. ret'.entry = ffs_tbl[s].name
      BY <1>1, <2>2 DEF Readdir
    <3> HIDE DEF s, rest
    <3>3. s \in Int /\ dirEntId \in Int
      BY <1>1, <3>1, SlotsFinite, SizeAssumption DEF IInv, Typed
    <3>4. ffs_tbl[s].name \in stayed => ffs_tbl[s].name \notin shown
      BY <1>1, <2>0, <3>1, <3>3 DEF IInv, ListInv
    <3>5. ffs_tbl[s].name # None
      BY <1>1, <3>1, SlotFile, SizeAssumption DEF IInv, FileOK, File, Titles
    <3> QED
      BY <3>2, <3>4, <3>5
  <2> QED
    BY <2>1, <2>2
<1>2. IInv /\ [Next]_vars => [Readdir => Shows]_vars
  BY <1>1
<1> QED
  BY <1>2, Invariance, PTL DEF Spec, ListingExact

-----------------------------------------------------------------------------
(* The table as a map from names to contents. tbl holds store: each name of a   *)
(* file in use, and no other, stands for the contents of that file.              *)
StoreOf(store, tbl) ==
  /\ store = [n \in DOMAIN store |-> store[n]]
  /\ \A n : n \in DOMAIN store <=> \E s \in Slots : tbl[s].sts # "none" /\ tbl[s].name = n
  /\ \A s \in Slots : tbl[s].sts # "none" => store[tbl[s].name] = Contents(tbl[s])

LEMMA StoreUnique ==
  ASSUME NEW g, NEW h, NEW tbl, StoreOf(g, tbl), StoreOf(h, tbl)
  PROVE  g = h
<1>1. DOMAIN g = DOMAIN h
  BY DEF StoreOf
<1>2. \A n \in DOMAIN g : g[n] = h[n]
  BY DEF StoreOf
<1> QED
  BY <1>1, <1>2 DEF StoreOf

LEMMA HeldIs == IInv => StoreOf(Held, ffs_tbl)
<1> SUFFICES ASSUME IInv PROVE StoreOf(Held, ffs_tbl)
  OBVIOUS
<1>1. Held = [n \in DOMAIN Held |-> Held[n]]
  BY DEF Held
<1>2. DOMAIN Held = {ffs_tbl[s].name : s \in Used}
  BY DEF Held
<1>3. ASSUME NEW s \in Slots, ffs_tbl[s].sts # "none"
      PROVE  Held[ffs_tbl[s].name] = Contents(ffs_tbl[s])
  <2>1. s \in Used /\ s \in Named(ffs_tbl[s].name)
    BY <1>3 DEF Used, Named
  <2>2. First(Named(ffs_tbl[s].name)) = s
    BY <2>1, FirstNamed DEF IInv, OwnFiles
  <2> QED
    BY <2>1, <2>2 DEF Held
<1> QED
  BY <1>1, <1>2, <1>3 DEF StoreOf, Used

LEMMA HeldNext == IInv' => StoreOf(Held', ffs_tbl')
<1>1. IInv' => StoreOf(Held, ffs_tbl)'
  BY HeldIs, PTL
<1> QED
  BY <1>1

LEMMA ExistsIs ==
  ASSUME IInv, NEW n
  PROVE  Store!Exists(n) <=> Named(n) # {}
BY HeldIs DEF StoreOf, Store!Exists, Named, Used

(* What a file holds is as long as it says.                                     *)
LEMMA SameCount == ASSUME NEW S PROVE Store!Cardinality(S) = Cardinality(S)
BY DEF Store!Cardinality, Cardinality

LEMMA SizeIs ==
  ASSUME IInv, NEW s \in Used
  PROVE  /\ Held[ffs_tbl[s].name] = Contents(ffs_tbl[s])
         /\ Store!SizeOf(ffs_tbl[s].name) = ffs_tbl[s].len
<1>1. s \in Slots /\ ffs_tbl[s].sts # "none"
  BY DEF Used
<1>2. Held[ffs_tbl[s].name] = Contents(ffs_tbl[s])
  BY <1>1, HeldIs DEF StoreOf
<1>3. ffs_tbl[s].len \in Nat
  BY <1>1, SlotFile, SizeAssumption DEF IInv, FileOK, File, Lengths
<1>4. DOMAIN Contents(ffs_tbl[s]) = 0..(ffs_tbl[s].len - 1)
  BY DEF Contents
<1>5. Cardinality(0..(ffs_tbl[s].len - 1)) = ffs_tbl[s].len
  BY <1>3, FS_Interval
<1> QED
  BY <1>2, <1>4, <1>5, SameCount DEF Store!SizeOf

(* One slot changes: its file keeps what it holds, gets other contents, goes, or *)
(* gets another name.                                                             *)
SameBut(s, t, u) == \A x \in Slots \ {s} : u[x] = t[x]

LEMMA SameHeld ==
  ASSUME NEW h, NEW t, NEW u, NEW s \in Slots, StoreOf(h, t),
         SameBut(s, t, u),
         t[s].sts # "none", u[s].sts # "none",
         u[s].name = t[s].name, Contents(u[s]) = Contents(t[s])
  PROVE  StoreOf(h, u)
BY DEF StoreOf, SameBut

Distinct(t) ==
  \A x, y \in Slots : t[x].sts # "none" /\ t[y].sts # "none" /\ t[x].name = t[y].name => x = y

(* g is h with c for n.                                                          *)
IsWith(g, h, n, c) ==
  /\ g = [m \in DOMAIN g |-> g[m]] /\ DOMAIN g = DOMAIN h \cup {n}
  /\ g[n] = c /\ \A m \in DOMAIN h \ {n} : g[m] = h[m]

LEMMA NewHeld ==
  ASSUME NEW g, NEW h, NEW t, NEW u, NEW s \in Slots, StoreOf(h, t), Distinct(u),
         SameBut(s, t, u),
         u[s].sts # "none", t[s].sts # "none" => t[s].name = u[s].name,
         NEW n, n = u[s].name, IsWith(g, h, n, Contents(u[s]))
  PROVE  StoreOf(g, u)
<1> USE DEF SameBut, IsWith
<1>1. g = [m \in DOMAIN g |-> g[m]]
  OBVIOUS
<1>2. ASSUME NEW m
      PROVE  m \in DOMAIN g <=> \E x \in Slots : u[x].sts # "none" /\ u[x].name = m
  <2>1. CASE m = n
    BY <2>1
  <2>2. CASE m # n
    <3>1. m \in DOMAIN h <=> \E x \in Slots : t[x].sts # "none" /\ t[x].name = m
      BY DEF StoreOf
    <3> QED
      BY <2>2, <3>1
  <2> QED
    BY <2>1, <2>2
<1>3. ASSUME NEW x \in Slots, u[x].sts # "none" PROVE g[u[x].name] = Contents(u[x])
  <2>1. CASE x = s
    BY <2>1
  <2>2. CASE x # s
    <3>1. u[x].name # n /\ u[x] = t[x]
      BY <1>3, <2>2 DEF Distinct
    <3>2. h[t[x].name] = Contents(t[x]) /\ t[x].name \in DOMAIN h
      BY <1>3, <3>1 DEF StoreOf
    <3> QED
      BY <3>1, <3>2
  <2> QED
    BY <2>1, <2>2
<1> QED
  BY <1>1, <1>2, <1>3 DEF StoreOf

LEMMA GoneHeld ==
  ASSUME NEW h, NEW t, NEW u, NEW s \in Slots, StoreOf(h, t), Distinct(t),
         SameBut(s, t, u),
         t[s].sts # "none", u[s].sts = "none", NEW n, n = t[s].name
  PROVE  StoreOf([m \in DOMAIN h \ {n} |-> h[m]], u)
<1> USE DEF SameBut
<1> DEFINE g == [m \in DOMAIN h \ {n} |-> h[m]]
<1>1. g = [m \in DOMAIN g |-> g[m]]
  OBVIOUS
<1>2. ASSUME NEW x \in Slots, u[x].sts # "none"
      PROVE  u[x] = t[x] /\ u[x].name # n
  BY <1>2 DEF Distinct
<1>3. ASSUME NEW m
      PROVE  m \in DOMAIN g <=> \E x \in Slots : u[x].sts # "none" /\ u[x].name = m
  <2>1. m \in DOMAIN h <=> \E x \in Slots : t[x].sts # "none" /\ t[x].name = m
    BY DEF StoreOf
  <2> QED
    BY <1>2, <2>1
<1>4. ASSUME NEW x \in Slots, u[x].sts # "none" PROVE g[u[x].name] = Contents(u[x])
  <2>1. h[t[x].name] = Contents(t[x]) /\ t[x].name \in DOMAIN h
    BY <1>2, <1>4 DEF StoreOf
  <2> QED
    BY <1>2, <1>4, <2>1
<1> HIDE DEF g
<1>5. StoreOf(g, u)
  BY <1>1, <1>3, <1>4 DEF StoreOf
<1> QED
  BY <1>5 DEF g

LEMMA RenamedHeld ==
  ASSUME NEW h, NEW t, NEW u, NEW s \in Slots, StoreOf(h, t), Distinct(t), Distinct(u),
         SameBut(s, t, u),
         t[s].sts # "none", u[s].sts # "none", Contents(u[s]) = Contents(t[s]),
         NEW a, a = t[s].name, NEW b, b = u[s].name
  PROVE  StoreOf([m \in (DOMAIN h \ {a}) \cup {b} |-> IF m = b THEN h[a] ELSE h[m]], u)
<1> USE DEF SameBut
<1> DEFINE g == [m \in (DOMAIN h \ {a}) \cup {b} |-> IF m = b THEN h[a] ELSE h[m]]
<1>1. g = [m \in DOMAIN g |-> g[m]]
  OBVIOUS
<1>2. ASSUME NEW m
      PROVE  m \in DOMAIN g <=> \E x \in Slots : u[x].sts # "none" /\ u[x].name = m
  <2>1. m \in DOMAIN h <=> \E x \in Slots : t[x].sts # "none" /\ t[x].name = m
    BY DEF StoreOf
  <2>2. CASE m = b
    BY <2>2
  <2>3. CASE m # b
    BY <2>1, <2>3 DEF Distinct
  <2> QED
    BY <2>2, <2>3
<1>3. ASSUME NEW x \in Slots, u[x].sts # "none" PROVE g[u[x].name] = Contents(u[x])
  <2>1. CASE x = s
    BY <2>1 DEF StoreOf
  <2>2. CASE x # s
    <3>1. u[x].name # b /\ u[x] = t[x] /\ t[x].name # a
      BY <1>3, <2>2 DEF Distinct
    <3>2. h[t[x].name] = Contents(t[x]) /\ t[x].name \in DOMAIN h
      BY <1>3, <3>1 DEF StoreOf
    <3> QED
      BY <3>1, <3>2
  <2> QED
    BY <2>1, <2>2
<1> HIDE DEF g
<1>4. StoreOf(g, u)
  BY <1>1, <1>2, <1>3 DEF StoreOf
<1> QED
  BY <1>4 DEF g

LEMMA NamesDiffer == IInv => Distinct(ffs_tbl)
BY DEF IInv, OwnFiles, Distinct, Used

LEMMA NamesDifferNext == IInv' => Distinct(ffs_tbl')
<1>1. IInv' => Distinct(ffs_tbl)'
  BY NamesDiffer, PTL
<1> QED
  BY <1>1

(* Where the users are.                                                         *)
LEMMA PlaceIs ==
  ASSUME IInv, NEW u \in Users
  PROVE  /\ hnd[u] = None <=> Places[u] = None
         /\ hnd[u] # None => /\ Places[u] = Place(ffs_tbl[hnd[u]])
                             /\ Places[u].name = ffs_tbl[hnd[u]].name
                             /\ Places[u].pos = ffs_tbl[hnd[u]].pos
                             /\ Places[u].ended = ffs_tbl[hnd[u]].eof
<1>1. CASE hnd[u] = None
  BY <1>1 DEF Places
<1>2. CASE hnd[u] # None
  <2> DEFINE f == ffs_tbl[hnd[u]]
  <2>1. Places[u] = Place(f)
    BY <1>2 DEF Places
  <2>2. f \in File
    BY <1>2, UsedFile DEF FileOK
  <2> HIDE DEF f
  <2>3. Place(f) \in [name : Titles, pos : 0..UWMax, ended : BOOLEAN]
    BY <2>2 DEF Place, File
  <2>4. Place(f) # None
    BY <2>3, NoneAssumption DEF Titles
  <2>5. Place(f).name = f.name /\ Place(f).pos = f.pos /\ Place(f).ended = f.eof
    BY DEF Place
  <2> QED
    BY <1>2, <2>1, <2>4, <2>5 DEF f
<1> QED
  BY <1>1, <1>2

LEMMA PlacesSame ==
  ASSUME hnd' = hnd,
         \A v \in Users : hnd[v] # None => ffs_tbl'[hnd[v]] = ffs_tbl[hnd[v]]
  PROVE  Places' = Places
BY DEF Places

(* One user's file or place changes.                                            *)
LEMMA PlacesMove ==
  ASSUME NEW u \in Users, NEW p,
         \A v \in Users \ {u} : /\ hnd'[v] = hnd[v]
                                /\ hnd[v] # None => ffs_tbl'[hnd[v]] = ffs_tbl[hnd[v]],
         p = IF hnd'[u] = None THEN None ELSE Place(ffs_tbl'[hnd'[u]])
  PROVE  Places' = [Places EXCEPT ![u] = p]
<1>1. Places' = [v \in Users |-> IF hnd'[v] = None THEN None ELSE Place(ffs_tbl'[hnd'[v]])]
  BY DEF Places
<1>2. \A v \in Users \ {u} : Places'[v] = Places[v]
  BY <1>1 DEF Places
<1>3. Places'[u] = p
  BY <1>1
<1>4. DOMAIN Places = Users
  BY DEF Places
<1> QED
  BY <1>1, <1>2, <1>3, <1>4 DEF Places

(* There is room for a new name while a slot is free.                           *)
LEMMA RoomIs ==
  ASSUME IInv
  PROVE  Store!Cardinality(DOMAIN Held) < FileCnt <=> Used # Slots
<1> DEFINE f == [s \in Used |-> ffs_tbl[s].name]
<1>1. DOMAIN Held = {ffs_tbl[s].name : s \in Used}
  BY DEF Held
<1>2. f \in Bijection(Used, DOMAIN Held)
  <2>1. f \in [Used -> DOMAIN Held] /\ \A n1 \in DOMAIN Held : \E s \in Used : f[s] = n1
    BY <1>1
  <2>2. \A s, t \in Used : f[s] = f[t] => s = t
    BY DEF IInv, OwnFiles
  <2> HIDE DEF f
  <2> QED
    BY <2>1, <2>2, Fun_IsBij
<1>3. IsFiniteSet(Slots) /\ Cardinality(Slots) = FileCnt
  BY SizeAssumption, FS_Interval DEF Slots
<1>4. Used \subseteq Slots
  BY DEF Used
<1> HIDE DEF f
<1>5. IsFiniteSet(Used)
  BY <1>3, <1>4, FS_Subset
<1>6. Bijection(Used, DOMAIN Held) # {}
  BY <1>2
<1>7. ExistsBijection(Used, DOMAIN Held)
  BY <1>6, Fun_ExistsBij
<1>8. Cardinality(DOMAIN Held) = Cardinality(Used) /\ Cardinality(Used) \in Nat
  BY <1>5, <1>7, FS_Bijection, FS_CardinalityType
<1>9. Cardinality(Used) <= Cardinality(Slots)
      /\ (Cardinality(Used) = Cardinality(Slots) => Used = Slots)
  BY <1>3, <1>4, FS_Subset
<1>10. Store!Cardinality(DOMAIN Held) = Cardinality(Used)
  BY <1>8, SameCount
<1> QED
  BY <1>3, <1>8, <1>9, <1>10, SizeAssumption

LEMMA HeldSame ==
  ASSUME ffs_tbl' = ffs_tbl
  PROVE  Held' = Held
BY DEF Held, Used, Named

-----------------------------------------------------------------------------
(* Calls that change nothing but their answer.                                  *)
LEMMA FopenFailStep ==
  ASSUME IInv, NEW u \in Users, NEW n \in Names, NEW m \in {"r", "w"}, FopenFail(u, n, m)
  PROVE  Store!Open(u, n) \/ Store!Create(u, n)
<1>1. Held' = Held /\ Places' = Places /\ ret' = Store!Fail
  BY HeldSame, PlacesSame DEF FopenFail, Fail, Store!Fail
<1>2. Places[u] = None /\ ~Store!Exists(n)
  BY PlaceIs, ExistsIs DEF FopenFail
<1>3. CASE m = "r"
  BY <1>1, <1>2 DEF Store!Open
<1>4. CASE m = "w"
  <2>1. Used = Slots
    BY <1>4 DEF FopenFail
  <2>3. ~Store!HasRoom(n)
    BY <1>2, <2>1, RoomIs DEF Store!HasRoom
  <2> QED
    BY <1>1, <1>2, <2>3 DEF Store!Create
<1> QED
  BY <1>3, <1>4

LEMMA FreadNothingStep ==
  ASSUME IInv, NEW u \in Users, NEW size \in Sizes, NEW cnt \in Counts, FreadNothing(u)
  PROVE  Store!Read(u, size, cnt)
<1> DEFINE f == ffs_tbl[hnd[u]]
           c == Places[u]
           none == [i \in 0..(size * 0 - 1) |-> Held[c.name][c.pos + i]]
<1>1. Held' = Held /\ Places' = Places
  BY HeldSame, PlacesSame DEF FreadNothing
<1>2. PICK b \in Bytes(f, 0) :
        hnd[u] # None /\ ~Ready(f) /\ ret' = [n |-> 0, data |-> b]
  BY DEF FreadNothing, Using
<1>3. f.sts = "opn" /\ FileOK(f) /\ f.pos \in Nat
  BY <1>2, UsedFile
<1>4. c = Place(f) /\ c # None /\ c.ended = TRUE /\ c.pos \in Int /\ c.name = f.name
  <2>1. c # None /\ c.ended = f.eof /\ c = Place(f) /\ c.name = f.name /\ c.pos = f.pos
    BY <1>2, PlaceIs
  <2>2. f.eof = TRUE
    BY <1>2, <1>3 DEF Ready, FileOK, File
  <2> QED
    BY <1>3, <2>1, <2>2
<1>5. size \in Nat /\ cnt \in Nat /\ size * 0 = 0
  BY SizeAssumption
<1>6. b = none
  <2>1. b \in [0..(0 - 1) -> Data] /\ 0..(0 - 1) = {} /\ size * 0 - 1 = 0 - 1
    BY <1>5 DEF Bytes
  <2> QED
    BY <2>1
<1>7. Places' = Store!Moved(u, c.pos + size * 0, TRUE)
  <2>1. c.pos + size * 0 = c.pos
    BY <1>4, <1>5
  <2>3. Place(f) = Store!At(c.name, c.pos, TRUE)
    <3>1. c = [name |-> c.name, pos |-> c.pos, ended |-> c.ended]
      BY <1>4 DEF Place
    <3> QED
      BY <1>4, <3>1 DEF Store!At
  <2>2. Places = [Places EXCEPT ![u] = Place(f)]
    BY <1>4 DEF Places
  <2> QED
    BY <1>1, <1>4, <2>1, <2>2, <2>3 DEF Store!Moved
<1> HIDE DEF none, c, f
<1>8. 0 \in 0..cnt /\ ret' = [n |-> 0, data |-> none]
  BY <1>2, <1>5, <1>6
<1> QED
  BY <1>1, <1>4, <1>7, <1>8 DEF Store!Read, none, c

LEMMA ReopenedFields ==
  ASSUME NEW f \in File
  PROVE  /\ Reopened(f).sts = "opn" /\ Reopened(f).name = f.name
         /\ Reopened(f).len = f.len /\ Reopened(f).buf = f.buf
         /\ Place(Reopened(f)) = Store!At(f.name, 0, FALSE)
<1> DEFINE g == Reopened(f)
           no == FALSE
<1>1. g = [f EXCEPT !.sts = "opn", !.eof = no, !.pos = 0]
  BY DEF Reopened
<1> HIDE DEF g, no
<1>2. /\ g.sts = "opn" /\ g.name = f.name /\ g.len = f.len /\ g.buf = f.buf
      /\ g.pos = 0 /\ g.eof = no
  BY <1>1 DEF File
<1>3. Place(g) = [name |-> f.name, pos |-> 0, ended |-> no]
  BY <1>2 DEF Place
<1>4. Place(g) = Store!At(f.name, 0, FALSE)
  BY <1>3 DEF Store!At, no
<1> QED
  BY <1>2, <1>4 DEF g

LEMMA ClosedFields ==
  ASSUME NEW f \in File
  PROVE  /\ Closed(f).sts = "cls" /\ Closed(f).name = f.name
         /\ Closed(f).len = f.len /\ Closed(f).buf = f.buf
<1> DEFINE no == FALSE
<1>1. Closed(f) = [f EXCEPT !.sts = "cls", !.eof = no]
  BY DEF Closed
<1> HIDE DEF no
<1> QED
  BY <1>1 DEF File

LEMMA WithIs == ASSUME NEW n, NEW c PROVE IsWith(Store!With(n, c), Held, n, c)
BY DEF IsWith, Store!With

LEMMA HoldPlaces ==
  ASSUME IInv, NEW u \in Users, NEW s \in Slots, NEW g,
         ffs_tbl' = [ffs_tbl EXCEPT ![s] = g], hnd' = [hnd EXCEPT ![u] = s],
         \A v \in Users : hnd[v] # s
  PROVE  Places' = [Places EXCEPT ![u] = Place(g)]
<1>1. ffs_tbl'[s] = g /\ \A x \in Slots \ {s} : ffs_tbl'[x] = ffs_tbl[x]
  BY DEF IInv, Typed
<1>2. hnd'[u] = s /\ \A v \in Users \ {u} : hnd'[v] = hnd[v]
  BY DEF IInv, Typed
<1>3. s # None /\ \A v \in Users : hnd[v] # None => hnd[v] \in Slots \ {s}
  BY SizeAssumption DEF IInv, Typed, Slots
<1> QED
  BY <1>1, <1>2, <1>3, PlacesMove

LEMMA FeofStep ==
  ASSUME IInv, NEW u \in Users, Feof(u)
  PROVE  Store!Ended(u)
<1>1. Held' = Held /\ Places' = Places
  BY HeldSame, PlacesSame DEF Feof
<1>2. Places[u] # None /\ ret' = [ok |-> Places[u].ended]
  <2>1. hnd[u] # None /\ ret' = [ok |-> ffs_tbl[hnd[u]].eof]
    BY DEF Feof
  <2>2. Places[u] # None /\ Places[u].ended = ffs_tbl[hnd[u]].eof
    BY <2>1, PlaceIs
  <2> QED
    BY <2>1, <2>2
<1> QED
  BY <1>1, <1>2 DEF Store!Ended

(* A call on the file of one user.                                               *)
LEMMA PutPlaces ==
  ASSUME IInv, NEW u \in Users, NEW f, hnd[u] # None, Put(u, f)
  PROVE  Places' = [Places EXCEPT ![u] = Place(f)]
<1>1. /\ hnd' = hnd /\ hnd[u] \in Slots /\ ffs_tbl'[hnd[u]] = f
      /\ \A x \in Slots \ {hnd[u]} : ffs_tbl'[x] = ffs_tbl[x]
  BY UsedFile DEF Put, IInv, Typed
<1>2. \A v \in Users \ {u} : hnd[v] # None => hnd[v] \in Slots \ {hnd[u]}
  BY DEF IInv, Typed, OwnFiles
<1> QED
  BY <1>1, <1>2, PlacesMove

LEMMA PutHeld ==
  ASSUME IInv, IInv', NEW u \in Users, NEW f, hnd[u] # None, Put(u, f),
         f.sts = "opn", f.name = ffs_tbl[hnd[u]].name,
         Contents(f) = Contents(ffs_tbl[hnd[u]])
  PROVE  Held' = Held
<1>1. /\ hnd[u] \in Slots /\ ffs_tbl'[hnd[u]] = f /\ ffs_tbl[hnd[u]].sts = "opn"
      /\ \A x \in Slots \ {hnd[u]} : ffs_tbl'[x] = ffs_tbl[x]
  BY UsedFile DEF Put, IInv, Typed
<1>2. StoreOf(Held, ffs_tbl')
  BY <1>1, HeldIs, SameHeld DEF SameBut
<1> QED
  BY <1>2, HeldNext, StoreUnique

LEMMA FseekStep ==
  ASSUME IInv, IInv', NEW u \in Users, NEW offset \in Offsets, Fseek(u, offset)
  PROVE  Store!Seek(u, offset)
<1> DEFINE f == ffs_tbl[hnd[u]]
           g == [f EXCEPT !.pos = offset]
<1>1. /\ hnd[u] # None
      /\ IF Ready(f) THEN Put(u, g) /\ ret' = Done ELSE Put(u, f) /\ ret' = Fail
  BY DEF Fseek, Using
<1>2. FileOK(f) /\ f.sts = "opn" /\ hnd[u] \in Used
  BY <1>1, UsedFile DEF Used
<1>3. /\ Places[u] # None /\ Places[u].ended = f.eof /\ Places[u].name = f.name
      /\ Places[u] = Place(f)
  BY <1>1, PlaceIs
<1>4. f.eof \in BOOLEAN
  BY <1>2 DEF FileOK, File
<1>5. CASE Ready(f)
  <2>1. f.eof = FALSE
    BY <1>4, <1>5 DEF Ready
  <2>2. /\ g.sts = "opn" /\ g.name = f.name /\ g.len = f.len /\ g.buf = f.buf
        /\ g.pos = offset /\ g.eof = f.eof
    BY <1>2 DEF FileOK, File
  <2>3. Put(u, g) /\ ret' = Store!Done
    BY <1>1, <1>5 DEF Done, Store!Done
  <2> HIDE DEF g
  <2>4. Contents(g) = Contents(f)
    BY <2>2 DEF Contents
  <2>5. Held' = Held
    BY <1>1, <2>2, <2>3, <2>4, PutHeld
  <2>6. Place(g) = Store!At(f.name, offset, FALSE)
    <3>1. Place(g) = [name |-> f.name, pos |-> offset, ended |-> f.eof]
      BY <2>2 DEF Place
    <3> QED
      BY <2>1, <3>1 DEF Store!At
  <2>7. Places' = Store!Moved(u, offset, FALSE)
    <3>1. Places' = [Places EXCEPT ![u] = Place(g)]
      BY <1>1, <2>3, PutPlaces
    <3>2. [Places EXCEPT ![u] = Place(g)] = Store!Moved(u, offset, FALSE)
      BY <1>3, <2>6 DEF Store!Moved
    <3> QED
      BY <3>1, <3>2
  <2>8. ~Places[u].ended
    BY <1>3, <2>1
  <2> QED
    BY <1>3, <2>3, <2>5, <2>7, <2>8 DEF Store!Seek
<1>6. CASE ~Ready(f)
  <2>1. Put(u, f) /\ ret' = Store!Fail
    BY <1>1, <1>6 DEF Fail, Store!Fail
  <2>2. Held' = Held
    BY <1>1, <1>2, <2>1, PutHeld
  <2>3. Places' = Places
    <3>1. Places' = [Places EXCEPT ![u] = Places[u]]
      BY <1>1, <1>3, <2>1, PutPlaces
    <3> QED
      BY <3>1 DEF Places
  <2>4. Places[u].ended
    BY <1>2, <1>3, <1>4, <1>6 DEF Ready
  <2> QED
    BY <1>3, <2>1, <2>2, <2>3, <2>4 DEF Store!Seek
<1> QED
  BY <1>5, <1>6

(* fopen and fclose.                                                             *)
LEMMA FopenReadStep ==
  ASSUME IInv, IInv', NEW u \in Users, NEW n \in Names, FopenRead(u, n)
  PROVE  Store!Open(u, n)
<1> DEFINE s == First(Named(n))
           f == ffs_tbl[s]
           g == Reopened(f)
<1>1. /\ hnd[u] = None /\ s \in Slots /\ s \in Used /\ f.name = n
      /\ ffs_tbl' = [ffs_tbl EXCEPT ![s] = g] /\ hnd' = [hnd EXCEPT ![u] = s]
      /\ ret' = Store!Done /\ \A v \in Users : hnd[v] # s
  BY FirstNamed, NotHeld DEF FopenRead, Hold, Done, Store!Done
<1>2. FileOK(f) /\ f.sts # "none"
  BY <1>1, SlotFile DEF IInv, Used
<1>3. /\ g.sts = "opn" /\ g.name = n /\ g.len = f.len /\ g.buf = f.buf
      /\ Place(g) = Store!At(n, 0, FALSE)
  BY <1>1, <1>2, ReopenedFields DEF FileOK
<1> HIDE DEF s, f, g
<1>4. Held' = Held
  <2>1. Contents(g) = Contents(f)
    BY <1>3 DEF Contents
  <2>2. ffs_tbl'[s] = g /\ \A x \in Slots \ {s} : ffs_tbl'[x] = ffs_tbl[x]
    BY <1>1 DEF IInv, Typed
  <2>3. /\ ffs_tbl[s].sts # "none" /\ ffs_tbl'[s].sts # "none"
        /\ ffs_tbl'[s].name = ffs_tbl[s].name
        /\ Contents(ffs_tbl'[s]) = Contents(ffs_tbl[s])
    BY <1>1, <1>2, <1>3, <2>1, <2>2 DEF f
  <2>4. StoreOf(Held, ffs_tbl')
    BY <1>1, <2>2, <2>3, HeldIs, SameHeld DEF SameBut
  <2> QED
    BY <2>4, HeldNext, StoreUnique
<1>5. Places' = [Places EXCEPT ![u] = Store!At(n, 0, FALSE)]
  <2>1. Places' = [Places EXCEPT ![u] = Place(g)]
    BY <1>1, HoldPlaces
  <2> QED
    BY <1>3, <2>1
<1>6. Store!Exists(n) /\ Places[u] = None
  BY <1>1, PlaceIs, ExistsIs DEF FopenRead
<1> QED
  BY <1>1, <1>4, <1>5, <1>6 DEF Store!Open

LEMMA FopenWriteStep ==
  ASSUME IInv, IInv', NEW u \in Users, NEW n \in Names, FopenWrite(u, n)
  PROVE  Store!Create(u, n)
<1> DEFINE s == IF Named(n) # {} THEN First(Named(n)) ELSE LastOf(Slots \ Used)
           f == [ffs_tbl[s] EXCEPT !.name = n, !.len = 0]
           g == Reopened(f)
<1>1. /\ hnd[u] = None
      /\ ffs_tbl' = [ffs_tbl EXCEPT ![s] = g] /\ hnd' = [hnd EXCEPT ![u] = s]
      /\ ret' = Store!Done
  BY DEF FopenWrite, Hold, Done, Store!Done
<1>2. /\ s \in Slots /\ Store!HasRoom(n)
      /\ (s \in Used /\ ffs_tbl[s].name = n) \/ (s \notin Used /\ Named(n) = {})
  <2>1. CASE Named(n) # {}
    BY <2>1, FirstNamed, ExistsIs DEF Store!HasRoom
  <2>2. CASE Named(n) = {}
    <3>1. Slots \ Used # {}
      BY <2>2 DEF FopenWrite
    <3> QED
      BY <2>2, <3>1, LastExists, RoomIs DEF Store!HasRoom
  <2> QED
    BY <2>1, <2>2
<1>3. \A v \in Users : hnd[v] # s
  <2>1. CASE s \in Used
    BY <1>2, <2>1, NotHeld DEF FopenWrite
  <2>2. CASE s \notin Used
    BY <1>2, <2>2, SizeAssumption DEF IInv, OwnFiles, Used, Slots
  <2> QED
    BY <2>1, <2>2
<1>4. f \in File /\ f.name = n /\ f.len = 0
  <2> DEFINE o == ffs_tbl[s]
             p == [o EXCEPT !.name = n, !.len = 0]
  <2>1. FileOK(o)
    BY <1>2, SlotFile DEF IInv
  <2>2. 0 \in Lengths /\ n \in Titles
    BY SizeAssumption DEF Lengths, Titles
  <2> HIDE DEF o
  <2>3. p \in File /\ p.name = n /\ p.len = 0
    BY <2>1, <2>2 DEF FileOK, File
  <2> QED
    BY <2>3 DEF o
<1>5. /\ g.sts = "opn" /\ g.name = n /\ g.len = 0
      /\ Place(g) = Store!At(n, 0, FALSE)
  BY <1>4, ReopenedFields
<1> HIDE DEF s, f, g
<1>6. Held' = Store!With(n, Store!Empty)
  <2>1. Contents(g) = Store!Empty
    <3>1. 0..(0 - 1) = {}
      OBVIOUS
    <3> QED
      BY <1>5, <3>1 DEF Contents, Store!Empty
  <2>2. ffs_tbl'[s] = g /\ \A x \in Slots \ {s} : ffs_tbl'[x] = ffs_tbl[x]
    BY <1>1, <1>2 DEF IInv, Typed
  <2>3. ffs_tbl[s].sts # "none" => ffs_tbl[s].name = g.name
    BY <1>2, <1>5 DEF Used
  <2>4. StoreOf(Store!With(n, Store!Empty), ffs_tbl')
    <3>1. SameBut(s, ffs_tbl, ffs_tbl')
      BY <2>2 DEF SameBut
    <3>2. IsWith(Store!With(n, Store!Empty), Held, n, Contents(ffs_tbl'[s]))
      BY <2>1, <2>2, WithIs
    <3> QED
      BY <1>2, <1>5, <2>2, <2>3, <3>1, <3>2, HeldIs, NamesDifferNext, NewHeld
  <2> QED
    BY <2>4, HeldNext, StoreUnique
<1>7. Places' = [Places EXCEPT ![u] = Store!At(n, 0, FALSE)]
  <2>1. Places' = [Places EXCEPT ![u] = Place(g)]
    BY <1>1, <1>2, <1>3, HoldPlaces
  <2> QED
    BY <1>5, <2>1
<1>8. Places[u] = None
  BY <1>1, PlaceIs
<1> QED
  BY <1>1, <1>2, <1>6, <1>7, <1>8 DEF Store!Create

LEMMA FcloseStep ==
  ASSUME IInv, IInv', NEW u \in Users, Fclose(u)
  PROVE  Store!Close(u)
<1> DEFINE s == hnd[u]
           g == Closed(ffs_tbl[s])
<1>1. /\ s # None /\ ffs_tbl' = [ffs_tbl EXCEPT ![s] = g]
      /\ hnd' = [hnd EXCEPT ![u] = None] /\ ret' = Store!Done
  BY DEF Fclose, Done, Store!Done
<1>2. s \in Slots /\ FileOK(ffs_tbl[s]) /\ ffs_tbl[s].sts = "opn"
  BY <1>1, UsedFile
<1>3. /\ g.sts = "cls" /\ g.name = ffs_tbl[s].name
      /\ g.len = ffs_tbl[s].len /\ g.buf = ffs_tbl[s].buf
  BY <1>2, ClosedFields DEF FileOK
<1>4. ffs_tbl'[s] = g /\ \A x \in Slots \ {s} : ffs_tbl'[x] = ffs_tbl[x]
  BY <1>1, <1>2 DEF IInv, Typed
<1>5. \A v \in Users \ {u} : /\ hnd'[v] = hnd[v]
                             /\ hnd[v] # None => hnd[v] \in Slots \ {s}
  BY <1>1, <1>2 DEF IInv, Typed, OwnFiles
<1>6. hnd'[u] = None
  BY <1>1 DEF IInv, Typed
<1>7. Places[u] # None
  BY <1>1, PlaceIs
<1> HIDE DEF g, s
<1>8. Held' = Held
  <2>1. Contents(g) = Contents(ffs_tbl[s])
    BY <1>3 DEF Contents
  <2>2. StoreOf(Held, ffs_tbl')
    BY <1>2, <1>3, <1>4, <2>1, HeldIs, SameHeld DEF SameBut
  <2> QED
    BY <2>2, HeldNext, StoreUnique
<1>9. Places' = [Places EXCEPT ![u] = None]
  BY <1>4, <1>5, <1>6, PlacesMove
<1> QED
  BY <1>1, <1>7, <1>8, <1>9 DEF Store!Close

-----------------------------------------------------------------------------
(* Names and listings.                                                          *)
LEMMA OthersPlaces ==
  ASSUME IInv, NEW s \in Slots, NEW g, ffs_tbl' = [ffs_tbl EXCEPT ![s] = g], hnd' = hnd,
         \A v \in Users : hnd[v] # s
  PROVE  /\ Places' = Places
         /\ ffs_tbl'[s] = g /\ \A x \in Slots \ {s} : ffs_tbl'[x] = ffs_tbl[x]
<1>1. ffs_tbl'[s] = g /\ \A x \in Slots \ {s} : ffs_tbl'[x] = ffs_tbl[x]
  BY DEF IInv, Typed
<1>2. \A v \in Users : hnd[v] # None => hnd[v] \in Slots \ {s}
  BY DEF IInv, Typed
<1> QED
  BY <1>1, <1>2, PlacesSame

(* The file of a name that nobody has open.                                      *)
LEMMA FoundFile ==
  ASSUME IInv, NEW n, NotOpen(n), Named(n) # {}, NEW s, s = First(Named(n))
  PROVE  /\ s \in Slots /\ s \in Used /\ ffs_tbl[s].name = n /\ ffs_tbl[s].sts # "none"
         /\ ffs_tbl[s] \in File /\ \A u \in Users : hnd[u] # s
<1>1. s \in Slots /\ s \in Used /\ ffs_tbl[s].name = n
  BY FirstNamed
<1> QED
  BY <1>1, NotHeld, SlotFile DEF FileOK, Used, IInv

LEMMA RemoveStep ==
  ASSUME IInv, IInv', NEW n \in Names, Remove(n)
  PROVE  Store!Remove(n)
<1> DEFINE s == First(Named(n))
           g == [Reopened(ffs_tbl[s]) EXCEPT !.sts = "none"]
<1>1. /\ NotOpen(n) /\ Named(n) # {} /\ ret' = Store!Done /\ hnd' = hnd
      /\ ffs_tbl' = [ffs_tbl EXCEPT ![s] = g]
  BY DEF Remove, Done, Store!Done
<1>2. /\ s \in Slots /\ ffs_tbl[s].name = n /\ ffs_tbl[s].sts # "none"
      /\ ffs_tbl[s] \in File /\ \A u \in Users : hnd[u] # s
  BY <1>1, FoundFile
<1>3. g.sts = "none"
  BY <1>2 DEF Reopened, File
<1> HIDE DEF s, g
<1>4. /\ Places' = Places
      /\ ffs_tbl'[s] = g /\ \A x \in Slots \ {s} : ffs_tbl'[x] = ffs_tbl[x]
  BY <1>1, <1>2, OthersPlaces
<1>5. Held' = Store!Without(n)
  <2>1. StoreOf(Store!Without(n), ffs_tbl')
    BY <1>2, <1>3, <1>4, HeldIs, NamesDiffer, GoneHeld DEF Store!Without, SameBut
  <2> QED
    BY <2>1, HeldNext, StoreUnique
<1>6. Store!Exists(n)
  BY <1>1, ExistsIs
<1> QED
  BY <1>1, <1>4, <1>5, <1>6 DEF Store!Remove

(* A file that is closed or opened again holds what it held.                      *)
LEMMA TouchedSame ==
  ASSUME IInv, IInv', NEW s \in Slots, NEW g, ffs_tbl' = [ffs_tbl EXCEPT ![s] = g],
         hnd' = hnd, \A v \in Users : hnd[v] # s, ffs_tbl[s].sts # "none",
         g.sts # "none", g.name = ffs_tbl[s].name,
         g.len = ffs_tbl[s].len, g.buf = ffs_tbl[s].buf
  PROVE  Held' = Held /\ Places' = Places
<1>1. /\ Places' = Places
      /\ ffs_tbl'[s] = g /\ \A x \in Slots \ {s} : ffs_tbl'[x] = ffs_tbl[x]
  BY OthersPlaces
<1>2. Contents(g) = Contents(ffs_tbl[s])
  BY DEF Contents
<1>3. /\ ffs_tbl'[s].sts # "none" /\ ffs_tbl'[s].name = ffs_tbl[s].name
      /\ Contents(ffs_tbl'[s]) = Contents(ffs_tbl[s])
  BY <1>1, <1>2
<1>4. \A x \in Slots \ {s} : ffs_tbl'[x] = ffs_tbl[x]
  BY <1>1
<1>5. StoreOf(Held, ffs_tbl)
  BY HeldIs
<1> HIDE DEF Held
<1>6. StoreOf(Held, ffs_tbl')
  <2> DEFINE u == ffs_tbl'
  <2>1. /\ u[s].sts # "none" /\ u[s].name = ffs_tbl[s].name
        /\ Contents(u[s]) = Contents(ffs_tbl[s])
        /\ \A x \in Slots \ {s} : u[x] = ffs_tbl[x]
    BY <1>3, <1>4
  <2> HIDE DEF u
  <2>2. StoreOf(Held, u)
    BY <1>5, <2>1, SameHeld DEF SameBut
  <2> QED
    BY <2>2 DEF u
<1> QED
  BY <1>1, <1>6, HeldNext, StoreUnique

LEMMA StatStep ==
  ASSUME IInv, IInv', NEW n \in Names, Stat(n)
  PROVE  Store!Size(n)
<1> DEFINE s == First(Named(n))
           g == Reopened(ffs_tbl[s])
<1>1. /\ NotOpen(n) /\ Named(n) # {} /\ ret' = [n |-> ffs_tbl[s].len] /\ hnd' = hnd
      /\ ffs_tbl' = [ffs_tbl EXCEPT ![s] = g]
  BY DEF Stat
<1>2. /\ s \in Slots /\ s \in Used /\ ffs_tbl[s].name = n /\ ffs_tbl[s].sts # "none"
      /\ ffs_tbl[s] \in File /\ \A u \in Users : hnd[u] # s
  BY <1>1, FoundFile
<1>3. /\ g.sts # "none" /\ g.name = ffs_tbl[s].name
      /\ g.len = ffs_tbl[s].len /\ g.buf = ffs_tbl[s].buf
  BY <1>2, ReopenedFields
<1> HIDE DEF s, g
<1>4. Held' = Held /\ Places' = Places
  BY <1>1, <1>2, <1>3, TouchedSame
<1>5. Store!Exists(n) /\ Store!SizeOf(n) = ffs_tbl[s].len
  BY <1>1, <1>2, ExistsIs, SizeIs
<1> QED
  BY <1>1, <1>4, <1>5 DEF Store!Size

LEMMA RenameTakenStep ==
  ASSUME IInv, IInv', NEW old \in Names, NEW new \in Names, RenameTaken(old, new)
  PROVE  Store!Rename(old, new)
<1> DEFINE s == First(Named(new))
           r == Reopened(ffs_tbl[s])
           g == Closed(r)
<1>1. /\ NotOpen(new) /\ Named(new) # {} /\ ret' = Store!Fail /\ hnd' = hnd
      /\ ffs_tbl' = [ffs_tbl EXCEPT ![s] = g]
  BY DEF RenameTaken, Fail, Store!Fail
<1>2. /\ s \in Slots /\ ffs_tbl[s].sts # "none" /\ FileOK(ffs_tbl[s])
      /\ \A u \in Users : hnd[u] # s
  BY <1>1, FoundFile, SlotFile DEF IInv
<1>3. /\ r.name = ffs_tbl[s].name /\ r.len = ffs_tbl[s].len /\ r.buf = ffs_tbl[s].buf
      /\ r \in File
  BY <1>2, ReopenedFields, ReopenedOK DEF FileOK
<1>4. /\ g.sts # "none" /\ g.name = ffs_tbl[s].name
      /\ g.len = ffs_tbl[s].len /\ g.buf = ffs_tbl[s].buf
  BY <1>3, ClosedFields
<1> HIDE DEF s, r, g
<1>5. Held' = Held /\ Places' = Places
  BY <1>1, <1>2, <1>4, TouchedSame
<1>6. Store!Exists(new)
  BY <1>1, ExistsIs
<1> QED
  BY <1>1, <1>5, <1>6 DEF Store!Rename

(* Like a rename to a name that is taken: nothing changes.                        *)
LEMMA RenameTooLongStep ==
  ASSUME IInv, IInv', NEW old \in Names, RenameTooLong(old)
  PROVE  Store!Rename(old, old)
<1> DEFINE s == First(Named(old))
           r == Reopened(ffs_tbl[s])
           g == Closed(r)
<1>1. /\ NotOpen(old) /\ Named(old) # {} /\ ret' = Store!Fail /\ hnd' = hnd
      /\ ffs_tbl' = [ffs_tbl EXCEPT ![s] = g]
  BY DEF RenameTooLong, Found, Fail, Store!Fail
<1>2. /\ s \in Slots /\ ffs_tbl[s].sts # "none" /\ FileOK(ffs_tbl[s])
      /\ \A u \in Users : hnd[u] # s
  BY <1>1, FoundFile, SlotFile DEF IInv
<1>3. /\ r.name = ffs_tbl[s].name /\ r.len = ffs_tbl[s].len /\ r.buf = ffs_tbl[s].buf
      /\ r \in File
  BY <1>2, ReopenedFields, ReopenedOK DEF FileOK
<1>4. /\ g.sts # "none" /\ g.name = ffs_tbl[s].name
      /\ g.len = ffs_tbl[s].len /\ g.buf = ffs_tbl[s].buf
  BY <1>3, ClosedFields
<1> HIDE DEF s, r, g
<1>5. Held' = Held /\ Places' = Places
  BY <1>1, <1>2, <1>4, TouchedSame
<1>6. Store!Exists(old)
  BY <1>1, ExistsIs
<1> QED
  BY <1>1, <1>5, <1>6 DEF Store!Rename

LEMMA RenameStep ==
  ASSUME IInv, IInv', NEW old \in Names, NEW new \in Names, Rename(old, new)
  PROVE  Store!Rename(old, new)
<1> DEFINE s == First(Named(old))
           r == Reopened(ffs_tbl[s])
           c == Closed(r)
           g == [c EXCEPT !.name = new]
<1>1. /\ NotOpen(old) /\ Named(old) # {} /\ Named(new) = {}
      /\ ret' = Store!Done /\ hnd' = hnd
      /\ ffs_tbl' = [ffs_tbl EXCEPT ![s] = g]
  BY DEF Rename, Found, Done, Store!Done, IInv, Proper
<1>2. /\ s \in Slots /\ ffs_tbl[s].sts # "none" /\ FileOK(ffs_tbl[s])
      /\ ffs_tbl[s].name = old /\ \A u \in Users : hnd[u] # s
  BY <1>1, FoundFile, SlotFile DEF IInv
<1>3. /\ r.len = ffs_tbl[s].len /\ r.buf = ffs_tbl[s].buf /\ FileOK(r)
  BY <1>2, ReopenedFields, ReopenedOK DEF FileOK
<1>4. /\ c.sts = "cls" /\ c.len = ffs_tbl[s].len /\ c.buf = ffs_tbl[s].buf /\ c \in File
  BY <1>3, ClosedFields, ClosedOK DEF FileOK
<1>5. /\ g.sts # "none" /\ g.name = new
      /\ g.len = ffs_tbl[s].len /\ g.buf = ffs_tbl[s].buf
  <2> HIDE DEF c
  <2> QED
    BY <1>4 DEF File
<1> HIDE DEF s, r, c, g
<1>6. /\ Places' = Places
      /\ ffs_tbl'[s] = g /\ \A x \in Slots \ {s} : ffs_tbl'[x] = ffs_tbl[x]
  BY <1>1, <1>2, OthersPlaces
<1>7. Held' = [m \in (DOMAIN Held \ {old}) \cup {new} |->
                 IF m = new THEN Held[old] ELSE Held[m]]
  <2> DEFINE h == [m \in (DOMAIN Held \ {old}) \cup {new} |->
                     IF m = new THEN Held[old] ELSE Held[m]]
  <2>1. Contents(g) = Contents(ffs_tbl[s])
    BY <1>5 DEF Contents
  <2>2. StoreOf(h, ffs_tbl')
    BY <1>2, <1>5, <1>6, <2>1, HeldIs, NamesDiffer, NamesDifferNext, RenamedHeld DEF SameBut
  <2> QED
    BY <2>2, HeldNext, StoreUnique
<1>8. Store!Exists(old) /\ ~Store!Exists(new)
  BY <1>1, ExistsIs
<1> QED
  BY <1>1, <1>6, <1>7, <1>8 DEF Store!Rename

LEMMA NotFoundStep ==
  ASSUME IInv, NEW n \in Names, NotFound(n)
  PROVE  Store!Remove(n)
<1>1. Held' = Held /\ Places' = Places /\ ret' = Store!Fail
  BY HeldSame, PlacesSame DEF NotFound, Fail, Store!Fail
<1>2. ~Store!Exists(n)
  BY ExistsIs DEF NotFound
<1> QED
  BY <1>1, <1>2 DEF Store!Remove

LEMMA ListStep ==
  ASSUME IInv, Opendir \/ Readdir \/ Closedir
  PROVE  Store!List
<1>1. Held' = Held /\ Places' = Places
  BY HeldSame, PlacesSame DEF Opendir, Readdir, Closedir, FileVars
<1>2. ret' \in {[entry |-> n] : n \in DOMAIN Held \cup {None}} \cup {Store!Done, Store!Fail}
  <2>1. CASE Opendir
    BY <2>1 DEF Opendir, Done, Fail, Store!Done, Store!Fail
  <2>2. CASE Closedir
    BY <2>2 DEF Closedir, Done, Store!Done
  <2>3. CASE Readdir
    <3> DEFINE rest == {x \in Used : x >= dirEntId}
               s == First(rest)
    <3>1. CASE rest = {}
      BY <2>3, <3>1 DEF Readdir
    <3>2. CASE rest # {}
      <4>1. ret' = [entry |-> ffs_tbl[s].name]
        BY <2>3, <3>2 DEF Readdir
      <4>2. s \in Used
        BY <3>2, NextShown
      <4> HIDE DEF s, rest
      <4>3. ffs_tbl[s].name \in DOMAIN Held
        BY <4>2 DEF Held
      <4> QED
        BY <4>1, <4>3
    <3> QED
      BY <3>1, <3>2
  <2> QED
    BY <2>1, <2>2, <2>3
<1> QED
  BY <1>1, <1>2 DEF Store!List

-----------------------------------------------------------------------------
(* Reading and writing.                                                         *)

(* The number of whole elements that fit.                                        *)
LEMMA WholeCount ==
  ASSUME NEW size \in Nat \ {0}, NEW room \in Nat, NEW n \in Nat, room <= size * n,
         NEW k, k = room \div size
  PROVE  /\ k \in 0..n /\ size * k <= room /\ room < size * (k + 1)
<1>1. k \in Nat /\ size * k <= room /\ room < size * (k + 1)
  OBVIOUS
<1>2. k <= n
  <2> SUFFICES ASSUME k >= n + 1 PROVE FALSE
    BY <1>1
  <2>1. size * k >= size * (n + 1)
    BY <1>1
  <2>2. size * (n + 1) = size * n + size
    OBVIOUS
  <2> QED
    BY <1>1, <2>1, <2>2
<1> QED
  BY <1>1, <1>2

(* What fread counts.                                                            *)
LEMMA ReadCount ==
  ASSUME NEW size \in Sizes, NEW n \in Counts, NEW left \in 0..UWMax, NEW end,
         end <=> left <= size * n, NEW k, k = IF end THEN left \div size ELSE n
  PROVE  /\ k \in 0..n /\ Store!Fits(size, k, n, left)
         /\ size * k \in Nat /\ size * k <= left /\ size * k \in 0..UWMax
<1>1. size \in Nat \ {0} /\ n \in Nat /\ left \in Nat /\ left <= UWMax
  BY SizeAssumption
<1>2. size * k \in Nat /\ size * k <= left /\ size * k \in 0..UWMax
  BY CountedBytes
<1>3. CASE end
  <2>1. k \in 0..n /\ size * k <= left /\ left < size * (k + 1)
    BY <1>1, <1>3, WholeCount
  <2> QED
    BY <1>2, <2>1 DEF Store!Fits
<1>4. CASE ~end
  <2>1. k = n /\ ~(n < n) /\ n \in 0..n
    BY <1>1, <1>4
  <2> QED
    BY <1>2, <2>1 DEF Store!Fits
<1> QED
  BY <1>3, <1>4

(* A reader within the file.                                                     *)
LEMMA FreadInside ==
  ASSUME IInv, IInv', NEW u \in Users, NEW size \in Sizes, NEW n \in Counts,
         Fread(u, size, n), ffs_tbl[hnd[u]].pos <= ffs_tbl[hnd[u]].len
  PROVE  Store!Read(u, size, n)
<1> DEFINE f == ffs_tbl[hnd[u]]
           left == Diff(f.len, f.pos)
           end == left <= size * n
           k == IF end THEN left \div size ELSE n
           g == [f EXCEPT !.pos = Sum(@, size * k), !.eof = end]
<1>1. PICK b \in Bytes(f, size * k) :
        /\ hnd[u] # None /\ Ready(f) /\ Put(u, g)
        /\ ret' = [n |-> k, data |-> b]
  BY DEF Fread, Using
<1>2. /\ FileOK(f) /\ f.sts = "opn" /\ f.pos \in Nat /\ f.len \in Nat
      /\ f.pos \in 0..UWMax /\ f.len \in 0..UWMax /\ hnd[u] \in Used
      /\ f.len <= FileLen
  BY <1>1, UsedFile DEF Used
<1>3. left = f.len - f.pos /\ left \in 0..UWMax
  BY <1>2, UWDiff
<1>4. /\ k \in 0..n /\ Store!Fits(size, k, n, left)
      /\ size * k \in Nat /\ size * k <= left /\ size * k \in 0..UWMax
  <2> HIDE DEF left
  <2> QED
    BY <1>3, ReadCount
<1>5. /\ Places[u] = Place(f) /\ Places[u] # None /\ Places[u].name = f.name
      /\ Places[u].pos = f.pos /\ Places[u].ended = f.eof
  BY <1>1, PlaceIs
<1>6. f.eof = FALSE /\ end \in BOOLEAN
  BY <1>1, <1>2 DEF Ready, FileOK, File
<1>7. Held[f.name] = Contents(f) /\ Store!SizeOf(f.name) = f.len
  BY <1>2, SizeIs
<1> DEFINE m == size * k
<1>8. m \in Nat /\ m <= left /\ m \in 0..UWMax /\ f.pos + m <= f.len /\ Sum(f.pos, m) = f.pos + m
  <2>1. m \in Nat /\ m <= left /\ m \in 0..UWMax
    BY <1>4
  <2> HIDE DEF m, f, left
  <2>2. f.pos + m <= f.len
    BY <1>2, <1>3, <2>1
  <2>3. f.pos + m <= UWMax
    BY <1>2, <2>1, <2>2, SizeAssumption
  <2> QED
    BY <1>2, <2>1, <2>2, <2>3, UWSum
<1>9. b = [i \in 0..(m - 1) |-> Held[f.name][f.pos + i]]
  <2>1. /\ b \in [0..(m - 1) -> Data]
        /\ \A i \in 0..(m - 1) : Sum(f.pos, i) < FileLen => b[i] = f.buf[Sum(f.pos, i)]
    BY <1>1 DEF Bytes
  <2> HIDE DEF m, f
  <2>2. ASSUME NEW i \in 0..(m - 1) PROVE b[i] = Held[f.name][f.pos + i]
    <3>1. /\ i \in 0..UWMax /\ f.pos + i \in 0..(f.len - 1)
          /\ f.pos + i < FileLen /\ f.pos + i <= UWMax
      BY <1>2, <1>8, SizeAssumption
    <3>2. Sum(f.pos, i) = f.pos + i
      BY <1>2, <3>1, UWSum
    <3>3. b[i] = f.buf[f.pos + i]
      BY <2>1, <3>1, <3>2
    <3>4. Held[f.name][f.pos + i] = f.buf[f.pos + i]
      BY <1>7, <3>1 DEF Contents
    <3> QED
      BY <3>3, <3>4
  <2> QED
    BY <2>1, <2>2
<1>10. /\ g.sts = "opn" /\ g.name = f.name /\ g.len = f.len /\ g.buf = f.buf
       /\ g.pos = f.pos + m /\ g.eof = end
  <2> DEFINE p == Sum(f.pos, m)
  <2>1. g = [f EXCEPT !.pos = p, !.eof = end]
    OBVIOUS
  <2>2. p = f.pos + m
    BY <1>8
  <2> HIDE DEF m, end, f, p, g
  <2> QED
    BY <1>2, <2>1, <2>2 DEF FileOK, File
<1>11. Put(u, g) /\ ret' = [n |-> k, data |-> b] /\ hnd[u] # None
  BY <1>1
<1> HIDE DEF k, end, g
<1>12. Held' = Held
  <2>1. Contents(g) = Contents(f)
    BY <1>10 DEF Contents
  <2> QED
    BY <1>10, <1>11, <2>1, PutHeld
<1>13. Places' = Store!Moved(u, f.pos + m, end)
  <2>1. Places' = [Places EXCEPT ![u] = Place(g)]
    BY <1>11, PutPlaces
  <2>2. Place(g) = Store!At(f.name, f.pos + m, end)
    <3> HIDE DEF f
    <3> QED
      BY <1>10 DEF Place, Store!At
  <2> QED
    BY <1>5, <2>1, <2>2 DEF Store!Moved
<1> DEFINE rest == Store!SizeOf(Places[u].name) - Places[u].pos
<1>14. rest = left
  BY <1>3, <1>5, <1>7
<1> HIDE DEF left
<1>15. (Places[u].ended \/ rest <= size * n) = end
  <2> DEFINE fin == rest <= size * n
  <2>1. fin <=> end
    BY <1>14 DEF end
  <2>2. fin \in BOOLEAN
    OBVIOUS
  <2> HIDE DEF fin
  <2>3. (Places[u].ended \/ fin) <=> end
    BY <1>5, <1>6, <2>1
  <2>4. (Places[u].ended \/ fin) = end
    BY <1>6, <2>3
  <2> QED
    BY <2>4 DEF fin
<1>16. Places' = Store!Moved(u, Places[u].pos + size * k, Places[u].ended \/ rest <= size * n)
  BY <1>5, <1>13, <1>15
<1>17. ret' = [n |-> k, data |-> [i \in 0..(size * k - 1) |->
                                   Held[Places[u].name][Places[u].pos + i]]]
  BY <1>5, <1>9, <1>11
<1>18. Store!Fits(size, k, n, rest) /\ rest >= 0
  BY <1>3, <1>4, <1>14
<1>19. ~Places[u].ended
  BY <1>5, <1>6
<1> HIDE DEF f
<1> QED
  BY <1>4, <1>5, <1>12, <1>16, <1>17, <1>18, <1>19 DEF Store!Read

(* A reader behind the end of the file.                                          *)
LEMMA FreadBehind ==
  ASSUME IInv, IInv', NEW u \in Users, NEW size \in Sizes, NEW n \in Counts,
         Fread(u, size, n), ffs_tbl[hnd[u]].len < ffs_tbl[hnd[u]].pos
  PROVE  Store!ReadBehind(u, size, n)
<1> DEFINE f == ffs_tbl[hnd[u]]
           left == Diff(f.len, f.pos)
           end == left <= size * n
           k == IF end THEN left \div size ELSE n
           p == Sum(f.pos, size * k)
           g == [f EXCEPT !.pos = p, !.eof = end]
<1>1. PICK b \in Bytes(f, size * k) :
        /\ hnd[u] # None /\ Ready(f) /\ Put(u, g)
        /\ ret' = [n |-> k, data |-> b]
  BY DEF Fread, Using
<1>2. /\ FileOK(f) /\ f.sts = "opn" /\ f.pos \in 0..UWMax /\ f.len \in 0..UWMax
      /\ hnd[u] \in Used
  BY <1>1, UsedFile DEF Used
<1>3. left \in 0..UWMax
  BY <1>2, UWDiff
<1>4. k \in 0..n /\ size * k \in 0..UWMax
  <2> HIDE DEF left
  <2> QED
    BY <1>3, ReadCount
<1>5. p \in 0..UWMax
  BY <1>2, <1>4, UWSum
<1>6. b \in [0..(size * k - 1) -> Data]
  BY <1>1 DEF Bytes
<1>7. /\ Places[u] # None /\ Places[u].name = f.name
      /\ Places[u].pos = f.pos /\ Places[u].ended = f.eof
  BY <1>1, PlaceIs
<1>8. f.eof = FALSE /\ end \in BOOLEAN
  BY <1>1, <1>2 DEF Ready, FileOK, File
<1>9. Store!SizeOf(f.name) = f.len
  BY <1>2, SizeIs
<1>10. Put(u, g) /\ ret' = [n |-> k, data |-> b] /\ hnd[u] # None
  BY <1>1
<1>11. g = [f EXCEPT !.pos = p, !.eof = end]
  OBVIOUS
<1> HIDE DEF k, end, p, g
<1>12. /\ g.sts = "opn" /\ g.name = f.name /\ g.len = f.len /\ g.buf = f.buf
       /\ g.pos = p /\ g.eof = end
  <2> HIDE DEF f
  <2> QED
    BY <1>2, <1>11 DEF FileOK, File
<1>13. Held' = Held
  <2>1. Contents(g) = Contents(f)
    BY <1>12 DEF Contents
  <2> QED
    BY <1>10, <1>12, <2>1, PutHeld
<1>14. Places' = Store!Moved(u, p, end)
  <2>1. Places' = [Places EXCEPT ![u] = Place(g)]
    BY <1>10, PutPlaces
  <2>2. Place(g) = Store!At(f.name, p, end)
    <3> HIDE DEF f
    <3> QED
      BY <1>12 DEF Place, Store!At
  <2> QED
    BY <1>7, <2>1, <2>2 DEF Store!Moved
<1>15. ~Places[u].ended /\ Store!SizeOf(Places[u].name) < Places[u].pos
  BY <1>7, <1>8, <1>9
<1> HIDE DEF f
<1> QED
  BY <1>4, <1>5, <1>6, <1>7, <1>8, <1>10, <1>13, <1>14, <1>15 DEF Store!ReadBehind

LEMMA FreadStep ==
  ASSUME IInv, IInv', NEW u \in Users, NEW size \in Sizes, NEW n \in Counts, Fread(u, size, n)
  PROVE  Store!Read(u, size, n) \/ Store!ReadBehind(u, size, n)
<1>1. hnd[u] # None
  BY DEF Fread, Using
<1>2. ffs_tbl[hnd[u]].pos \in Nat /\ ffs_tbl[hnd[u]].len \in Nat
  BY <1>1, UsedFile
<1>3. CASE ffs_tbl[hnd[u]].pos <= ffs_tbl[hnd[u]].len
  BY <1>3, FreadInside
<1>4. CASE ffs_tbl[hnd[u]].len < ffs_tbl[hnd[u]].pos
  BY <1>4, FreadBehind
<1> QED
  BY <1>2, <1>3, <1>4

LEMMA FwriteNothingStep ==
  ASSUME IInv, Writers, NEW u \in Users, NEW size \in Sizes, NEW cnt \in Counts,
         FwriteNothing(u)
  PROVE  Store!Write(u, size, cnt)
<1> DEFINE f == ffs_tbl[hnd[u]]
           d == [i \in 0..(size * 0 - 1) |-> AnyData]
           c == [i \in 0..(f.len + size * 0 - 1) |->
                   IF i < f.len THEN Held[f.name][i] ELSE d[i - f.len]]
<1>1. /\ Held' = Held /\ Places' = Places /\ ret' = [n |-> 0]
      /\ hnd[u] # None /\ mode[u] = "w" /\ ~Ready(f)
  BY HeldSame, PlacesSame DEF FwriteNothing, Using
<1>2. /\ FileOK(f) /\ f.sts = "opn" /\ f.len \in Nat /\ f.pos = f.len
      /\ hnd[u] \in Used
  BY <1>1, UsedFile DEF Used, Writers
<1>3. /\ Places[u] = Place(f) /\ Places[u] # None /\ Places[u].name = f.name
      /\ Places[u].pos = f.pos /\ Places[u].ended = f.eof
  BY <1>1, PlaceIs
<1>4. f.eof = TRUE
  BY <1>1, <1>2 DEF Ready, FileOK, File
<1>5. Held[f.name] = Contents(f) /\ Store!SizeOf(f.name) = f.len /\ f.name \in DOMAIN Held
  BY <1>2, SizeIs DEF Held
<1>6. size * 0 = 0 /\ cnt \in Nat
  BY SizeAssumption
<1>7. d \in [0..(size * 0 - 1) -> Data]
  BY SizeAssumption DEF AnyData
<1>8. c = Contents(f)
  <2>1. \A i \in 0..(f.len - 1) : i < f.len
    BY <1>2
  <2>2. f.len + size * 0 - 1 = f.len - 1
    BY <1>2, <1>6
  <2> HIDE DEF d, f
  <2>3. \A i \in 0..(f.len - 1) : Held[f.name][i] = f.buf[i]
    BY <1>5 DEF Contents
  <2> QED
    BY <2>1, <2>2, <2>3 DEF Contents
<1> HIDE DEF c, d
<1>9. Held = Store!With(f.name, c)
  <2> HIDE DEF f
  <2>1. Held = [m \in DOMAIN Held |-> Held[m]]
    BY DEF Held
  <2>2. DOMAIN Held \cup {f.name} = DOMAIN Held
    BY <1>5
  <2> QED
    BY <1>5, <1>8, <2>1, <2>2 DEF Store!With
<1>10. Places = Store!Moved(u, f.len + size * 0, Places[u].ended)
  <2>1. f.len + size * 0 = f.pos
    BY <1>2, <1>6
  <2>2. Place(f) = Store!At(f.name, f.pos, f.eof)
    BY DEF Place, Store!At
  <2>3. Places = [Places EXCEPT ![u] = Places[u]]
    BY DEF Places
  <2> QED
    BY <1>3, <2>1, <2>2, <2>3 DEF Store!Moved
<1> HIDE DEF f
<1>11. 0 \in 0..cnt
  BY <1>6
<1>12. \E e \in [0..(size * 0 - 1) -> Data] :
         Held' = Store!With(f.name, [i \in 0..(f.len + size * 0 - 1) |->
                   IF i < f.len THEN Held[f.name][i] ELSE e[i - f.len]])
  BY <1>1, <1>7, <1>9 DEF c
<1> QED
  BY <1>1, <1>3, <1>4, <1>5, <1>10, <1>11, <1>12 DEF Store!Write

LEMMA FwriteStep ==
  ASSUME IInv, IInv', Writers, NEW u \in Users, NEW size \in Sizes, NEW n \in Counts,
         Fwrite(u, size, n)
  PROVE  Store!Write(u, size, n)
<1> DEFINE f == ffs_tbl[hnd[u]]
           room == FileLen - f.len
           k == IF room > size * n THEN n ELSE room \div size
           m == size * k
<1>1. PICK d \in [0..(size * n - 1) -> Data] :
        /\ Put(u, [f EXCEPT !.pos = Sum(@, m), !.len = @ + m,
                     !.buf = [i \in 0..(FileLen - 1) |->
                                IF i \in f.pos..(f.pos + m - 1) THEN d[i - f.pos]
                                ELSE f.buf[i]]])
        /\ ret' = [n |-> k]
  BY DEF Fwrite, Using
<1>2. hnd[u] # None /\ mode[u] = "w" /\ Ready(f)
  BY DEF Fwrite, Using
<1>3. /\ FileOK(f) /\ f.sts = "opn" /\ room \in Nat /\ f.len \in Nat /\ f.pos = f.len
      /\ hnd[u] \in Used /\ hnd[u] \in Slots
  BY <1>2, UsedFile, SizeAssumption DEF Used, Writers
<1>4. size \in Nat \ {0} /\ n \in Nat /\ size * n \in Nat
  BY SizeAssumption
<1>5. k \in 0..n /\ Store!Fits(size, k, n, room) /\ m \in Nat /\ m <= room /\ m <= size * n
  <2> HIDE DEF room
  <2>1. CASE room > size * n
    <3>1. k = n
      BY <2>1
    <3> HIDE DEF k
    <3> QED
      BY <1>3, <1>4, <2>1, <3>1 DEF Store!Fits
  <2>2. CASE ~(room > size * n)
    <3> DEFINE w == room \div size
    <3>0. room <= size * n
      BY <1>3, <1>4, <2>2
    <3>1. w \in 0..n /\ size * w <= room /\ room < size * (w + 1)
      BY <1>3, <1>4, <3>0, WholeCount
    <3> HIDE DEF w
    <3>2. size * w \in Nat
      BY <1>4, <3>1
    <3>3. Store!Fits(size, w, n, room)
      BY <3>1 DEF Store!Fits
    <3>4. k = w
      BY <2>2 DEF w
    <3> HIDE DEF k
    <3> QED
      BY <1>3, <1>4, <3>0, <3>1, <3>2, <3>3, <3>4
  <2> QED
    BY <2>1, <2>2
<1> DEFINE b == [i \in 0..(FileLen - 1) |->
                   IF i \in f.pos..(f.pos + m - 1) THEN d[i - f.pos] ELSE f.buf[i]]
           g == [f EXCEPT !.pos = Sum(@, m), !.len = @ + m, !.buf = b]
           e == [i \in 0..(m - 1) |-> d[i]]
           c == [i \in 0..(f.len + m - 1) |->
                   IF i < f.len THEN Held[f.name][i] ELSE e[i - f.len]]
<1>6. Put(u, g)
  BY <1>1
<1>7. f.len + m <= FileLen /\ Sum(f.pos, m) = f.len + m
  <2> HIDE DEF m, f
  <2>1. f.len + m <= FileLen /\ f.len \in 0..UWMax /\ m \in 0..UWMax /\ f.len + m <= UWMax
    BY <1>3, <1>5, SizeAssumption
  <2> QED
    BY <1>3, <2>1, UWSum
<1>8. e \in [0..(m - 1) -> Data]
  <2> HIDE DEF m
  <2>1. \A i \in 0..(m - 1) : i \in 0..(size * n - 1)
    BY <1>4, <1>5
  <2> QED
    BY <1>1, <2>1
<1>9. /\ Places[u] = Place(f) /\ Places[u] # None /\ Places[u].name = f.name
      /\ Places[u].pos = f.pos /\ Places[u].ended = f.eof
  BY <1>2, PlaceIs
<1>10. f.eof = FALSE
  BY <1>2, <1>3 DEF Ready, FileOK, File
<1>11. Held[f.name] = Contents(f) /\ Store!SizeOf(f.name) = f.len
  BY <1>3, SizeIs
<1>12. /\ g.sts = "opn" /\ g.name = f.name /\ g.len = f.len + m /\ g.buf = b
       /\ g.pos = f.len + m /\ g.eof = f.eof
  <2> DEFINE p == Sum(f.pos, m)
  <2>1. g = [f EXCEPT !.pos = p, !.len = @ + m, !.buf = b]
    OBVIOUS
  <2>2. p = f.len + m
    BY <1>7
  <2> HIDE DEF m, b, f, g, p
  <2> QED
    BY <1>3, <2>1, <2>2 DEF FileOK, File
<1>13. Contents(g) = c
  <2> HIDE DEF m, f, g, e
  <2>1. \A i \in 0..(f.len + m - 1) : i \in 0..(FileLen - 1)
    BY <1>3, <1>5, <1>7, SizeAssumption
  <2>2. ASSUME NEW i \in 0..(f.len + m - 1), i < f.len PROVE b[i] = c[i]
    <3>1. i \notin f.pos..(f.pos + m - 1) /\ i \in 0..(f.len - 1)
      BY <1>3, <2>2
    <3>2. b[i] = f.buf[i]
      BY <2>1, <3>1
    <3>3. Held[f.name][i] = f.buf[i]
      BY <1>11, <3>1 DEF Contents
    <3>4. c[i] = Held[f.name][i]
      BY <2>2
    <3> QED
      BY <3>2, <3>3, <3>4
  <2>3. ASSUME NEW i \in 0..(f.len + m - 1), ~(i < f.len) PROVE b[i] = c[i]
    <3>1. i \in f.pos..(f.pos + m - 1) /\ i - f.len \in 0..(m - 1) /\ i - f.pos = i - f.len
      BY <1>3, <1>5, <2>3
    <3>2. b[i] = d[i - f.pos]
      BY <2>1, <3>1
    <3>3. c[i] = e[i - f.len]
      BY <2>3
    <3>4. e[i - f.len] = d[i - f.len]
      BY <3>1 DEF e
    <3> QED
      BY <3>1, <3>2, <3>3, <3>4
  <2>4. \A i \in 0..(f.len + m - 1) : b[i] = c[i]
    BY <2>2, <2>3
  <2>5. c = [i \in 0..(f.len + m - 1) |-> c[i]]
    OBVIOUS
  <2> HIDE DEF b, c, k, room
  <2>6. Contents(g) = [i \in 0..(f.len + m - 1) |-> b[i]]
    <3>1. Contents(g) = [i \in 0..(g.len - 1) |-> g.buf[i]]
      BY DEF Contents
    <3>2. g.len = f.len + m /\ g.buf = b
      BY <1>12
    <3>3. g.len - 1 = f.len + m - 1
      BY <1>3, <1>5, <3>2
    <3> QED
      BY <3>1, <3>2, <3>3
  <2> QED
    BY <2>4, <2>5, <2>6
<1>14. Held' = Store!With(f.name, c)
  <2> DEFINE t == ffs_tbl'
             o == hnd[u]
             name == f.name
  <2>1. t[o] = g /\ \A x \in Slots \ {o} : t[x] = ffs_tbl[x]
    BY <1>3, <1>6 DEF Put, IInv, Typed
  <2>2. Distinct(t) /\ StoreOf(Held, ffs_tbl)
    BY NamesDifferNext, HeldIs
  <2>3. t[o].sts # "none" /\ ffs_tbl[o].name = t[o].name /\ t[o].name = name
        /\ Contents(t[o]) = c /\ o \in Slots
    BY <1>3, <1>12, <1>13, <2>1
  <2> HIDE DEF t, f, c, o, g, name, b, e, k, room, m
  <2>4. SameBut(o, ffs_tbl, t)
    BY <2>1 DEF SameBut
  <2>5. IsWith(Store!With(name, c), Held, name, Contents(t[o]))
    BY <2>3, WithIs
  <2>6. StoreOf(Store!With(name, c), t)
    BY <2>2, <2>3, <2>4, <2>5, NewHeld
  <2>7. Held' = Store!With(name, c)
    BY <2>6, HeldNext, StoreUnique DEF t
  <2> QED
    BY <2>7 DEF name
<1>15. Places' = Store!Moved(u, f.len + m, Places[u].ended)
  <2>1. Places' = [Places EXCEPT ![u] = Place(g)]
    BY <1>2, <1>6, PutPlaces
  <2>2. Place(g) = Store!At(f.name, f.len + m, f.eof)
    <3> HIDE DEF f, m, g
    <3> QED
      BY <1>12 DEF Place, Store!At
  <2> HIDE DEF f, m, g
  <2> QED
    BY <1>9, <2>1, <2>2 DEF Store!Moved
<1> HIDE DEF f, k, b, g, e, c, room
<1>16. \E x \in [0..(size * k - 1) -> Data] :
         Held' = Store!With(f.name, [i \in 0..(f.len + size * k - 1) |->
                   IF i < f.len THEN Held[f.name][i] ELSE x[i - f.len]])
  BY <1>8, <1>14 DEF c
<1>17. /\ Store!Fits(size, k, n, FileLen - Store!SizeOf(Places[u].name))
       /\ ~Places[u].ended
  BY <1>5, <1>9, <1>10, <1>11 DEF room
<1> QED
  BY <1>1, <1>5, <1>9, <1>11, <1>15, <1>16, <1>17 DEF Store!Write

-----------------------------------------------------------------------------
(* Writers stay at the end. A slot that changes is nobody's, or the caller's.     *)
LEMMA WritersKept ==
  ASSUME IInv, Writers, NEW u \in Users, NEW s \in Slots, NEW g,
         ffs_tbl' = [ffs_tbl EXCEPT ![s] = g],
         \A v \in Users \ {u} : hnd[v] # s /\ hnd'[v] = hnd[v] /\ mode'[v] = mode[v],
         hnd'[u] # None /\ mode'[u] = "w" =>
            \/ hnd'[u] = s /\ g.pos = g.len
            \/ hnd'[u] = hnd[u] /\ hnd[u] # s /\ mode[u] = "w"
  PROVE  Writers'
<1>1. ffs_tbl'[s] = g /\ \A x \in Slots \ {s} : ffs_tbl'[x] = ffs_tbl[x]
  BY DEF IInv, Typed
<1>2. \A v \in Users : hnd[v] # None => hnd[v] \in Slots
  BY DEF IInv, Typed
<1>3. ASSUME NEW v \in Users, hnd'[v] # None, mode'[v] = "w"
      PROVE  ffs_tbl'[hnd'[v]].pos = ffs_tbl'[hnd'[v]].len
  <2>1. CASE v = u
    BY <1>1, <1>2, <1>3, <2>1 DEF Writers
  <2>2. CASE v # u
    BY <1>1, <1>2, <1>3, <2>2 DEF Writers
  <2> QED
    BY <2>1, <2>2
<1> QED
  BY <1>3 DEF Writers

(* Calls by name: nobody has the file open.                                       *)
LEMMA WritersByName ==
  ASSUME IInv, Writers, NEW s \in Slots, NEW g, ffs_tbl' = [ffs_tbl EXCEPT ![s] = g],
         UNCHANGED <<hnd, mode>>, \A v \in Users : hnd[v] # s
  PROVE  Writers'
<1>1. CASE Users = {}
  BY <1>1 DEF Writers
<1>2. CASE Users # {}
  <2>1. PICK u \in Users : TRUE
    BY <1>2
  <2> QED
    BY <2>1, WritersKept
<1> QED
  BY <1>1, <1>2

LEMMA WritersHold ==
  ASSUME IInv, Writers, NEW u \in Users, NEW s \in Slots, NEW m, NEW f,
         Hold(u, s, m, f), m = "w" => f.len = 0, f \in File, \A v \in Users : hnd[v] # s
  PROVE  Writers'
<1> DEFINE g == Reopened(f)
<1>1. /\ ffs_tbl' = [ffs_tbl EXCEPT ![s] = g]
      /\ hnd' = [hnd EXCEPT ![u] = s] /\ mode' = [mode EXCEPT ![u] = m]
  BY DEF Hold
<1>2. g.pos = 0 /\ g.len = f.len
  BY DEF Reopened, File
<1>3. hnd'[u] = s /\ mode'[u] = m
      /\ \A v \in Users \ {u} : hnd'[v] = hnd[v] /\ mode'[v] = mode[v]
  BY <1>1 DEF IInv, Typed
<1> HIDE DEF g
<1> QED
  BY <1>1, <1>2, <1>3, WritersKept

LEMMA WritersPut ==
  ASSUME IInv, Writers, NEW u \in Users, NEW g, hnd[u] # None, Put(u, g),
         mode[u] = "w" => g.pos = g.len
  PROVE  Writers'
<1>1. /\ hnd[u] \in Slots /\ ffs_tbl' = [ffs_tbl EXCEPT ![hnd[u]] = g]
      /\ hnd' = hnd /\ mode' = mode
  BY UsedFile DEF Put
<1>2. \A v \in Users \ {u} : hnd[v] # hnd[u]
  BY DEF IInv, OwnFiles
<1> QED
  BY <1>1, <1>2, WritersKept

LEMMA WritersOpen ==
  ASSUME IInv, Writers, NEW u \in Users, NEW n \in Names, FopenRead(u, n) \/ FopenWrite(u, n)
  PROVE  Writers'
<1>1. CASE FopenRead(u, n)
  <2> DEFINE s == First(Named(n))
  <2>1. Hold(u, s, "r", ffs_tbl[s]) /\ NotOpen(n) /\ Named(n) # {}
    BY <1>1 DEF FopenRead
  <2>2. s \in Slots /\ ffs_tbl[s] \in File /\ \A v \in Users : hnd[v] # s
    BY <2>1, FoundFile
  <2> HIDE DEF s
  <2> QED
    BY <2>1, <2>2, WritersHold
<1>2. CASE FopenWrite(u, n)
  <2> DEFINE s == IF Named(n) # {} THEN First(Named(n)) ELSE LastOf(Slots \ Used)
             o == ffs_tbl[s]
             f == [o EXCEPT !.name = n, !.len = 0]
  <2>1. Hold(u, s, "w", f) /\ NotOpen(n) /\ (Named(n) # {} \/ Slots \ Used # {})
    BY <1>2 DEF FopenWrite
  <2>2. s \in Slots /\ \A v \in Users : hnd[v] # s
    <3>1. CASE Named(n) # {}
      BY <2>1, <3>1, FoundFile
    <3>2. CASE Named(n) = {}
      <4>1. s \in Slots \ Used
        BY <2>1, <3>2, LastExists
      <4> HIDE DEF s
      <4> QED
        BY <4>1, SizeAssumption DEF IInv, OwnFiles, Used, Slots
    <3> QED
      BY <3>1, <3>2
  <2>3. o \in File
    BY <2>2, SlotFile DEF IInv, FileOK
  <2> HIDE DEF s, o
  <2>4. f \in File /\ f.len = 0
    <3>1. 0 \in Lengths /\ n \in Titles
      BY SizeAssumption DEF Lengths, Titles
    <3> QED
      BY <2>3, <3>1 DEF File
  <2> HIDE DEF f
  <2> QED
    BY <2>1, <2>2, <2>4, WritersHold
<1> QED
  BY <1>1, <1>2

LEMMA WritersRead ==
  ASSUME IInv, Writers, NEW u \in Users, NEW size \in Sizes, NEW n \in Counts,
         Fread(u, size, n)
  PROVE  Writers'
<1> DEFINE f == ffs_tbl[hnd[u]]
           left == Diff(f.len, f.pos)
           end == left <= size * n
           k == IF end THEN left \div size ELSE n
           p == Sum(f.pos, size * k)
           g == [f EXCEPT !.pos = p, !.eof = end]
<1>1. hnd[u] # None /\ Put(u, g)
  BY DEF Fread, Using
<1>2. /\ f \in File /\ f.pos \in 0..UWMax /\ f.len \in 0..UWMax
      /\ mode[u] = "w" => f.pos = f.len
  BY <1>1, UsedFile DEF FileOK, Writers
<1>3. size \in Nat \ {0} /\ n \in Nat /\ UWMax \in Nat
  BY SizeAssumption
<1>4. mode[u] = "w" => p = f.pos
  <2> SUFFICES ASSUME mode[u] = "w" PROVE p = f.pos
    OBVIOUS
  <2>1. left = 0
    BY <1>2, UWDiff
  <2> HIDE DEF left
  <2>2. 0 <= size * n
    BY <1>3
  <2>3. end /\ left \div size = 0
    BY <1>3, <2>1, <2>2
  <2>4. size * k = 0
    BY <1>3, <2>3
  <2>5. 0 \in 0..UWMax
    BY <1>3
  <2> DEFINE q == f.pos
  <2>6. q \in 0..UWMax /\ q + 0 = q /\ q + 0 <= UWMax
    BY <1>2, <1>3
  <2> HIDE DEF q, k
  <2>7. Sum(q, 0) = q
    BY <2>5, <2>6, UWSum
  <2> QED
    BY <2>4, <2>7 DEF q
<1>5. g.pos = p /\ g.len = f.len
  <2> HIDE DEF f, p, end
  <2> QED
    BY <1>2 DEF File
<1>6. mode[u] = "w" => g.pos = g.len
  <2> HIDE DEF f, g, p
  <2> QED
    BY <1>2, <1>4, <1>5
<1> HIDE DEF f, g
<1> QED
  BY <1>1, <1>6, WritersPut

LEMMA WritersWrite ==
  ASSUME IInv, Writers, NEW u \in Users, NEW size \in Sizes, NEW n \in Counts,
         Fwrite(u, size, n)
  PROVE  Writers'
<1> DEFINE f == ffs_tbl[hnd[u]]
           room == FileLen - f.len
           k == size * (IF room > size * n THEN n ELSE room \div size)
           p == Sum(f.pos, k)
<1>1. PICK b : /\ hnd[u] # None /\ mode[u] = "w"
               /\ Put(u, [f EXCEPT !.pos = p, !.len = @ + k, !.buf = b])
  BY DEF Fwrite, Using
<1> DEFINE g == [f EXCEPT !.pos = p, !.len = @ + k, !.buf = b]
<1>2. /\ f \in File /\ f.len \in Nat /\ f.len <= FileLen /\ f.pos = f.len
      /\ f.len \in 0..UWMax /\ room \in Nat
  BY <1>1, UsedFile, SizeAssumption DEF FileOK, Writers
<1>3. size \in Nat \ {0} /\ n \in Nat
  BY SizeAssumption
<1>4. k \in Nat /\ k <= room
  <2> HIDE DEF room
  <2>1. CASE room > size * n
    BY <1>2, <1>3, <2>1
  <2>2. CASE ~(room > size * n)
    <3>1. room \div size \in Nat /\ size * (room \div size) <= room
      BY <1>2, <1>3, WholeFits
    <3> QED
      BY <1>3, <2>2, <3>1
  <2> QED
    BY <2>1, <2>2
<1>5. p = f.len + k
  <2> HIDE DEF k, f
  <2>1. k \in 0..UWMax /\ f.len + k <= UWMax
    BY <1>2, <1>4, SizeAssumption
  <2> QED
    BY <1>2, <2>1, UWSum
<1>6. g.pos = g.len
  <2> HIDE DEF f, k, p
  <2> QED
    BY <1>2, <1>5 DEF File
<1> HIDE DEF f, g, k, p
<1> QED
  BY <1>1, <1>6, WritersPut DEF g

LEMMA WritersSeekClose ==
  ASSUME IInv, Writers, NEW u \in Users, NEW offset,
         Fseek(u, offset) \/ Fclose(u)
  PROVE  Writers'
<1>1. CASE Fseek(u, offset)
  <2>1. PICK g : hnd[u] # None /\ mode[u] = "r" /\ Put(u, g)
    BY <1>1 DEF Fseek, Using
  <2> QED
    BY <2>1, WritersPut
<1>2. CASE Fclose(u)
  <2>1. /\ hnd[u] # None /\ hnd' = [hnd EXCEPT ![u] = None]
        /\ mode' = [mode EXCEPT ![u] = "r"]
        /\ ffs_tbl' = [ffs_tbl EXCEPT ![hnd[u]] = Closed(ffs_tbl[hnd[u]])]
    BY <1>2 DEF Fclose
  <2>2. /\ hnd[u] \in Slots /\ hnd'[u] = None
        /\ \A v \in Users \ {u} : hnd[v] # hnd[u] /\ hnd'[v] = hnd[v] /\ mode'[v] = mode[v]
    BY <2>1 DEF IInv, Typed, OwnFiles
  <2> QED
    BY <2>1, <2>2, WritersKept
<1> QED
  BY <1>1, <1>2

LEMMA WritersNames ==
  ASSUME IInv, Writers, NEW a, NEW b,
         Remove(a) \/ Stat(a) \/ RenameTaken(b, a) \/ RenameTooLong(a) \/ Rename(a, b)
  PROVE  Writers'
<1> DEFINE s == First(Named(a))
<1>1. NotOpen(a) /\ Named(a) # {} /\ UNCHANGED <<hnd, mode>>
  BY DEF Remove, Stat, RenameTaken, RenameTooLong, Rename, Found
<1>2. s \in Slots /\ \A v \in Users : hnd[v] # s
  BY <1>1, FoundFile
<1>3. PICK g : ffs_tbl' = [ffs_tbl EXCEPT ![s] = g]
  BY DEF Remove, Stat, RenameTaken, RenameTooLong, Rename
<1> HIDE DEF s
<1> QED
  BY <1>1, <1>2, <1>3, WritersByName

LEMMA WritersSame ==
  ASSUME Writers, UNCHANGED <<ffs_tbl, hnd, mode>>
  PROVE  Writers'
BY DEF Writers

LEMMA WritersNext == IInv /\ Writers /\ [Next]_vars => Writers'
<1> SUFFICES ASSUME IInv, Writers, [Next]_vars PROVE Writers'
  OBVIOUS
<1>1. ASSUME NEW u \in Users, UserStep(u) PROVE Writers'
  <2>1. CASE \E n \in Names : FopenRead(u, n) \/ FopenWrite(u, n)
    BY <2>1, WritersOpen
  <2>2. CASE \E n \in Names, m \in {"r", "w"} : FopenFail(u, n, m)
    BY <2>2, WritersSame DEF FopenFail
  <2>3. CASE \E size \in Sizes, n \in Counts : Fread(u, size, n) \/ Fwrite(u, size, n)
    BY <2>3, WritersRead, WritersWrite
  <2>4. CASE FreadNothing(u) \/ FwriteNothing(u) \/ Feof(u)
    BY <2>4, WritersSame DEF FreadNothing, FwriteNothing, Feof
  <2>5. CASE Fclose(u)
    BY <2>5, WritersSeekClose
  <2>6. CASE \E offset \in Offsets : Fseek(u, offset)
    BY <2>6, WritersSeekClose
  <2> QED
    BY <1>1, <2>1, <2>2, <2>3, <2>4, <2>5, <2>6 DEF UserStep
<1>2. ASSUME NEW n \in Names, Remove(n) \/ Stat(n) \/ NotFound(n) PROVE Writers'
  BY <1>2, WritersNames, WritersSame DEF NotFound
<1>3. ASSUME NEW old \in Names,
             \/ \E new \in Names : RenameTaken(old, new)
             \/ RenameTooLong(old)
             \/ \E new \in Titles : Rename(old, new)
      PROVE  Writers'
  BY <1>3, WritersNames
<1>4. CASE Opendir \/ Readdir \/ Closedir
  BY <1>4, WritersSame DEF Opendir, Readdir, Closedir, FileVars
<1>5. CASE UNCHANGED vars
  BY <1>5, WritersSame DEF vars
<1> QED
  BY <1>1, <1>2, <1>3, <1>4, <1>5 DEF Next

LEMMA WritersInvariance == ASSUME Proper PROVE Spec => []Writers
<1>1. Init => Writers
  BY DEF Init, Writers
<1>2. Spec => []IInv
  BY Invariance
<1> QED
  BY <1>1, <1>2, WritersNext, PTL DEF Spec

(* Types, and a writer at the end of the file: fwrite stores behind what the file    *)
(* holds, whatever sizes and counts it is called with and whatever position earlier   *)
(* users, their seeks or a rename left in the slot; no rename is given a path that     *)
(* fopen refuses.                                                                      *)
THEOREM TypeCorrect == ASSUME Proper PROVE Spec => []TypeOK
<1>1. IInv /\ Writers => TypeOK
  BY DEF IInv, TypeOK
<1>2. Spec => []IInv
  BY Invariance
<1>3. Spec => []Writers
  BY WritersInvariance
<1> QED
  BY <1>1, <1>2, <1>3, PTL

-----------------------------------------------------------------------------
(* The map from names to contents.                                              *)

LEMMA StoreInit == Init => Store!Init
<1> SUFFICES ASSUME Init PROVE Store!Init
  OBVIOUS
<1>1. Used = {}
  BY DEF Init, Used
<1>2. Held = [m \in {} |-> Store!Empty]
  <2>1. DOMAIN Held = {}
    BY <1>1 DEF Held
  <2>2. Held = [m \in DOMAIN Held |-> Held[m]]
    BY DEF Held
  <2> QED
    BY <2>1, <2>2
<1>3. Places = [u \in Users |-> None]
  BY DEF Init, Places
<1>4. ret = Store!Done
  BY DEF Init, Done, Store!Done
<1> QED
  BY <1>2, <1>3, <1>4 DEF Store!Init

LEMMA StoreStep ==
  ASSUME IInv, IInv', Writers, [Next]_vars
  PROVE  [Store!Next]_(Store!vars)
<1>0. PICK size \in Sizes, cnt \in Counts : TRUE
  BY SizeAssumption
<1>1. ASSUME NEW u \in Users, UserStep(u) PROVE Store!Next
  <2>1. CASE \E n \in Names : FopenRead(u, n) \/ FopenWrite(u, n)
    BY <1>1, <2>1, FopenReadStep, FopenWriteStep DEF Store!Next
  <2>2. CASE \E n \in Names, m \in {"r", "w"} : FopenFail(u, n, m)
    BY <1>1, <2>2, FopenFailStep DEF Store!Next
  <2>3. CASE \E s \in Sizes, n \in Counts : Fread(u, s, n) \/ Fwrite(u, s, n)
    BY <1>1, <2>3, FreadStep, FwriteStep DEF Store!Next
  <2>4. CASE FreadNothing(u) \/ FwriteNothing(u)
    BY <1>0, <1>1, <2>4, FreadNothingStep, FwriteNothingStep DEF Store!Next
  <2>5. CASE Fclose(u) \/ Feof(u)
    BY <1>1, <2>5, FcloseStep, FeofStep DEF Store!Next
  <2>6. CASE \E offset \in Offsets : Fseek(u, offset)
    BY <1>1, <2>6, FseekStep DEF Store!Next
  <2> QED
    BY <1>1, <2>1, <2>2, <2>3, <2>4, <2>5, <2>6 DEF UserStep
<1>2. ASSUME NEW n \in Names, Remove(n) \/ Stat(n) \/ NotFound(n) PROVE Store!Next
  BY <1>2, RemoveStep, StatStep, NotFoundStep DEF Store!Next
<1>3. ASSUME NEW old \in Names,
             \/ \E new \in Names : RenameTaken(old, new)
             \/ RenameTooLong(old)
             \/ \E new \in Titles : Rename(old, new)
      PROVE  Store!Next
  <2>1. Titles = Names
    BY DEF Titles, IInv, Proper
  <2> QED
    BY <1>3, <2>1, RenameTakenStep, RenameTooLongStep, RenameStep DEF Store!Next
<1>4. CASE Opendir \/ Readdir \/ Closedir
  BY <1>4, ListStep DEF Store!Next
<1>5. CASE UNCHANGED vars
  BY <1>5, HeldSame, PlacesSame DEF vars, Store!vars
<1> QED
  BY <1>1, <1>2, <1>3, <1>4, <1>5 DEF Next

(* The table answers like a map from names to contents: what was written is read   *)
(* again, in whatever slot it lies and whatever lay there before, and every count,  *)
(* end mark and refusal is true (all calls of ffsys.c). Of a read behind the end no   *)
(* more is promised than that it changes no file; no rename is given a path that      *)
(* fopen refuses.                                                                     *)
THEOREM ImplementsFileStore == ASSUME Proper PROVE Spec => IsFileStore
<1>1. Init => Store!Init
  BY StoreInit
<1>2. IInv /\ IInv' /\ Writers /\ [Next]_vars => [Store!Next]_(Store!vars)
  BY StoreStep
<1>3. Spec => []IInv
  BY Invariance
<1>4. Spec => []Writers
  BY WritersInvariance
<1>5. Spec => Store!Spec
  BY <1>1, <1>2, <1>3, <1>4, PTL DEF Spec, Store!Spec
<1> QED
  BY <1>5 DEF IsFileStore

=============================================================================
