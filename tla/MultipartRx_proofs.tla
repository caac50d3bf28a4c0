------------------------- MODULE MultipartRx_proofs -------------------------
(***************************************************************************)
(* Proofs about MultipartRx for every well-formed form (FormAssumption),   *)
(* every size of buffer and every way the socket cuts the content: types   *)
(* and the exactness of the bodies that are handed on.                     *)
(*                                                                         *)
(* What recursive definitions compute is shown with a set of numbers that  *)
(* holds 0 and with each its successor (Induction).                        *)
(***************************************************************************)
EXTENDS MultipartRx, TLAPS, WellFoundedInduction, SequenceTheorems


-----------------------------------------------------------------------------
(* Searching: a scan that never goes back finds the first place.           *)

\* Induction over the numbers, for a set of them: a number outside would have a least one.
LEMMA Induction ==
  ASSUME NEW S \in SUBSET Nat, 0 \in S, \A n \in S : n + 1 \in S
  PROVE  S = Nat
<1> SUFFICES ASSUME Nat \ S # {} PROVE FALSE
  OBVIOUS
<1>1. Nat \ S \subseteq Nat
  OBVIOUS
<1>2. PICK n \in Nat \ S : \A y \in Nat \ S : ~(<<y, n>> \in OpToRel(<, Nat))
  BY <1>1, NatLessThanWellFounded, WFMin
<1>3. n \in Nat /\ n # 0
  OBVIOUS
<1>4. n - 1 \in Nat /\ n - 1 < n /\ (n - 1) + 1 = n
  BY <1>3
<1>5. <<n - 1, n>> \in OpToRel(<, Nat)
  BY <1>3, <1>4 DEF OpToRel
<1>6. n - 1 \in S
  BY <1>2, <1>4, <1>5
<1> QED
  BY <1>4, <1>6

\* The scan of the first n characters: the function that its recursive definition
\* chooses satisfies it.
IsScan(f, n, pat, str) ==
  f = [i \in 0..n |-> IF i = 0 THEN [m |-> 0, sta |-> 1] ELSE Take(pat, str[i], i)[f[i - 1]]]

\* The scan of one character more, from that of those before it ...
LEMMA ScanStep ==
  ASSUME NEW n \in Nat, NEW pat, NEW str, NEW f, IsScan(f, n, pat, str)
  PROVE  IsScan([i \in 0..(n + 1) |-> IF i = n + 1 THEN Take(pat, str[i], i)[f[n]] ELSE f[i]],
                n + 1, pat, str)
<1> DEFINE g == [i \in 0..(n + 1) |-> IF i = n + 1 THEN Take(pat, str[i], i)[f[n]] ELSE f[i]]
<1>1. ASSUME NEW i \in 0..(n + 1)
      PROVE  g[i] = IF i = 0 THEN [m |-> 0, sta |-> 1] ELSE Take(pat, str[i], i)[g[i - 1]]
  <2>1. CASE i = n + 1
    <3>1. i # 0 /\ i - 1 = n /\ n \in 0..(n + 1) /\ n # n + 1
      BY <2>1
    <3> QED
      BY <2>1, <3>1
  <2>2. CASE i # n + 1
    <3>1. i \in 0..n /\ g[i] = f[i]
      BY <2>2
    <3>2. i # 0 => i - 1 \in 0..n /\ i - 1 \in 0..(n + 1) /\ i - 1 # n + 1
      BY <3>1
    <3>3. f[i] = IF i = 0 THEN [m |-> 0, sta |-> 1] ELSE Take(pat, str[i], i)[f[i - 1]]
      BY <3>1 DEF IsScan
    <3> QED
      BY <3>1, <3>2, <3>3
  <2> QED
    BY <2>1, <2>2
<1> QED
  BY <1>1 DEF IsScan

\* ... so that there is a scan of any length, and what CHOOSE picks satisfies the recursion.
LEMMA ScanExists ==
  ASSUME NEW n \in Nat, NEW pat, NEW str
  PROVE  \E f : IsScan(f, n, pat, str)
<1> DEFINE S == {k \in Nat : \E f : IsScan(f, k, pat, str)}
<1>1. 0 \in S
  <2>1. IsScan([i \in 0..0 |-> [m |-> 0, sta |-> 1]], 0, pat, str)
    BY DEF IsScan
  <2> QED
    BY <2>1
<1>2. ASSUME NEW k \in S PROVE k + 1 \in S
  <2>1. PICK f : IsScan(f, k, pat, str)
    OBVIOUS
  <2>2. IsScan([i \in 0..(k + 1) |-> IF i = k + 1 THEN Take(pat, str[i], i)[f[k]] ELSE f[i]],
               k + 1, pat, str)
    BY <2>1, ScanStep
  <2> QED
    BY <2>2
<1>3. S \in SUBSET Nat
  OBVIOUS
<1>4. S = Nat
  <2> HIDE DEF S
  <2> QED
    BY <1>1, <1>2, <1>3, Induction
<1> QED
  BY <1>4

\* pat lies at q in str, as far as character e.
Begins(str, pat, q, e) == \A j \in 1..Len(pat) : q + j - 1 <= e => str[q + j - 1] = pat[j]

\* A character that ends one match does not continue a shorter one that it ends
\* too: what mp_find_chk relies on when it goes back to the first character only.
NoFallback(pat) ==
  \A m \in 1..(Len(pat) - 1) : \A b \in 1..(m - 1) :
    (\A j \in 1..b : pat[j] = pat[m - b + j]) => pat[b + 1] = pat[m + 1]

\* What the scan knows behind character i.
Seen(st, i, str, pat) ==
  /\ st \in Scan /\ st.m <= Len(pat) /\ st.sta \in 1..(i + 1)
  /\ \A j \in 1..st.m : str[st.sta + j - 1] = pat[j]
  /\ IF st.m = Len(pat) THEN st.sta + st.m <= i + 1 ELSE st.sta + st.m = i + 1
  /\ \A q \in 1..i : Begins(str, pat, q, i) => st.sta <= q

\* One character more keeps what is known of the scan: the match begins at sta, no
\* earlier place is left to begin at, and nothing whole was passed over. The CR at its
\* beginning, and only there, is why no earlier character has to be compared again.
LEMMA Goes ==
  ASSUME NEW str \in Seq(Char), NEW pat \in Seq(Char), NEW i \in 1..Len(str), NEW st,
         Len(pat) > 0, NoFallback(pat), Seen(st, i - 1, str, pat)
  PROVE  Seen(Take(pat, str[i], i)[st], i, str, pat)
<1> DEFINE c == str[i]
           new == Take(pat, c, i)[st]
<1> USE DEF Scan
<1>1. /\ Len(str) \in Nat /\ Len(pat) \in Nat /\ i \in Nat /\ i > 0
      /\ st \in Scan /\ st.m \in Nat /\ st.sta \in Nat
  BY DEF Seen
<1>2. new = IF st.m = Len(pat) THEN st
            ELSE IF c = pat[st.m + 1] THEN [m |-> st.m + 1, sta |-> st.sta]
            ELSE IF st.m > 0 /\ c = pat[1] THEN [m |-> 1, sta |-> i]
            ELSE [m |-> 0, sta |-> i + 1]
  BY <1>1 DEF Take
<1> SUFFICES Seen(new, i, str, pat)
  OBVIOUS
<1> HIDE DEF new
<1>3. ASSUME NEW q \in 1..(i - 1), Begins(str, pat, q, i) PROVE st.sta <= q
  <2>1. Begins(str, pat, q, i - 1)
    BY <1>1, <1>3 DEF Begins
  <2> QED
    BY <2>1 DEF Seen
<1>4. CASE st.m = Len(pat)
  <2>1. new = st
    BY <1>2, <1>4
  <2>2. \A q \in 1..i : Begins(str, pat, q, i) => st.sta <= q
    <3> SUFFICES ASSUME NEW q \in 1..i, Begins(str, pat, q, i) PROVE st.sta <= q
      OBVIOUS
    <3>1. CASE q = i
      BY <3>1, <1>1 DEF Seen
    <3>2. CASE q # i
      BY <3>2, <1>1, <1>3
    <3> QED
      BY <3>1, <3>2
  <2> QED
    BY <1>1, <1>4, <2>1, <2>2 DEF Seen
<1>5. CASE st.m # Len(pat) /\ c = pat[st.m + 1]
  <2>1. new = [m |-> st.m + 1, sta |-> st.sta]
    BY <1>2, <1>5
  <2>2. st.sta + st.m = i /\ st.m < Len(pat)
    BY <1>1, <1>5 DEF Seen
  <2>3. \A j \in 1..(st.m + 1) : str[st.sta + j - 1] = pat[j]
    <3> SUFFICES ASSUME NEW j \in 1..(st.m + 1) PROVE str[st.sta + j - 1] = pat[j]
      OBVIOUS
    <3>1. CASE j = st.m + 1
      <4>1. st.sta + j - 1 = i
        BY <3>1, <2>2, <1>1
      <4> QED
        BY <4>1, <3>1, <1>5
    <3>2. CASE j # st.m + 1
      BY <3>2, <1>1 DEF Seen
    <3> QED
      BY <3>1, <3>2
  <2>4. \A q \in 1..i : Begins(str, pat, q, i) => st.sta <= q
    <3> SUFFICES ASSUME NEW q \in 1..i, Begins(str, pat, q, i) PROVE st.sta <= q
      OBVIOUS
    <3>1. CASE q = i
      BY <3>1, <1>1, <2>2
    <3>2. CASE q # i
      BY <3>2, <1>1, <1>3
    <3> QED
      BY <3>1, <3>2
  <2>5. st.sta \in 1..(i + 1)
    BY <1>1 DEF Seen
  <2>6. new \in Scan /\ new.m = st.m + 1 /\ new.sta = st.sta
    BY <2>1, <1>1
  <2> HIDE DEF Scan, c
  <2>7. \A j \in 1..new.m : str[new.sta + j - 1] = pat[j]
    BY <2>3, <2>6
  <2>8. new.m <= Len(pat) /\ new.sta + new.m = i + 1
    BY <1>1, <2>2, <2>6
  <2>9. IF new.m = Len(pat) THEN new.sta + new.m <= i + 1 ELSE new.sta + new.m = i + 1
    BY <1>1, <2>8
  <2>10. new.sta \in 1..(i + 1) /\ \A q \in 1..i : Begins(str, pat, q, i) => new.sta <= q
    BY <2>4, <2>5, <2>6
  <2> QED
    BY <2>6, <2>7, <2>8, <2>9, <2>10 DEF Seen
<1>6. CASE st.m # Len(pat) /\ c # pat[st.m + 1]
  <2>1. st.sta + st.m = i /\ st.m < Len(pat)
    BY <1>1, <1>6 DEF Seen
  <2>2. ASSUME NEW q \in 1..(i - 1), Begins(str, pat, q, i) PROVE FALSE
    <3>1. st.sta <= q
      BY <1>3, <2>2
    <3> DEFINE b == i - q
    <3>2. b \in 1..st.m /\ b \in Nat
      BY <3>1, <2>1, <1>1
    <3>3. b + 1 \in 1..Len(pat) /\ q + (b + 1) - 1 = i
      BY <3>2, <2>1, <1>1
    <3>4. str[q + (b + 1) - 1] = pat[b + 1]
      BY <3>3, <2>2, <1>1 DEF Begins
    <3>5. c = pat[b + 1]
      BY <3>3, <3>4
    <3>6. CASE b = st.m
      BY <3>5, <3>6, <1>6
    <3>7. CASE b # st.m
      <4>1. st.m \in 1..(Len(pat) - 1) /\ b \in 1..(st.m - 1)
        BY <3>2, <3>7, <2>1, <1>1
      <4> i = q + b /\ q \in Nat /\ b \in Nat
        BY <3>2, <1>1
      <4> HIDE DEF b
      <4>2. ASSUME NEW j \in 1..b PROVE pat[j] = pat[st.m - b + j]
        <5>1. j \in 1..Len(pat) /\ q + j - 1 <= i
          BY <4>1, <1>1
        <5>2. str[q + j - 1] = pat[j]
          BY <5>1, <2>2 DEF Begins
        <5>3. st.m - b + j \in 1..st.m
          BY <4>1, <1>1
        <5>4. str[st.sta + (st.m - b + j) - 1] = pat[st.m - b + j]
          BY <5>3 DEF Seen
        <5>5. j \in Nat /\ st.m \in Nat /\ st.sta \in Nat /\ st.sta + st.m = i
          BY <4>1, <2>1, <1>1
        <5>6. st.sta + (st.m - b + j) - 1 = q + j - 1
          BY ONLY <5>5, i = q + b, q \in Nat, b \in Nat
        <5> QED
          BY <5>2, <5>4, <5>6
      <4>3. pat[b + 1] = pat[st.m + 1]
        BY <4>1, <4>2 DEF NoFallback
      <4> QED
        BY <4>3, <3>5, <1>6
    <3> QED
      BY <3>6, <3>7
  <2>3. CASE st.m > 0 /\ c = pat[1]
    <3>1. new = [m |-> 1, sta |-> i]
      BY <1>2, <1>6, <2>3
    <3>2. \A q \in 1..i : Begins(str, pat, q, i) => i <= q
      BY <2>2, <1>1
    <3>3. \A j \in 1..1 : str[i + j - 1] = pat[j]
      BY <2>3, <1>1
    <3>4. 1 <= Len(pat)
      BY <1>1
    <3> HIDE DEF c
    <3> QED
      BY <3>1, <3>2, <3>3, <3>4, <1>1 DEF Seen
  <2>4. CASE ~(st.m > 0 /\ c = pat[1])
    <3>1. new = [m |-> 0, sta |-> i + 1]
      BY <1>2, <1>6, <2>4
    <3>2. c # pat[1]
      BY <2>4, <1>6, <1>1
    <3>3. ASSUME NEW q \in 1..i, Begins(str, pat, q, i) PROVE FALSE
      <4>1. q # i
        <5> SUFFICES ASSUME q = i PROVE FALSE
          OBVIOUS
        <5>1. 1 \in 1..Len(pat) /\ q + 1 - 1 = i
          BY <1>1
        <5>2. str[q + 1 - 1] = pat[1]
          BY <5>1, <3>3, <1>1 DEF Begins
        <5> QED
          BY <5>1, <5>2, <3>2
      <4> QED
        BY <4>1, <2>2, <3>3, <1>1
    <3> HIDE DEF c
    <3> QED
      BY <3>1, <3>3, <1>1 DEF Seen
  <2> QED
    BY <2>3, <2>4
<1> QED
  BY <1>4, <1>5, <1>6

\* The characters of the boundary.
LEMMA ShapeDelim ==
  /\ Delim \in Seq(Char) /\ Len(Delim) = 5
  /\ Delim[1] = "r" /\ Delim[2] = "n" /\ Delim[3] = "-" /\ Delim[4] = "-" /\ Delim[5] = "B"
BY DEF Delim, CRLF, Char

\* The line end.
LEMMA ShapeCRLF == CRLF \in Seq(Char) /\ Len(CRLF) = 2 /\ CRLF[1] = "r" /\ CRLF[2] = "n"
BY DEF CRLF, Char

\* u is s, which has m elements, and behind it t, which has n.
Joined(u, s, m, t, n) ==
  /\ u \in Seq(Char) /\ Len(u) = m + n
  /\ \A i \in 1..m : u[i] = s[i]
  /\ \A i \in 1..n : u[m + i] = t[i]

\* What is behind what in a sequence made of two.
LEMMA Behind ==
  ASSUME NEW s \in Seq(Char), NEW t \in Seq(Char)
  PROVE  Joined(s \o t, s, Len(s), t, Len(t))
<1>1. /\ s \o t \in Seq(Char) /\ Len(s \o t) = Len(s) + Len(t)
      /\ \A i \in 1..(Len(s) + Len(t)) :
           (s \o t)[i] = IF i <= Len(s) THEN s[i] ELSE t[i - Len(s)]
  BY ConcatProperties
<1>2. Len(s) \in Nat /\ Len(t) \in Nat
  OBVIOUS
<1>3. ASSUME NEW i \in 1..Len(s) PROVE (s \o t)[i] = s[i]
  BY <1>1, <1>2
<1>4. ASSUME NEW i \in 1..Len(t) PROVE (s \o t)[Len(s) + i] = t[i]
  <2>1. Len(s) + i \in 1..(Len(s) + Len(t)) /\ ~(Len(s) + i <= Len(s)) /\ (Len(s) + i) - Len(s) = i
    BY <1>2
  <2> QED
    BY <1>1, <2>1
<1> QED
  BY <1>1, <1>3, <1>4 DEF Joined

\* The boundary before a part ...
LEMMA ShapeHeader ==
  /\ Header \in Seq(Char) /\ Len(Header) = 7
  /\ Header[1] = "r" /\ Header[2] = "n" /\ Header[3] = "-" /\ Header[4] = "-" /\ Header[5] = "B"
  /\ Header[6] = "r" /\ Header[7] = "n"
<1>1. Joined(Header, Delim, 5, CRLF, 2)
  BY ShapeDelim, ShapeCRLF, Behind DEF Header
<1> QED
  BY <1>1, ShapeDelim, ShapeCRLF DEF Joined

\* ... and that behind the last one ...
LEMMA ShapeFinal ==
  /\ Final \in Seq(Char) /\ Len(Final) = 9
  /\ Final[1] = "r" /\ Final[2] = "n" /\ Final[3] = "-" /\ Final[4] = "-" /\ Final[5] = "B"
  /\ Final[6] = "-" /\ Final[7] = "-" /\ Final[8] = "r" /\ Final[9] = "n"
<1> DEFINE mid == <<"-", "-">>
           top == Delim \o mid
<1>1. mid \in Seq(Char) /\ Len(mid) = 2 /\ mid[1] = "-" /\ mid[2] = "-"
  BY DEF Char
<1>2. Final = top \o CRLF
  BY DEF Final
<1> HIDE DEF mid
<1>3. Joined(top, Delim, 5, mid, 2)
  BY <1>1, ShapeDelim, Behind
<1> HIDE DEF top
<1>4. top \in Seq(Char) /\ Len(top) = 7
  BY <1>3 DEF Joined
<1>5. Joined(Final, top, 7, CRLF, 2)
  BY <1>2, <1>4, ShapeCRLF, Behind
<1> QED
  BY <1>1, <1>3, <1>5, ShapeDelim, ShapeCRLF DEF Joined

\* ... and the whole head of a part.
LEMMA ShapePartHead ==
  /\ PartHead \in Seq(Char) /\ Len(PartHead) = 12
  /\ \A i \in 1..7 : PartHead[i] = Header[i]
  /\ PartHead[8] = "h" /\ PartHead[9] = "r" /\ PartHead[10] = "n"
  /\ PartHead[11] = "r" /\ PartHead[12] = "n"
<1> DEFINE h == <<"h">>
           one == Header \o h
           two == one \o CRLF
<1>1. h \in Seq(Char) /\ Len(h) = 1 /\ h[1] = "h"
  BY DEF Char
<1>2. PartHead = two \o CRLF
  BY DEF PartHead
<1> HIDE DEF h
<1>3. Joined(one, Header, 7, h, 1)
  BY <1>1, ShapeHeader, Behind
<1> HIDE DEF one
<1>4. one \in Seq(Char) /\ Len(one) = 8
  BY <1>3 DEF Joined
<1>5. Joined(two, one, 8, CRLF, 2)
  BY <1>4, ShapeCRLF, Behind
<1> HIDE DEF two
<1>6. two \in Seq(Char) /\ Len(two) = 10
  BY <1>5 DEF Joined
<1>7. Joined(PartHead, two, 10, CRLF, 2)
  BY <1>2, <1>6, ShapeCRLF, Behind
<1> QED
  BY <1>1, <1>3, <1>5, <1>7, ShapeCRLF DEF Joined

\* All three are such that the search need not go back.
LEMMA NoFallbackDelim == NoFallback(Delim)
BY ShapeDelim DEF NoFallback

\* The boundary before a part does not make it go back ...
LEMMA NoFallbackHeader == NoFallback(Header)
BY ShapeHeader DEF NoFallback

\* ... nor does the last one.
LEMMA NoFallbackFinal == NoFallback(Final)
BY ShapeFinal DEF NoFallback


-----------------------------------------------------------------------------
(* mp_find_chk and httpd_mp_bdry_chk.                                      *)

\* All of pat lies at q in str.
Occurs(str, pat, q) ==
  /\ q \in 1..Len(str) /\ q + Len(pat) - 1 <= Len(str)
  /\ \A j \in 1..Len(pat) : str[q + j - 1] = pat[j]

\* r says where pat lies in str for the first time, or may begin at its end.
FirstOf(r, str, pat, skip) ==
  /\ r \in Found
  /\ r.ret = "none" <=> r.pos = 0
  /\ r.pos # 0 => r.pos - skip \in 1..Len(str)
  /\ r.ret = "found" => Occurs(str, pat, r.pos - skip)
  /\ \A q \in 1..Len(str) : Begins(str, pat, q, Len(str)) => r.pos # 0 /\ r.pos - skip <= q
  /\ \A q \in 1..Len(str) : Occurs(str, pat, q) => r.ret = "found"

\* Behind the last character the scan knows all of the data.
LEMMA ScanSees ==
  ASSUME NEW str \in Seq(Char), NEW pat \in Seq(Char), Len(pat) > 0, NoFallback(pat),
         NEW f, IsScan(f, Len(str), pat, str)
  PROVE  Seen(f[Len(str)], Len(str), str, pat)
<1> DEFINE S == {i \in Nat : i <= Len(str) => Seen(f[i], i, str, pat)}
<1>1. Len(str) \in Nat /\ Len(pat) \in Nat
  OBVIOUS
<1>2. 0 \in S
  <2>1. f[0] = [m |-> 0, sta |-> 1]
    BY <1>1 DEF IsScan
  <2>2. [m |-> 0, sta |-> 1] \in Scan
    BY DEF Scan
  <2> QED
    BY <1>1, <2>1, <2>2 DEF Seen
<1>3. ASSUME NEW i \in S PROVE i + 1 \in S
  <2> SUFFICES ASSUME i + 1 <= Len(str) PROVE Seen(f[i + 1], i + 1, str, pat)
    OBVIOUS
  <2>1. i \in Nat /\ i + 1 \in 1..Len(str) /\ (i + 1) - 1 = i
    BY <1>1
  <2>2. f[i + 1] = Take(pat, str[i + 1], i + 1)[f[i]]
    BY <1>1, <2>1 DEF IsScan
  <2>3. Seen(f[i], (i + 1) - 1, str, pat)
    BY <1>1, <2>1
  <2> QED
    BY <2>1, <2>2, <2>3, Goes
<1>4. S \in SUBSET Nat
  OBVIOUS
<1>5. S = Nat
  <2> HIDE DEF S
  <2> QED
    BY <1>2, <1>3, <1>4, Induction
<1> QED
  BY <1>1, <1>5

\* mp_find_chk finds the first place where pat lies, or may begin at the end of the data.
LEMMA FindChkFinds ==
  ASSUME NEW str \in Seq(Char), NEW pat \in Seq(Char), NEW skip \in Nat,
         Len(pat) > 0, NoFallback(pat)
  PROVE  FirstOf(FindChk(pat, skip)[str], str, pat, skip)
<1> DEFINE f == CHOOSE g : IsScan(g, Len(str), pat, str)
           st == f[Len(str)]
           r == FindChk(pat, skip)[str]
<1>1. Len(str) \in Nat /\ Len(pat) \in Nat
  OBVIOUS
<1>2. IsScan(f, Len(str), pat, str)
  BY <1>1, ScanExists
<1>3. Seen(st, Len(str), str, pat)
  <2> HIDE DEF f
  <2> QED
    BY <1>2, ScanSees
<1>4. r = Result(pat, skip)[st]
  BY DEF FindChk, IsScan
<1> HIDE DEF f, st
<1>5. st \in Scan /\ st.m \in Nat /\ st.sta \in Nat
  BY <1>3 DEF Seen, Scan
<1>6. r = [ret |-> IF st.m = Len(pat) THEN "found" ELSE IF st.m > 0 THEN "part" ELSE "none",
           pos |-> IF st.m > 0 THEN skip + st.sta ELSE 0]
  BY <1>4, <1>5 DEF Result
<1> SUFFICES FirstOf(r, str, pat, skip)
  OBVIOUS
<1> HIDE DEF r
<1>7. r \in Found
  BY <1>5, <1>6 DEF Found
<1>8. /\ r.pos = IF st.m > 0 THEN skip + st.sta ELSE 0
      /\ r.ret = "found" <=> st.m = Len(pat)
      /\ r.ret = "none" <=> st.m = 0
  BY <1>1, <1>5, <1>6
<1>9. r.ret = "none" <=> r.pos = 0
  <2>1. st.sta > 0
    BY <1>3 DEF Seen
  <2> QED
    BY <1>5, <1>8, <2>1
<1>10. r.pos # 0 => r.pos - skip \in 1..Len(str)
  <2>1. st.m > 0 => st.sta \in 1..Len(str)
    BY <1>1, <1>3, <1>5 DEF Seen
  <2> QED
    BY <1>5, <1>8, <2>1
<1>11. ASSUME r.ret = "found" PROVE Occurs(str, pat, r.pos - skip)
  <2>1. st.m = Len(pat) /\ r.pos - skip = st.sta
    BY <1>1, <1>5, <1>8, <1>11
  <2>2. st.sta \in 1..Len(str) /\ st.sta + Len(pat) - 1 <= Len(str)
    BY <2>1, <1>1, <1>3, <1>5 DEF Seen
  <2>3. \A j \in 1..Len(pat) : str[st.sta + j - 1] = pat[j]
    BY <2>1, <1>3 DEF Seen
  <2> QED
    BY <2>1, <2>2, <2>3 DEF Occurs
<1>12. ASSUME NEW q \in 1..Len(str), Begins(str, pat, q, Len(str))
       PROVE  r.pos # 0 /\ r.pos - skip <= q
  <2>1. st.sta <= q
    BY <1>3, <1>12 DEF Seen
  <2>2. st.m > 0
    BY <2>1, <1>1, <1>3, <1>5 DEF Seen
  <2>3. st.sta > 0
    BY <1>3 DEF Seen
  <2> QED
    BY <2>1, <2>2, <2>3, <1>5, <1>8
<1>13. ASSUME NEW q \in 1..Len(str), Occurs(str, pat, q) PROVE r.ret = "found"
  <2>1. Begins(str, pat, q, Len(str))
    BY <1>13 DEF Occurs, Begins
  <2>2. st.sta <= q
    BY <1>3, <2>1 DEF Seen
  <2>3. q + Len(pat) - 1 <= Len(str)
    BY <1>13 DEF Occurs
  <2>4. st.m = Len(pat)
    BY <2>2, <2>3, <1>1, <1>3, <1>5 DEF Seen
  <2> QED
    BY <2>4, <1>8
<1> QED
  BY <1>7, <1>9, <1>10, <1>11, <1>12, <1>13 DEF FirstOf

\* The same for a search in str from its character p on.
FirstFrom(r, str, pat, p) ==
  /\ r \in Found
  /\ r.ret = "none" <=> r.pos = 0
  /\ r.pos # 0 => r.pos \in p..Len(str)
  /\ r.ret = "found" => Occurs(str, pat, r.pos)
  /\ \A q \in p..Len(str) : Begins(str, pat, q, Len(str)) => r.pos # 0 /\ r.pos <= q
  /\ \A q \in p..Len(str) : Occurs(str, pat, q) => r.ret = "found"

\* The same for the search in what begins at the p-th character.
LEMMA FindChkFrom ==
  ASSUME NEW str \in Seq(Char), NEW pat \in Seq(Char), NEW p \in 1..Len(str),
         Len(pat) > 0, NoFallback(pat)
  PROVE  FirstFrom(FindChk(pat, p - 1)[SubSeq(str, p, Len(str))], str, pat, p)
<1> DEFINE rest == SubSeq(str, p, Len(str))
           r == FindChk(pat, p - 1)[rest]
<1>1. Len(str) \in Nat /\ Len(pat) \in Nat /\ p \in Nat /\ p - 1 \in Nat
  OBVIOUS
<1>2. /\ rest \in Seq(Char) /\ Len(rest) = Len(str) - p + 1
      /\ \A i \in 1..(Len(str) - p + 1) : rest[i] = str[p + i - 1]
  BY <1>1, SubSeqProperties
<1>3. FirstOf(r, rest, pat, p - 1)
  <2> HIDE DEF rest
  <2> QED
    BY <1>1, <1>2, FindChkFinds
<1> SUFFICES FirstFrom(r, str, pat, p)
  OBVIOUS
<1> HIDE DEF r, rest
<1>4. \A q \in p..Len(str) : q - (p - 1) \in 1..Len(rest)
  BY <1>1, <1>2
<1>5. ASSUME NEW q \in p..Len(str), NEW j \in 1..Len(pat), q + j - 1 <= Len(str)
      PROVE  rest[q - (p - 1) + j - 1] = str[q + j - 1]
  <2> DEFINE i == q - (p - 1) + j - 1
  <2>1. i \in 1..(Len(str) - p + 1) /\ p + i - 1 = q + j - 1
    BY <1>1, <1>5
  <2> QED
    BY <1>2, <2>1
<1>6. ASSUME NEW q \in p..Len(str), Begins(str, pat, q, Len(str))
      PROVE  r.pos # 0 /\ r.pos <= q
  <2>1. Begins(rest, pat, q - (p - 1), Len(rest))
    <3> SUFFICES ASSUME NEW j \in 1..Len(pat), q - (p - 1) + j - 1 <= Len(rest)
                 PROVE  rest[q - (p - 1) + j - 1] = pat[j]
      BY DEF Begins
    <3>1. q + j - 1 <= Len(str)
      BY <1>1, <1>2
    <3> QED
      BY <3>1, <1>5, <1>6 DEF Begins
  <2>2. r.pos # 0 /\ r.pos - (p - 1) <= q - (p - 1)
    BY <2>1, <1>3, <1>4 DEF FirstOf
  <2>3. r.pos \in Nat
    BY <1>3 DEF FirstOf, Found
  <2> QED
    BY <2>2, <2>3, <1>1
<1>7. ASSUME NEW q \in p..Len(str)
      PROVE  Occurs(str, pat, q) <=> Occurs(rest, pat, q - (p - 1))
  <2>1. q + Len(pat) - 1 <= Len(str) <=> q - (p - 1) + Len(pat) - 1 <= Len(rest)
    BY <1>1, <1>2
  <2>2. ASSUME q + Len(pat) - 1 <= Len(str), NEW j \in 1..Len(pat)
        PROVE  rest[q - (p - 1) + j - 1] = str[q + j - 1]
    <3>1. q + j - 1 <= Len(str)
      BY <2>2, <1>1
    <3> QED
      BY <3>1, <1>5
  <2>3. q \in 1..Len(str) /\ q - (p - 1) \in 1..Len(rest)
    BY <1>1, <1>4
  <2> QED
    BY <2>1, <2>2, <2>3 DEF Occurs
<1>8. r \in Found /\ r.pos \in Nat
  BY <1>3 DEF FirstOf, Found
<1>9. r.pos # 0 => r.pos \in p..Len(str)
  BY <1>1, <1>2, <1>3, <1>8 DEF FirstOf
<1>10. r.ret = "none" <=> r.pos = 0
  BY <1>3 DEF FirstOf
<1>11. ASSUME r.ret = "found" PROVE Occurs(str, pat, r.pos)
  <2>1. Occurs(rest, pat, r.pos - (p - 1)) /\ r.pos # 0
    BY <1>3, <1>11 DEF FirstOf
  <2> QED
    BY <2>1, <1>7, <1>9
<1>12. ASSUME NEW q \in p..Len(str), Occurs(str, pat, q) PROVE r.ret = "found"
  BY <1>3, <1>4, <1>7, <1>12 DEF FirstOf
<1> QED
  BY <1>6, <1>8, <1>9, <1>10, <1>11, <1>12 DEF FirstFrom

\* What httpd_mp_bdry_chk tells of a piece of the content.
Bounded(b, w) ==
  /\ b.ret \in {"found", "part", "none"} /\ b.pos \in 0..Len(w)
  /\ b.ret = "none" <=> b.pos = 0
  /\ b.ret = "found" => \/ b.kind = "header" /\ Occurs(w, Header, b.pos)
                        \/ b.kind = "end" /\ Occurs(w, Final, b.pos)
  /\ \A q \in 1..Len(w) :
       /\ Begins(w, Header, q, Len(w)) \/ Begins(w, Final, q, Len(w)) =>
            b.pos # 0 /\ (b.ret # "found" => b.pos <= q)
       /\ Occurs(w, Header, q) => b.ret = "found" /\ b.kind = "header" /\ b.pos <= q
       /\ Occurs(w, Final, q) => b.ret = "found" /\ (b.kind = "end" => b.pos <= q)

\* The boundary is the common beginning of both its forms.
LEMMA CommonPart ==
  /\ Len(Delim) = 5 /\ Len(Header) = 7 /\ Len(Final) = 9
  /\ \A j \in 1..5 : Header[j] = Delim[j] /\ Final[j] = Delim[j]
BY ShapeDelim, ShapeHeader, ShapeFinal

\* httpd_mp_bdry_chk reports a place where the boundary is, if it says so, and nothing
\* begins before the place it reports.
LEMMA BdryChkBounds ==
  ASSUME NEW w \in Seq(Char)
  PROVE  Bounded(BdryChk[w], w)
<1> DEFINE d == FindChk(Delim, 0)[w]
           b == BdryChk[w]
<1>1. FirstOf(d, w, Delim, 0)
  <2>1. Delim \in Seq(Char) /\ Len(Delim) > 0 /\ 0 \in Nat
    BY ShapeDelim
  <2> HIDE DEF d
  <2> QED
    BY <2>1, FindChkFinds, NoFallbackDelim DEF d
<1>2. d \in Found /\ d.pos \in Nat /\ d.pos - 0 = d.pos
  BY <1>1 DEF FirstOf, Found
<1>3. b = Inside(w)[d]
  BY DEF BdryChk
<1> SUFFICES Bounded(b, w)
  OBVIOUS
<1> HIDE DEF d, b
<1>4. ASSUME NEW q \in 1..Len(w), Begins(w, Header, q, Len(w)) \/ Begins(w, Final, q, Len(w))
      PROVE  d.pos # 0 /\ d.pos <= q
  <2>1. Begins(w, Delim, q, Len(w))
    BY <1>4, CommonPart DEF Begins
  <2> QED
    BY <2>1, <1>1, <1>2 DEF FirstOf
<1>5. ASSUME NEW pat \in {Header, Final}, NEW q \in 1..Len(w), Occurs(w, pat, q)
      PROVE  Occurs(w, Delim, q) /\ Begins(w, pat, q, Len(w))
  <2>1. Occurs(w, Delim, q)
    <3>1. CASE pat = Header
      BY <1>5, <3>1, CommonPart DEF Occurs
    <3>2. CASE pat = Final
      BY <1>5, <3>2, CommonPart DEF Occurs
    <3> QED
      BY <3>1, <3>2
  <2>2. Begins(w, pat, q, Len(w))
    BY <1>5 DEF Occurs, Begins
  <2> QED
    BY <2>1, <2>2
<1>6. CASE d.ret # "found"
  <2>1. b = [kind |-> "none", ret |-> d.ret, pos |-> d.pos]
    BY <1>2, <1>3, <1>6 DEF Inside, At
  <2>2. ASSUME NEW pat \in {Header, Final}, NEW q \in 1..Len(w) PROVE ~Occurs(w, pat, q)
    BY <1>1, <1>5, <1>6 DEF FirstOf
  <2>3. d.pos \in 0..Len(w)
    BY <1>1, <1>2 DEF FirstOf
  <2>4. /\ d.ret \in {"found", "part", "none"}
        /\ d.ret = "none" <=> d.pos = 0
    BY <1>1 DEF FirstOf, Found
  <2>5. b.ret = d.ret /\ b.pos = d.pos
    BY <2>1
  <2> QED
    BY <1>4, <1>6, <2>2, <2>3, <2>4, <2>5 DEF Bounded
<1>7. CASE d.ret = "found"
  <2> DEFINE p == d.pos
             h == FindChk(Header, p - 1)[SubSeq(w, p, Len(w))]
             e == FindChk(Final, p - 1)[SubSeq(w, p, Len(w))]
  <2>1. p \in 1..Len(w)
    BY <1>1, <1>2, <1>7 DEF FirstOf
  <2>2. FirstFrom(h, w, Header, p)
    <3>1. Header \in Seq(Char) /\ Len(Header) > 0
      BY ShapeHeader
    <3> HIDE DEF p
    <3> QED
      BY <2>1, <3>1, FindChkFrom, NoFallbackHeader
  <2>3. FirstFrom(e, w, Final, p)
    <3>1. Final \in Seq(Char) /\ Len(Final) > 0
      BY ShapeFinal
    <3> HIDE DEF p
    <3> QED
      BY <2>1, <3>1, FindChkFrom, NoFallbackFinal
  <2>4. b = Judge(h)[e]
    BY <1>2, <1>3, <1>7 DEF Inside
  <2> HIDE DEF h, e
  <2>5. e \in Found /\ h \in Found
    BY <2>2, <2>3 DEF FirstFrom
  <2>6. /\ b.kind = IF h.ret = "found" THEN "header"
                    ELSE IF e.ret = "found" THEN "end"
                    ELSE IF h.pos # 0 /\ (e.pos = 0 \/ h.pos <= e.pos) THEN "header"
                    ELSE IF e.pos # 0 THEN "end" ELSE "none"
        /\ b.ret = IF h.ret = "found" THEN h.ret
                   ELSE IF e.ret = "found" THEN e.ret
                   ELSE IF h.pos # 0 /\ (e.pos = 0 \/ h.pos <= e.pos) THEN h.ret
                   ELSE IF e.pos # 0 THEN e.ret ELSE h.ret
        /\ b.pos = IF h.ret = "found" THEN h.pos
                   ELSE IF e.ret = "found" THEN e.pos
                   ELSE IF h.pos # 0 /\ (e.pos = 0 \/ h.pos <= e.pos) THEN h.pos
                   ELSE IF e.pos # 0 THEN e.pos ELSE h.pos
    BY <2>4, <2>5 DEF Judge, At
  <2>7. /\ h.ret \in {"found", "part", "none"} /\ e.ret \in {"found", "part", "none"}
        /\ h.pos \in Nat /\ e.pos \in Nat /\ Len(w) \in Nat
    BY <2>5 DEF Found
  <2>8. /\ h.ret = "none" <=> h.pos = 0
        /\ e.ret = "none" <=> e.pos = 0
        /\ h.pos # 0 => h.pos \in p..Len(w)
        /\ e.pos # 0 => e.pos \in p..Len(w)
    BY <2>2, <2>3 DEF FirstFrom
  <2>9. /\ b.ret \in {"found", "part", "none"} /\ b.pos \in 0..Len(w)
        /\ b.ret = "none" <=> b.pos = 0
    BY <2>1, <2>6, <2>7, <2>8
  <2>10. b.ret = "found" => \/ b.kind = "header" /\ Occurs(w, Header, b.pos)
                            \/ b.kind = "end" /\ Occurs(w, Final, b.pos)
    BY <2>2, <2>3, <2>6, <2>7, <2>8 DEF FirstFrom
  <2>11. ASSUME NEW q \in 1..Len(w), Begins(w, Header, q, Len(w)) \/ Begins(w, Final, q, Len(w))
         PROVE  b.pos # 0 /\ (b.ret # "found" => b.pos <= q)
    <3>1. q \in p..Len(w)
      BY <1>4, <2>1, <2>11
    <3>2. (h.pos # 0 /\ h.pos <= q) \/ (e.pos # 0 /\ e.pos <= q)
      BY <3>1, <2>2, <2>3, <2>11 DEF FirstFrom
    <3> QED
      BY <3>1, <3>2, <2>6, <2>7, <2>8
  <2>12. ASSUME NEW q \in 1..Len(w), Occurs(w, Header, q)
         PROVE  b.ret = "found" /\ b.kind = "header" /\ b.pos <= q
    <3>1. Begins(w, Header, q, Len(w))
      BY <1>5, <2>12
    <3>2. q \in p..Len(w)
      BY <1>4, <2>1, <3>1
    <3>3. h.ret = "found" /\ h.pos <= q
      BY <3>1, <3>2, <2>2, <2>12 DEF FirstFrom
    <3> QED
      BY <3>3, <2>6
  <2>13. ASSUME NEW q \in 1..Len(w), Occurs(w, Final, q)
         PROVE  b.ret = "found" /\ (b.kind = "end" => b.pos <= q)
    <3>1. Begins(w, Final, q, Len(w))
      BY <1>5, <2>13
    <3>2. q \in p..Len(w)
      BY <1>4, <2>1, <3>1
    <3>3. e.ret = "found" /\ e.pos <= q
      BY <3>1, <3>2, <2>3, <2>13 DEF FirstFrom
    <3> QED
      BY <3>3, <2>6
  <2> QED
    BY <2>9, <2>10, <2>11, <2>12, <2>13 DEF Bounded
<1> QED
  BY <1>6, <1>7


-----------------------------------------------------------------------------
(* net_memmem, strstr and the blank line.                                  *)

\* A set of numbers has a least one, and Min is it.
LEMMA Least ==
  ASSUME NEW S \in SUBSET Nat, S # {}
  PROVE  Min(S) \in S /\ \A x \in S : Min(S) <= x
<1>1. PICK n \in S : \A y \in S : ~(<<y, n>> \in OpToRel(<, Nat))
  BY NatLessThanWellFounded, WFMin
<1>2. \A y \in S : n <= y
  <2> SUFFICES ASSUME NEW y \in S, y < n PROVE FALSE
    OBVIOUS
  <2> QED
    BY <1>1 DEF OpToRel
<1> QED
  BY <1>2 DEF Min

\* A slice equal to pat is pat at that place.
LEMMA PlaceOf ==
  ASSUME NEW str \in Seq(Char), NEW pat \in Seq(Char), Len(pat) > 0,
         NEW i \in 1..(Len(str) - Len(pat) + 1)
  PROVE  SubSeq(str, i, i + Len(pat) - 1) = pat <=> Occurs(str, pat, i)
<1> DEFINE sub == SubSeq(str, i, i + Len(pat) - 1)
<1>1. Len(str) \in Nat /\ Len(pat) \in Nat /\ i \in Nat /\ i + Len(pat) - 1 \in Int
  OBVIOUS
<1>2. \A j \in i..(i + Len(pat) - 1) : str[j] \in Char
  BY <1>1
<1>3. /\ sub \in Seq(Char) /\ Len(sub) = Len(pat)
      /\ \A j \in 1..Len(pat) : sub[j] = str[i + j - 1]
  <2>1. /\ sub \in Seq(Char)
        /\ Len(sub) = IF i <= i + Len(pat) - 1 THEN (i + Len(pat) - 1) - i + 1 ELSE 0
        /\ \A j \in 1..((i + Len(pat) - 1) - i + 1) : sub[j] = str[i + j - 1]
    BY <1>1, <1>2, SubSeqProperties
  <2>2. (i + Len(pat) - 1) - i + 1 = Len(pat) /\ i <= i + Len(pat) - 1
    BY <1>1
  <2> QED
    BY <2>1, <2>2
<1> HIDE DEF sub
<1>4. i \in 1..Len(str) /\ i + Len(pat) - 1 <= Len(str)
  BY <1>1
<1>5. ASSUME sub = pat PROVE Occurs(str, pat, i)
  BY <1>3, <1>4, <1>5 DEF Occurs
<1>6. ASSUME Occurs(str, pat, i) PROVE sub = pat
  BY <1>3, <1>6, SeqEqual DEF Occurs
<1> QED
  BY <1>5, <1>6 DEF sub

\* net_memmem finds the first place.
LEMMA MemMemFirst ==
  ASSUME NEW str \in Seq(Char), NEW pat \in Seq(Char), Len(pat) > 0
  PROVE  /\ MemMem(str, pat) \in Nat
         /\ MemMem(str, pat) # 0 => Occurs(str, pat, MemMem(str, pat))
         /\ \A q \in 1..Len(str) :
              Occurs(str, pat, q) => MemMem(str, pat) # 0 /\ MemMem(str, pat) <= q
<1> DEFINE S == {i \in 1..(Len(str) - Len(pat) + 1) : SubSeq(str, i, i + Len(pat) - 1) = pat}
<1>1. Len(str) \in Nat /\ Len(pat) \in Nat
  OBVIOUS
<1>2. \A i : i \in S <=> i \in 1..(Len(str) - Len(pat) + 1) /\ Occurs(str, pat, i)
  BY PlaceOf
<1>3. MemMem(str, pat) = IF S = {} THEN 0 ELSE Min(S)
  BY DEF MemMem
<1>4. S \in SUBSET Nat /\ 0 \notin S
  BY <1>1
<1> HIDE DEF S
<1>5. ASSUME NEW q \in 1..Len(str), Occurs(str, pat, q) PROVE q \in S
  BY <1>1, <1>2, <1>5 DEF Occurs
<1>6. S # {} => Min(S) \in S /\ \A x \in S : Min(S) <= x
  BY <1>4, Least
<1> QED
  BY <1>2, <1>3, <1>4, <1>5, <1>6

Blank == CRLF \o CRLF
NulBlank == <<"0", "n">> \o CRLF

\* The blank line ...
LEMMA ShapeBlank ==
  /\ Blank \in Seq(Char) /\ Len(Blank) = 4
  /\ Blank[1] = "r" /\ Blank[2] = "n" /\ Blank[3] = "r" /\ Blank[4] = "n"
<1>1. Joined(Blank, CRLF, 2, CRLF, 2)
  BY ShapeCRLF, Behind DEF Blank
<1> QED
  BY <1>1, ShapeCRLF DEF Joined

\* ... and the one whose first CR the server has overwritten.
LEMMA ShapeNulBlank ==
  /\ NulBlank \in Seq(Char) /\ Len(NulBlank) = 4
  /\ NulBlank[1] = "0" /\ NulBlank[2] = "n" /\ NulBlank[3] = "r" /\ NulBlank[4] = "n"
<1> DEFINE top == <<"0", "n">>
<1>1. top \in Seq(Char) /\ Len(top) = 2 /\ top[1] = "0" /\ top[2] = "n"
  BY DEF Char
<1>2. NulBlank = top \o CRLF
  BY DEF NulBlank
<1> HIDE DEF top
<1>3. Joined(NulBlank, top, 2, CRLF, 2)
  BY <1>1, <1>2, ShapeCRLF, Behind
<1> QED
  BY <1>1, <1>3, ShapeCRLF DEF Joined

\* Either kind of blank line is at q.
BlankAt(str, q) == Occurs(str, Blank, q) \/ Occurs(str, NulBlank, q)

\* httpd_mp_setup finds the first blank line of either kind.
LEMMA BlankLineFirst ==
  ASSUME NEW str \in Seq(Char)
  PROVE  /\ BlankLine(str) \in Nat
         /\ BlankLine(str) # 0 => BlankAt(str, BlankLine(str))
         /\ \A q \in 1..Len(str) :
              BlankAt(str, q) => BlankLine(str) # 0 /\ BlankLine(str) <= q
<1> DEFINE s1 == MemMem(str, Blank)
           s2 == MemMem(str, NulBlank)
<1>1. /\ s1 \in Nat
      /\ s1 # 0 => Occurs(str, Blank, s1)
      /\ \A q \in 1..Len(str) : Occurs(str, Blank, q) => s1 # 0 /\ s1 <= q
  <2>1. Len(Blank) > 0
    BY ShapeBlank
  <2> QED
    BY <2>1, ShapeBlank, MemMemFirst
<1>2. /\ s2 \in Nat
      /\ s2 # 0 => Occurs(str, NulBlank, s2)
      /\ \A q \in 1..Len(str) : Occurs(str, NulBlank, q) => s2 # 0 /\ s2 <= q
  <2>1. Len(NulBlank) > 0
    BY ShapeNulBlank
  <2> QED
    BY <2>1, ShapeNulBlank, MemMemFirst
<1>3. BlankLine(str) = IF s2 # 0 /\ (s1 = 0 \/ s2 < s1) THEN s2 ELSE s1
  BY DEF BlankLine, Blank, NulBlank
<1> HIDE DEF s1, s2
<1> QED
  BY <1>1, <1>2, <1>3 DEF BlankAt

\* The blank line that ends a header is the first one of what begins with it, too.
LEMMA BlankLineOfHead ==
  ASSUME NEW head \in Seq(Char), Len(head) > 3, BlankLine(head) = Len(head) - 3,
         NEW str \in Seq(Char), Len(head) <= Len(str),
         \A i \in 1..Len(head) : str[i] = head[i]
  PROVE  /\ BlankLine(str) = Len(head) - 3
         /\ head[Len(head) - 1] = "r" /\ head[Len(head)] = "n"
<1> DEFINE e == Len(head) - 3
<1>1. Len(head) \in Nat /\ Len(str) \in Nat /\ e \in 1..Len(head) /\ e \in 1..Len(str)
  OBVIOUS
<1>2. \A q \in 1..e : BlankAt(str, q) <=> BlankAt(head, q)
  <2> SUFFICES ASSUME NEW q \in 1..e, NEW pat \in {Blank, NulBlank}
               PROVE  Occurs(str, pat, q) <=> Occurs(head, pat, q)
    BY DEF BlankAt
  <2>1. Len(pat) = 4
    BY ShapeBlank, ShapeNulBlank
  <2>2. /\ q \in 1..Len(str) /\ q \in 1..Len(head)
        /\ q + Len(pat) - 1 <= Len(str) /\ q + Len(pat) - 1 <= Len(head)
    BY <1>1, <2>1
  <2>3. \A j \in 1..Len(pat) : str[q + j - 1] = head[q + j - 1]
    BY <1>1, <2>1
  <2> QED
    BY <2>2, <2>3 DEF Occurs
<1>3. BlankAt(head, e) /\ \A q \in 1..Len(head) : BlankAt(head, q) => e <= q
  BY <1>1, BlankLineFirst
<1>4. BlankAt(str, e)
  BY <1>1, <1>2, <1>3
<1> DEFINE s == BlankLine(str)
<1>5. s # 0 /\ s <= e /\ s \in Nat /\ BlankAt(str, s)
  BY <1>1, <1>4, BlankLineFirst
<1> HIDE DEF s
<1>6. s \in 1..e
  BY <1>1, <1>5
<1>7. e <= s
  BY <1>1, <1>2, <1>3, <1>5, <1>6
<1>8. s = e
  BY <1>1, <1>6, <1>7
<1>9. head[e + 3 - 1] = "r" /\ head[e + 4 - 1] = "n"
  <2> HIDE DEF e
  <2> QED
    BY <1>3, ShapeBlank, ShapeNulBlank DEF BlankAt, Occurs
<1>10. e + 3 - 1 = Len(head) - 1 /\ e + 4 - 1 = Len(head)
  BY <1>1
<1> QED
  BY <1>8, <1>9, <1>10 DEF s

\* strstr finds nothing behind a NUL, and the first place before one.
LEMMA StrStrFirst ==
  ASSUME NEW str \in Seq(Char)
  PROVE  /\ StrStr(str, Blank) \in Nat
         /\ StrStr(str, Blank) # 0 => Occurs(str, Blank, StrStr(str, Blank))
         /\ \A q \in 1..Len(str) :
              Occurs(str, Blank, q) /\ (\A i \in 1..(q + 3) : str[i] # "0")
                => StrStr(str, Blank) # 0 /\ StrStr(str, Blank) <= q
<1> DEFINE nul == MemMem(str, <<"0">>)
           top == IF nul = 0 THEN str ELSE SubSeq(str, 1, nul - 1)
           n == StrStr(str, Blank)
<1>1. /\ nul \in Nat
      /\ nul # 0 => nul \in 1..Len(str) /\ str[nul] = "0"
  <2> DEFINE z == <<"0">>
  <2>1. z \in Seq(Char) /\ Len(z) = 1 /\ Len(z) > 0 /\ z[1] = "0"
    BY DEF Char
  <2>2. nul = MemMem(str, z)
    OBVIOUS
  <2> HIDE DEF z, nul
  <2>3. nul \in Nat /\ (nul # 0 => Occurs(str, z, nul))
    BY <2>1, <2>2, MemMemFirst
  <2>4. ASSUME Occurs(str, z, nul) PROVE nul \in 1..Len(str) /\ str[nul] = "0"
    <3>1. nul \in 1..Len(str) /\ str[nul + 1 - 1] = z[1]
      BY <2>1, <2>4 DEF Occurs
    <3>2. nul + 1 - 1 = nul
      BY <3>1
    <3> QED
      BY <2>1, <3>1, <3>2
  <2> QED
    BY <2>3, <2>4
<1>2. n = MemMem(top, Blank)
  BY DEF StrStr
<1> HIDE DEF nul
<1>3. /\ top \in Seq(Char) /\ Len(top) = IF nul = 0 THEN Len(str) ELSE nul - 1
      /\ \A i \in 1..Len(top) : top[i] = str[i]
      /\ Len(str) \in Nat
  <2>1. CASE nul = 0
    BY <2>1
  <2>2. CASE nul # 0
    <3>1. \A i \in 1..(nul - 1) : str[i] \in Char
      BY <1>1, <2>2
    <3>2. /\ SubSeq(str, 1, nul - 1) \in Seq(Char)
          /\ Len(SubSeq(str, 1, nul - 1)) = IF 1 <= nul - 1 THEN (nul - 1) - 1 + 1 ELSE 0
          /\ \A i \in 1..((nul - 1) - 1 + 1) : SubSeq(str, 1, nul - 1)[i] = str[1 + i - 1]
      BY <1>1, <2>2, <3>1, SubSeqProperties
    <3>3. (IF 1 <= nul - 1 THEN (nul - 1) - 1 + 1 ELSE 0) = nul - 1
      BY <1>1, <2>2
    <3>4. \A i \in 1..(nul - 1) : i \in 1..((nul - 1) - 1 + 1) /\ 1 + i - 1 = i
      BY <1>1, <2>2
    <3> QED
      BY <2>2, <3>2, <3>3, <3>4
  <2> QED
    BY <2>1, <2>2
<1> HIDE DEF top, n
<1>4. /\ n \in Nat
      /\ n # 0 => Occurs(top, Blank, n)
      /\ \A q \in 1..Len(top) : Occurs(top, Blank, q) => n # 0 /\ n <= q
  <2>1. Len(Blank) > 0
    BY ShapeBlank
  <2> QED
    BY <1>2, <1>3, <2>1, ShapeBlank, MemMemFirst
<1>5. Len(top) <= Len(str) /\ Len(top) \in Nat
  BY <1>1, <1>3
<1>6. ASSUME NEW q \in 1..Len(top), q + 3 <= Len(top)
      PROVE  Occurs(str, Blank, q) <=> Occurs(top, Blank, q)
  <2>1. \A j \in 1..4 : q + j - 1 \in 1..Len(top)
    BY <1>5, <1>6
  <2>2. \A j \in 1..4 : str[q + j - 1] = top[q + j - 1]
    BY <1>3, <2>1
  <2>3. q + 4 - 1 <= Len(top) /\ q + 4 - 1 <= Len(str) /\ q \in 1..Len(str)
    BY <1>5, <1>6, <1>3
  <2> QED
    BY <2>2, <2>3, ShapeBlank DEF Occurs
<1>7. ASSUME n # 0 PROVE Occurs(str, Blank, n)
  <2>1. n \in 1..Len(top) /\ n + 3 <= Len(top)
    BY <1>4, <1>5, <1>7, ShapeBlank DEF Occurs
  <2> QED
    BY <1>4, <1>6, <1>7, <2>1
<1>8. ASSUME NEW q \in 1..Len(str), Occurs(str, Blank, q), \A i \in 1..(q + 3) : str[i] # "0"
      PROVE  n # 0 /\ n <= q
  <2>1. q + 3 <= Len(str)
    BY <1>3, <1>8, ShapeBlank DEF Occurs
  <2>2. nul # 0 => nul > q + 3
    BY <1>1, <1>8
  <2>3. q \in 1..Len(top) /\ q + 3 <= Len(top)
    BY <1>1, <1>3, <2>1, <2>2
  <2> QED
    BY <1>4, <1>6, <1>8, <2>3
<1> QED
  BY <1>4, <1>7, <1>8 DEF n


-----------------------------------------------------------------------------
(* The form that is sent: where each part of it lies.                      *)

\* FlattenSeq, as ScanExists does it for the search.
IsFlat(f, n, ss) == f = [i \in 1..n |-> IF i = 1 THEN ss[i] ELSE f[i - 1] \o ss[i]]

\* FlattenSeq of one sequence more ...
LEMMA FlatStep ==
  ASSUME NEW n \in Nat, NEW ss, NEW f, IsFlat(f, n, ss)
  PROVE  IsFlat([i \in 1..(n + 1) |-> IF i = n + 1 THEN (IF i = 1 THEN ss[i] ELSE f[n] \o ss[i])
                                      ELSE f[i]], n + 1, ss)
<1> DEFINE g == [i \in 1..(n + 1) |->
                   IF i = n + 1 THEN (IF i = 1 THEN ss[i] ELSE f[n] \o ss[i]) ELSE f[i]]
<1>1. ASSUME NEW i \in 1..(n + 1)
      PROVE  g[i] = IF i = 1 THEN ss[i] ELSE g[i - 1] \o ss[i]
  <2>1. CASE i = n + 1
    <3>1. i # 1 => n \in 1..(n + 1) /\ i - 1 = n /\ n # n + 1
      BY <2>1
    <3>2. i # 1 => g[i - 1] = f[n]
      BY <3>1
    <3>3. g[i] = IF i = 1 THEN ss[i] ELSE f[n] \o ss[i]
      BY <2>1
    <3> QED
      BY <3>2, <3>3
  <2>2. CASE i # n + 1
    <3>1. i \in 1..n /\ g[i] = f[i]
      BY <2>2
    <3>2. i # 1 => i - 1 \in 1..(n + 1) /\ i - 1 # n + 1
      BY <3>1
    <3>3. f[i] = IF i = 1 THEN ss[i] ELSE f[i - 1] \o ss[i]
      BY <3>1 DEF IsFlat
    <3>4. i # 1 => g[i - 1] = f[i - 1]
      BY <3>2
    <3> QED
      BY <3>1, <3>3, <3>4
  <2> QED
    BY <2>1, <2>2
<1> QED
  BY <1>1 DEF IsFlat

\* ... so that what CHOOSE picks satisfies its recursion, too ...
LEMMA FlatExists ==
  ASSUME NEW n \in Nat, NEW ss
  PROVE  \E f : IsFlat(f, n, ss)
<1> DEFINE S == {k \in Nat : \E f : IsFlat(f, k, ss)}
<1>1. 0 \in S
  <2>1. IsFlat([i \in 1..0 |-> 0], 0, ss)
    BY DEF IsFlat
  <2> QED
    BY <2>1
<1>2. ASSUME NEW k \in S PROVE k + 1 \in S
  <2>1. PICK f : IsFlat(f, k, ss)
    OBVIOUS
  <2>2. k \in Nat
    OBVIOUS
  <2>3. IsFlat([i \in 1..(k + 1) |-> IF i = k + 1 THEN (IF i = 1 THEN ss[i] ELSE f[k] \o ss[i])
                                    ELSE f[i]], k + 1, ss)
    BY <2>1, <2>2, FlatStep
  <2> QED
    BY <2>2, <2>3
<1>3. S \in SUBSET Nat
  OBVIOUS
<1>4. S = Nat
  <2> HIDE DEF S
  <2> QED
    BY <1>1, <1>2, <1>3, Induction
<1> QED
  BY <1>4

\* ... and it is all of them, one behind the other.
LEMMA FlattenIs ==
  ASSUME NEW n \in Nat \ {0}, NEW ss \in Seq(Seq(Char)), Len(ss) = n
  PROVE  \E f : /\ IsFlat(f, n, ss) /\ FlattenSeq(ss) = f[n]
                /\ \A i \in 1..n : f[i] \in Seq(Char)
<1> DEFINE f == CHOOSE g : IsFlat(g, n, ss)
<1>1. IsFlat(f, n, ss)
  BY FlatExists
<1>2. FlattenSeq(ss) = f[n]
  BY DEF FlattenSeq, IsFlat
<1> HIDE DEF f
<1> DEFINE S == {k \in Nat : k + 1 <= n => f[k + 1] \in Seq(Char)}
<1>3. \A i \in 1..n : ss[i] \in Seq(Char)
  OBVIOUS
<1>4. 0 \in S
  <2>1. 1 \in 1..n /\ 0 + 1 = 1
    OBVIOUS
  <2> QED
    BY <1>1, <1>3, <2>1 DEF IsFlat
<1>5. ASSUME NEW k \in S PROVE k + 1 \in S
  <2> SUFFICES ASSUME (k + 1) + 1 <= n PROVE f[(k + 1) + 1] \in Seq(Char)
    OBVIOUS
  <2>1. (k + 1) + 1 \in 1..n /\ (k + 1) + 1 # 1 /\ ((k + 1) + 1) - 1 = k + 1 /\ k + 1 <= n
    OBVIOUS
  <2>2. f[(k + 1) + 1] = f[k + 1] \o ss[(k + 1) + 1]
    BY <1>1, <2>1 DEF IsFlat
  <2>3. f[k + 1] \in Seq(Char) /\ ss[(k + 1) + 1] \in Seq(Char)
    BY <1>3, <2>1
  <2> QED
    BY <2>2, <2>3, ConcatProperties
<1>6. S \in SUBSET Nat
  OBVIOUS
<1>7. S = Nat
  <2> HIDE DEF S
  <2> QED
    BY <1>4, <1>5, <1>6, Induction
<1>8. ASSUME NEW i \in 1..n PROVE f[i] \in Seq(Char)
  <2>1. i - 1 \in Nat /\ (i - 1) + 1 = i /\ i <= n
    OBVIOUS
  <2>2. i - 1 \in S
    BY <1>7, <2>1
  <2> QED
    BY <2>1, <2>2
<1> QED
  BY <1>1, <1>2, <1>8


Part(up, i) == PartHead \o up.parts[i]

IsForm(up) ==
  /\ up.parts \in Seq(Seq(Char)) /\ up.tail \in Seq(Char) /\ up.extra \in Seq(Char)

\* g[i] is the content as far as the end of its i-th body.
IsGrowth(g, up) ==
  /\ g \in [0..Len(up.parts) -> Seq(Char)]
  /\ g[0] = << >>
  /\ \A i \in 1..Len(up.parts) : g[i] = g[i - 1] \o Part(up, i)
  /\ Content(up) = g[Len(up.parts)] \o up.tail

\* The content, part by part.
LEMMA GrowthExists ==
  ASSUME NEW up, IsForm(up)
  PROVE  \E g : IsGrowth(g, up)
<1> DEFINE n == Len(up.parts)
           ss == [i \in DOMAIN up.parts |-> Part(up, i)]
<1>1. n \in Nat /\ DOMAIN up.parts = 1..n /\ \A i \in 1..n : up.parts[i] \in Seq(Char)
  BY DEF IsForm
<1>2. \A i \in 1..n : Part(up, i) \in Seq(Char)
  BY <1>1, ShapePartHead, ConcatProperties DEF Part
<1>3. Content(up) = FlattenSeq(ss) \o up.tail
  BY DEF Content, Part
<1>4. << >> \in Seq(Char)
  OBVIOUS
<1>5. CASE n = 0
  <2>1. ss = << >>
    BY <1>1, <1>5
  <2>2. Len(ss) = 0
    BY <2>1
  <2>3. FlattenSeq(ss) = << >>
    BY <2>1, <2>2 DEF FlattenSeq
  <2>4. Content(up) = << >> \o up.tail
    BY <1>3, <2>3
  <2> DEFINE g == [i \in 0..0 |-> << >>]
  <2>5. g \in [0..0 -> Seq(Char)] /\ g[0] = << >>
    BY <1>4
  <2> HIDE DEF g
  <2>6. IsGrowth(g, up)
    BY <1>5, <2>4, <2>5 DEF IsGrowth
  <2> QED
    BY <2>6
<1>6. CASE n # 0
  <2>1. ss \in Seq(Seq(Char)) /\ Len(ss) = n /\ \A i \in 1..n : ss[i] = Part(up, i)
    <3>1. ss \in [1..n -> Seq(Char)]
      BY <1>1, <1>2
    <3> HIDE DEF n
    <3> QED
      BY <1>1, <3>1
  <2> HIDE DEF ss, n
  <2>2. PICK f : /\ IsFlat(f, n, ss) /\ FlattenSeq(ss) = f[n]
                 /\ \A i \in 1..n : f[i] \in Seq(Char)
    <3>1. n \in Nat \ {0}
      BY <1>1, <1>6
    <3> QED
      BY <2>1, <3>1, FlattenIs
  <2> DEFINE g == [i \in 0..n |-> IF i = 0 THEN << >> ELSE f[i]]
  <2>3. g \in [0..n -> Seq(Char)] /\ g[0] = << >> /\ g[n] = f[n]
    BY <1>1, <1>4, <1>6, <2>2
  <2>4. ASSUME NEW i \in 1..n PROVE g[i] = g[i - 1] \o Part(up, i)
    <3>0. i \in 0..n /\ i # 0
      BY <1>1
    <3>1. g[i] = f[i]
      BY <3>0
    <3>11. f[i] = IF i = 1 THEN ss[i] ELSE f[i - 1] \o ss[i]
      BY <2>2 DEF IsFlat
    <3>2. CASE i = 1
      <4>1. g[i - 1] = << >>
        BY <1>1, <3>2
      <4>2. << >> \o Part(up, i) = Part(up, i)
        BY <1>2, ConcatEmptySeq
      <4> QED
        BY <2>1, <3>1, <3>11, <3>2, <4>1, <4>2
    <3>3. CASE i # 1
      <4>1. i - 1 \in 0..n /\ i - 1 # 0
        BY <1>1, <3>3
      <4>2. g[i - 1] = f[i - 1]
        BY <4>1
      <4> QED
        BY <2>1, <3>1, <3>11, <3>3, <4>2
    <3> QED
      BY <3>2, <3>3
  <2> HIDE DEF g
  <2> QED
    BY <1>3, <2>2, <2>3, <2>4 DEF IsGrowth, n
<1> QED
  BY <1>5, <1>6

\* All that the client sends, with the CR LF before it. base[i] is where the i-th body ends.
Whole(up) == Content(up) \o up.extra

Starts(u, s) == Len(s) <= Len(u) /\ \A q \in 1..Len(s) : u[q] = s[q]

\* It begins with what it was one part earlier, and so with all that it was.
LEMMA Grows ==
  ASSUME NEW up, IsForm(up), NEW g, IsGrowth(g, up)
  PROVE  \A i \in 0..Len(up.parts) : Starts(g[Len(up.parts)], g[i])
<1> DEFINE n == Len(up.parts)
           S == {k \in Nat : k <= n => \A i \in 0..k : Starts(g[k], g[i])}
<1>1. n \in Nat /\ (\A i \in 0..n : g[i] \in Seq(Char)) /\ \A i \in 1..n : Part(up, i) \in Seq(Char)
  <2>1. n \in Nat /\ \A i \in 1..n : up.parts[i] \in Seq(Char)
    BY DEF IsForm
  <2>2. \A i \in 1..n : Part(up, i) \in Seq(Char)
    BY <2>1, ShapePartHead, ConcatProperties DEF Part
  <2> QED
    BY <2>1, <2>2 DEF IsGrowth
<1>2. \A i \in 1..n : g[i] = g[i - 1] \o Part(up, i)
  BY DEF IsGrowth
<1> HIDE DEF n
<1>3. 0 \in S
  <2>1. ASSUME NEW i \in 0..0 PROVE Starts(g[0], g[i])
    <3>1. i = 0 /\ 0 \in 0..n
      BY <1>1
    <3>2. Len(g[0]) \in Nat
      BY <1>1, <3>1
    <3> QED
      BY <3>1, <3>2 DEF Starts
  <2> QED
    BY <2>1
<1>4. ASSUME NEW k \in S PROVE k + 1 \in S
  <2> SUFFICES ASSUME k + 1 <= n, NEW i \in 0..(k + 1) PROVE Starts(g[k + 1], g[i])
    OBVIOUS
  <2>1. k \in Nat /\ k + 1 \in 1..n /\ (k + 1) - 1 = k /\ k \in 0..n /\ i \in 0..n /\ k + 1 \in 0..n /\ k <= n
    BY <1>1
  <2> DEFINE a == g[k]
             b == g[k + 1]
             p == Part(up, k + 1)
  <2>2. b = a \o p
    BY <1>2, <2>1
  <2>3. a \in Seq(Char) /\ p \in Seq(Char) /\ g[i] \in Seq(Char) /\ b \in Seq(Char)
    BY <1>1, <2>1
  <2>4. i # k + 1 => Starts(a, g[i])
    BY <2>1
  <2> HIDE DEF a, p
  <2>5. Joined(b, a, Len(a), p, Len(p))
    BY <2>2, <2>3, Behind
  <2> SUFFICES Starts(b, g[i])
    OBVIOUS
  <2>6. CASE i = k + 1
    <3>1. g[i] = b /\ Len(b) \in Nat
      BY <2>3, <2>6
    <3> HIDE DEF b
    <3> QED
      BY <3>1 DEF Starts
  <2>7. CASE i # k + 1
    <3> HIDE DEF b
    <3>1. Len(a) \in Nat /\ Len(p) \in Nat /\ Len(g[i]) \in Nat /\ Len(b) = Len(a) + Len(p)
      BY <2>3, <2>5 DEF Joined
    <3>2. Len(g[i]) <= Len(a) /\ \A q \in 1..Len(g[i]) : a[q] = g[i][q]
      BY <2>4, <2>7 DEF Starts
    <3>3. \A q \in 1..Len(a) : b[q] = a[q]
      BY <2>5 DEF Joined
    <3> QED
      BY <3>1, <3>2, <3>3 DEF Starts
  <2> QED
    BY <2>6, <2>7
<1>5. S \in SUBSET Nat
  OBVIOUS
<1>6. S = Nat
  <2> HIDE DEF S
  <2> QED
    BY <1>3, <1>4, <1>5, Induction
<1>7. n \in S /\ n <= n
  BY <1>1, <1>6
<1>8. \A i \in 0..n : Starts(g[n], g[i])
  BY <1>7
<1> QED
  BY <1>8 DEF n

\* The first m characters of u are those of w behind its k-th.
Shows(u, w, k, m) == \A j \in 1..m : u[j] = w[k + j]

\* Where u shows w, a pattern lies in one if it lies in the other.
LEMMA OccursSame ==
  ASSUME NEW u \in Seq(Char), NEW w \in Seq(Char), NEW pat \in Seq(Char),
         NEW k \in Nat, NEW m \in Nat, NEW q \in 1..m, Len(pat) > 0,
         m <= Len(u), k + m <= Len(w), Shows(u, w, k, m), q + Len(pat) - 1 <= m
  PROVE  Occurs(u, pat, q) <=> Occurs(w, pat, k + q)
<1>1. Len(u) \in Nat /\ Len(w) \in Nat /\ Len(pat) \in Nat
  BY LenProperties
<1>2. /\ q \in 1..Len(u) /\ k + q \in 1..Len(w)
      /\ q + Len(pat) - 1 <= Len(u) /\ (k + q) + Len(pat) - 1 <= Len(w)
  BY <1>1
<1>3. ASSUME NEW j \in 1..Len(pat) PROVE u[q + j - 1] = w[(k + q) + j - 1]
  <2>1. q + j - 1 \in 1..m /\ k + (q + j - 1) = (k + q) + j - 1
    BY <1>1
  <2> QED
    BY <2>1 DEF Shows
<1> QED
  BY <1>2, <1>3 DEF Occurs

\* b is a and then p: where w begins with b, it shows p behind a.
LEMMA PieceBehind ==
  ASSUME NEW w \in Seq(Char), NEW a \in Seq(Char), NEW p \in Seq(Char),
         NEW b \in Seq(Char), b = a \o p, Starts(w, b)
  PROVE  Shows(p, w, Len(a), Len(p))
<1>1. Joined(b, a, Len(a), p, Len(p))
  BY Behind
<1>2. Len(a) \in Nat /\ Len(p) \in Nat /\ Len(b) = Len(a) + Len(p)
  BY <1>1 DEF Joined
<1>3. ASSUME NEW j \in 1..Len(p) PROVE p[j] = w[Len(a) + j]
  <2>1. Len(a) + j \in 1..Len(b)
    BY <1>2
  <2>2. w[Len(a) + j] = b[Len(a) + j]
    BY <2>1 DEF Starts
  <2> QED
    BY <2>2, <1>1 DEF Joined
<1> QED
  BY <1>3 DEF Shows

\* Between a body and what comes behind it no boundary begins earlier.
LEMMA CleanBody ==
  ASSUME NEW w \in Seq(Char), NEW d \in Seq(Char), NEW next \in Seq(Char), NEW pat \in Seq(Char),
         NEW k \in Nat, Len(pat) > 0, Len(pat) <= 9, Len(next) >= 9,
         k + Len(d) + 9 <= Len(w), Shows(d, w, k, Len(d)), Shows(next, w, k + Len(d), 9),
         MemMem(d \o next, pat) \in {0, Len(d) + 1},
         NEW s \in (k + 1)..(k + Len(d))
  PROVE  ~Occurs(w, pat, s)
<1> SUFFICES ASSUME Occurs(w, pat, s) PROVE FALSE
  OBVIOUS
<1> DEFINE u == d \o next
           l == Len(d)
           m == l + 9
           q == s - k
<1>1. /\ l \in Nat /\ m \in Nat /\ Len(next) \in Nat /\ Len(pat) \in Nat /\ Len(w) \in Nat
      /\ m = l + 9
  BY LenProperties
<1>2. q \in 1..l /\ q \in 1..m /\ k + q = s /\ q \in Nat
  BY <1>1
<1>3. Joined(u, d, l, next, Len(next))
  BY Behind
<1>4. k + l + 9 <= Len(w) /\ Shows(d, w, k, l) /\ Shows(next, w, k + l, 9)
      /\ MemMem(u, pat) \in {0, l + 1}
  OBVIOUS
<1> HIDE DEF u, l, m, q
<1>5. u \in Seq(Char) /\ Len(u) = l + Len(next)
  BY <1>3 DEF Joined
<1>6. m <= Len(u) /\ k + m <= Len(w) /\ q + Len(pat) - 1 <= m /\ q \in 1..Len(u)
  BY <1>1, <1>2, <1>4, <1>5
<1>7. Shows(u, w, k, m)
  <2> SUFFICES ASSUME NEW j \in 1..m PROVE u[j] = w[k + j]
    BY DEF Shows
  <2>1. CASE j <= l
    <3>1. j \in 1..l
      BY <1>1, <2>1
    <3> QED
      BY <1>3, <1>4, <3>1 DEF Joined, Shows
  <2>2. CASE ~(j <= l)
    <3>1. PICK v \in 1..9 : j = l + v
      <4>1. j - l \in 1..9 /\ j = l + (j - l)
        BY <1>1, <2>2
      <4> QED
        BY <4>1
    <3>2. v \in 1..Len(next) /\ k + j = (k + l) + v
      BY <1>1, <3>1
    <3>3. u[l + v] = next[v] /\ next[v] = w[(k + l) + v]
      BY <1>3, <1>4, <3>2 DEF Joined, Shows
    <3> QED
      BY <3>1, <3>2, <3>3
  <2> QED
    BY <2>1, <2>2
<1>8. Occurs(u, pat, q)
  <2>1. Occurs(w, pat, k + q)
    BY <1>2
  <2> QED
    BY <1>1, <1>2, <1>5, <1>6, <1>7, <2>1, OccursSame, SMTT(30)
<1>9. MemMem(u, pat) # 0 /\ MemMem(u, pat) <= q
  BY <1>5, <1>6, <1>8, MemMemFirst
<1> QED
  BY <1>1, <1>2, <1>4, <1>9

\* No boundary of a part begins behind the bodies.
LEMMA CleanTail ==
  ASSUME NEW w \in Seq(Char), NEW u \in Seq(Char), NEW k \in Nat,
         Len(w) = k + Len(u), Shows(u, w, k, Len(u)), MemMem(u, Header) = 0,
         NEW s \in (k + 1)..Len(w)
  PROVE  ~Occurs(w, Header, s)
<1> SUFFICES ASSUME Occurs(w, Header, s) PROVE FALSE
  OBVIOUS
<1> DEFINE m == Len(u)
           q == s - k
<1>1. m \in Nat /\ Len(w) \in Nat /\ Header \in Seq(Char) /\ Len(Header) = 7
  BY ShapeHeader, LenProperties
<1>2. s + 6 <= Len(w) /\ s \in Nat
  BY <1>1 DEF Occurs
<1>3. q \in 1..m /\ k + q = s /\ q + 6 <= m /\ q \in 1..Len(u) /\ q \in Nat
  BY <1>1, <1>2
<1>4. Shows(u, w, k, m) /\ m <= Len(u) /\ k + m <= Len(w)
  BY <1>1
<1> HIDE DEF m, q
<1>5. Occurs(u, Header, q)
  <2>1. Occurs(w, Header, k + q)
    BY <1>3
  <2>2. Len(Header) > 0 /\ q + Len(Header) - 1 <= m
    BY <1>1, <1>3
  <2> QED
    BY <1>1, <1>3, <1>4, <2>1, <2>2, OccursSame
<1> QED
  <2>1. Len(Header) > 0
    BY <1>1
  <2> QED
    BY <1>1, <1>3, <1>5, <2>1, MemMemFirst

\* What is sent: w, in which the i-th of the n bodies ends at base[i], and x characters
\* are behind the content.
Laid(base, n, w, parts, x) ==
  /\ base \in [0..n -> Nat] /\ base[0] = 0
  /\ base[n] + x + 9 <= Len(w) /\ Shows(Final, w, base[n], 9)
  /\ \A i \in 0..n : base[i] <= base[n]
  /\ \A i \in 1..n :
       /\ base[i] = base[i - 1] + 12 + Len(parts[i])
       /\ Shows(PartHead, w, base[i - 1], 12)
       /\ Shows(parts[i], w, base[i - 1] + 12, Len(parts[i]))
  /\ \A i \in 1..n, pat \in {Header, Final} :
       \A s \in (base[i - 1] + 13)..base[i] : ~Occurs(w, pat, s)
  /\ \A s \in (base[n] + 1)..Len(w) : ~Occurs(w, Header, s)

\* Behind one another in any order of joining.
LEMMA Assoc ==
  ASSUME NEW a \in Seq(Char), NEW b \in Seq(Char), NEW c \in Seq(Char)
  PROVE  (a \o b) \o c = a \o (b \o c)
BY ConcatAssociative

\* What shows much shows less.
LEMMA ShowsLess ==
  ASSUME NEW u, NEW w, NEW k \in Nat, NEW m \in Nat, NEW l \in Nat, Shows(u, w, k, m), l <= m
  PROVE  Shows(u, w, k, l)
<1>1. 1..l \subseteq 1..m
  OBVIOUS
<1> QED
  BY <1>1 DEF Shows

\* Both forms of the boundary are short.
LEMMA ShapeBoundary ==
  \A pat \in {Header, Final} :
    pat \in Seq(Char) /\ Len(pat) \in Nat /\ Len(pat) > 0 /\ Len(pat) <= 9
<1>1. Header \in Seq(Char) /\ Len(Header) \in Nat /\ Len(Header) > 0 /\ Len(Header) <= 9
  BY ShapeHeader
<1>2. Final \in Seq(Char) /\ Len(Final) \in Nat /\ Len(Final) > 0 /\ Len(Final) <= 9
  BY ShapeFinal
<1> QED
  BY <1>1, <1>2

\* How long the content is with one part more.
LEMMA PartLength ==
  ASSUME NEW c \in Seq(Char), NEW d \in Seq(Char)
  PROVE  Len(c \o (PartHead \o d)) = Len(c) + 12 + Len(d)
<1> DEFINE p == PartHead \o d
<1>1. Joined(p, PartHead, 12, d, Len(d))
  BY ShapePartHead, Behind
<1>2. p \in Seq(Char) /\ Len(p) = 12 + Len(d) /\ Len(d) \in Nat /\ Len(c) \in Nat
  BY <1>1, LenProperties DEF Joined
<1> SUFFICES Len(c \o p) = Len(c) + 12 + Len(d)
  OBVIOUS
<1> HIDE DEF p
<1>3. Len(c \o p) = Len(c) + Len(p)
  BY <1>2, ConcatProperties
<1> QED
  BY <1>2, <1>3

\* A beginning of a beginning.
LEMMA StartsTrans ==
  ASSUME NEW w \in Seq(Char), NEW a \in Seq(Char), NEW b \in Seq(Char), Starts(w, a), Starts(a, b)
  PROVE  Starts(w, b)
<1>1. Len(w) \in Nat /\ Len(a) \in Nat /\ Len(b) \in Nat
  BY LenProperties
<1> QED
  BY <1>1 DEF Starts

\* What a part adds: its head, and behind that its body.
LEMMA PartBehind ==
  ASSUME NEW w \in Seq(Char), NEW c \in Seq(Char), NEW d \in Seq(Char), NEW b \in Seq(Char),
         b = c \o (PartHead \o d), Starts(w, b)
  PROVE  /\ Shows(PartHead, w, Len(c), 12) /\ Shows(d, w, Len(c) + 12, Len(d))
<1> DEFINE p == PartHead \o d
           k == Len(c)
<1>1. Joined(p, PartHead, 12, d, Len(d))
  BY ShapePartHead, Behind
<1>2. b = c \o p
  OBVIOUS
<1> HIDE DEF p
<1>3. p \in Seq(Char) /\ Len(p) = 12 + Len(d) /\ Len(d) \in Nat /\ k \in Nat
  BY <1>1, LenProperties DEF Joined
<1>5. Shows(p, w, k, Len(p))
  BY <1>2, <1>3, PieceBehind
<1> HIDE DEF k
<1>7. ASSUME NEW j \in 1..12 PROVE PartHead[j] = w[k + j]
  <2>1. j \in 1..Len(p)
    BY <1>3
  <2> QED
    BY <1>1, <1>5, <2>1 DEF Joined, Shows
<1>8. ASSUME NEW j \in 1..Len(d) PROVE d[j] = w[(k + 12) + j]
  <2>1. 12 + j \in 1..Len(p) /\ (k + 12) + j = k + (12 + j)
    BY <1>3
  <2> QED
    BY <1>1, <1>5, <2>1 DEF Joined, Shows
<1> QED
  BY <1>7, <1>8 DEF Shows, k

\* w is the bodies, each behind the head of a part, and the tail t and the rest e.
IsSent(n, parts, g, t, e, w) ==
  /\ g[0] = << >> /\ w = (g[n] \o t) \o e
  /\ \A i \in 1..n : g[i] = g[i - 1] \o (PartHead \o parts[i])
  /\ \A i \in 0..n : Starts(g[n], g[i])
  /\ Len(t) >= 9 /\ Shows(t, Final, 0, 9) /\ MemMem(t \o e, Header) = 0
  /\ \A i \in 1..n, pat \in {Header, Final} :
       MemMem(parts[i] \o (IF i = n THEN Final ELSE PartHead), pat) \in {0, Len(parts[i]) + 1}

\* The ends of the parts, in all that is sent.
LEMMA LaidFrom ==
  ASSUME NEW n \in Nat, NEW parts \in [1..n -> Seq(Char)], NEW g \in [0..n -> Seq(Char)],
         NEW t \in Seq(Char), NEW e \in Seq(Char), NEW w \in Seq(Char),
         IsSent(n, parts, g, t, e, w)
  PROVE  \E base : Laid(base, n, w, parts, Len(e))
<1> DEFINE a == g[n]
           u == t \o e
           base == [i \in 0..n |-> Len(g[i])]
<1>1. n \in 0..n /\ 0 \in 0..n /\ a \in Seq(Char) /\ Len(t) \in Nat /\ Len(e) \in Nat
  BY LenProperties
<1>2. base \in [0..n -> Nat]
  BY LenProperties
<1>3. \A i \in 0..n : base[i] = Len(g[i])
  OBVIOUS
<1>4. base[0] = 0
  <2>1. g[0] = << >>
    BY DEF IsSent
  <2> QED
    BY <1>1, <1>3, <2>1
<1>5. base[n] = Len(a) /\ Len(a) \in Nat
  BY <1>1, <1>3, LenProperties
<1>6. Joined(u, t, Len(t), e, Len(e))
  BY Behind
<1>7. w = a \o u
  <2>1. w = (a \o t) \o e
    BY DEF IsSent
  <2> HIDE DEF a
  <2>2. (a \o t) \o e = a \o u
    BY <1>1, Assoc
  <2> QED
    BY <2>1, <2>2
<1>8. \A i \in 0..n : Starts(a, g[i])
  BY DEF IsSent
<1>9. MemMem(u, Header) = 0
  BY DEF IsSent
<1> HIDE DEF a, u, base
<1>10. u \in Seq(Char) /\ Len(u) = Len(t) + Len(e) /\ Len(w) \in Nat /\ Len(u) \in Nat
  BY <1>6, LenProperties DEF Joined
<1>11. Joined(w, a, Len(a), u, Len(u))
  BY <1>1, <1>7, <1>10, Behind
<1>12. Len(w) = Len(a) + Len(u) /\ Shows(u, w, Len(a), Len(u))
  BY <1>11 DEF Joined, Shows
<1>13. ASSUME NEW i \in 0..n PROVE Starts(w, g[i]) /\ base[i] <= base[n] /\ base[i] \in Nat
  <2> DEFINE b == g[i]
  <2>1. Starts(a, b) /\ b \in Seq(Char) /\ Len(b) \in Nat /\ base[i] = Len(b)
    BY <1>3, <1>8, LenProperties
  <2> HIDE DEF b
  <2>2. Starts(w, a)
    <3>1. Len(a) <= Len(w)
      BY <1>5, <1>10, <1>12
    <3> QED
      BY <1>11, <3>1 DEF Joined, Starts
  <2>3. Starts(w, b)
    BY <1>1, <2>1, <2>2, StartsTrans
  <2>4. Len(b) <= Len(a)
    BY <2>1 DEF Starts
  <2> QED
    BY <1>5, <2>1, <2>3, <2>4 DEF b
<1>14. base[n] + Len(e) + 9 <= Len(w) /\ Len(t) >= 9
  <2>1. Len(t) >= 9
    BY DEF IsSent
  <2> QED
    BY <1>1, <1>5, <1>10, <1>12, <2>1
<1>15. Shows(Final, w, base[n], 9)
  <2> SUFFICES ASSUME NEW j \in 1..9 PROVE Final[j] = w[Len(a) + j]
    BY <1>5 DEF Shows
  <2>1. j \in 1..Len(t) /\ j \in 1..Len(u) /\ 0 + j = j
    BY <1>1, <1>10, <1>14
  <2>2. t[j] = Final[0 + j]
    BY DEF IsSent, Shows
  <2>3. u[j] = t[j]
    BY <1>6, <2>1 DEF Joined
  <2>4. u[j] = w[Len(a) + j]
    BY <1>12, <2>1 DEF Shows
  <2> QED
    BY <2>1, <2>2, <2>3, <2>4
<1>16. ASSUME NEW i \in 1..n
       PROVE  /\ base[i] = base[i - 1] + 12 + Len(parts[i])
              /\ Shows(PartHead, w, base[i - 1], 12)
              /\ Shows(parts[i], w, base[i - 1] + 12, Len(parts[i]))
  <2> DEFINE c == g[i - 1]
             b == g[i]
             d == parts[i]
  <2>1. i \in 0..n /\ i - 1 \in 0..n
    OBVIOUS
  <2>2. d \in Seq(Char) /\ c \in Seq(Char) /\ b \in Seq(Char)
    BY <2>1
  <2>3. b = c \o (PartHead \o d)
    BY DEF IsSent
  <2>4. Starts(w, b) /\ base[i - 1] = Len(c) /\ base[i] = Len(b)
    BY <1>3, <1>13, <2>1
  <2> HIDE DEF c, b, d
  <2>5. Len(b) = Len(c) + 12 + Len(d)
    <3>1. Len(c \o (PartHead \o d)) = Len(c) + 12 + Len(d)
      BY <2>2, PartLength
    <3> QED
      BY <2>3, <3>1
  <2>6. Shows(PartHead, w, Len(c), 12) /\ Shows(d, w, Len(c) + 12, Len(d))
    BY <2>2, <2>3, <2>4, PartBehind
  <2> QED
    BY <2>4, <2>5, <2>6 DEF d
<1>17. ASSUME NEW i \in 1..n, NEW pat \in {Header, Final}, NEW s \in (base[i - 1] + 13)..base[i]
       PROVE  ~Occurs(w, pat, s)
  <2> DEFINE d == parts[i]
             next == IF i = n THEN Final ELSE PartHead
             k == base[i - 1] + 12
  <2>1. i \in 0..n /\ i - 1 \in 0..n
    OBVIOUS
  <2>2. d \in Seq(Char) /\ Len(d) \in Nat /\ base[i - 1] \in Nat
    BY <1>13, <2>1, LenProperties
  <2>3. k \in Nat /\ base[i] = k + Len(d) /\ Shows(d, w, k, Len(d))
    BY <1>16, <2>2, SMTT(30)
  <2>4. next \in Seq(Char) /\ Len(next) >= 9
    <3>1. Final \in Seq(Char) /\ Len(Final) >= 9
      BY ShapeFinal
    <3>2. PartHead \in Seq(Char) /\ Len(PartHead) >= 9
      BY ShapePartHead
    <3> QED
      BY <3>1, <3>2
  <2>5. Shows(next, w, base[i], 9) /\ base[i] + 9 <= Len(w)
    <3>1. CASE i = n
      BY <1>1, <1>5, <1>10, <1>14, <1>15, <3>1, SMTT(30)
    <3>2. CASE i # n
      <4>1. i + 1 \in 1..n /\ (i + 1) - 1 = i /\ i + 1 \in 0..n
        BY <3>2
      <4>2. base[i + 1] = base[i] + 12 + Len(parts[i + 1]) /\ Shows(PartHead, w, base[i], 12)
        BY <1>16, <4>1
      <4>3. Len(parts[i + 1]) \in Nat /\ base[i + 1] <= base[n] /\ base[i + 1] \in Nat
            /\ base[i] \in Nat /\ base[n] \in Nat
        BY <1>1, <1>13, <2>1, <4>1, LenProperties
      <4>4. base[i] + 9 <= Len(w)
        <5> DEFINE x == base[i]
                   y == base[i + 1]
                   z == base[n]
                   l == Len(parts[i + 1])
                   v == Len(e)
                   m == Len(w)
        <5>1. /\ y = x + 12 + l /\ l \in Nat /\ y <= z /\ y \in Nat /\ x \in Nat /\ z \in Nat
              /\ z + v + 9 <= m /\ v \in Nat /\ m \in Nat
          BY <1>1, <1>10, <1>14, <4>2, <4>3
        <5> SUFFICES x + 9 <= m
          OBVIOUS
        <5> HIDE DEF x, y, z, l, v, m
        <5> QED
          BY ONLY <5>1
      <4>5. Shows(PartHead, w, base[i], 9)
        BY <4>2, <4>3, ShowsLess
      <4> QED
        BY <3>2, <4>4, <4>5
    <3> QED
      BY <3>1, <3>2
  <2>6. MemMem(d \o next, pat) \in {0, Len(d) + 1}
    BY DEF IsSent
  <2>7. pat \in Seq(Char) /\ Len(pat) > 0 /\ Len(pat) <= 9
    BY ShapeBoundary
  <2>8. s \in (k + 1)..(k + Len(d))
    BY <2>2, <2>3, SMTT(30)
  <2>9. k + Len(d) + 9 <= Len(w) /\ Shows(next, w, k + Len(d), 9)
    BY <2>3, <2>5
  <2> HIDE DEF d, next, k
  <2> QED
    BY <2>2, <2>3, <2>4, <2>6, <2>7, <2>8, <2>9, CleanBody
<1>18. ASSUME NEW s \in (base[n] + 1)..Len(w) PROVE ~Occurs(w, Header, s)
  <2>1. s \in (Len(a) + 1)..Len(w)
    BY <1>5
  <2> QED
    BY <1>5, <1>9, <1>10, <1>12, <2>1, CleanTail
<1>19. Laid(base, n, w, parts, Len(e))
  BY <1>2, <1>4, <1>13, <1>14, <1>15, <1>16, <1>17, <1>18 DEF Laid
<1> QED
  BY <1>19

\* Every element of data is a character.
LEMMA Chars ==
  ASSUME NEW s \in Seq(Char), NEW m \in Nat, m <= Len(s)
  PROVE  \A i \in 1..m : s[i] \in Char
<1>1. \A i \in 1..m : i \in 1..Len(s)
  BY LenProperties
<1> QED
  BY <1>1, ElementOfSeq

\* What the assumption says of one form.
LEMMA FormFacts ==
  ASSUME NEW up \in Uploads
  PROVE  /\ IsForm(up) /\ Len(Sent(up)) < Word
         /\ Len(up.tail) >= 9 /\ Shows(up.tail, Final, 0, 9)
<1>1. /\ up \in [parts : Seq(Seq(Char)), tail : Seq(Char), extra : Seq(Char)]
      /\ Len(Sent(up)) < Word /\ IsPrefix(Final, up.tail)
  BY FormAssumption
<1>2. IsForm(up)
  BY <1>1 DEF IsForm
<1> DEFINE t == up.tail
<1>3. t \in Seq(Char) /\ Len(t) \in Nat
  BY <1>2, LenProperties DEF IsForm
<1>4. Len(Final) <= Len(t) /\ SubSeq(Final, 1, Len(Final)) = SubSeq(t, 1, Len(Final))
  BY <1>1 DEF IsPrefix
<1> HIDE DEF t
<1>5. 9 <= Len(t) /\ SubSeq(Final, 1, 9) = SubSeq(t, 1, 9)
  BY <1>4, ShapeFinal
<1>6. /\ \A i \in 1..(9 - 1 + 1) : SubSeq(Final, 1, 9)[i] = Final[1 + i - 1]
      /\ \A i \in 1..(9 - 1 + 1) : SubSeq(t, 1, 9)[i] = t[1 + i - 1]
  <2>1. \A i \in 1..9 : Final[i] \in Char
    BY ShapeFinal, Chars, SMTT(30)
  <2>2. \A i \in 1..9 : t[i] \in Char
    BY <1>3, <1>5
  <2> QED
    BY <1>3, <2>1, <2>2, ShapeFinal, SubSeqProperties
<1>7. ASSUME NEW j \in 1..9 PROVE t[j] = Final[0 + j]
  <2>1. j \in 1..(9 - 1 + 1) /\ 1 + j - 1 = j /\ 0 + j = j
    OBVIOUS
  <2> QED
    BY <1>5, <1>6, <2>1
<1>8. Shows(t, Final, 0, 9)
  BY <1>7 DEF Shows
<1> QED
  BY <1>1, <1>2, <1>5, <1>8 DEF t

\* Every form that is sent has such ends.
LEMMA LaidOut ==
  ASSUME NEW up \in Uploads
  PROVE  /\ Len(up.parts) \in Nat /\ up.parts \in [1..Len(up.parts) -> Seq(Char)]
         /\ Content(up) \in Seq(Char) /\ up.extra \in Seq(Char) /\ Whole(up) \in Seq(Char)
         /\ \E base : Laid(base, Len(up.parts), Whole(up), up.parts, Len(up.extra))
<1> DEFINE n == Len(up.parts)
           parts == up.parts
           t == up.tail
           e == up.extra
           c == Content(up)
           w == Whole(up)
<1>1. /\ n \in Nat /\ parts \in [1..n -> Seq(Char)] /\ t \in Seq(Char) /\ e \in Seq(Char)
  BY FormFacts DEF IsForm
<1>2. IsForm(up) /\ Len(t) >= 9 /\ Shows(t, Final, 0, 9)
  BY FormFacts
<1>3. PICK g : IsGrowth(g, up)
  BY <1>2, GrowthExists
<1>4. \A i \in 0..n : Starts(g[n], g[i])
  BY <1>2, <1>3, Grows
<1>5. /\ g \in [0..n -> Seq(Char)] /\ g[0] = << >>
      /\ \A i \in 1..n : g[i] = g[i - 1] \o (PartHead \o parts[i])
      /\ c = g[n] \o t
  BY <1>3 DEF IsGrowth, Part
<1>6. MemMem(t \o e, Header) = 0
  BY FormAssumption
<1>7. \A i \in 1..n, pat \in {Header, Final} :
        MemMem(parts[i] \o (IF i = n THEN Final ELSE PartHead), pat) \in {0, Len(parts[i]) + 1}
  <2>1. DOMAIN up.parts = 1..n
    BY <1>1
  <2> QED
    BY <2>1, FormAssumption
<1>8. w = c \o e
  BY DEF Whole
<1> HIDE DEF n, parts, t, e, c, w
<1>9. c \in Seq(Char) /\ w \in Seq(Char)
  <2>1. g[n] \in Seq(Char)
    BY <1>1, <1>5
  <2>2. c \in Seq(Char)
    BY <1>1, <1>5, <2>1, ConcatProperties
  <2> QED
    BY <1>1, <1>8, <2>2, ConcatProperties
<1>10. IsSent(n, parts, g, t, e, w)
  <2>1. w = (g[n] \o t) \o e
    BY <1>5, <1>8
  <2> QED
    BY <1>2, <1>4, <1>5, <1>6, <1>7, <2>1 DEF IsSent
<1>11. \E base : Laid(base, n, w, parts, Len(e))
  BY <1>1, <1>5, <1>9, <1>10, LaidFrom
<1> QED
  BY <1>1, <1>9, <1>11 DEF n, parts, t, e, c, w

\* What is received: Sent and extra are all of it but the first CR LF.
LEMMA BeginsWithCRLF ==
  ASSUME NEW n \in Nat, NEW w, NEW base, NEW parts, NEW x, Laid(base, n, w, parts, x)
  PROVE  w[1] = "r" /\ w[2] = "n"
<1>1. base[0] = 0
  BY DEF Laid
<1>2. CASE n = 0
  <2>1. Shows(Final, w, 0, 9)
    BY <1>1, <1>2 DEF Laid
  <2>2. Final[1] = w[1] /\ Final[2] = w[2]
    BY <2>1, 0 + 1 = 1, 0 + 2 = 2 DEF Shows
  <2>3. Final[1] = "r" /\ Final[2] = "n"
    BY ShapeFinal
  <2> QED
    BY <2>2, <2>3
<1>3. CASE n # 0
  <2>1. 1 \in 1..n /\ 1 - 1 = 0
    BY <1>3
  <2>2. Shows(PartHead, w, 0, 12)
    BY <1>1, <2>1 DEF Laid
  <2>3. PartHead[1] = w[1] /\ PartHead[2] = w[2]
    BY <2>2, 0 + 1 = 1, 0 + 2 = 2 DEF Shows
  <2>4. PartHead[1] = Header[1] /\ PartHead[2] = Header[2]
    BY ShapePartHead
  <2>5. Header[1] = "r" /\ Header[2] = "n"
    BY ShapeHeader
  <2> QED
    BY <2>3, <2>4, <2>5
<1> QED
  BY <1>2, <1>3

\* Without the first two characters.
LEMMA TwoLess ==
  ASSUME NEW c \in Seq(Char), Len(c) >= 2
  PROVE  /\ Tail(Tail(c)) \in Seq(Char) /\ Len(Tail(Tail(c))) = Len(c) - 2
         /\ Shows(Tail(Tail(c)), c, 2, Len(c) - 2)
<1>1. Len(c) \in Nat
  BY LenProperties
<1> DEFINE a == Tail(c)
           b == Tail(a)
<1>2. a \in Seq(Char) /\ Len(a) = Len(c) - 1 /\ \A i \in 1..Len(a) : a[i] = c[i + 1]
  BY <1>1
<1> HIDE DEF a
<1>3. b \in Seq(Char) /\ Len(b) = Len(a) - 1 /\ \A i \in 1..Len(b) : b[i] = a[i + 1]
  BY <1>1, <1>2
<1> SUFFICES b \in Seq(Char) /\ Len(b) = Len(c) - 2 /\ Shows(b, c, 2, Len(c) - 2)
  BY DEF a
<1> HIDE DEF b
<1>4. Len(b) = Len(c) - 2
  BY <1>1, <1>2, <1>3
<1>5. ASSUME NEW j \in 1..(Len(c) - 2) PROVE b[j] = c[2 + j]
  <2>1. j \in 1..Len(b) /\ j + 1 \in 1..Len(a) /\ (j + 1) + 1 = 2 + j
    BY <1>1, <1>2, <1>4
  <2> QED
    BY <1>2, <1>3, <2>1
<1> QED
  BY <1>3, <1>4, <1>5 DEF Shows

\* What is received is all but the CR LF that ended the HTTP header.
LEMMA Received ==
  ASSUME NEW up \in Uploads
  PROVE  /\ Sent(up) \in Seq(Char) /\ Len(Sent(up)) \in Nat /\ Sent(up) \o up.extra \in Seq(Char)
         /\ Len(Sent(up) \o up.extra) = Len(Sent(up)) + Len(up.extra)
         /\ Len(Whole(up)) = Len(Sent(up)) + Len(up.extra) + 2
         /\ Shows(Sent(up) \o up.extra, Whole(up), 2, Len(Sent(up)) + Len(up.extra))
         /\ Whole(up)[1] = "r" /\ Whole(up)[2] = "n"
<1> DEFINE c == Content(up)
           s == Sent(up)
           e == up.extra
           w == Whole(up)
           all == s \o e
           n == Len(up.parts)
<1>1. c \in Seq(Char) /\ e \in Seq(Char) /\ w \in Seq(Char) /\ n \in Nat
  BY LaidOut
<1>2. PICK base : Laid(base, n, w, up.parts, Len(e))
  BY LaidOut
<1>3. w[1] = "r" /\ w[2] = "n"
  BY <1>1, <1>2, BeginsWithCRLF
<1>4. w = c \o e /\ s = Tail(Tail(c))
  BY DEF Whole, Sent
<1>5. base[n] + Len(e) + 9 <= Len(w) /\ base[n] \in Nat
  <2>1. n \in 0..n
    BY <1>1
  <2>2. base \in [0..n -> Nat] /\ base[n] + Len(e) + 9 <= Len(w)
    BY <1>2 DEF Laid
  <2> QED
    BY <2>1, <2>2
<1> HIDE DEF c, s, e, w, n
<1>6. Len(c) \in Nat /\ Len(e) \in Nat /\ Len(w) \in Nat /\ base[n] \in Nat
  BY <1>1, <1>5, LenProperties
<1>7. Joined(w, c, Len(c), e, Len(e))
  BY <1>1, <1>4, Behind
<1>8. Len(w) = Len(c) + Len(e)
  BY <1>7 DEF Joined
<1>9. Len(c) >= 2
  BY <1>5, <1>6, <1>8
<1>10. s \in Seq(Char) /\ Len(s) = Len(c) - 2 /\ Shows(s, c, 2, Len(c) - 2)
  BY <1>1, <1>4, <1>9, TwoLess
<1>11. Joined(all, s, Len(s), e, Len(e))
  BY <1>1, <1>10, Behind
<1> HIDE DEF all
<1>12. all \in Seq(Char) /\ Len(all) = Len(s) + Len(e) /\ Len(s) \in Nat
  BY <1>10, <1>11, LenProperties DEF Joined
<1>13. Len(w) = Len(s) + Len(e) + 2
  BY <1>6, <1>8, <1>10
<1>14. Shows(all, w, 2, Len(s) + Len(e))
  <2> SUFFICES ASSUME NEW j \in 1..(Len(s) + Len(e)) PROVE all[j] = w[2 + j]
    BY DEF Shows
  <2>1. CASE j <= Len(s)
    <3>1. j \in 1..Len(s) /\ 2 + j \in 1..Len(c) /\ j \in 1..(Len(c) - 2)
      BY <1>6, <1>10, <1>12, <2>1
    <3> QED
      BY <1>7, <1>10, <1>11, <3>1 DEF Joined, Shows
  <2>2. CASE ~(j <= Len(s))
    <3>1. PICK v \in 1..Len(e) : j = Len(s) + v
      <4>1. j - Len(s) \in 1..Len(e) /\ j = Len(s) + (j - Len(s))
        BY <1>6, <1>12, <2>2
      <4> QED
        BY <4>1
    <3>2. 2 + j = Len(c) + v
      BY <1>6, <1>10, <1>12, <3>1
    <3>3. all[Len(s) + v] = e[v] /\ w[Len(c) + v] = e[v]
      BY <1>7, <1>11 DEF Joined
    <3> QED
      BY <3>1, <3>2, <3>3
  <2> QED
    BY <2>1, <2>2
<1> QED
  BY <1>3, <1>10, <1>12, <1>13, <1>14 DEF s, e, w, all


-----------------------------------------------------------------------------
(* What the search sees in a window of it.                                 *)

\* u begins with the head of a part, as far as it goes.
HeadIn(u) == \A j \in 1..12 : j <= Len(u) => u[j] = PartHead[j]

\* The characters of the head of a part.
LEMMA HeadChars ==
  /\ PartHead[1] = "r" /\ PartHead[2] = "n" /\ PartHead[3] = "-" /\ PartHead[4] = "-"
  /\ PartHead[5] = "B" /\ PartHead[6] = "r" /\ PartHead[7] = "n" /\ PartHead[8] = "h"
  /\ PartHead[9] = "r" /\ PartHead[10] = "n" /\ PartHead[11] = "r" /\ PartHead[12] = "n"
BY ShapePartHead, ShapeHeader

\* What the search for the boundary is given: the data up to the NUL put behind it.
LEMMA CutShape ==
  ASSUME NEW u \in Seq(Char), NEW s \in Nat, s >= 1, s + 1 <= Len(u),
         NEW cut, cut = [u EXCEPT ![s + 1] = "0"]
  PROVE  /\ cut \in Seq(Char) /\ Len(cut) = Len(u)
         /\ \A j \in 1..Len(u) : cut[j] = IF j = s + 1 THEN "0" ELSE u[j]
         /\ SubSeq(cut, 1, s + 1) \in Seq(Char) /\ Len(SubSeq(cut, 1, s + 1)) = s + 1
         /\ \A j \in 1..(s + 1) : SubSeq(cut, 1, s + 1)[j] = cut[j]
<1>1. Len(u) \in Nat
  BY LenProperties
<1>2. /\ cut \in Seq(Char) /\ Len(cut) = Len(u)
      /\ \A j \in 1..Len(u) : cut[j] = IF j = s + 1 THEN "0" ELSE u[j]
  <2>1. "0" \in Char /\ s + 1 \in 1..Len(u)
    BY <1>1 DEF Char
  <2> HIDE DEF Char
  <2> QED
    BY <2>1, ExceptSeq
<1>3. \A j \in 1..(s + 1) : cut[j] \in Char
  BY <1>2, Chars
<1> DEFINE v == SubSeq(cut, 1, s + 1)
<1>4. /\ v \in Seq(Char) /\ Len(v) = IF 1 <= s + 1 THEN (s + 1) - 1 + 1 ELSE 0
      /\ \A i \in 1..((s + 1) - 1 + 1) : v[i] = cut[1 + i - 1]
  BY <1>3, SubSeqProperties
<1> HIDE DEF v
<1>5. Len(v) = s + 1
  BY <1>4
<1>6. ASSUME NEW j \in 1..(s + 1) PROVE v[j] = cut[j]
  <2>1. j \in 1..((s + 1) - 1 + 1) /\ 1 + j - 1 = j
    OBVIOUS
  <2> QED
    BY <1>4, <2>1
<1> QED
  BY <1>2, <1>4, <1>5, <1>6 DEF v

\* The blank line behind the head of a part is its first.
LEMMA BlankOfHead ==
  ASSUME NEW u \in Seq(Char), HeadIn(u)
  PROVE  /\ StrStr(u, Blank) \in {0, 9}
         /\ StrStr(u, Blank) = 9 <=> Len(u) >= 12
<1> DEFINE s == StrStr(u, Blank)
<1>1. Len(u) \in Nat
  BY LenProperties
<1>2. /\ s \in Nat /\ (s # 0 => Occurs(u, Blank, s))
      /\ \A q \in 1..Len(u) :
           Occurs(u, Blank, q) /\ (\A i \in 1..(q + 3) : u[i] # "0") => s # 0 /\ s <= q
  BY StrStrFirst
<1> HIDE DEF s
<1>3. ASSUME s # 0 PROVE s >= 9 /\ s + 3 <= Len(u)
  <2>1. s >= 1 /\ s + 3 <= Len(u)
    BY <1>1, <1>2, <1>3, ShapeBlank DEF Occurs
  <2>2. u[s] = "r" /\ u[s + 2] = "r"
    <3>1. 1 \in 1..Len(Blank) /\ 3 \in 1..Len(Blank) /\ Blank[1] = "r" /\ Blank[3] = "r"
      BY ShapeBlank
    <3>2. u[s + 1 - 1] = Blank[1] /\ u[s + 3 - 1] = Blank[3]
      BY <1>2, <1>3, <3>1 DEF Occurs
    <3>3. s + 1 - 1 = s /\ s + 3 - 1 = s + 2
      BY <1>2
    <3> QED
      BY <3>1, <3>2, <3>3
  <2>3. ASSUME s <= 8 PROVE FALSE
    <3>1. s \in 1..12 /\ s + 2 \in 1..12 /\ s <= Len(u) /\ s + 2 <= Len(u)
      BY <1>1, <1>2, <2>1, <2>3
    <3>2. PartHead[s] = "r" /\ PartHead[s + 2] = "r"
      BY <2>2, <3>1 DEF HeadIn
    <3>3. s \in {1, 2, 3, 4, 5, 6, 7, 8}
      BY <1>2, <2>1, <2>3
    <3> QED
      BY <3>2, <3>3, HeadChars
  <2> QED
    BY <1>2, <2>1, <2>3
<1>4. ASSUME Len(u) >= 12 PROVE s # 0 /\ s <= 9
  <2>1. \A j \in 1..12 : u[j] = PartHead[j]
    BY <1>1, <1>4, SMTT(30) DEF HeadIn
  <2>2. u[9] = "r" /\ u[10] = "n" /\ u[11] = "r" /\ u[12] = "n"
    BY <2>1, HeadChars
  <2>3. Occurs(u, Blank, 9)
    <3>1. 9 \in 1..Len(u) /\ 9 + Len(Blank) - 1 <= Len(u)
      BY <1>1, <1>4, ShapeBlank
    <3>2. \A j \in 1..Len(Blank) : u[9 + j - 1] = Blank[j]
      BY <2>2, ShapeBlank
    <3> QED
      BY <3>1, <3>2 DEF Occurs
  <2>4. \A i \in 1..(9 + 3) : u[i] # "0"
    BY <2>1, HeadChars, SMTT(30)
  <2> QED
    BY <1>1, <1>2, <1>4, <2>3, <2>4
<1>5. s \in {0, 9} /\ (s = 9 <=> Len(u) >= 12)
  BY <1>1, <1>2, <1>3, <1>4
<1> QED
  BY <1>5 DEF s

\* MPHEAD: the head of a part is recognised as soon as its blank line is there ...
LEMMA HeadSeen ==
  ASSUME NEW u \in Seq(Char), HeadIn(u), Len(u) >= 12, NEW cut, cut = [u EXCEPT ![10] = "0"]
  PROVE  BdryChk[SubSeq(cut, 1, 10)].kind = "header" /\ BdryChk[SubSeq(cut, 1, 10)].ret = "found"
<1> DEFINE v == SubSeq(cut, 1, 10)
           b == BdryChk[v]
<1>1. Len(u) \in Nat
  BY LenProperties
<1>2. /\ \A j \in 1..Len(u) : cut[j] = IF j = 10 THEN "0" ELSE u[j]
      /\ v \in Seq(Char) /\ Len(v) = 10
      /\ \A j \in 1..10 : v[j] = cut[j]
  <2>1. 9 \in Nat /\ 9 >= 1 /\ 9 + 1 <= Len(u) /\ 9 + 1 = 10
    BY <1>1
  <2> QED
    BY <2>1, CutShape
<1> HIDE DEF v
<1>3. \A j \in 1..7 : v[j] = Header[j]
  <2>1. \A j \in 1..7 : v[j] = u[j]
    BY <1>1, <1>2
  <2>2. \A j \in 1..7 : u[j] = PartHead[j]
    BY <1>1 DEF HeadIn
  <2>3. \A j \in 1..7 : PartHead[j] = Header[j]
    BY ShapePartHead
  <2> QED
    BY <2>1, <2>2, <2>3
<1>4. Occurs(v, Header, 1)
  <2>1. Len(Header) = 7
    BY ShapeHeader
  <2>2. \A j \in 1..7 : 1 + j - 1 = j
    OBVIOUS
  <2>3. \A j \in 1..7 : v[1 + j - 1] = Header[j]
    BY <1>3, <2>2
  <2> QED
    BY <1>2, <2>1, <2>3 DEF Occurs
<1>5. Bounded(b, v)
  BY <1>2, BdryChkBounds
<1> HIDE DEF b
<1>6. b.ret = "found" /\ b.kind = "header"
  <2>1. 1 \in 1..Len(v)
    BY <1>2
  <2> QED
    BY <1>4, <1>5, <2>1 DEF Bounded
<1> QED
  BY <1>6 DEF b, v

\* ... and not taken for the end of the form before.
LEMMA HeadNoEnd ==
  ASSUME NEW u \in Seq(Char), HeadIn(u), Len(u) < 12
  PROVE  ~(BdryChk[u].kind = "end" /\ BdryChk[u].ret = "found")
<1> DEFINE b == BdryChk[u]
           p == b.pos
<1>1. Len(u) \in Nat
  BY LenProperties
<1>2. Bounded(b, u)
  BY BdryChkBounds
<1> HIDE DEF b
<1> SUFFICES ASSUME b.kind = "end", b.ret = "found" PROVE FALSE
  BY DEF b
<1>3. Occurs(u, Final, p)
  BY <1>2 DEF Bounded
<1> HIDE DEF p
<1>4. Len(Final) = 9 /\ Final[1] = "r" /\ Final[6] = "-"
  BY ShapeFinal
<1>5. p \in 1..3 /\ p + 5 <= Len(u) /\ p \in Nat
  BY <1>1, <1>3, <1>4 DEF Occurs
<1>6. u[p + 1 - 1] = "r" /\ u[p + 6 - 1] = "-"
  BY <1>3, <1>4 DEF Occurs
<1>7. p + 1 - 1 = p /\ p + 6 - 1 = p + 5
  BY <1>5
<1>8. PartHead[p] = "r" /\ PartHead[p + 5] = "-"
  <2>1. p \in 1..12 /\ p + 5 \in 1..12 /\ p <= Len(u)
    BY <1>1, <1>5
  <2> QED
    BY <1>5, <1>6, <1>7, <2>1 DEF HeadIn
<1>9. p \in {1, 2, 3}
  BY <1>5
<1> QED
  BY <1>8, <1>9, HeadChars

\* u shows w behind its p-th character; or does but for NULs.
Window(u, w, p) == p + Len(u) <= Len(w) /\ Shows(u, w, p, Len(u))
NulWindow(u, w, p) ==
  p + Len(u) <= Len(w) /\ \A j \in 1..Len(u) : u[j] = "0" \/ u[j] = w[p + j]

\* A window at the head of a part begins with it.
LEMMA HeadInWindow ==
  ASSUME NEW u \in Seq(Char), NEW w \in Seq(Char), NEW p \in Nat, Window(u, w, p),
         Shows(PartHead, w, p, 12)
  PROVE  HeadIn(u)
<1>1. Len(u) \in Nat
  BY LenProperties
<1> SUFFICES ASSUME NEW j \in 1..12, j <= Len(u) PROVE u[j] = PartHead[j]
  BY DEF HeadIn
<1>2. j \in 1..Len(u)
  BY <1>1
<1> QED
  BY <1>2 DEF Window, Shows

\* Behind the bodies no header of a part is found.
LEMMA TailNoHeader ==
  ASSUME NEW n \in Nat, NEW w \in Seq(Char), NEW base, NEW parts, NEW x,
         Laid(base, n, w, parts, x),
         NEW u \in Seq(Char), NulWindow(u, w, base[n])
  PROVE  ~(BdryChk[u].kind = "header" /\ BdryChk[u].ret = "found")
<1> DEFINE b == BdryChk[u]
           p == b.pos
           k == base[n]
<1>1. Len(u) \in Nat /\ Len(w) \in Nat
  BY LenProperties
<1>2. Bounded(b, u)
  BY BdryChkBounds
<1>3. k \in Nat /\ \A s \in (k + 1)..Len(w) : ~Occurs(w, Header, s)
  <2>1. n \in 0..n
    OBVIOUS
  <2> QED
    BY <2>1 DEF Laid
<1>4. k + Len(u) <= Len(w) /\ \A j \in 1..Len(u) : u[j] = "0" \/ u[j] = w[k + j]
  BY DEF NulWindow
<1> HIDE DEF b, k
<1> SUFFICES ASSUME b.kind = "header", b.ret = "found" PROVE FALSE
  BY DEF b
<1>5. Occurs(u, Header, p)
  BY <1>2 DEF Bounded
<1> HIDE DEF p
<1>6. Len(Header) = 7 /\ \A j \in 1..7 : Header[j] # "0"
  BY ShapeHeader
<1>7. p \in Nat /\ p >= 1 /\ p + 6 <= Len(u)
  BY <1>1, <1>5, <1>6 DEF Occurs
<1>8. ASSUME NEW j \in 1..7 PROVE w[(k + p) + j - 1] = Header[j]
  <2>1. u[p + j - 1] = Header[j]
    BY <1>5, <1>6 DEF Occurs
  <2>2. p + j - 1 \in 1..Len(u) /\ k + (p + j - 1) = (k + p) + j - 1
    BY <1>1, <1>3, <1>7
  <2> QED
    BY <1>4, <1>6, <2>1, <2>2
<1>9. k + p \in (k + 1)..Len(w) /\ k + p \in 1..Len(w) /\ (k + p) + 7 - 1 <= Len(w)
  BY <1>1, <1>3, <1>4, <1>7
<1>10. Occurs(w, Header, k + p)
  BY <1>6, <1>8, <1>9 DEF Occurs
<1> QED
  BY <1>3, <1>9, <1>10

\* How much of what is in the buffer is handed on as body.
Handed(b, u) == IF b.pos = 0 THEN Len(u) ELSE b.pos - 1

\* Where the boundary behind a body is, of whichever kind.
LEMMA BehindBody ==
  ASSUME NEW n \in Nat, NEW w \in Seq(Char), NEW base, NEW parts, NEW x,
         Laid(base, n, w, parts, x), NEW i \in 1..n
  PROVE  /\ base[i] \in Nat /\ base[i - 1] \in Nat /\ base[n] \in Nat /\ base[i] <= base[n]
         /\ \/ i # n /\ Shows(Header, w, base[i], 7)
            \/ i = n /\ Shows(Final, w, base[i], 9)
<1>1. i \in 0..n /\ i - 1 \in 0..n /\ n \in 0..n
  OBVIOUS
<1>2. base[i] \in Nat /\ base[i - 1] \in Nat /\ base[n] \in Nat /\ base[i] <= base[n]
  BY <1>1 DEF Laid
<1>3. CASE i = n
  BY <1>2, <1>3 DEF Laid
<1>4. CASE i # n
  <2>1. i + 1 \in 1..n /\ (i + 1) - 1 = i
    BY <1>4
  <2>2. Shows(PartHead, w, base[i], 12)
    BY <2>1 DEF Laid
  <2>3. ASSUME NEW j \in 1..7 PROVE Header[j] = w[base[i] + j]
    <3>1. j \in 1..12 /\ PartHead[j] = Header[j]
      BY ShapePartHead
    <3> QED
      BY <2>2, <3>1 DEF Shows
  <2>4. Shows(Header, w, base[i], 7)
    BY <2>3 DEF Shows
  <2> QED
    BY <1>2, <1>4, <2>4
<1> QED
  BY <1>3, <1>4

\* MPBODY: never more than the body is handed on, and exactly its rest when a boundary
\* is found.
LEMMA BodyHanded ==
  ASSUME NEW n \in Nat, NEW w \in Seq(Char), NEW base, NEW parts, NEW x,
         Laid(base, n, w, parts, x), NEW i \in 1..n,
         NEW u \in Seq(Char), NEW p \in Nat, base[i - 1] + 12 <= p, p <= base[i],
         Window(u, w, p), NEW b, b = BdryChk[u]
  PROVE  /\ Handed(b, u) \in 0..Len(u) /\ p + Handed(b, u) <= base[i]
         /\ b.ret = "found" => p + Handed(b, u) = base[i]
         /\ b.ret \in {"found", "part", "none"}
<1> DEFINE e == base[i]
           k == base[i - 1]
           q == (e - p) + 1
           l == Handed(b, u)
           s == b.pos
<1>1. Len(u) \in Nat /\ Len(w) \in Nat
  BY LenProperties
<1>2. Bounded(b, u)
  BY BdryChkBounds
<1>3. e \in Nat /\ k \in Nat /\ base[n] \in Nat /\ e <= base[n]
      /\ \/ i # n /\ Shows(Header, w, e, 7)
         \/ i = n /\ Shows(Final, w, e, 9)
  BY BehindBody
<1>4. /\ \A pat \in {Header, Final} : \A r \in (k + 13)..e : ~Occurs(w, pat, r)
      /\ \A r \in (base[n] + 1)..Len(w) : ~Occurs(w, Header, r)
  BY DEF Laid
<1>5. k + 12 <= p /\ p <= e
  OBVIOUS
<1>6. p + Len(u) <= Len(w) /\ Shows(u, w, p, Len(u))
  BY DEF Window
<1> HIDE DEF e, k
<1>7. q \in Nat /\ q >= 1 /\ p + q = e + 1
  BY <1>3, <1>5
<1> HIDE DEF q
<1>8. /\ b.ret \in {"found", "part", "none"} /\ s \in 0..Len(u)
      /\ b.ret = "none" <=> s = 0
      /\ b.ret = "found" => \/ b.kind = "header" /\ Occurs(u, Header, s)
                            \/ b.kind = "end" /\ Occurs(u, Final, s)
  BY <1>2 DEF Bounded
<1>9. \A r \in 1..Len(u) :
        /\ Begins(u, Header, r, Len(u)) \/ Begins(u, Final, r, Len(u)) =>
             s # 0 /\ (b.ret # "found" => s <= r)
        /\ Occurs(u, Header, r) => b.ret = "found" /\ b.kind = "header" /\ s <= r
        /\ Occurs(u, Final, r) => b.ret = "found" /\ (b.kind = "end" => s <= r)
  BY <1>2 DEF Bounded
<1> HIDE DEF s
<1>10. ASSUME NEW pat \in {Header, Final}, NEW r \in 1..Len(u), Occurs(u, pat, r)
       PROVE  Occurs(w, pat, p + r)
  <2>1. pat \in Seq(Char) /\ Len(pat) > 0
    BY ShapeBoundary
  <2>2. r + Len(pat) - 1 <= Len(u)
    BY <1>10 DEF Occurs
  <2> QED
    BY <1>1, <1>6, <1>10, <2>1, <2>2, OccursSame
<1>11. ASSUME NEW pat \in {Header, Final}, NEW r \in 1..Len(u), Occurs(u, pat, r)
       PROVE  q <= r
  <2>1. Occurs(w, pat, p + r)
    BY <1>10, <1>11
  <2>2. ~(p + r \in (k + 13)..e)
    BY <1>4, <2>1
  <2> QED
    BY <1>1, <1>3, <1>5, <1>7, <2>2
\* The boundary behind the body begins at q, as far as the buffer goes.
<1>12. ASSUME q <= Len(u), i # n
       PROVE  /\ Begins(u, Header, q, Len(u))
              /\ q + 6 <= Len(u) => Occurs(u, Header, q)
  <2>1. Len(Header) = 7
    BY ShapeHeader
  <2>2. ASSUME NEW j \in 1..7, q + j - 1 <= Len(u) PROVE u[q + j - 1] = Header[j]
    <3>1. q + j - 1 \in 1..Len(u) /\ p + (q + j - 1) = e + j
      BY <1>1, <1>3, <1>7, <2>2
    <3>2. Header[j] = w[e + j]
      BY <1>3, <1>12 DEF Shows
    <3> QED
      BY <1>6, <3>1, <3>2 DEF Shows
  <2>3. Begins(u, Header, q, Len(u))
    BY <2>1, <2>2 DEF Begins
  <2>4. ASSUME q + 6 <= Len(u) PROVE Occurs(u, Header, q)
    <3>1. q \in 1..Len(u) /\ q + 7 - 1 <= Len(u) /\ \A j \in 1..7 : q + j - 1 <= Len(u)
      BY <1>1, <1>7, <2>4
    <3> QED
      BY <2>1, <2>2, <3>1 DEF Occurs
  <2> QED
    BY <2>3, <2>4
<1>13. ASSUME q <= Len(u), i = n
       PROVE  /\ Begins(u, Final, q, Len(u))
              /\ q + 8 <= Len(u) => Occurs(u, Final, q)
  <2>1. Len(Final) = 9
    BY ShapeFinal
  <2>2. ASSUME NEW j \in 1..9, q + j - 1 <= Len(u) PROVE u[q + j - 1] = Final[j]
    <3>1. q + j - 1 \in 1..Len(u) /\ p + (q + j - 1) = e + j
      BY <1>1, <1>3, <1>7, <2>2
    <3>2. Final[j] = w[e + j]
      BY <1>3, <1>13 DEF Shows
    <3> QED
      BY <1>6, <3>1, <3>2 DEF Shows
  <2>3. Begins(u, Final, q, Len(u))
    BY <2>1, <2>2 DEF Begins
  <2>4. ASSUME q + 8 <= Len(u) PROVE Occurs(u, Final, q)
    <3>1. q \in 1..Len(u) /\ q + 9 - 1 <= Len(u) /\ \A j \in 1..9 : q + j - 1 <= Len(u)
      BY <1>1, <1>7, <2>4
    <3> QED
      BY <2>1, <2>2, <3>1 DEF Occurs
  <2> QED
    BY <2>3, <2>4
<1>14. ASSUME b.ret = "found" PROVE s = q
  <2>1. s \in 1..Len(u) /\ s \in Nat
    BY <1>1, <1>8, <1>14
  <2>2. q <= s
    BY <1>8, <1>11, <1>14, <2>1
  <2>3. q \in 1..Len(u) /\ q <= Len(u)
    BY <1>1, <1>7, <2>1, <2>2
  <2>4. CASE i # n
    <3>1. s + 6 <= Len(u)
      <4>1. Occurs(u, Header, s) => s + 6 <= Len(u)
        BY <1>1, <2>1, ShapeHeader DEF Occurs
      <4>2. Occurs(u, Final, s) => s + 6 <= Len(u)
        BY <1>1, <2>1, ShapeFinal DEF Occurs
      <4> QED
        BY <1>8, <1>14, <4>1, <4>2
    <3>2. q + 6 <= Len(u)
      BY <1>1, <1>7, <2>1, <2>2, <3>1
    <3>3. s <= q
      BY <1>9, <1>12, <2>3, <2>4, <3>2
    <3> QED
      BY <1>7, <2>1, <2>2, <3>3
  <2>5. CASE i = n
    <3>1. ASSUME b.kind = "header", Occurs(u, Header, s) PROVE FALSE
      <4>1. Occurs(w, Header, p + s)
        BY <1>10, <2>1, <3>1
      <4>2. p + s <= Len(w) /\ e = base[n]
        BY <1>1, <1>6, <2>1, <2>5 DEF e
      <4>3. p + s \in (base[n] + 1)..Len(w)
        BY <1>1, <1>3, <1>7, <2>1, <2>2, <4>2
      <4> QED
        BY <1>4, <4>1, <4>3
    <3>2. b.kind = "end" /\ Occurs(u, Final, s)
      BY <1>8, <1>14, <3>1
    <3>3. s + 8 <= Len(u)
      BY <1>1, <2>1, <3>2, ShapeFinal DEF Occurs
    <3>4. q + 8 <= Len(u)
      BY <1>1, <1>7, <2>1, <2>2, <3>3
    <3>5. s <= q
      BY <1>9, <1>13, <2>3, <2>5, <3>2, <3>4
    <3> QED
      BY <1>7, <2>1, <2>2, <3>5
  <2> QED
    BY <2>4, <2>5
<1>15. ASSUME b.ret # "found", q <= Len(u) PROVE s # 0 /\ s <= q
  <2>1. Begins(u, Header, q, Len(u)) \/ Begins(u, Final, q, Len(u))
    BY <1>12, <1>13, <1>15
  <2>2. q \in 1..Len(u)
    BY <1>1, <1>7, <1>15
  <2> QED
    BY <1>9, <1>15, <2>1, <2>2
<1>16. l = IF s = 0 THEN Len(u) ELSE s - 1
  BY DEF Handed, s
<1> HIDE DEF l
<1>17. l \in 0..Len(u) /\ p + l <= e
  <2>1. s = 0 => Len(u) < q
    BY <1>1, <1>7, <1>8, <1>15
  <2>2. s # 0 => s <= q
    BY <1>1, <1>7, <1>8, <1>14, <1>15
  <2> QED
    BY <1>1, <1>3, <1>7, <1>8, <1>16, <2>1, <2>2
<1>18. b.ret = "found" => p + l = e
  BY <1>1, <1>3, <1>7, <1>8, <1>14, <1>16
<1> QED
  BY <1>8, <1>17, <1>18 DEF e, l


-----------------------------------------------------------------------------
(* The inductive invariant.                                                *)

EndsOf(up) == CHOOSE base : Laid(base, Len(up.parts), Whole(up), up.parts, Len(up.extra))

\* How much of what is sent is used up.
Place == Len(Whole(upload)) - Len(net) - (Len(rbuf) - rdlen)

Shape ==
  /\ upload \in Uploads /\ rbuf \in Seq(Char) /\ net \in Seq(Char)
  /\ told \in Seq([dat : Seq(Char), full : BOOLEAN])
  /\ pc = "parse" => rdlen = 0
  /\ pc # "end" => ercd = "E_OK"

NetShows ==
  /\ Len(net) <= Len(Whole(upload))
  /\ Shows(net, Whole(upload), Len(Whole(upload)) - Len(net), Len(net))

\* Before Setup: behind a header and its room of off characters lies the first content.
Loaded(off) ==
  \E head \in Heads, k \in Nat :
    /\ Len(rbuf) = off + Len(head) + k /\ Len(net) + k + 2 = Len(Whole(upload))
    /\ \A i \in 1..Len(head) : rbuf[off + i] = head[i]
    /\ \A j \in 1..k : rbuf[off + Len(head) + j] = Whole(upload)[2 + j]
    /\ rdlen \in {off + Len(head), off + Len(head) + k}
    /\ Len(rbuf) < BufSize + off
Starting ==
  /\ contentLen = Len(Sent(upload)) /\ told = << >> /\ stat = "head"
  /\ pc = "start" => Loaded(2)
  /\ pc = "setup" => Loaded(0)

Full(i) == told[i] = [dat |-> upload.parts[i], full |-> TRUE]

\* In the loop: the buffer holds what follows, behind the last body with NULs in it.
BufShows ==
  \A j \in 1..(Len(rbuf) - rdlen) :
    \/ rbuf[rdlen + j] = Whole(upload)[Place + j]
    \/ stat = "head" /\ Len(told) = Len(upload.parts) /\ rbuf[rdlen + j] = "0"
InHead ==
  /\ stat = "head" /\ Place = EndsOf(upload)[Len(told)]
  /\ \A i \in 1..Len(told) : Full(i)
InBody ==
  /\ stat \in {"body", "bodyend"} /\ Len(told) > 0
  /\ \A i \in 1..(Len(told) - 1) : Full(i)
  /\ told[Len(told)].full = FALSE
  /\ Shows(told[Len(told)].dat, upload.parts[Len(told)], 0, Len(told[Len(told)].dat))
  /\ Len(told[Len(told)].dat) <= Len(upload.parts[Len(told)])
  /\ Place + Len(upload.parts[Len(told)]) = EndsOf(upload)[Len(told)] + Len(told[Len(told)].dat)
Reading ==
  /\ contentLen = Len(net) - Len(upload.extra) \/ Len(net) <= Len(upload.extra)
  /\ Len(told) <= Len(upload.parts)
  /\ BufShows /\ (InHead \/ InBody)

IInv ==
  /\ Shape /\ TypeOK /\ NetShows
  /\ pc \in {"start", "setup"} => Starting
  /\ pc \in {"rcv", "parse"} => Reading
  /\ pc = "end" => PartsExact

\* The types and the ends of the form that is sent.
LEMMA UploadFacts ==
  ASSUME NEW up \in Uploads
  PROVE  /\ Len(up.parts) \in Nat /\ up.parts \in [1..Len(up.parts) -> Seq(Char)]
         /\ Whole(up) \in Seq(Char) /\ Len(Whole(up)) \in Nat /\ Len(up.extra) \in Nat
         /\ Laid(EndsOf(up), Len(up.parts), Whole(up), up.parts, Len(up.extra))
<1>1. up.extra \in Seq(Char) /\ Whole(up) \in Seq(Char)
  BY LaidOut
<1>2. Len(up.extra) \in Nat /\ Len(Whole(up)) \in Nat
  BY <1>1, LenProperties
<1>3. Laid(EndsOf(up), Len(up.parts), Whole(up), up.parts, Len(up.extra))
  BY LaidOut DEF EndsOf
<1> QED
  BY <1>1, <1>2, <1>3, LaidOut

\* What slide_buf keeps, and what the socket gives, is a window.
LEMMA Slice ==
  ASSUME NEW s \in Seq(Char), NEW a \in Nat, NEW b \in Nat, a <= b, b <= Len(s)
  PROVE  /\ SubSeq(s, a + 1, b) \in Seq(Char) /\ Len(SubSeq(s, a + 1, b)) = b - a
         /\ Shows(SubSeq(s, a + 1, b), s, a, b - a)
<1> DEFINE v == SubSeq(s, a + 1, b)
<1>1. \A i \in (a + 1)..b : s[i] \in Char
  BY Chars
<1>2. /\ v \in Seq(Char) /\ Len(v) = IF a + 1 <= b THEN b - (a + 1) + 1 ELSE 0
      /\ \A i \in 1..(b - (a + 1) + 1) : v[i] = s[(a + 1) + i - 1]
  BY <1>1, SubSeqProperties
<1> HIDE DEF v
<1>3. Len(v) = b - a
  BY <1>2
<1>4. ASSUME NEW j \in 1..(b - a) PROVE v[j] = s[a + j]
  <2>1. j \in 1..(b - (a + 1) + 1) /\ (a + 1) + j - 1 = a + j
    OBVIOUS
  <2> QED
    BY <1>2, <2>1
<1> QED
  BY <1>2, <1>3, <1>4 DEF Shows, v

\* The buffer as the server leaves it.
LEMMA InitIInv == Init => IInv
<1> SUFFICES ASSUME Init PROVE IInv
  OBVIOUS
<1> DEFINE s == Sent(upload)
           e == upload.extra
           all == s \o e
           w == Whole(upload)
<1>1. upload \in Uploads
  BY DEF Init
<1>2. /\ all \in Seq(Char) /\ Len(all) = Len(s) + Len(e) /\ Len(s) \in Nat /\ Len(e) \in Nat
      /\ Len(w) = Len(s) + Len(e) + 2 /\ Shows(all, w, 2, Len(s) + Len(e)) /\ Len(w) \in Nat
  BY <1>1, Received, UploadFacts
<1>3. PICK head \in Heads, k \in 0..Len(all) :
        /\ Len(<<"x", "x">> \o head) + k <= BufSize + 1
        /\ rbuf = (<<"x", "x">> \o head) \o SubSeq(all, 1, k)
        /\ net = SubSeq(all, k + 1, Len(all))
        /\ rdlen \in {Len(<<"x", "x">> \o head), Len(<<"x", "x">> \o head) + k}
  BY DEF Init
<1>4. /\ contentLen = Len(s) /\ stat = "head" /\ pc = "start" /\ ercd = "E_OK" /\ told = << >>
  BY DEF Init
<1>5. Len(s) < Word
  BY <1>1, FormFacts
<1> DEFINE xx == <<"x", "x">>
           top == xx \o head
           piece == SubSeq(all, 1, k)
<1>6. xx \in Seq(Char) /\ Len(xx) = 2 /\ head \in Seq(Char) /\ Len(head) \in Nat
  <2>1. head \in Seq(Char)
    BY HeadAssumption
  <2> QED
    BY <2>1, LenProperties DEF Char
<1>7. /\ Len(top) + k <= BufSize + 1 /\ rbuf = top \o piece
      /\ net = SubSeq(all, k + 1, Len(all)) /\ rdlen \in {Len(top), Len(top) + k}
  BY <1>3
<1> HIDE DEF s, e, all, w, xx
<1>8. Joined(top, xx, 2, head, Len(head))
  BY <1>6, Behind
<1>9. k \in Nat /\ k <= Len(all) /\ Len(all) \in Nat
  BY <1>2
<1>10. piece \in Seq(Char) /\ Len(piece) = k /\ Shows(piece, all, 0, k)
  <2>1. 0 + 1 = 1 /\ k - 0 = k /\ 0 \in Nat /\ 0 <= k
    BY <1>9
  <2> QED
    BY <1>2, <1>9, <2>1, Slice
<1>11. net \in Seq(Char) /\ Len(net) = Len(all) - k /\ Shows(net, all, k, Len(all) - k)
  <2>1. Len(all) <= Len(all)
    BY <1>9
  <2> QED
    BY <1>2, <1>7, <1>9, <2>1, Slice
<1> HIDE DEF top, piece
<1>12. top \in Seq(Char) /\ Len(top) = 2 + Len(head)
  BY <1>8 DEF Joined
<1>13. Joined(rbuf, top, Len(top), piece, k)
  BY <1>7, <1>10, <1>12, Behind
<1>14. rbuf \in Seq(Char) /\ Len(rbuf) = 2 + Len(head) + k
  BY <1>12, <1>13 DEF Joined
<1>15. Shape
  <2>1. << >> \in Seq([dat : Seq(Char), full : BOOLEAN])
    OBVIOUS
  <2> QED
    BY <1>1, <1>4, <1>11, <1>14, <2>1 DEF Shape
<1>16. TypeOK
  <2>1. rdlen \in 0..Len(rbuf)
    BY <1>6, <1>7, <1>9, <1>12, <1>14
  <2>2. contentLen \in 0..(Word - 1)
    BY <1>2, <1>4, <1>5, BufAssumption
  <2> QED
    BY <1>4, <2>1, <2>2 DEF TypeOK
<1>17. NetShows
  <2>1. Len(net) <= Len(w) /\ Len(w) - Len(net) = k + 2 /\ Len(net) \in Nat
    BY <1>2, <1>9, <1>11
  <2>2. ASSUME NEW j \in 1..Len(net) PROVE net[j] = w[(k + 2) + j]
    <3>1. k + j \in 1..(Len(s) + Len(e)) /\ 2 + (k + j) = (k + 2) + j /\ j \in 1..(Len(all) - k)
      BY <1>2, <1>9, <1>11
    <3>2. net[j] = all[k + j] /\ all[k + j] = w[2 + (k + j)]
      BY <1>2, <1>11, <3>1 DEF Shows
    <3> QED
      BY <3>1, <3>2
  <2>3. Shows(net, w, k + 2, Len(net))
    BY <2>2 DEF Shows
  <2> QED
    BY <2>1, <2>3 DEF NetShows, w
<1>18. Loaded(2)
  <2>1. \A i \in 1..Len(head) : rbuf[2 + i] = head[i]
    <3> SUFFICES ASSUME NEW i \in 1..Len(head) PROVE rbuf[2 + i] = head[i]
      OBVIOUS
    <3>1. 2 + i \in 1..Len(top)
      BY <1>6, <1>12
    <3> QED
      BY <1>8, <1>13, <3>1 DEF Joined
  <2>2. \A j \in 1..k : rbuf[2 + Len(head) + j] = w[2 + j]
    <3> SUFFICES ASSUME NEW j \in 1..k PROVE rbuf[2 + Len(head) + j] = w[2 + j]
      OBVIOUS
    <3>1. rbuf[Len(top) + j] = piece[j]
      BY <1>13 DEF Joined
    <3>2. piece[j] = all[0 + j] /\ 0 + j = j
      BY <1>10 DEF Shows
    <3>3. j \in 1..(Len(s) + Len(e))
      BY <1>2, <1>9
    <3>4. all[j] = w[2 + j]
      BY <1>2, <3>3 DEF Shows
    <3> QED
      BY <1>12, <3>1, <3>2, <3>4
  <2>3. /\ Len(rbuf) = 2 + Len(head) + k /\ Len(net) + k + 2 = Len(w)
        /\ rdlen \in {2 + Len(head), 2 + Len(head) + k} /\ Len(rbuf) < BufSize + 2
    BY <1>2, <1>6, <1>7, <1>9, <1>11, <1>12, <1>14, BufAssumption
  <2> QED
    BY <1>9, <2>1, <2>2, <2>3 DEF Loaded, w
<1>19. Starting
  BY <1>4, <1>18 DEF Starting, s
<1> QED
  BY <1>4, <1>15, <1>16, <1>17, <1>19 DEF IInv


-----------------------------------------------------------------------------
(* What the loop may end with.                                             *)

\* At the end nothing but the parts counts.
Types ==
  /\ stat \in {"head", "body", "bodyend"}
  /\ pc \in {"start", "setup", "rcv", "parse", "end"}
  /\ rdlen \in 0..Len(rbuf) /\ contentLen \in 0..(Word - 1)

Exact ==
  /\ Len(told) <= Len(upload.parts)
  /\ \A i \in DOMAIN told :
       /\ IsPrefix(told[i].dat, upload.parts[i])
       /\ (told[i].full \/ i < Len(told)) => told[i] = [dat |-> upload.parts[i], full |-> TRUE]

\* A beginning, character by character, is one as the property says it.
LEMMA PrefixIs ==
  ASSUME NEW s \in Seq(Char), NEW t \in Seq(Char), Len(s) <= Len(t), Shows(s, t, 0, Len(s))
  PROVE  IsPrefix(s, t)
<1> DEFINE l == Len(s)
           a == SubSeq(s, 0 + 1, l)
           b == SubSeq(t, 0 + 1, l)
<1>1. l \in Nat /\ Len(t) \in Nat /\ 0 \in Nat /\ 0 <= l /\ l - 0 = l /\ l <= l
  BY LenProperties
<1>2. a \in Seq(Char) /\ Len(a) = l /\ Shows(a, s, 0, l)
  BY <1>1, Slice
<1>3. b \in Seq(Char) /\ Len(b) = l /\ Shows(b, t, 0, l)
  BY <1>1, Slice
<1>4. a = SubSeq(s, 1, l) /\ b = SubSeq(t, 1, l)
  OBVIOUS
<1> HIDE DEF a, b
<1>5. \A j \in 1..Len(a) : a[j] = b[j]
  BY <1>1, <1>2, <1>3 DEF Shows
<1>6. a = b
  BY <1>2, <1>3, <1>5, SeqEqual
<1> QED
  BY <1>4, <1>6 DEF IsPrefix

\* While the loop runs, what was handed on is right.
LEMMA ReadingExact == Shape /\ Reading => Exact
<1> SUFFICES ASSUME Shape, Reading PROVE Exact
  OBVIOUS
<1> DEFINE n == Len(upload.parts)
           m == Len(told)
<1>1. /\ n \in Nat /\ upload.parts \in [1..n -> Seq(Char)]
      /\ told \in Seq([dat : Seq(Char), full : BOOLEAN])
  BY UploadFacts DEF Shape
<1>2. m \in Nat /\ DOMAIN told = 1..m /\ m <= n
        /\ \A i \in 1..m : told[i] \in [dat : Seq(Char), full : BOOLEAN]
  <2>1. m <= n
    BY DEF Reading
  <2>2. m \in Nat /\ DOMAIN told = 1..m
    BY <1>1, LenProperties
  <2>3. \A i \in 1..m : told[i] \in [dat : Seq(Char), full : BOOLEAN]
    BY <1>1, ElementOfSeq
  <2> QED
    BY <2>1, <2>2, <2>3
<1> HIDE DEF m, n
<1>3. ASSUME NEW i \in 1..m, Full(i)
      PROVE  IsPrefix(told[i].dat, upload.parts[i])
  <2>1. told[i].dat = upload.parts[i] /\ upload.parts[i] \in Seq(Char)
    BY <1>1, <1>2, <1>3 DEF Full
  <2> DEFINE d == upload.parts[i]
  <2>2. d \in Seq(Char) /\ Len(d) \in Nat
    BY <2>1, LenProperties
  <2> HIDE DEF d
  <2>3. Len(d) <= Len(d) /\ Shows(d, d, 0, Len(d))
    BY <2>2 DEF Shows
  <2>4. IsPrefix(d, d)
    BY <2>2, <2>3, PrefixIs
  <2> QED
    BY <2>1, <2>4 DEF d
<1>4. CASE InHead
  <2>1. \A i \in 1..m : Full(i)
    BY <1>4 DEF InHead, m
  <2> QED
    BY <1>2, <1>3, <2>1 DEF Exact, Full, m, n
<1>5. CASE InBody
  <2>1. /\ m > 0 /\ \A i \in 1..(m - 1) : Full(i)
        /\ told[m].full = FALSE
        /\ Shows(told[m].dat, upload.parts[m], 0, Len(told[m].dat))
        /\ Len(told[m].dat) <= Len(upload.parts[m])
    BY <1>5 DEF InBody, m
  <2>2. m \in 1..m /\ told[m].dat \in Seq(Char) /\ upload.parts[m] \in Seq(Char)
    BY <1>1, <1>2, <2>1
  <2>3. IsPrefix(told[m].dat, upload.parts[m])
    BY <2>1, <2>2, PrefixIs
  <2>4. ASSUME NEW i \in 1..m
        PROVE  /\ IsPrefix(told[i].dat, upload.parts[i])
               /\ (told[i].full \/ i < m) => Full(i)
    <3>1. CASE i = m
      BY <1>2, <2>1, <2>3, <3>1
    <3>2. CASE i # m
      <4>1. i \in 1..(m - 1)
        BY <1>2, <3>2
      <4> QED
        BY <1>3, <2>1, <4>1
    <3> QED
      BY <3>1, <3>2
  <2> QED
    BY <1>2, <2>4 DEF Exact, Full, m, n
<1> QED
  BY <1>4, <1>5 DEF Reading

\* The end is reached with the parts as they are, and with success only behind the last.
LEMMA Ends ==
  ASSUME Shape', Types', NetShows', pc' = "end", Exact, UNCHANGED <<upload, told>>,
         ercd' = "E_OK" => Len(told) = Len(upload.parts) /\ \A i \in DOMAIN told : told[i].full
  PROVE  IInv'
<1>1. TypeOK'
  BY DEF Types, TypeOK
<1>2. PartsExact'
  BY DEF Exact, PartsExact
<1> QED
  BY <1>1, <1>2 DEF IInv

\* The callback is asked, and the buffer gives up two characters.
LEMMA StartStep == IInv /\ Start => IInv'
<1> SUFFICES ASSUME IInv, Start PROVE IInv'
  OBVIOUS
<1>1. /\ Shape /\ TypeOK /\ NetShows /\ Starting /\ pc = "start"
      /\ UNCHANGED <<upload, net, contentLen, stat, told>>
  BY DEF IInv, Start, InputVars
<1>2. told = << >> /\ stat = "head" /\ contentLen = Len(Sent(upload)) /\ ercd = "E_OK"
  BY <1>1 DEF Starting, Shape
<1>3. NetShows'
  BY <1>1 DEF NetShows
<1>4. CASE pc' = "end" /\ ercd' # "E_OK" /\ UNCHANGED <<rbuf, rdlen>>
  <2>1. Shape'
    BY <1>1, <1>4 DEF Shape
  <2>2. Types'
    BY <1>1, <1>4 DEF TypeOK, Types
  <2>3. Exact
    <3>1. Len(upload.parts) \in Nat
      BY <1>1, UploadFacts DEF Shape
    <3>2. Len(told) = 0 /\ DOMAIN told = {}
      BY <1>2
    <3> QED
      BY <3>1, <3>2 DEF Exact
  <2> QED
    BY <1>1, <1>3, <1>4, <2>1, <2>2, <2>3, Ends
<1>5. CASE /\ rbuf' = SubSeq(rbuf, 3, Len(rbuf)) /\ rdlen' = rdlen - 2
           /\ pc' = "setup" /\ ercd' = ercd
  <2>1. PICK head \in Heads, k \in Nat :
          /\ Len(rbuf) = 2 + Len(head) + k /\ Len(net) + k + 2 = Len(Whole(upload))
          /\ \A i \in 1..Len(head) : rbuf[2 + i] = head[i]
          /\ \A j \in 1..k : rbuf[2 + Len(head) + j] = Whole(upload)[2 + j]
          /\ rdlen \in {2 + Len(head), 2 + Len(head) + k}
          /\ Len(rbuf) < BufSize + 2
    BY <1>1 DEF Starting, Loaded
  <2>2. Len(head) \in Nat /\ rbuf \in Seq(Char) /\ Len(rbuf) \in Nat
    <3>1. head \in Seq(Char) /\ rbuf \in Seq(Char)
      BY <1>1, HeadAssumption DEF Shape
    <3> QED
      BY <3>1, LenProperties
  <2>3. rbuf' \in Seq(Char) /\ Len(rbuf') = Len(rbuf) - 2 /\ Shows(rbuf', rbuf, 2, Len(rbuf) - 2)
    <3>1. 2 + 1 = 3 /\ 2 \in Nat /\ 2 <= Len(rbuf) /\ Len(rbuf) <= Len(rbuf)
      BY <2>1, <2>2
    <3> QED
      BY <1>5, <2>2, <3>1, Slice
  <2>4. Shape'
    BY <1>1, <1>5, <2>3 DEF Shape
  <2>5. TypeOK'
    <3>1. rdlen' \in 0..Len(rbuf')
      BY <1>5, <2>1, <2>2, <2>3
    <3> QED
      BY <1>1, <1>5, <3>1 DEF TypeOK
  <2>6. Loaded(0)'
    <3>1. ASSUME NEW i \in 1..Len(head) PROVE rbuf'[0 + i] = head[i]
      <4>1. i \in 1..(Len(rbuf) - 2) /\ 0 + i = i
        BY <2>1, <2>2
      <4>2. rbuf'[i] = rbuf[2 + i]
        BY <2>3, <4>1 DEF Shows
      <4> QED
        BY <2>1, <4>1, <4>2
    <3>2. ASSUME NEW j \in 1..k PROVE rbuf'[0 + Len(head) + j] = Whole(upload)[2 + j]
      <4>1. Len(head) + j \in 1..(Len(rbuf) - 2) /\ 0 + Len(head) + j = Len(head) + j
            /\ 2 + (Len(head) + j) = 2 + Len(head) + j
        BY <2>1, <2>2
      <4>2. rbuf'[Len(head) + j] = rbuf[2 + (Len(head) + j)]
        BY <2>3, <4>1 DEF Shows
      <4> QED
        BY <2>1, <4>1, <4>2
    <3>3. /\ Len(rbuf') = 0 + Len(head) + k /\ rdlen' \in {0 + Len(head), 0 + Len(head) + k}
          /\ Len(rbuf') < BufSize + 0
      BY <1>5, <2>1, <2>2, <2>3, BufAssumption
    <3>4. net' = net /\ upload' = upload
      BY <1>1
    <3> QED
      BY <2>1, <3>1, <3>2, <3>3, <3>4 DEF Loaded
  <2>7. Starting'
    BY <1>1, <1>2, <1>5, <2>6 DEF Starting
  <2> QED
    BY <1>3, <1>5, <2>4, <2>5, <2>7 DEF IInv
<1> QED
  BY <1>4, <1>5 DEF Start, Finish


-----------------------------------------------------------------------------
(* Steps before and at the receiving.                                      *)

\* httpd_mp_setup: the content that is in the buffer already is counted, so that place 0 of
\* what is sent is the next to be looked at.
LEMMA SetupStep == IInv /\ Setup => IInv'
<1> SUFFICES ASSUME IInv, Setup PROVE IInv'
  OBVIOUS
<1> DEFINE w == Whole(upload)
           e == Len(upload.extra)
           s == Len(Sent(upload))
<1>1. /\ Shape /\ TypeOK /\ NetShows /\ Starting /\ pc = "setup" /\ pc' = "rcv"
      /\ UNCHANGED <<upload, net, rbuf, stat, ercd, told>>
  BY DEF IInv, Setup, InputVars
<1>2. told = << >> /\ stat = "head" /\ contentLen = s /\ ercd = "E_OK"
  BY <1>1 DEF Starting, Shape
<1>3. PICK head \in Heads, k \in Nat :
        /\ Len(rbuf) = 0 + Len(head) + k /\ Len(net) + k + 2 = Len(w)
        /\ \A i \in 1..Len(head) : rbuf[0 + i] = head[i]
        /\ \A j \in 1..k : rbuf[0 + Len(head) + j] = w[2 + j]
        /\ rdlen \in {0 + Len(head), 0 + Len(head) + k}
        /\ Len(rbuf) < BufSize + 0
  BY <1>1 DEF Starting, Loaded
<1> DEFINE h == Len(head)
<1>4. /\ head \in Seq(Char) /\ h \in Nat /\ h > 3 /\ BlankLine(head) = h - 3
      /\ rbuf \in Seq(Char) /\ Len(rbuf) \in Nat /\ net \in Seq(Char) /\ Len(net) \in Nat
  <2>1. head \in Seq(Char) /\ Len(head) > 3 /\ BlankLine(head) = Len(head) - 3
    BY HeadAssumption
  <2>2. rbuf \in Seq(Char) /\ net \in Seq(Char)
    BY <1>1 DEF Shape
  <2> QED
    BY <2>1, <2>2, LenProperties
<1>5. /\ s \in Nat /\ e \in Nat /\ Len(w) \in Nat /\ Len(w) = s + e + 2 /\ s < Word
      /\ w[1] = "r" /\ w[2] = "n"
  BY <1>1, Received, UploadFacts, FormFacts DEF Shape
<1>6. EndsOf(upload)[0] = 0 /\ Len(upload.parts) \in Nat
  BY <1>1, UploadFacts DEF Shape, Laid
<1> HIDE DEF w, e, s, h
<1>7. /\ Len(rbuf) = h + k /\ Len(net) + k + 2 = Len(w) /\ rdlen \in {h, h + k}
      /\ \A i \in 1..h : rbuf[i] = head[i]
      /\ \A j \in 1..k : rbuf[h + j] = w[2 + j]
  <2>1. 0 + h = h /\ \A i \in 1..h : 0 + i = i
    BY <1>4
  <2> QED
    BY <1>3, <1>4, <2>1 DEF h
<1>8. BlankLine(rbuf) = h - 3 /\ head[h - 1] = "r" /\ head[h] = "n"
  <2>1. h <= Len(rbuf)
    BY <1>4, <1>7
  <2> QED
    BY <1>4, <1>7, <2>1, BlankLineOfHead DEF h
<1>9. rdlen' = h - 2 /\ contentLen' = (s - (Len(rbuf) - (h - 2)) + 2) % Word
  <2>1. h - 3 # 0 /\ (h - 3) + 1 = h - 2 /\ h - 2 < rdlen
    BY <1>4, <1>7
  <2> QED
    BY <1>2, <1>8, <2>1 DEF Setup
<1>10. contentLen' = (s - k) % Word
  <2>1. s - (Len(rbuf) - (h - 2)) + 2 = s - k
    BY <1>4, <1>5, <1>7
  <2> QED
    BY <1>9, <2>1
<1>11. contentLen' \in 0..(Word - 1) /\ (contentLen' = Len(net) - e \/ Len(net) <= e)
  <2>1. Word \in Nat /\ Word > 0
    BY BufAssumption
  <2>2. (s - k) % Word \in 0..(Word - 1)
    BY <1>5, <2>1
  <2>3. CASE k <= s
    <3>1. (s - k) % Word = s - k
      BY <1>5, <2>1, <2>3
    <3>2. s - k = Len(net) - e
      BY <1>4, <1>5, <1>7, SMTT(30)
    <3> QED
      BY <1>10, <2>2, <3>1, <3>2
  <2>4. CASE ~(k <= s)
    <3>1. Len(net) <= e
      BY <1>4, <1>5, <1>7, <2>4
    <3> QED
      BY <1>10, <2>2, <3>1
  <2> QED
    BY <2>3, <2>4
<1>12. Shape'
  BY <1>1 DEF Shape
<1>13. TypeOK'
  <2>1. Len(rbuf) < BufSize
    BY <1>3, BufAssumption
  <2>2. rdlen' \in 0..Len(rbuf)
    BY <1>4, <1>7, <1>9
  <2> QED
    BY <1>1, <1>11, <2>1, <2>2 DEF TypeOK
<1>14. NetShows'
  BY <1>1 DEF NetShows
<1>15. Place' = 0
  <2>1. Place' = Len(w) - Len(net) - (Len(rbuf) - rdlen')
    BY <1>1 DEF Place, w
  <2> DEFINE lw == Len(w)
             ln == Len(net)
             lr == Len(rbuf)
             at == rdlen'
  <2>2. /\ Place' = lw - ln - (lr - at) /\ at = h - 2 /\ lr = h + k /\ ln + k + 2 = lw
        /\ lw \in Nat /\ ln \in Nat /\ lr \in Nat /\ h \in Nat /\ k \in Nat
    BY <1>4, <1>5, <1>7, <1>9, <2>1
  <2> HIDE DEF lw, ln, lr, at
  <2>3. lw - ln - (lr - at) = 0
    BY ONLY <2>2
  <2> QED
    BY ONLY <2>2, <2>3
<1>16. BufShows'
  <2>1. ASSUME NEW j \in 1..(Len(rbuf) - (h - 2)) PROVE rbuf[(h - 2) + j] = w[0 + j]
    <3>1. 0 + j = j
      OBVIOUS
    <3>2. CASE j = 1
      <4>1. (h - 2) + j = h - 1 /\ h - 1 \in 1..h
        BY <1>4, <3>2
      <4> QED
        BY <1>5, <1>7, <1>8, <3>1, <3>2, <4>1
    <3>3. CASE j = 2
      <4>1. (h - 2) + j = h /\ h \in 1..h
        BY <1>4, <3>3
      <4> QED
        BY <1>5, <1>7, <1>8, <3>1, <3>3, <4>1
    <3>4. CASE j > 2
      <4>1. PICK v \in 1..k : j = 2 + v
        <5>1. j - 2 \in 1..k /\ j = 2 + (j - 2)
          BY <1>4, <1>7, <3>4
        <5> QED
          BY <5>1
      <4>2. (h - 2) + j = h + v
        BY <1>4, <4>1
      <4> QED
        BY <1>7, <3>1, <4>1, <4>2
    <3> QED
      BY <1>4, <3>2, <3>3, <3>4
  <2>2. upload' = upload /\ rbuf' = rbuf
    BY <1>1
  <2> QED
    BY <1>9, <1>15, <2>1, <2>2 DEF BufShows, w
<1>17. InHead'
  <2>1. upload' = upload /\ told' = << >> /\ stat' = "head" /\ Len(told') = 0
    BY <1>1, <1>2
  <2> QED
    BY <1>6, <1>15, <2>1 DEF InHead
<1>18. Reading'
  <2>1. Len(told') <= Len(upload'.parts)
    BY <1>1, <1>2, <1>6
  <2>2. contentLen' = Len(net') - Len(upload'.extra) \/ Len(net') <= Len(upload'.extra)
    BY <1>1, <1>11 DEF e
  <2> QED
    BY <1>16, <1>17, <2>1, <2>2 DEF Reading
<1> QED
  BY <1>1, <1>12, <1>13, <1>14, <1>18 DEF IInv

\* The loop's state but for the buffer and the socket.
LEMMA ReadingKept ==
  ASSUME Reading, UNCHANGED <<upload, stat, told>>, Place' = Place, BufShows',
         contentLen' = Len(net') - Len(upload.extra) \/ Len(net') <= Len(upload.extra)
  PROVE  Reading'
<1>1. InHead => InHead'
  BY DEF InHead, Full
<1>2. InBody => InBody'
  BY DEF InBody, Full
<1> QED
  BY <1>1, <1>2 DEF Reading

\* httpd_mp_content_rcv: the buffer slides and a piece is put behind it; the place does
\* not change.
LEMMA ContentRcvStep == IInv /\ ContentRcv => IInv'
<1> SUFFICES ASSUME IInv, ContentRcv PROVE IInv'
  OBVIOUS
<1> DEFINE w == Whole(upload)
           e == Len(upload.extra)
           d == Len(rbuf) - rdlen
<1>1. /\ Shape /\ TypeOK /\ NetShows /\ Reading /\ pc = "rcv" /\ rdlen' = 0
      /\ UNCHANGED <<upload, stat, told>> /\ ercd = "E_OK"
  BY DEF IInv, ContentRcv, Shape
<1>2. /\ rbuf \in Seq(Char) /\ Len(rbuf) \in Nat /\ net \in Seq(Char) /\ Len(net) \in Nat
      /\ rdlen \in 0..Len(rbuf) /\ Len(rbuf) < BufSize /\ contentLen \in 0..(Word - 1)
      /\ BufSize \in Nat /\ Word \in Nat
  BY <1>1, LenProperties, BufAssumption DEF Shape, TypeOK
<1>3. e \in Nat /\ Len(w) \in Nat /\ w \in Seq(Char)
  BY <1>1, UploadFacts DEF Shape
<1>4. Slid \in Seq(Char) /\ Len(Slid) = d /\ Shows(Slid, rbuf, rdlen, d) /\ d \in Nat
  <2>1. rdlen \in Nat /\ rdlen <= Len(rbuf) /\ Len(rbuf) <= Len(rbuf) /\ d \in Nat
    BY <1>2
  <2> QED
    BY <1>2, <2>1, Slice DEF Slid
<1>5. Exact
  BY <1>1, ReadingExact
<1>6. ASSUME pc' = "end", ercd' # "E_OK", NetShows', rbuf' \in Seq(Char), net' \in Seq(Char),
             contentLen' = contentLen
      PROVE  IInv'
  <2>1. Shape'
    BY <1>1, <1>6 DEF Shape
  <2>2. Types'
    <3>1. Len(rbuf') \in Nat
      BY <1>6, LenProperties
    <3> QED
      BY <1>1, <1>2, <1>6, <3>1 DEF TypeOK, Types
  <2> QED
    BY <1>1, <1>5, <1>6, <2>1, <2>2, Ends
<1>7. UNCHANGED net => NetShows'
  BY <1>1 DEF NetShows
<1>8. Place = Len(w) - Len(net) - d
  BY DEF Place
<1>9. ASSUME NEW j \in 1..d
      PROVE  \/ Slid[j] = w[Place + j]
             \/ stat = "head" /\ Len(told) = Len(upload.parts) /\ Slid[j] = "0"
  <2>1. Slid[j] = rbuf[rdlen + j]
    BY <1>4 DEF Shows
  <2> QED
    BY <1>1, <2>1 DEF Reading, BufShows
<1>10. contentLen = Len(net) - e \/ Len(net) <= e
  BY <1>1 DEF Reading
<1> HIDE DEF w, e, d
<1>11. CASE RcvNomem
  BY <1>1, <1>4, <1>6, <1>7, <1>11 DEF RcvNomem, Finish, Shape
<1>12. CASE RcvFails
  BY <1>1, <1>4, <1>6, <1>7, <1>12 DEF RcvFails, Finish, Shape
<1>13. CASE RcvNothing
  <2>1. pc' = "parse" /\ rbuf' = Slid /\ UNCHANGED <<net, contentLen, ercd>>
    BY <1>13 DEF RcvNothing
  <2>2. Shape'
    BY <1>1, <1>4, <2>1 DEF Shape
  <2>3. TypeOK'
    <3>1. Len(rbuf') < BufSize /\ rdlen' \in 0..Len(rbuf')
      BY <1>1, <1>2, <1>4, <2>1 DEF d
    <3> QED
      BY <1>1, <2>1, <3>1 DEF TypeOK
  <2>4. Place' = Place
    <3>1. Place' = Len(w) - Len(net) - (Len(rbuf') - rdlen')
      BY <1>1, <2>1 DEF Place, w
    <3> QED
      BY <1>1, <1>2, <1>3, <1>4, <1>8, <2>1, <3>1
  <2>5. BufShows'
    <3>1. Len(rbuf') - rdlen' = d /\ \A j \in 1..d : rdlen' + j = j
      BY <1>1, <1>4, <2>1
    <3> QED
      BY <1>1, <1>9, <2>1, <2>4, <3>1 DEF BufShows, w
  <2>6. Reading'
    BY <1>1, <1>10, <2>1, <2>4, <2>5, ReadingKept DEF e
  <2> QED
    BY <1>7, <2>1, <2>2, <2>3, <2>6 DEF IInv
<1>14. ASSUME NEW k \in 1..BufSize, RcvPiece(k) PROVE IInv'
  <2> DEFINE piece == SubSeq(net, 1, k)
             t == Len(net)
  <2>1. /\ contentLen > 0 /\ k <= BufSize - d - 1 /\ k <= t
        /\ rbuf' = Slid \o piece /\ net' = SubSeq(net, k + 1, t)
    BY <1>4, <1>14 DEF RcvPiece, Room
  <2>2. k \in Nat /\ k >= 1 /\ t \in Nat
    BY <1>2
  <2>3. piece \in Seq(Char) /\ Len(piece) = k /\ Shows(piece, net, 0, k)
    <3>1. 0 + 1 = 1 /\ k - 0 = k /\ 0 \in Nat /\ 0 <= k
      BY <2>2
    <3> QED
      BY <1>2, <2>1, <2>2, <3>1, Slice
  <2>4. net' \in Seq(Char) /\ Len(net') = t - k /\ Shows(net', net, k, t - k)
    <3>1. t <= t
      BY <2>2
    <3> QED
      BY <1>2, <2>1, <2>2, <3>1, Slice
  <2>5. t <= Len(w) /\ Shows(net, w, Len(w) - t, t)
    BY <1>1 DEF NetShows, w
  <2> HIDE DEF piece, t
  <2>6. Joined(rbuf', Slid, d, piece, k)
    BY <1>4, <2>1, <2>3, Behind
  <2>7. rbuf' \in Seq(Char) /\ Len(rbuf') = d + k
    BY <2>6 DEF Joined
  <2>8. NetShows'
    <3>1. Len(net') <= Len(w) /\ Len(w) - Len(net') = (Len(w) - t) + k
      <4> DEFINE lw == Len(w)
                 ln == Len(net')
      <4>1. ln = t - k /\ t <= lw /\ t \in Nat /\ k \in Nat /\ lw \in Nat
        BY <1>3, <2>2, <2>4, <2>5
      <4> HIDE DEF lw, ln
      <4>2. ln <= lw /\ lw - ln = (lw - t) + k
        BY ONLY <4>1
      <4> QED
        BY <4>2 DEF lw, ln
    <3>2. ASSUME NEW j \in 1..Len(net') PROVE net'[j] = w[((Len(w) - t) + k) + j]
      <4>1. j \in 1..(t - k) /\ k + j \in 1..t /\ (Len(w) - t) + (k + j) = ((Len(w) - t) + k) + j
        BY <1>3, <2>1, <2>2, <2>4
      <4>2. net'[j] = net[k + j] /\ net[k + j] = w[(Len(w) - t) + (k + j)]
        BY <2>4, <2>5, <4>1 DEF Shows
      <4> QED
        BY <4>1, <4>2
    <3>3. Shows(net', w, Len(w) - Len(net'), Len(net'))
      BY <3>1, <3>2 DEF Shows
    <3> QED
      BY <1>1, <3>1, <3>3 DEF NetShows, w
  <2>9. CASE k > contentLen
    <3>1. pc' = "end" /\ ercd' = "E_SYS" /\ contentLen' = contentLen
      BY <1>14, <2>9 DEF RcvPiece, Finish
    <3> QED
      BY <1>6, <2>4, <2>7, <2>8, <3>1
  <2>10. CASE ~(k > contentLen)
    <3>1. pc' = "parse" /\ contentLen' = contentLen - k /\ ercd' = ercd
      BY <1>14, <2>10 DEF RcvPiece
    <3>2. Shape'
      BY <1>1, <2>4, <2>7, <3>1 DEF Shape
    <3>3. TypeOK'
      <4>1. Len(rbuf') < BufSize /\ rdlen' \in 0..Len(rbuf')
        BY <1>1, <1>2, <1>4, <2>1, <2>2, <2>7
      <4>2. contentLen' \in 0..(Word - 1)
        BY <1>2, <2>2, <2>10, <3>1
      <4> QED
        BY <1>1, <3>1, <4>1, <4>2 DEF TypeOK
    <3>4. Place' = Place
      <4>1. Place' = Len(w) - Len(net') - (Len(rbuf') - rdlen')
        BY <1>1 DEF Place, w
      <4>2. Place = Len(w) - t - d
        BY <1>8 DEF t
      <4> QED
        BY <1>1, <1>3, <1>4, <2>2, <2>4, <2>7, <4>1, <4>2
    <3>5. ASSUME NEW j \in 1..(d + k)
          PROVE  \/ rbuf'[j] = w[Place + j]
                 \/ stat = "head" /\ Len(told) = Len(upload.parts) /\ rbuf'[j] = "0"
      <4>1. CASE j <= d
        <5>1. j \in 1..d
          BY <1>4, <4>1
        <5>2. rbuf'[j] = Slid[j]
          BY <2>6, <5>1 DEF Joined
        <5> QED
          BY <1>9, <5>1, <5>2
      <4>2. CASE ~(j <= d)
        <5>1. PICK v \in 1..k : j = d + v
          <6>1. j - d \in 1..k /\ j = d + (j - d)
            BY <1>4, <2>2, <4>2
          <6> QED
            BY <6>1
        <5>2. v \in 1..t /\ 0 + v = v /\ Place + j = (Len(w) - t) + v
          <6>1. Place = Len(w) - t - d
            BY <1>8 DEF t
          <6> QED
            BY <1>3, <1>4, <2>1, <2>2, <5>1, <6>1
        <5>3. rbuf'[d + v] = piece[v] /\ piece[v] = net[0 + v] /\ net[v] = w[(Len(w) - t) + v]
          BY <2>3, <2>5, <2>6, <5>2 DEF Joined, Shows
        <5> QED
          BY <5>1, <5>2, <5>3
      <4> QED
        BY <4>1, <4>2
    <3>6. BufShows'
      <4>1. Len(rbuf') - rdlen' = d + k /\ \A j \in 1..(d + k) : rdlen' + j = j
        BY <1>1, <1>4, <2>2, <2>7
      <4> QED
        BY <1>1, <3>4, <3>5, <4>1 DEF BufShows, w
    <3>7. contentLen' = Len(net') - e \/ Len(net') <= e
      <4>1. contentLen = t - e \/ t <= e
        BY <1>10 DEF t
      <4> QED
        BY <1>2, <1>3, <2>2, <2>4, <3>1, <4>1
    <3>8. Reading'
      BY <1>1, <3>4, <3>6, <3>7, ReadingKept DEF e
    <3> QED
      BY <2>8, <3>1, <3>2, <3>3, <3>8 DEF IInv
  <2> QED
    BY <2>9, <2>10
<1> QED
  BY <1>11, <1>12, <1>13, <1>14 DEF ContentRcv


-----------------------------------------------------------------------------
(* Steps that look at what was received.                                   *)

Telling == [dat : Seq(Char), full : BOOLEAN]

\* What holds where the loop has received and is about to look.
LEMMA ParseFacts ==
  ASSUME IInv, pc = "parse"
  PROVE  /\ Shape /\ TypeOK /\ NetShows /\ Reading /\ Exact /\ rdlen = 0 /\ ercd = "E_OK"
         /\ rbuf \in Seq(Char) /\ Len(rbuf) \in Nat /\ Len(rbuf) < BufSize
         /\ Len(net) \in Nat /\ told \in Seq(Telling) /\ Len(told) \in Nat
         /\ Whole(upload) \in Seq(Char) /\ Len(Whole(upload)) \in Nat
         /\ Len(upload.parts) \in Nat /\ Len(upload.extra) \in Nat
         /\ upload.parts \in [1..Len(upload.parts) -> Seq(Char)]
         /\ Laid(EndsOf(upload), Len(upload.parts), Whole(upload), upload.parts,
                 Len(upload.extra))
         /\ Place = Len(Whole(upload)) - Len(net) - Len(rbuf)
         /\ contentLen \in 0..(Word - 1)
<1>1. Shape /\ TypeOK /\ NetShows /\ Reading /\ rdlen = 0 /\ ercd = "E_OK"
  BY DEF IInv, Shape
<1>2. Exact
  BY <1>1, ReadingExact
<1>3. rbuf \in Seq(Char) /\ net \in Seq(Char) /\ told \in Seq(Telling) /\ upload \in Uploads
  BY <1>1 DEF Shape, Telling
<1>4. Len(rbuf) \in Nat /\ Len(net) \in Nat /\ Len(told) \in Nat
  BY <1>3, LenProperties
<1>5. Len(rbuf) < BufSize /\ contentLen \in 0..(Word - 1)
  BY <1>1 DEF TypeOK
<1>6. /\ Whole(upload) \in Seq(Char) /\ Len(Whole(upload)) \in Nat
      /\ Len(upload.parts) \in Nat /\ Len(upload.extra) \in Nat
      /\ upload.parts \in [1..Len(upload.parts) -> Seq(Char)]
      /\ Laid(EndsOf(upload), Len(upload.parts), Whole(upload), upload.parts,
              Len(upload.extra))
  BY <1>3, UploadFacts
<1>7. Place = Len(Whole(upload)) - Len(net) - Len(rbuf)
  <2>1. Len(rbuf) - rdlen = Len(rbuf)
    BY <1>1, <1>4
  <2> QED
    BY <2>1 DEF Place
<1> QED
  BY <1>1, <1>2, <1>3, <1>4, <1>5, <1>6, <1>7

\* A round that ends the loop ...
LEMMA Ended ==
  ASSUME IInv, pc = "parse", UNCHANGED <<upload, net, told, stat, rdlen>>, pc' = "end",
         rbuf' \in Seq(Char), contentLen' \in 0..(Word - 1),
         ercd' = "E_OK" => Len(told) = Len(upload.parts) /\ \A i \in DOMAIN told : told[i].full
  PROVE  IInv'
<1>1. Shape /\ TypeOK /\ NetShows /\ Exact /\ rdlen = 0
  BY ParseFacts
<1>2. Len(rbuf') \in Nat
  BY LenProperties
<1>3. Shape'
  BY <1>1 DEF Shape
<1>4. Types'
  BY <1>1, <1>2 DEF Types, TypeOK
<1>5. NetShows'
  BY <1>1 DEF NetShows
<1> QED
  BY <1>1, <1>3, <1>4, <1>5, Ends

\* ... and one that does not.
LEMMA GoesOn ==
  ASSUME IInv, pc = "parse", UNCHANGED <<upload, net, contentLen>>, pc' = "rcv", ercd' = ercd,
         rbuf' \in Seq(Char), Len(rbuf') = Len(rbuf), rdlen' \in 0..Len(rbuf'),
         stat' \in {"head", "body", "bodyend"}, told' \in Seq(Telling),
         Len(told') <= Len(upload.parts), BufShows', InHead' \/ InBody'
  PROVE  IInv'
<1>1. /\ Shape /\ TypeOK /\ NetShows /\ Reading /\ ercd = "E_OK"
      /\ Len(rbuf) < BufSize
  BY ParseFacts
<1>2. Shape'
  BY <1>1 DEF Shape, Telling
<1>3. TypeOK'
  BY <1>1 DEF TypeOK
<1>4. NetShows'
  BY <1>1 DEF NetShows
<1>5. Reading'
  BY <1>1 DEF Reading
<1> QED
  BY <1>2, <1>3, <1>4, <1>5 DEF IInv

\* The last element of a sequence is replaced.
LEMMA Replaced ==
  ASSUME NEW T, NEW s \in Seq(T), NEW x \in T, NEW t, Len(s) > 0, t = [s EXCEPT ![Len(s)] = x]
  PROVE  /\ t \in Seq(T) /\ Len(t) = Len(s) /\ t[Len(s)] = x
         /\ \A i \in 1..(Len(s) - 1) : t[i] = s[i]
<1>1. Len(s) \in Nat /\ Len(s) \in 1..Len(s) /\ DOMAIN s = 1..Len(s)
  BY LenProperties
<1>2. t \in Seq(T) /\ Len(t) = Len(s)
  BY <1>1, ExceptSeq
<1>3. \A i \in 1..Len(s) : t[i] = IF i = Len(s) THEN x ELSE s[i]
  BY <1>1, ExceptSeq
<1> DEFINE l == Len(s)
<1> HIDE DEF l
<1>4. \A i \in 1..(l - 1) : i \in 1..l /\ i # l
  <2>1. l \in Nat
    BY <1>1 DEF l
  <2> QED
    BY ONLY <2>1
<1> QED
  BY <1>1, <1>2, <1>3, <1>4 DEF l

\* An element is put behind a sequence.
LEMMA Appended ==
  ASSUME NEW T, NEW s \in Seq(T), NEW x \in T, NEW t, t = Append(s, x)
  PROVE  /\ t \in Seq(T) /\ Len(t) = Len(s) + 1 /\ t[Len(s) + 1] = x
         /\ \A i \in 1..Len(s) : t[i] = s[i]
BY AppendProperties

\* What the buffer shows while a part, or its head, is to come; or the rest behind the last.
LEMMA HeadLooks ==
  ASSUME IInv, pc = "parse", stat = "head", Len(told) < Len(upload.parts)
  PROVE  HeadIn(rbuf)
<1> DEFINE w == Whole(upload)
           n == Len(upload.parts)
           base == EndsOf(upload)
           m == Len(told)
<1>1. /\ Reading /\ rdlen = 0 /\ rbuf \in Seq(Char) /\ Len(rbuf) \in Nat /\ Len(net) \in Nat
      /\ w \in Seq(Char) /\ Len(w) \in Nat /\ n \in Nat /\ m \in Nat
      /\ Laid(base, n, w, upload.parts, Len(upload.extra))
      /\ Place = Len(w) - Len(net) - Len(rbuf)
  BY ParseFacts
<1>2. Place = base[m] /\ BufShows
  BY <1>1 DEF Reading, InHead, InBody
<1> HIDE DEF w, n, base, m
<1>3. m \in 0..n /\ m + 1 \in 1..n /\ (m + 1) - 1 = m
  BY <1>1 DEF m, n
<1>4. base[m] \in Nat /\ Shows(PartHead, w, base[m], 12)
  BY <1>1, <1>3 DEF Laid
<1>5. Window(rbuf, w, base[m])
  <2>1. ASSUME NEW j \in 1..Len(rbuf) PROVE rbuf[j] = w[base[m] + j]
    <3>1. Len(rbuf) - rdlen = Len(rbuf) /\ rdlen + j = j
      BY <1>1
    <3>2. Len(told) # Len(upload.parts)
      OBVIOUS
    <3> QED
      BY <1>2, <3>1, <3>2 DEF BufShows, w
  <2>2. base[m] + Len(rbuf) <= Len(w)
    BY <1>1, <1>2
  <2> QED
    BY <2>1, <2>2 DEF Window, Shows
<1> QED
  BY <1>1, <1>4, <1>5, HeadInWindow

\* MPHEAD with a blank line: a part begins, exactly if one is left.
LEMMA Head1Step == IInv /\ pc = "parse" /\ stat = "head" /\ Head1 /\ InputVars' = InputVars => IInv'
<1> SUFFICES ASSUME IInv, pc = "parse", stat = "head", Head1, InputVars' = InputVars PROVE IInv'
  OBVIOUS
<1> DEFINE w == Whole(upload)
           n == Len(upload.parts)
           base == EndsOf(upload)
           m == Len(told)
           s == StrStr(rbuf, Blank)
           cut == [rbuf EXCEPT ![s + 1] = "0"]
           v == SubSeq(cut, 1, s + 1)
           b == BdryChk[v]
<1>1. /\ Reading /\ rdlen = 0 /\ rbuf \in Seq(Char) /\ Len(rbuf) \in Nat /\ Len(net) \in Nat
      /\ w \in Seq(Char) /\ Len(w) \in Nat /\ n \in Nat /\ m \in Nat /\ told \in Seq(Telling)
      /\ Laid(base, n, w, upload.parts, Len(upload.extra))
      /\ Place = Len(w) - Len(net) - Len(rbuf) /\ contentLen \in 0..(Word - 1)
      /\ upload.parts \in [1..n -> Seq(Char)]
  BY ParseFacts
<1>2. Place = base[m] /\ BufShows /\ m <= n /\ InHead
  BY <1>1 DEF Reading, InHead, InBody
<1>3. /\ s # 0 /\ rbuf' = cut /\ UNCHANGED contentLen
      /\ IF b.kind = "header" /\ b.ret = "found"
         THEN \/ /\ rdlen' = s + 3 /\ stat' = "body"
                 /\ told' = Append(told, [dat |-> <<>>, full |-> FALSE])
                 /\ Again
              \/ CbkFails /\ UNCHANGED <<rdlen, stat, told>>
         ELSE Again /\ UNCHANGED <<rdlen, stat, told>>
  BY DEF Head1, Blank
<1>4. UNCHANGED <<upload, net>>
  BY DEF InputVars
<1> HIDE DEF w, n, base, m, s
<1>5. s \in Nat /\ s >= 1 /\ s + 3 <= Len(rbuf)
  <2>1. s \in Nat /\ Occurs(rbuf, Blank, s)
    BY <1>1, <1>3, StrStrFirst DEF s
  <2>2. s \in 1..Len(rbuf) /\ s + 4 - 1 <= Len(rbuf)
    BY <2>1, ShapeBlank DEF Occurs
  <2> QED
    BY <1>1, <2>2
<1>6. /\ cut \in Seq(Char) /\ Len(cut) = Len(rbuf)
      /\ \A j \in 1..Len(rbuf) : cut[j] = IF j = s + 1 THEN "0" ELSE rbuf[j]
      /\ v \in Seq(Char) /\ Len(v) = s + 1 /\ \A j \in 1..(s + 1) : v[j] = cut[j]
  <2>1. s + 1 <= Len(rbuf)
    BY <1>1, <1>5
  <2>2. cut = [rbuf EXCEPT ![s + 1] = "0"] /\ v = SubSeq(cut, 1, s + 1)
    OBVIOUS
  <2> HIDE DEF cut, v
  <2>3. /\ cut \in Seq(Char) /\ Len(cut) = Len(rbuf)
        /\ \A j \in 1..Len(rbuf) : cut[j] = IF j = s + 1 THEN "0" ELSE rbuf[j]
    BY <1>1, <1>5, <2>1, <2>2, CutShape
  <2>4. v \in Seq(Char) /\ Len(v) = s + 1 /\ \A j \in 1..(s + 1) : v[j] = cut[j]
    BY <1>1, <1>5, <2>1, <2>2, CutShape
  <2> QED
    BY <2>3, <2>4
<1>7. base[m] \in Nat /\ m \in 0..n
  <2>1. m \in 0..n
    BY <1>1, <1>2
  <2> QED
    BY <1>1, <2>1 DEF Laid
<1>8. Again => pc' = "rcv" /\ ercd' = ercd
  <2> DEFINE c == contentLen'
             l == Len(rbuf')
  <2>1. c \in Nat /\ l \in Nat /\ l > 0
    <3>1. c \in 0..(Word - 1) /\ l = Len(rbuf)
      BY <1>1, <1>3, <1>6
    <3> QED
      BY <1>1, <1>5, <3>1, BufAssumption
  <2> HIDE DEF c, l
  <2>2. c + l > 0
    BY <2>1
  <2> QED
    BY <2>2 DEF Again, c, l
<1> HIDE DEF cut, v, b
<1>9. ASSUME CbkFails, UNCHANGED <<rdlen, stat, told>>
      PROVE  IInv'
  BY <1>1, <1>3, <1>4, <1>6, <1>9, Ended DEF CbkFails, Finish
<1>10. CASE m < n
  <2>1. HeadIn(rbuf)
    BY <1>10, HeadLooks DEF m, n
  <2>2. s = 9 /\ Len(rbuf) >= 12
    BY <1>1, <1>3, <2>1, BlankOfHead DEF s
  <2>3. b.kind = "header" /\ b.ret = "found"
    <3>1. s + 1 = 10
      BY <2>2
    <3> QED
      BY <1>1, <2>1, <2>2, <3>1, HeadSeen DEF b, v, cut
  <2>4. CASE /\ rdlen' = s + 3 /\ stat' = "body"
             /\ told' = Append(told, [dat |-> <<>>, full |-> FALSE])
             /\ Again
    <3> DEFINE x == [dat |-> <<>>, full |-> FALSE]
    <3>1. x \in Telling
      BY DEF Telling
    <3>2. x.dat = << >> /\ x.full = FALSE /\ told' = Append(told, x)
      BY <2>4
    <3> HIDE DEF x
    <3>3. /\ told' \in Seq(Telling) /\ Len(told') = m + 1 /\ told'[m + 1] = x
          /\ \A i \in 1..m : told'[i] = told[i]
      BY <1>1, <3>1, <3>2, Appended DEF m
    <3>4. rdlen' = 12 /\ pc' = "rcv" /\ ercd' = ercd
      BY <1>8, <2>2, <2>4
    <3>5. Place' = base[m] + 12
      <4>1. Place' = Len(w) - Len(net) - (Len(rbuf) - 12)
        BY <1>3, <1>4, <1>6, <3>4 DEF Place, w
      <4> DEFINE lw == Len(w)
                 ln == Len(net)
                 lr == Len(rbuf)
      <4>2. /\ Place' = lw - ln - (lr - 12) /\ base[m] = lw - ln - lr
            /\ lw \in Nat /\ ln \in Nat /\ lr \in Nat
        BY <1>1, <1>2, <4>1
      <4> HIDE DEF lw, ln, lr
      <4> QED
        BY ONLY <4>2
    <3>6. BufShows'
      <4>1. ASSUME NEW j \in 1..(Len(rbuf) - 12) PROVE rbuf'[12 + j] = w[(base[m] + 12) + j]
        <5>1. 12 + j \in 1..Len(rbuf) /\ 12 + j # s + 1 /\ base[m] + (12 + j) = (base[m] + 12) + j
          <6> DEFINE lr == Len(rbuf)
                     bm == base[m]
          <6>1. lr \in Nat /\ bm \in Nat /\ lr >= 12 /\ s = 9 /\ j \in 1..(lr - 12)
            BY <1>1, <1>7, <2>2
          <6> HIDE DEF lr, bm
          <6>2. 12 + j \in 1..lr /\ 12 + j # s + 1 /\ bm + (12 + j) = (bm + 12) + j
            BY ONLY <6>1
          <6> QED
            BY <6>2 DEF lr, bm
        <5>2. rbuf'[12 + j] = rbuf[12 + j]
          BY <1>3, <1>6, <5>1
        <5>3. rbuf[rdlen + (12 + j)] = w[base[m] + (12 + j)]
          <6>1. 12 + j \in 1..(Len(rbuf) - rdlen)
            BY <1>1, <5>1
          <6>2. Len(told) # Len(upload.parts)
            BY <1>1, <1>10 DEF m, n
          <6> QED
            BY <1>2, <6>1, <6>2 DEF BufShows, w
        <5>4. rdlen + (12 + j) = 12 + j
          BY <1>1, <5>1
        <5> QED
          BY <5>1, <5>2, <5>3, <5>4
      <4>2. Len(rbuf') = Len(rbuf) /\ upload' = upload
        BY <1>3, <1>4, <1>6
      <4> QED
        BY <3>4, <3>5, <4>1, <4>2 DEF BufShows, w
    <3>7. InBody'
      <4> DEFINE k == m + 1
                 d == told'[k].dat
                 p == upload.parts[k]
      <4>1. k \in 1..n /\ k - 1 = m /\ k > 0 /\ k \in Nat
        BY <1>1, <1>7, <1>10
      <4>2. base[k] = base[m] + 12 + Len(p) /\ Len(p) \in Nat
        <5>1. p \in Seq(Char)
          BY <1>1, <4>1
        <5>2. base[k] = base[k - 1] + 12 + Len(p)
          BY <1>1, <4>1 DEF Laid
        <5> QED
          BY <4>1, <5>1, <5>2, LenProperties
      <4>3. told'[k].full = FALSE /\ d = << >>
        BY <3>2, <3>3
      <4>4. Len(d) = 0 /\ Shows(d, p, 0, Len(d)) /\ Len(d) <= Len(p)
        <5>1. Len(d) = 0
          BY <4>3
        <5>2. Shows(d, p, 0, 0)
          BY DEF Shows
        <5> QED
          BY <4>2, <5>1, <5>2
      <4>5. ASSUME NEW i \in 1..m PROVE told'[i] = [dat |-> upload.parts[i], full |-> TRUE]
        BY <1>2, <3>3, <4>5 DEF InHead, Full, m
      <4>6. Place' + Len(p) = base[k] + Len(d)
        BY <1>7, <3>5, <4>2, <4>4
      <4>7. Len(told') = k /\ upload' = upload /\ stat' \in {"body", "bodyend"}
        BY <1>4, <2>4, <3>3
      <4> HIDE DEF k, d
      <4> QED
        BY <4>1, <4>3, <4>4, <4>5, <4>6, <4>7 DEF InBody, Full, base, d
    <3>8. /\ rdlen' \in 0..Len(rbuf') /\ Len(told') <= Len(upload.parts) /\ rbuf' \in Seq(Char)
          /\ Len(rbuf') = Len(rbuf) /\ stat' \in {"head", "body", "bodyend"}
      <4>1. 12 \in 0..Len(rbuf) /\ m + 1 <= n
        BY <1>1, <1>10, <2>2
      <4> QED
        BY <1>3, <1>6, <2>4, <3>3, <3>4, <4>1 DEF n
    <3> QED
      BY <1>3, <1>4, <3>3, <3>4, <3>6, <3>7, <3>8, GoesOn
  <2> QED
    BY <1>3, <1>9, <2>3, <2>4
<1>11. CASE ~(m < n)
  <2>1. m = n
    BY <1>1, <1>2, <1>11
  <2>2. ASSUME NEW j \in 1..Len(rbuf) PROVE rbuf[j] = "0" \/ rbuf[j] = w[base[n] + j]
    <3>1. Len(rbuf) - rdlen = Len(rbuf) /\ rdlen + j = j
      BY <1>1
    <3> QED
      BY <1>2, <2>1, <3>1 DEF BufShows, w
  <2>3. ~(b.kind = "header" /\ b.ret = "found")
    <3>1. base[n] + Len(v) <= Len(w)
      BY <1>1, <1>2, <1>5, <1>6, <1>7, <2>1
    <3>2. ASSUME NEW j \in 1..Len(v) PROVE v[j] = "0" \/ v[j] = w[base[n] + j]
      <4>1. j \in 1..(s + 1) /\ j \in 1..Len(rbuf)
        BY <1>1, <1>5, <1>6
      <4> QED
        BY <1>6, <2>2, <4>1
    <3>3. NulWindow(v, w, base[n])
      BY <3>1, <3>2 DEF NulWindow
    <3> QED
      BY <1>1, <1>6, <3>3, TailNoHeader DEF b
  <2>4. Again /\ UNCHANGED <<rdlen, stat, told>>
    BY <1>3, <2>3
  <2>5. Place' = Place
    BY <1>3, <1>4, <1>6, <2>4 DEF Place
  <2>6. BufShows'
    <3>1. ASSUME NEW j \in 1..Len(rbuf) PROVE rbuf'[j] = "0" \/ rbuf'[j] = w[Place + j]
      BY <1>2, <1>3, <1>6, <2>1, <2>2
    <3>2. Len(rbuf') = Len(rbuf) /\ upload' = upload /\ rdlen' = 0 /\ Len(told) = Len(upload.parts)
      BY <1>1, <1>3, <1>4, <1>6, <2>1, <2>4 DEF m, n
    <3>3. Len(rbuf') - rdlen' = Len(rbuf) /\ \A j \in 1..Len(rbuf) : rdlen' + j = j
      BY <1>1, <3>2
    <3> QED
      BY <2>4, <2>5, <3>1, <3>2, <3>3 DEF BufShows, w
  <2>7. InHead'
    BY <1>2, <1>4, <2>4, <2>5 DEF InHead, Full
  <2>8. /\ rdlen' \in 0..Len(rbuf') /\ Len(told') <= Len(upload.parts) /\ rbuf' \in Seq(Char)
        /\ Len(rbuf') = Len(rbuf) /\ stat' \in {"head", "body", "bodyend"} /\ told' \in Seq(Telling)
    BY <1>1, <1>2, <1>3, <1>6, <2>4 DEF m, n
  <2> QED
    BY <1>3, <1>4, <1>8, <2>4, <2>6, <2>7, <2>8, GoesOn
<1> QED
  BY <1>10, <1>11

\* MPHEAD without one: the end of the form is only seen behind the last part.
LEMMA Head2Step == IInv /\ pc = "parse" /\ stat = "head" /\ Head2 /\ InputVars' = InputVars => IInv'
<1> SUFFICES ASSUME IInv, pc = "parse", stat = "head", Head2, InputVars' = InputVars PROVE IInv'
  OBVIOUS
<1> DEFINE n == Len(upload.parts)
           m == Len(told)
           b == BdryChk[rbuf]
<1>1. /\ Reading /\ rdlen = 0 /\ rbuf \in Seq(Char) /\ Len(rbuf) \in Nat
      /\ n \in Nat /\ m \in Nat /\ told \in Seq(Telling) /\ contentLen \in 0..(Word - 1)
  BY ParseFacts
<1>2. BufShows /\ m <= n /\ InHead
  BY <1>1 DEF Reading, InHead, InBody
<1>3. /\ StrStr(rbuf, Blank) = 0 /\ UNCHANGED <<rdlen, stat, told>>
      /\ IF b.kind = "end" /\ b.ret = "found"
         THEN FormOver /\ Again
         ELSE /\ UNCHANGED <<rbuf, contentLen>>
              /\ IF contentLen > 0 THEN Again ELSE Finish("E_CLS")
  BY DEF Head2, Blank
<1>4. UNCHANGED <<upload, net>>
  BY DEF InputVars
<1> HIDE DEF n, m, b
<1>5. CASE b.kind = "end" /\ b.ret = "found"
  <2>1. rbuf' = << >> /\ contentLen' = 0 /\ Again
    BY <1>3, <1>5 DEF FormOver
  <2>2. pc' = "end"
    <3>1. Len(rbuf') = 0 /\ ~(contentLen' + Len(rbuf') > 0)
      BY <2>1
    <3> QED
      BY <2>1, <3>1 DEF Again, Finish
  <2>3. m = n
    <3> SUFFICES ASSUME m < n PROVE FALSE
      BY <1>1, <1>2
    <3>1. HeadIn(rbuf)
      BY HeadLooks DEF m, n
    <3>2. Len(rbuf) < 12
      BY <1>1, <1>3, <3>1, BlankOfHead
    <3> QED
      BY <1>1, <1>5, <3>1, <3>2, HeadNoEnd DEF b
  <2>4. \A i \in DOMAIN told : told[i].full
    <3>1. DOMAIN told = 1..m
      BY <1>1 DEF m
    <3> QED
      BY <1>2, <3>1 DEF InHead, Full, m
  <2>5. rbuf' \in Seq(Char) /\ contentLen' \in 0..(Word - 1)
    BY <2>1, BufAssumption
  <2> QED
    BY <1>3, <1>4, <2>2, <2>3, <2>4, <2>5, Ended DEF m, n
<1>6. CASE ~(b.kind = "end" /\ b.ret = "found")
  <2>1. UNCHANGED <<rbuf, contentLen>>
    BY <1>3, <1>6
  <2>2. CASE contentLen > 0
    <3>1. Again
      BY <1>3, <1>6, <2>2
    <3>2. pc' = "rcv" /\ ercd' = ercd
      <4>1. contentLen' + Len(rbuf') > 0
        BY <1>1, <2>1, <2>2, BufAssumption
      <4> QED
        BY <3>1, <4>1 DEF Again
    <3>3. Place' = Place
      BY <1>3, <1>4, <2>1 DEF Place
    <3>4. BufShows'
      BY <1>2, <1>3, <1>4, <2>1, <3>3 DEF BufShows
    <3>5. InHead'
      BY <1>2, <1>3, <1>4, <3>3 DEF InHead, Full
    <3>6. /\ rdlen' \in 0..Len(rbuf') /\ Len(told') <= Len(upload.parts) /\ rbuf' \in Seq(Char)
          /\ Len(rbuf') = Len(rbuf) /\ stat' \in {"head", "body", "bodyend"}
          /\ told' \in Seq(Telling)
      BY <1>1, <1>2, <1>3, <2>1 DEF m, n
    <3> QED
      BY <1>4, <2>1, <3>2, <3>4, <3>5, <3>6, GoesOn
  <2>3. CASE ~(contentLen > 0)
    <3>1. pc' = "end" /\ ercd' # "E_OK"
      BY <1>3, <1>6, <2>3 DEF Finish
    <3> QED
      BY <1>1, <1>3, <1>4, <2>1, <3>1, Ended
  <2> QED
    BY <2>2, <2>3
<1> QED
  BY <1>5, <1>6

\* MPBODY and MPBODYEND: the body grows by what the client sent, and is whole when the
\* boundary is found.
LEMMA BodyStep ==
  IInv /\ pc = "parse" /\ stat \in {"body", "bodyend"} /\ Body /\ InputVars' = InputVars => IInv'
<1> SUFFICES ASSUME IInv, pc = "parse", stat \in {"body", "bodyend"}, Body,
                    InputVars' = InputVars
             PROVE  IInv'
  OBVIOUS
<1> DEFINE w == Whole(upload)
           n == Len(upload.parts)
           base == EndsOf(upload)
           m == Len(told)
           b == BdryChk[rbuf]
           l == Handed(b, rbuf)
           d == told[m].dat
           p == upload.parts[m]
           piece == SubSeq(rbuf, 1, l)
           x == [dat |-> d \o piece, full |-> b.ret = "found"]
<1>1. /\ Reading /\ rdlen = 0 /\ rbuf \in Seq(Char) /\ Len(rbuf) \in Nat /\ Len(net) \in Nat
      /\ w \in Seq(Char) /\ Len(w) \in Nat /\ n \in Nat /\ m \in Nat /\ told \in Seq(Telling)
      /\ Laid(base, n, w, upload.parts, Len(upload.extra))
      /\ Place = Len(w) - Len(net) - Len(rbuf) /\ contentLen \in 0..(Word - 1)
      /\ upload.parts \in [1..n -> Seq(Char)] /\ Len(upload.extra) \in Nat
  BY ParseFacts
<1>2. BufShows /\ m <= n /\ InBody
  BY <1>1 DEF Reading, InHead
<1>3. /\ m > 0 /\ \A i \in 1..(m - 1) : Full(i)
      /\ Shows(d, p, 0, Len(d)) /\ Len(d) <= Len(p) /\ Place + Len(p) = base[m] + Len(d)
  BY <1>2 DEF InBody
<1>4. UNCHANGED <<upload, net>>
  BY DEF InputVars
<1>5. /\ UNCHANGED <<rbuf, contentLen>>
      /\ \/ /\ told' = [told EXCEPT ![m] = x]
            /\ stat' = IF b.ret = "found" THEN "head"
                       ELSE IF b.ret = "part" THEN "bodyend" ELSE stat
            /\ rdlen' = l
            /\ Again
         \/ CbkFails /\ UNCHANGED <<rdlen, stat, told>>
  BY DEF Body, Handed
<1> HIDE DEF w, n, base, m, b
<1>6. m \in 1..n /\ m - 1 \in 0..n /\ m \in 0..n
  BY <1>1, <1>2, <1>3
<1>7. /\ base[m] \in Nat /\ base[m - 1] \in Nat /\ base[n] \in Nat /\ base[m] <= base[n]
      /\ base[m] = base[m - 1] + 12 + Len(p) /\ Shows(p, w, base[m - 1] + 12, Len(p))
      /\ base[n] + Len(upload.extra) + 9 <= Len(w)
  <2>1. n \in 0..n
    BY <1>1
  <2> QED
    BY <1>1, <1>6, <2>1 DEF Laid
<1>8. d \in Seq(Char) /\ p \in Seq(Char) /\ Len(d) \in Nat /\ Len(p) \in Nat
  <2>1. told[m] \in Telling
    BY <1>1, <1>3, ElementOfSeq DEF m
  <2>2. d \in Seq(Char) /\ p \in Seq(Char)
    BY <1>1, <1>6, <2>1 DEF Telling
  <2> QED
    BY <2>2, LenProperties
<1> HIDE DEF d, p, l
<1> DEFINE ld == Len(d)
           lp == Len(p)
           lr == Len(rbuf)
           bm == base[m]
           bn == base[m - 1]
<1>0. /\ ld \in Nat /\ lp \in Nat /\ lr \in Nat /\ bm \in Nat /\ bn \in Nat /\ Place \in Int
      /\ ld <= lp /\ Place + lp = bm + ld /\ bm = bn + 12 + lp
  <2>1. Place \in Int
    BY <1>1
  <2> QED
    BY <1>1, <1>3, <1>7, <1>8, <2>1 DEF d, p
<1> HIDE DEF ld, lp, lr, bm, bn
<1>9. Place = bn + 12 + ld /\ Place \in Nat /\ Place <= bm /\ bn + 12 <= Place
  BY ONLY <1>0
<1>10. Window(rbuf, w, Place)
  <2>1. Place + Len(rbuf) <= Len(w)
    BY <1>1
  <2>2. ASSUME NEW j \in 1..Len(rbuf) PROVE rbuf[j] = w[Place + j]
    <3>1. Len(rbuf) - rdlen = Len(rbuf) /\ rdlen + j = j
      BY <1>1
    <3> QED
      BY <1>2, <3>1 DEF BufShows, w
  <2> QED
    BY <2>1, <2>2 DEF Window, Shows
<1>11. /\ l \in 0..lr /\ Place + l <= bm /\ (b.ret = "found" => Place + l = bm)
       /\ b.ret \in {"found", "part", "none"}
  <2>1. base[m - 1] + 12 <= Place /\ Place <= base[m] /\ Place \in Nat
    BY <1>9 DEF bm, bn
  <2>2. b = BdryChk[rbuf]
    BY DEF b
  <2> HIDE DEF b
  <2>3. /\ Handed(b, rbuf) \in 0..Len(rbuf) /\ Place + Handed(b, rbuf) <= base[m]
        /\ b.ret = "found" => Place + Handed(b, rbuf) = base[m]
        /\ b.ret \in {"found", "part", "none"}
    BY <1>1, <1>6, <1>10, <2>1, <2>2, BodyHanded
  <2> QED
    BY <2>3 DEF l, bm, lr
<1>12. l \in Nat /\ piece \in Seq(Char) /\ Len(piece) = l /\ Shows(piece, rbuf, 0, l)
  <2>1. l \in Nat /\ l <= lr /\ 0 \in Nat /\ 0 <= l /\ 0 + 1 = 1 /\ l - 0 = l
    BY ONLY <1>0, <1>11
  <2>2. l <= Len(rbuf)
    BY <2>1 DEF lr
  <2> QED
    BY <1>1, <2>1, <2>2, Slice
<1> HIDE DEF piece
<1>13. Joined(d \o piece, d, Len(d), piece, l)
  BY <1>8, <1>12, Behind
<1>14. /\ d \o piece \in Seq(Char) /\ Len(d \o piece) = ld + l /\ ld + l <= lp
       /\ (b.ret = "found" => ld + l = lp)
  <2>1. d \o piece \in Seq(Char) /\ Len(d \o piece) = ld + l
    BY <1>13 DEF Joined, ld
  <2>2. l \in Nat /\ Place + l <= bm /\ (b.ret = "found" => Place + l = bm)
    BY <1>11, <1>12
  <2>3. ld + l <= lp
    BY ONLY <1>0, <2>2
  <2>4. b.ret = "found" => ld + l = lp
    <3> SUFFICES ASSUME b.ret = "found" PROVE ld + l = lp
      OBVIOUS
    <3>1. Place + l = bm
      BY <2>2
    <3> QED
      BY ONLY <1>0, <2>2, <3>1
  <2> QED
    BY <2>1, <2>3, <2>4
<1>15. Shows(d \o piece, p, 0, ld + l)
  <2>1. ASSUME NEW j \in 1..(ld + l) PROVE (d \o piece)[j] = p[0 + j]
    <3>1. CASE j <= ld
      <4>1. j \in 1..ld
        BY <1>0, <3>1
      <4>2. j \in 1..Len(d) /\ 0 + j = j
        BY <4>1 DEF ld
      <4>3. (d \o piece)[j] = d[j] /\ d[j] = p[0 + j]
        BY <1>3, <1>13, <4>2 DEF Joined, Shows
      <4> QED
        BY <4>3
    <3>2. CASE ~(j <= ld)
      <4>1. PICK v \in 1..l : j = ld + v
        <5>1. j - ld \in 1..l /\ j = ld + (j - ld)
          BY <1>0, <1>12, <3>2
        <5> QED
          BY <5>1
      <4>2. /\ v \in 1..lr /\ 0 + v = v /\ 0 + j = j /\ j \in 1..lp
            /\ Place + v = (bn + 12) + j
        <5>1. l \in 0..lr /\ ld + l <= lp /\ Place = bn + 12 + ld
          BY <1>9, <1>11, <1>14
        <5> QED
          BY ONLY <1>0, <4>1, <5>1
      <4>3. (d \o piece)[ld + v] = piece[v] /\ piece[v] = rbuf[0 + v]
        BY <1>12, <1>13 DEF Joined, Shows, ld
      <4>4. rbuf[v] = w[Place + v]
        BY <1>10, <4>2 DEF Window, Shows, lr
      <4>5. p[j] = w[(bn + 12) + j]
        BY <1>7, <4>2 DEF Shows, lp, bn
      <4> DEFINE y == d \o piece
      <4>6. y[j] = piece[v] /\ piece[v] = rbuf[v] /\ rbuf[v] = p[j]
        <5>1. y[ld + v] = piece[v] /\ piece[v] = rbuf[v]
          BY <4>2, <4>3
        <5>2. rbuf[v] = p[j]
          BY <4>2, <4>4, <4>5
        <5> HIDE DEF y
        <5> QED
          BY <4>1, <5>1, <5>2
      <4> HIDE DEF y
      <4>7. y[j] = p[0 + j]
        BY <4>2, <4>6
      <4> QED
        BY <4>7 DEF y
    <3> QED
      BY <3>1, <3>2
  <2> QED
    BY <2>1 DEF Shows
<1>16. x \in Telling /\ x.dat = d \o piece /\ x.full = (b.ret = "found")
  BY <1>14 DEF Telling
<1>17. ASSUME CbkFails, UNCHANGED <<rdlen, stat, told>>
       PROVE  IInv'
  BY <1>1, <1>4, <1>5, <1>17, Ended DEF CbkFails, Finish
<1> HIDE DEF x
<1>18. Again => pc' = "rcv" /\ ercd' = ercd
  <2> DEFINE c == contentLen
             e == Len(upload.extra)
             t == Len(net)
             lw == Len(w)
             end == base[n]
  <2>1. /\ c \in Nat /\ e \in Nat /\ t \in Nat /\ lw \in Nat /\ end \in Nat
        /\ c = t - e \/ t <= e
        /\ bm <= end /\ end + e + 9 <= lw /\ Place = lw - t - lr
    BY <1>1, <1>7, BufAssumption DEF Reading, lr, bm
  <2> HIDE DEF c, e, t, lw, end
  <2>2. c + lr > 0
    BY ONLY <1>0, <1>9, <2>1
  <2> QED
    BY <1>5, <2>2 DEF Again, c, lr
<1>19. CASE /\ told' = [told EXCEPT ![m] = x]
            /\ stat' = IF b.ret = "found" THEN "head"
                       ELSE IF b.ret = "part" THEN "bodyend" ELSE stat
            /\ rdlen' = l
            /\ Again
  <2>1. /\ told' \in Seq(Telling) /\ Len(told') = m /\ told'[m] = x
        /\ \A i \in 1..(m - 1) : told'[i] = told[i]
    BY <1>1, <1>3, <1>16, <1>19, Replaced DEF m
  <2>2. Place' = Place + l
    <3>1. Place' = Len(w) - Len(net) - (Len(rbuf) - l)
      BY <1>4, <1>5, <1>19 DEF Place, w
    <3> DEFINE lw == Len(w)
               ln == Len(net)
    <3>2. /\ Place' = lw - ln - (lr - l) /\ Place = lw - ln - lr
          /\ lw \in Nat /\ ln \in Nat /\ lr \in Nat /\ l \in Nat
      BY <1>1, <1>12, <3>1 DEF lr
    <3> HIDE DEF lw, ln
    <3> QED
      BY ONLY <3>2
  <2>3. BufShows'
    <3>1. ASSUME NEW j \in 1..(Len(rbuf) - l) PROVE rbuf[l + j] = w[(Place + l) + j]
      <4>1. l + j \in 1..Len(rbuf) /\ Place + (l + j) = (Place + l) + j
        <5>1. j \in 1..(lr - l) /\ l \in 0..lr
          BY <1>11 DEF lr
        <5>2. l + j \in 1..lr /\ Place + (l + j) = (Place + l) + j
          BY ONLY <1>0, <5>1
        <5> QED
          BY <5>2 DEF lr
      <4> QED
        BY <1>10, <4>1 DEF Window, Shows
    <3>2. rbuf' = rbuf /\ upload' = upload /\ rdlen' = l
      BY <1>4, <1>5, <1>19
    <3> QED
      BY <2>2, <3>1, <3>2 DEF BufShows, w
  <2>6. /\ UNCHANGED <<upload, net, contentLen>> /\ rbuf' \in Seq(Char) /\ Len(rbuf') = Len(rbuf)
        /\ rdlen' \in 0..Len(rbuf') /\ Len(told') <= Len(upload.parts)
    BY <1>1, <1>2, <1>4, <1>5, <1>11, <1>19, <2>1 DEF n, lr
  <2>4. CASE b.ret = "found"
    <3>1. stat' = "head" /\ x.full = TRUE
      BY <1>16, <1>19, <2>4
    <3>2. x.dat = p
      <4> DEFINE y == d \o piece
      <4>1. y \in Seq(Char) /\ p \in Seq(Char) /\ Len(y) = Len(p) /\ Shows(y, p, 0, Len(p))
        BY <1>8, <1>14, <1>15, <2>4 DEF lp
      <4> HIDE DEF y
      <4>2. \A j \in 1..Len(y) : y[j] = p[j]
        <5>1. \A j \in 1..Len(p) : 0 + j = j
          OBVIOUS
        <5> QED
          BY <4>1, <5>1 DEF Shows
      <4>3. y = p
        BY <4>1, <4>2, SeqEqual
      <4> QED
        BY <1>16, <4>3 DEF y
    <3>3. x = [dat |-> p, full |-> TRUE]
      BY <1>16, <3>1, <3>2 DEF Telling
    <3>4. ASSUME NEW i \in 1..m PROVE told'[i] = [dat |-> upload.parts[i], full |-> TRUE]
      <4>1. CASE i = m
        BY <2>1, <3>3, <4>1 DEF p
      <4>2. CASE i # m
        <5>1. i \in 1..(m - 1)
          BY <1>1, <4>2
        <5> QED
          BY <1>3, <2>1, <5>1 DEF Full
      <4> QED
        BY <4>1, <4>2
    <3>5. InHead'
      <4>1. Place' = base[m] /\ upload' = upload /\ Len(told') = m
        BY <1>4, <1>11, <2>1, <2>2, <2>4 DEF bm
      <4> QED
        BY <3>1, <3>4, <4>1 DEF InHead, Full, base
    <3> QED
      BY <1>18, <1>19, <2>1, <2>3, <2>6, <3>1, <3>5, GoesOn
  <2>5. CASE b.ret # "found"
    <3>1. stat' \in {"body", "bodyend"} /\ x.full = FALSE
      BY <1>16, <1>19, <2>5
    <3>2. ASSUME NEW i \in 1..(m - 1) PROVE told'[i] = [dat |-> upload.parts[i], full |-> TRUE]
      BY <1>3, <2>1 DEF Full
    <3>3. Place' + lp = bm + (ld + l)
      BY ONLY <1>0, <1>12, <2>2
    <3>4. InBody'
      <4> DEFINE y == told'[m].dat
      <4>1. /\ Len(y) = Len(d) + l /\ Shows(y, p, 0, Len(y)) /\ Len(y) <= Len(p)
            /\ Place' + Len(p) = base[m] + Len(y)
        <5>1. y = d \o piece
          BY <1>16, <2>1
        <5> HIDE DEF y
        <5>2. /\ Len(y) = ld + l /\ Shows(y, p, 0, ld + l) /\ Len(y) <= lp
              /\ Place' + lp = bm + Len(y)
          BY <1>14, <1>15, <3>3, <5>1
        <5> QED
          BY <5>2 DEF ld, lp, bm
      <4>2. told'[m].full = FALSE /\ m > 0 /\ upload' = upload
        BY <1>3, <1>4, <2>1, <3>1
      <4> QED
        BY <2>1, <3>1, <3>2, <4>1, <4>2 DEF InBody, Full, base, p
    <3> QED
      BY <1>18, <1>19, <2>1, <2>3, <2>6, <3>1, <3>4, GoesOn
  <2> QED
    BY <2>4, <2>5
<1> QED
  BY <1>5, <1>17, <1>19

\* Every step keeps the invariant.
LEMMA StepIInv == IInv /\ [Next]_vars => IInv'
<1> SUFFICES ASSUME IInv, [Next]_vars PROVE IInv'
  OBVIOUS
<1>1. CASE Start
  BY <1>1, StartStep
<1>2. CASE Setup
  BY <1>2, SetupStep
<1>3. CASE ContentRcv
  BY <1>3, ContentRcvStep
<1>4. CASE Parse
  <2>1. /\ pc = "parse" /\ InputVars' = InputVars
        /\ \/ stat = "head" /\ (Head1 \/ Head2)
           \/ stat \in {"body", "bodyend"} /\ Body
    BY <1>4 DEF Parse
  <2> QED
    BY <2>1, Head1Step, Head2Step, BodyStep
<1>5. CASE UNCHANGED vars
  <2>1. UNCHANGED <<upload, net, rbuf, rdlen, contentLen, stat, pc, ercd, told>>
    BY <1>5 DEF vars
  <2>2. Place' = Place
    BY <2>1 DEF Place
  <2>3. (Shape <=> Shape') /\ (TypeOK <=> TypeOK')
    BY <2>1 DEF Shape, TypeOK
  <2>4. (NetShows <=> NetShows') /\ (PartsExact <=> PartsExact')
    BY <2>1 DEF NetShows, PartsExact
  <2>5. Starting <=> Starting'
    BY <2>1 DEF Starting, Loaded
  <2>6. Reading => Reading'
    <3> SUFFICES ASSUME Reading PROVE Reading'
      OBVIOUS
    <3>1. BufShows'
      BY <2>1, <2>2 DEF Reading, BufShows
    <3> QED
      BY <2>1, <2>2, <3>1, ReadingKept DEF Reading
  <2> QED
    BY <2>1, <2>3, <2>4, <2>5, <2>6 DEF IInv
<1>6. CASE Done
  BY <1>5, <1>6 DEF Done
<1> QED
  BY <1>1, <1>2, <1>3, <1>4, <1>5, <1>6 DEF Next

\* For every form, cut and buffer size the NUL stays inside the buffer, and the count of
\* bytes that are missing inside its word.
THEOREM TypeCorrect == Spec => []TypeOK
<1>1. IInv => TypeOK
  BY DEF IInv
<1> QED
  BY <1>1, InitIInv, StepIInv, PTL DEF Spec

\* For every well-formed form, however the socket cuts it and whatever fails: the callback
\* is given the bodies byte for byte and in order, and a success means all of them.
THEOREM BodiesExact == Spec => []PartsExact
<1>1. IInv => PartsExact
  <2> SUFFICES ASSUME IInv PROVE PartsExact
    OBVIOUS
  <2>1. Shape /\ TypeOK
    BY DEF IInv
  <2>2. pc \in {"start", "setup", "rcv", "parse", "end"}
    BY <2>1 DEF TypeOK
  <2>3. CASE pc = "end"
    BY <2>3 DEF IInv
  <2>4. CASE pc \in {"rcv", "parse"}
    BY <2>1, <2>4, ReadingExact DEF IInv, Exact, PartsExact
  <2>5. CASE pc \in {"start", "setup"}
    <3>1. told = << >> /\ Len(told) = 0 /\ DOMAIN told = {}
      BY <2>5 DEF IInv, Starting
    <3>2. Len(upload.parts) \in Nat
      BY <2>1, UploadFacts DEF Shape
    <3> QED
      BY <2>5, <3>1, <3>2 DEF PartsExact
  <2> QED
    BY <2>2, <2>3, <2>4, <2>5
<1> QED
  BY <1>1, InitIInv, StepIInv, PTL DEF Spec

=============================================================================
