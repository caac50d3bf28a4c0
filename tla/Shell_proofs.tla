---------------------------- MODULE Shell_proofs ----------------------------
(* The shell for any buffers, history, table of users and words typed.           *)
EXTENDS Shell, TLAPS, FiniteSetTheorems, SequenceTheorems

LEMMA Sizes ==
  /\ HistNum \in Nat \ {0} /\ CmdLen \in Nat \ {0} /\ AnswerLen \in Nat \ {0}
  /\ LoginRetry \in Nat /\ Questions \in Nat \ {0}
  /\ CmdChars \cap Secrets = {} /\ Size \in Nat \ {0}
  BY SizeAssumption DEF Size

LEMMA LineIs ==
  ASSUME NEW S, NEW n \in Nat \ {0}, NEW x
  PROVE  x \in Line(S, n) <=> x \in Seq(S) /\ Len(x) <= n - 1
  BY DEF Line, BoundedSeq, SeqOf

LEMMA SlotOK == 0 \in Slots /\ \A n \in Slots, k \in Nat : (n + k) % HistNum \in Slots
  BY Sizes DEF Slots

(* What is appended does not show before the end; all of a sequence is the sequence. *)
LEMMA WholeLine ==
  ASSUME NEW S, NEW s \in Seq(S), esc_cnt = 0
  PROVE  BeforeEscape(s) = s
  BY SubSeqFull DEF BeforeEscape

LEMMA BeforeEnd ==
  ASSUME NEW S, NEW s \in Seq(S), NEW e \in S, NEW m \in 0..Len(s)
  PROVE  SubSeq(Append(s, e), 1, m) = SubSeq(s, 1, m)
<1> DEFINE t == Append(s, e)
<1>1. t \in Seq(S) /\ \A i \in 1..m : t[i] = s[i] /\ s[i] \in S
  OBVIOUS
<1> HIDE DEF t
<1>2. SubSeq(t, 1, m) \in Seq(S) /\ Len(SubSeq(t, 1, m)) = m
      /\ \A i \in 1..m : SubSeq(t, 1, m)[i] = t[i]
  BY <1>1
<1>3. SubSeq(s, 1, m) \in Seq(S) /\ Len(SubSeq(s, 1, m)) = m
      /\ \A i \in 1..m : SubSeq(s, 1, m)[i] = s[i]
  BY <1>1
<1>4. SubSeq(t, 1, m) = SubSeq(s, 1, m)
  BY <1>1, <1>2, <1>3, SeqEqual
<1> QED BY <1>4 DEF t

(* A prefix is a sequence of the same elements.                                      *)
LEMMA PrefixType ==
  ASSUME NEW S, NEW s \in Seq(S), NEW m \in 0..Len(s)
  PROVE  SubSeq(s, 1, m) \in Seq(S) /\ Len(SubSeq(s, 1, m)) = m
  OBVIOUS

-----------------------------------------------------------------------------
(* The inductive invariant.                                                          *)

Questioning ==
  /\ at \in {"usr", "pwd", "cmd", "answer"}
  /\ retry \in 0..LoginRetry /\ asked \in 0..(Questions - 1)
  /\ usr \in Line(Secrets, AnswerLen)

(* The bytes of a key still to come are those of a whole sequence.                     *)
Pressing ==
  \/ esc_cnt = 0 /\ keys = <<>>
  \/ esc_cnt = 1 /\ \E k \in {"A", "B", "C"} : keys = <<"[", k>>
  \/ esc_cnt = 2 /\ \E k \in {"A", "B", "C"} : keys = <<k>>

(* The buffer is a line for the question asked and the escape sequence behind it, and   *)
(* has room for what is still to come of that.                                           *)
Bytes == CmdChars \cup Secrets \cup {"esc", "["}
Buffer ==
  /\ buf \in Seq(Bytes) /\ esc_cnt <= Len(buf)
  /\ Len(buf) + (IF esc_cnt = 0 THEN 1 ELSE 3 - esc_cnt) <= Size
  /\ BeforeEscape(buf) \in Seq(Chars)

(* The ring holds lines of the command prompt, and can be looked through there only.     *)
Rings == [ena : BOOLEAN, ncnt : Slots, scnt : Slots, buf : [Slots -> Line(CmdChars, CmdLen)]]
Ring == hist \in Rings /\ (hist.ena <=> at = "cmd")

IInv == Questioning /\ Pressing /\ Buffer /\ Ring

LEMMA EmptyRing == utl_his_ini \in Rings /\ <<>> \in Line(CmdChars, CmdLen)
                   /\ <<>> \in Line(Secrets, AnswerLen)
<1>1. <<>> \in Line(CmdChars, CmdLen) /\ <<>> \in Line(Secrets, AnswerLen)
  <2>1. <<>> \in Seq(CmdChars) /\ <<>> \in Seq(Secrets) /\ Len(<<>>) = 0
    OBVIOUS
  <2>2. 0 <= CmdLen - 1 /\ 0 <= AnswerLen - 1
    BY Sizes
  <2> QED BY <2>1, <2>2, LineIs, Sizes
<1> QED BY <1>1, SlotOK DEF utl_his_ini, Rings

LEMMA EnabledRing ==
  ASSUME NEW h \in Rings, NEW b \in BOOLEAN
  PROVE  utl_his_enable(h, b) \in Rings /\ utl_his_enable(h, b).ena = b
         /\ utl_his_enable(h, b).buf = h.buf
  BY DEF utl_his_enable, Rings

LEMMA StoredRing ==
  ASSUME hist \in Rings, NEW line \in Line(CmdChars, CmdLen)
  PROVE  utl_his_store(line) \in Rings /\ utl_his_store(line).ena = hist.ena
<1>1. (hist.ncnt + 1) % HistNum \in Slots /\ (hist.scnt + 1) % HistNum \in Slots
  BY SlotOK DEF Rings
<1>2. CASE hist.ena /\ line # <<>>
  <2>1. [hist.buf EXCEPT ![hist.scnt] = line] \in [Slots -> Line(CmdChars, CmdLen)]
    BY DEF Rings
  <2> QED BY <1>1, <1>2, <2>1 DEF utl_his_store, Rings
<1>3. CASE ~(hist.ena /\ line # <<>>)
  BY <1>3 DEF utl_his_store
<1> QED BY <1>2, <1>3

LEMMA InitIInv == Init => IInv
<1> SUFFICES ASSUME Init PROVE IInv
  OBVIOUS
<1>1. Questioning /\ Pressing
  BY Sizes, EmptyRing DEF Init, Questioning, Pressing
<1>2. Buffer
  <2>1. Len(<<>>) = 0 /\ SubSeq(<<>>, 1, 0 - 0) = <<>> /\ <<>> \in Seq(Bytes) /\ <<>> \in Seq(Chars)
    BY SubSeqEmpty
  <2> QED BY <2>1, Sizes DEF Init, Buffer, BeforeEscape
<1>3. Ring
  BY EmptyRing DEF Init, Ring, utl_his_ini
<1> QED BY <1>1, <1>2, <1>3 DEF IInv

-----------------------------------------------------------------------------
(* What is asked next.                                                                     *)

Asking == Questioning' /\ Ring'

LEMMA StartOverOK == StartOver => Asking
  BY EmptyRing, Sizes DEF StartOver, Asking, Questioning, Ring, utl_his_ini

LEMMA PromptOK ==
  ASSUME NEW h \in Rings, Prompt(h), retry' \in 0..LoginRetry, usr' \in Line(Secrets, AnswerLen)
  PROVE  Asking
<1>1. utl_his_enable(h, TRUE) \in Rings /\ utl_his_enable(h, TRUE).ena = TRUE
  BY EnabledRing
<1>2. Ring'
  <2>1. hist' \in Rings /\ hist'.ena = TRUE /\ at' = "cmd"
    BY <1>1 DEF Prompt
  <2> QED BY <2>1 DEF Ring, Rings
<1> QED BY <1>2, Sizes DEF Prompt, Asking, Questioning

LEMMA RefusedOK == IInv /\ at \in {"usr", "pwd"} /\ Refused => Asking
<1> SUFFICES ASSUME IInv, at \in {"usr", "pwd"}, Refused PROVE Asking
  OBVIOUS
<1>1. CASE retry < LoginRetry /\ at' = "usr" /\ retry' = retry + 1 /\ usr' = <<>> /\ UNCHANGED <<asked, hist>>
  BY <1>1, EmptyRing, Sizes DEF IInv, Asking, Questioning, Ring
<1> QED BY <1>1, StartOverOK DEF Refused

LEMMA AnsweredOK == IInv /\ at = "answer" /\ Answered => Asking
<1> SUFFICES ASSUME IInv, at = "answer", Answered PROVE Asking
  OBVIOUS
<1>1. CASE asked + 1 < Questions /\ asked' = asked + 1 /\ UNCHANGED <<at, hist>>
  BY <1>1, Sizes DEF IInv, Answered, AuthVars, Asking, Questioning, Ring
<1>2. CASE Prompt(hist)
  BY <1>2, PromptOK DEF IInv, Answered, AuthVars, Questioning, Ring
<1> QED BY <1>1, <1>2 DEF Answered

LEMMA AuthOK ==
  ASSUME IInv, esc_cnt = 0, at \in {"usr", "pwd"}, shell_auth(buf)
  PROVE  Asking
<1>1. buf \in Line(Secrets, AnswerLen)
  <2>1. buf \in Seq(Secrets)
    BY WholeLine DEF IInv, Buffer, Chars
  <2> QED BY <2>1, LineIs, Sizes DEF IInv, Buffer, Size
<1>2. CASE at = "usr"
  BY <1>1, <1>2 DEF shell_auth, IInv, Asking, Questioning, Ring
<1>3. CASE at = "pwd" /\ <<usr, buf>> \in Accounts
  BY <1>3, EmptyRing, PromptOK, Sizes DEF shell_auth
<1>4. CASE at = "pwd" /\ <<usr, buf>> \notin Accounts
  BY <1>4, RefusedOK DEF shell_auth
<1> QED BY <1>2, <1>3, <1>4

LEMMA InputOK ==
  ASSUME IInv, at = "cmd", NEW h \in Rings, h.ena = FALSE, shell_input(buf, h)
  PROVE  Asking
<1>1. CASE StartOver
  BY <1>1, StartOverOK
<1>2. CASE at' = "answer" /\ asked' = 0 /\ hist' = h /\ UNCHANGED AuthVars
  BY <1>2, Sizes DEF IInv, AuthVars, Asking, Questioning, Ring
<1>3. CASE Prompt(h) /\ UNCHANGED AuthVars
  BY <1>3, PromptOK DEF IInv, AuthVars, Questioning
<1> QED BY <1>1, <1>2, <1>3 DEF shell_input

(* An empty buffer suits every question.                                                    *)
LEMMA EmptyBuffer ==
  ASSUME Asking, buf' = <<>>, esc_cnt' = 0
  PROVE  Buffer'
<1>1. Size' \in Nat \ {0}
  BY Sizes DEF Size
<1>2. Len(<<>>) = 0 /\ SubSeq(<<>>, 1, 0 - 0) = <<>> /\ <<>> \in Seq(Bytes) /\ <<>> \in Seq(Chars')
  BY SubSeqEmpty
<1> QED BY <1>1, <1>2 DEF Buffer, BeforeEscape, Bytes

-----------------------------------------------------------------------------
(* What a byte does to the line in the buffer.                                               *)

Text == BeforeEscape(buf)

LEMMA TextIs ==
  ASSUME IInv
  PROVE  /\ Text \in Seq(Chars) /\ Len(Text) = Len(buf) - esc_cnt /\ Len(Text) \in 0..(Size - 1)
         /\ esc_cnt \in 0..2 /\ Len(buf) \in Nat /\ buf \in Seq(Bytes) /\ Size \in Nat \ {0}
         /\ esc_cnt = 0 => Text = buf
<1>1. esc_cnt \in 0..2 /\ buf \in Seq(Bytes) /\ Len(buf) \in Nat /\ esc_cnt <= Len(buf)
  BY DEF IInv, Pressing, Buffer
<1>2. Len(Text) = Len(buf) - esc_cnt
  BY <1>1, PrefixType DEF Text, BeforeEscape
<1>3. Len(buf) + (IF esc_cnt = 0 THEN 1 ELSE 3 - esc_cnt) <= Size
  BY DEF IInv, Buffer
<1> QED BY <1>1, <1>2, <1>3, WholeLine, Sizes DEF IInv, Buffer, Text

LEMMA TypedText ==
  ASSUME IInv, NEW c \in Chars, Typed(c)
  PROVE  Text' = Append(Text, c) /\ Buffer'
<1>1. esc_cnt' = 0 /\ esc_cnt = 0 /\ buf' = Append(buf, c) /\ Len(buf) + 1 < Size /\ UNCHANGED at
  BY DEF Typed, KeyVars, AskVars
<1>2. c \in Bytes
  BY DEF Chars, Bytes
<1>3. buf' \in Seq(Bytes) /\ Len(buf') = Len(buf) + 1
  BY <1>1, <1>2, TextIs
<1>4. Text' = buf' /\ Text = buf
  <2>1. SubSeq(buf', 1, Len(buf') - 0) = buf'
    BY <1>3, SubSeqFull
  <2> QED BY <1>1, <2>1, TextIs DEF Text, BeforeEscape
<1>5. Text' \in Seq(Chars')
  BY <1>1, <1>4, TextIs DEF Chars
<1> QED BY <1>1, <1>3, <1>4, <1>5, TextIs DEF Buffer, Text, Size, Bytes

LEMMA BackspaceText ==
  ASSUME IInv, Backspace
  PROVE  Text' = (IF Text = <<>> THEN Text ELSE Front(Text)) /\ Buffer'
<1>1. esc_cnt' = 0 /\ esc_cnt = 0 /\ buf' = (IF buf = <<>> THEN buf ELSE Front(buf)) /\ UNCHANGED at
  BY DEF Backspace, KeyVars, AskVars
<1>2. Text = buf /\ buf \in Seq(Bytes) /\ buf \in Seq(Chars)
  BY <1>1, TextIs
<1>3. buf' \in Seq(Bytes) /\ buf' \in Seq(Chars) /\ Len(buf') <= Len(buf)
  <2>1. CASE buf = <<>>
    BY <1>1, <1>2, <2>1
  <2>2. CASE buf # <<>>
    <3>1. Len(buf) - 1 \in 0..Len(buf)
      BY <1>2, <2>2
    <3> QED BY <1>1, <1>2, <2>2, <3>1, PrefixType DEF Front
  <2> QED BY <2>1, <2>2
<1>4. Text' = buf'
  <2>1. SubSeq(buf', 1, Len(buf') - 0) = buf'
    BY <1>3, SubSeqFull
  <2> QED BY <1>1, <2>1 DEF Text, BeforeEscape
<1> QED BY <1>1, <1>2, <1>3, <1>4, TextIs DEF Buffer, Text, Size, Bytes, Chars, IInv

LEMMA ClearedText ==
  ASSUME buf' = <<>>, esc_cnt' = 0
  PROVE  Text' = <<>>
  BY SubSeqEmpty DEF Text, BeforeEscape

LEMMA EscapeText ==
  ASSUME IInv, NEW key \in {"A", "B", "C"}, Escape(key)
  PROVE  Text' = Text /\ Buffer'
<1>1. /\ esc_cnt = 0 /\ esc_cnt' = 1 /\ buf' = Append(buf, "esc") /\ Len(buf) + 3 <= Size
      /\ UNCHANGED at
  BY DEF Escape, AskVars
<1>2. "esc" \in Bytes
  BY DEF Bytes
<1>3. buf' \in Seq(Bytes) /\ Len(buf') = Len(buf) + 1
  BY <1>1, <1>2, TextIs
<1>4. Text' = SubSeq(Append(buf, "esc"), 1, Len(buf) - 0) /\ Text = SubSeq(buf, 1, Len(buf) - 0)
  BY <1>1, <1>3, TextIs DEF Text, BeforeEscape
<1>5. Text' = Text
  BY <1>2, <1>4, TextIs, BeforeEnd
<1> QED BY <1>1, <1>3, <1>5, TextIs DEF Buffer, Text, Size, Bytes, Chars

LEMMA EscapeSecondText ==
  ASSUME IInv, EscapeSecond
  PROVE  Text' = Text /\ Buffer'
<1>1. /\ esc_cnt = 1 /\ esc_cnt' = 2 /\ buf' = Append(buf, Head(keys)) /\ UNCHANGED at
  BY DEF EscapeSecond, AskVars
<1>2. Head(keys) = "[" /\ "[" \in Bytes
  BY <1>1 DEF Bytes, IInv, Pressing
<1>3. buf' \in Seq(Bytes) /\ Len(buf') = Len(buf) + 1 /\ Len(buf) - 1 \in 0..Len(buf)
  BY <1>1, <1>2, TextIs
<1>4. Text' = SubSeq(Append(buf, "["), 1, Len(buf) - 1) /\ Text = SubSeq(buf, 1, Len(buf) - 1)
  BY <1>1, <1>2, <1>3, TextIs DEF Text, BeforeEscape
<1>5. Text' = Text
  BY <1>2, <1>3, <1>4, TextIs, BeforeEnd
<1>6. Len(buf) + 2 <= Size
  BY <1>1, TextIs DEF IInv, Buffer
<1> QED BY <1>1, <1>3, <1>5, <1>6, TextIs DEF Buffer, Text, Size, Bytes, Chars

LEMMA EscapeThirdText ==
  ASSUME IInv, EscapeThird
  PROVE  LET s == NextSlot(Head(keys)) IN
         /\ \/ /\ hist.ena /\ s \in Slots
               /\ Text' = hist.buf[s] /\ hist' = Exchanged(s, Text)
            \/ Text' = Text /\ hist' = hist
         /\ Buffer' /\ Ring'
<1> DEFINE s == NextSlot(Head(keys))
<1>1. esc_cnt = 2 /\ esc_cnt' = 0 /\ UNCHANGED at
  BY DEF EscapeThird, AskVars
<1>2. s \in Slots
  <2>1. hist.ncnt \in Slots /\ HistNum - 1 \in Nat
    BY Sizes DEF IInv, Ring, Rings
  <2> QED BY <2>1, SlotOK DEF NextSlot
<1>3. Text \in Seq(Bytes) /\ Text \in Seq(Chars) /\ Len(Text) + 1 <= Size
  <2>1. Text \in Seq(Chars) /\ Chars \subseteq Bytes
    BY TextIs DEF Chars, Bytes
  <2> QED BY <2>1, TextIs, SeqMonotonic
<1>4. ASSUME NEW line \in Seq(Bytes), line \in Seq(Chars), Len(line) + 1 <= Size, buf' = line
      PROVE  Text' = line /\ Buffer'
  <2>1. SubSeq(line, 1, Len(line) - 0) = line /\ Len(line) \in Nat
    BY SubSeqFull
  <2>2. Text' = line
    BY <1>1, <1>4, <2>1 DEF Text, BeforeEscape
  <2> QED BY <1>1, <1>4, <2>1, <2>2 DEF Buffer, Text, Size, Chars, Bytes
<1>5. CASE hist.ena /\ buf' = hist.buf[s] /\ hist' = Exchanged(s, Text)
  <2>1. at = "cmd" /\ hist \in Rings
    BY <1>5 DEF IInv, Ring
  <2>2. hist.buf[s] \in Line(CmdChars, CmdLen) /\ Text \in Line(CmdChars, CmdLen)
    BY <1>2, <1>3, <2>1, LineIs, Sizes DEF Rings, Chars, Size
  <2>3. hist.buf[s] \in Seq(CmdChars) /\ Len(hist.buf[s]) <= CmdLen - 1 /\ Chars = CmdChars /\ Size = CmdLen
    BY <2>1, <2>2, LineIs, Sizes DEF Chars, Size
  <2>4. hist.buf[s] \in Seq(Bytes)
    BY <2>3, SeqMonotonic DEF Bytes
  <2>5. Text' = hist.buf[s] /\ Buffer'
    BY <1>4, <1>5, <2>3, <2>4, Sizes
  <2>6. Ring'
    <3>1. [hist.buf EXCEPT ![s] = Text] \in [Slots -> Line(CmdChars, CmdLen)]
      BY <2>1, <2>2 DEF Rings
    <3>2. Exchanged(s, Text) \in Rings /\ Exchanged(s, Text).ena = hist.ena
      BY <1>2, <2>1, <3>1 DEF Exchanged, Rings
    <3> QED BY <1>1, <1>5, <2>1, <3>2 DEF Ring, Rings
  <2> QED BY <1>2, <1>5, <2>5, <2>6
<1>6. CASE buf' = Text /\ hist' = hist
  <2>1. Text' = Text /\ Buffer'
    BY <1>3, <1>4, <1>6
  <2> QED BY <1>1, <1>6, <2>1 DEF IInv, Ring
<1>7. (hist.ena /\ buf' = hist.buf[s] /\ hist' = Exchanged(s, Text)) \/ (buf' = Text /\ hist' = hist)
  BY DEF EscapeThird, Text
<1> QED BY <1>5, <1>6, <1>7

-----------------------------------------------------------------------------
(* The invariant holds.                                                                       *)

LEMMA KeyBytes ==
  ASSUME NEW a, NEW b
  PROVE  /\ Len(<<a, b>>) = 2 /\ <<a, b>> # <<>> /\ Tail(<<a, b>>) = <<b>>
         /\ Len(<<b>>) = 1 /\ <<b>> # <<>>
<1>1. <<a, b>> \in Seq({a, b}) /\ <<b>> \in Seq({a, b}) /\ Len(<<a, b>>) = 2 /\ Len(<<b>>) = 1
  OBVIOUS
<1>2. <<a, b>>[2] = b /\ <<b>>[1] = b
  OBVIOUS
<1>3. <<a, b>> # <<>> /\ <<b>> # <<>>
  BY <1>1
<1> DEFINE t == <<a, b>>
           u == <<b>>
<1>4. t \in Seq({a, b}) /\ u \in Seq({a, b}) /\ Len(t) = 2 /\ Len(u) = 1 /\ t[2] = u[1] /\ t # <<>>
  BY <1>1, <1>2, <1>3
<1> HIDE DEF t, u
<1>5. Tail(t) \in Seq({a, b}) /\ Len(Tail(t)) = 1 /\ \A i \in 1..1 : Tail(t)[i] = t[i + 1]
  BY <1>4, HeadTailProperties
<1>6. \A i \in 1..Len(u) : Tail(t)[i] = u[i]
  BY <1>4, <1>5
<1>7. Tail(t) = u
  BY <1>4, <1>5, <1>6, SeqEqual
<1> QED BY <1>1, <1>3, <1>7 DEF t, u

LEMMA StepIInv == IInv /\ [Next]_vars => IInv'
<1> SUFFICES ASSUME IInv, [Next]_vars PROVE IInv'
  OBVIOUS
<1>1. ASSUME NEW c \in Chars, Typed(c) PROVE IInv'
  BY <1>1, TypedText DEF Typed, KeyVars, AskVars, IInv, Questioning, Pressing, Ring
<1>2. CASE TooLong
  <2>1. Asking
    <3>1. CASE at \in {"usr", "pwd"} /\ Refused
      BY <3>1, RefusedOK
    <3>2. CASE at = "cmd" /\ Prompt(utl_his_enable(hist, FALSE)) /\ UNCHANGED AuthVars
      BY <3>2, PromptOK, EnabledRing DEF IInv, AuthVars, Questioning, Ring
    <3>3. CASE at = "answer" /\ Answered
      BY <3>3, AnsweredOK
    <3> QED BY <1>2, <3>1, <3>2, <3>3 DEF TooLong
  <2>2. Buffer'
    BY <1>2, <2>1, EmptyBuffer DEF TooLong, KeyVars
  <2> QED BY <1>2, <2>1, <2>2 DEF TooLong, KeyVars, Asking, IInv, Pressing
<1>3. CASE Backspace
  BY <1>3, BackspaceText DEF Backspace, KeyVars, AskVars, IInv, Questioning, Pressing, Ring
<1>4. CASE DropLine
  <2>1. Asking
    BY <1>4 DEF DropLine, AskVars, Asking, IInv, Questioning, Ring
  <2>2. Buffer'
    BY <1>4, <2>1, EmptyBuffer DEF DropLine, KeyVars
  <2> QED BY <1>4, <2>1, <2>2 DEF DropLine, KeyVars, Asking, IInv, Pressing
<1>5. CASE CarriageReturn
  <2>1. Asking
    <3>1. CASE at \in {"usr", "pwd"} /\ shell_auth(buf)
      BY <1>5, <3>1, AuthOK DEF CarriageReturn
    <3>2. CASE at = "cmd" /\ shell_input(buf, utl_his_enable(utl_his_store(buf), FALSE))
      <4>1. buf \in Line(CmdChars, CmdLen)
        <5>1. buf \in Seq(CmdChars) /\ Len(buf) <= CmdLen - 1
          BY <1>5, <3>2, TextIs DEF CarriageReturn, Chars, Size
        <5> QED BY <5>1, LineIs, Sizes
      <4>2. utl_his_store(buf) \in Rings
        BY <4>1, StoredRing DEF IInv, Ring
      <4> QED BY <3>2, <4>2, EnabledRing, InputOK
    <3>3. CASE at = "answer" /\ Answered
      BY <3>3, AnsweredOK
    <3> QED BY <1>5, <3>1, <3>2, <3>3 DEF CarriageReturn
  <2>2. Buffer'
    BY <1>5, <2>1, EmptyBuffer DEF CarriageReturn, KeyVars
  <2> QED BY <1>5, <2>1, <2>2 DEF CarriageReturn, KeyVars, Asking, IInv, Pressing
<1>6. ASSUME NEW key \in {"A", "B", "C"}, Escape(key) PROVE IInv'
  BY <1>6, EscapeText DEF Escape, AskVars, IInv, Questioning, Pressing, Ring
<1>7. CASE EscapeSecond
  <2>1. Pressing'
    <3>1. PICK k \in {"A", "B", "C"} : keys = <<"[", k>>
      BY <1>7 DEF EscapeSecond, IInv, Pressing
    <3>2. keys' = <<k>> /\ esc_cnt' = 2
      BY <1>7, <3>1, KeyBytes DEF EscapeSecond
    <3> QED BY <3>2 DEF Pressing
  <2> QED BY <1>7, <2>1, EscapeSecondText DEF EscapeSecond, AskVars, IInv, Questioning, Ring
<1>8. CASE EscapeThird
  BY <1>8, EscapeThirdText DEF EscapeThird, AskVars, IInv, Questioning, Pressing
<1>9. CASE UNCHANGED vars
  BY <1>9 DEF vars, IInv, Questioning, Pressing, Buffer, BeforeEscape, Ring, Size, Chars
<1> QED
  BY <1>1, <1>2, <1>3, <1>4, <1>5, <1>6, <1>7, <1>8, <1>9 DEF Next

LEMMA IInvHolds == Spec => []IInv
<1> QED BY InitIInv, StepIInv, PTL DEF Spec

(* Types; behind what is in the buffer there is always room for the NUL, and for what a      *)
(* key has still to send, whatever is typed and recalled.                                    *)
THEOREM TypeCorrect == Spec => []TypeOK
<1>1. IInv => TypeOK
  <2> SUFFICES ASSUME IInv PROVE TypeOK
    OBVIOUS
  <2>1. IF keys = <<>> THEN esc_cnt = 0 ELSE esc_cnt + Len(keys) = 3
    <3>1. CASE esc_cnt = 0 /\ keys = <<>>
      BY <3>1
    <3>2. ASSUME esc_cnt = 1, NEW k, keys = <<"[", k>> PROVE keys # <<>> /\ esc_cnt + Len(keys) = 3
      <4>1. Len(<<"[", k>>) = 2 /\ <<"[", k>> # <<>>
        BY KeyBytes
      <4> QED BY <3>2, <4>1
    <3>3. ASSUME esc_cnt = 2, NEW k, keys = <<k>> PROVE keys # <<>> /\ esc_cnt + Len(keys) = 3
      <4>1. Len(<<k>>) = 1 /\ <<k>> # <<>>
        BY KeyBytes
      <4> QED BY <3>3, <4>1
    <3> QED BY <3>1, <3>2, <3>3 DEF IInv, Pressing
  <2>2. Len(buf) <= Size - 1
    BY TextIs DEF IInv, Buffer
  <2>3. \A l \in Line(CmdChars, CmdLen) : l \in Line(CmdChars \cup Secrets, CmdLen)
    BY LineIs, SeqMonotonic, Sizes
  <2>4. hist \in [ena : BOOLEAN, ncnt : Slots, scnt : Slots,
                  buf : [Slots -> Line(CmdChars \cup Secrets, CmdLen)]]
    BY <2>3 DEF IInv, Ring, Rings
  <2> QED BY <2>1, <2>2, <2>4 DEF IInv, Questioning, TypeOK
<1> QED BY <1>1, IInvHolds, PTL

(* No answer to another question than the command prompt ever gets into the ring, or from    *)
(* there to the prompt: the ring is closed while one is typed, and emptied at each login.    *)
THEOREM SecretsKept == Spec => []SecretsNotRecalled
<1>1. IInv => SecretsNotRecalled
  <2> SUFFICES ASSUME IInv PROVE SecretsNotRecalled
    OBVIOUS
  <2>1. ASSUME NEW l \in Seq(CmdChars) PROVE Range(l) \cap Secrets = {}
    <3>1. \A x \in Range(l) : x \in CmdChars
      BY DEF Range
    <3> QED BY <3>1, Sizes
  <2>2. \A s \in Slots : Range(hist.buf[s]) \cap Secrets = {}
    <3> TAKE s \in Slots
    <3>1. hist.buf[s] \in Seq(CmdChars)
      BY LineIs, Sizes DEF IInv, Ring, Rings
    <3> QED BY <2>1, <3>1
  <2>3. at = "cmd" => Range(Text) \cap Secrets = {}
    BY <2>1, TextIs DEF Chars
  <2> QED BY <2>2, <2>3 DEF SecretsNotRecalled, Text
<1> QED BY <1>1, IInvHolds, PTL

-----------------------------------------------------------------------------
(* The bag of lines that the ring stands for.                                                 *)

Holding(f, l) == {s \in Slots : f[s] = l}

LEMMA HoldingCount ==
  ASSUME NEW f, DOMAIN f = Slots
  PROVE  /\ \A l : IsFiniteSet(Holding(f, l)) /\ Cardinality(Holding(f, l)) \in Nat
         /\ \A l : l \in Range(f) <=> Cardinality(Holding(f, l)) # 0
         /\ Memory(f) = [l \in Range(f) |-> Cardinality(Holding(f, l))]
<1>1. IsFiniteSet(Slots)
  BY FS_Interval, Sizes DEF Slots
<1>2. \A l : Holding(f, l) \in SUBSET Slots
  BY DEF Holding
<1>3. \A l : IsFiniteSet(Holding(f, l)) /\ Cardinality(Holding(f, l)) \in Nat
  BY <1>1, <1>2, FS_Subset, FS_CardinalityType
<1>4. \A l : Cardinality(Holding(f, l)) = 0 <=> Holding(f, l) = {}
  BY <1>3, FS_EmptySet
<1>5. \A l : l \in Range(f) <=> Holding(f, l) # {}
  BY DEF Range, Holding
<1>6. Memory(f) = [l \in Range(f) |-> Cardinality(Holding(f, l))]
  BY DEF Memory, Holding
<1> QED BY <1>3, <1>4, <1>5, <1>6

(* One line put in the place of another one changes their counts by one.                       *)
OnlyAt(s, f, g) == DOMAIN f = Slots /\ DOMAIN g = Slots /\ \A r \in Slots : r # s => g[r] = f[r]

LEMMA ExchangeCount ==
  ASSUME NEW s \in Slots, NEW f, NEW g, OnlyAt(s, f, g), g[s] # f[s]
  PROVE  /\ Cardinality(Holding(g, f[s])) = Cardinality(Holding(f, f[s])) - 1
         /\ Cardinality(Holding(g, g[s])) = Cardinality(Holding(f, g[s])) + 1
         /\ \A l : l # g[s] /\ l # f[s] => Holding(g, l) = Holding(f, l)
<1> DEFINE line == g[s]
<1>1. Holding(g, f[s]) = Holding(f, f[s]) \ {s} /\ s \in Holding(f, f[s])
  BY DEF Holding, OnlyAt
<1>2. Holding(g, line) = Holding(f, line) \cup {s} /\ s \notin Holding(f, line)
  BY DEF Holding, OnlyAt
<1>3. \A l : l # line /\ l # f[s] => Holding(g, l) = Holding(f, l)
  BY DEF Holding, OnlyAt
<1>4. Cardinality(Holding(f, f[s]) \ {s}) = Cardinality(Holding(f, f[s])) - 1
  BY <1>1, HoldingCount, FS_RemoveElement DEF OnlyAt
<1>5. Cardinality(Holding(f, line) \cup {s}) = Cardinality(Holding(f, line)) + 1
  BY <1>2, HoldingCount, FS_AddElement DEF OnlyAt
<1> QED BY <1>1, <1>2, <1>3, <1>4, <1>5

(* The ring after an exchange is the bag less the line that went and with the line that came.  *)
LEMMA MemoryExchange ==
  ASSUME NEW s \in Slots, NEW f, NEW g, OnlyAt(s, f, g)
  PROVE  Memory(g) = Editor!BagAdd(Editor!BagRemove(Memory(f), f[s]), g[s])
<1> DEFINE line == g[s]
           old == f[s]
           M == Memory(f)
           R == Editor!BagRemove(M, old)
           c(l) == Cardinality(Holding(f, l))
           d(l) == Cardinality(Holding(g, l))
<1>1. DOMAIN f = Slots /\ DOMAIN g = Slots /\ old \in Range(f) /\ line \in Range(g)
  BY DEF OnlyAt, Range
<1>2. /\ \A l : c(l) \in Nat /\ (l \in Range(f) <=> c(l) # 0)
      /\ M = [l \in Range(f) |-> c(l)]
  BY <1>1, HoldingCount
<1>3. /\ \A l : d(l) \in Nat /\ (l \in Range(g) <=> d(l) # 0)
      /\ Memory(g) = [l \in Range(g) |-> d(l)]
  BY <1>1, HoldingCount
<1>4. \/ c(old) = 1 /\ R = [l \in Range(f) \ {old} |-> c(l)]
      \/ c(old) > 1 /\ R = [l \in Range(f) |-> IF l = old THEN c(l) - 1 ELSE c(l)]
  <2> HIDE DEF c
  <2>1. old \in DOMAIN M /\ DOMAIN M = Range(f) /\ \A l \in Range(f) : M[l] = c(l)
    BY <1>1, <1>2
  <2>2. c(old) \in Nat /\ c(old) # 0
    BY <1>1, <1>2
  <2>3. CASE c(old) = 1
    <3>1. R = [l \in DOMAIN M \ {old} |-> M[l]]
      BY <2>1, <2>3 DEF Editor!BagRemove
    <3> QED BY <2>1, <2>3, <3>1
  <2>4. CASE c(old) # 1
    <3>1. R = [l \in DOMAIN M |-> IF l = old THEN M[l] - 1 ELSE M[l]]
      BY <2>1, <2>4 DEF Editor!BagRemove
    <3> QED BY <2>1, <2>2, <2>4, <3>1
  <2> QED BY <2>3, <2>4
<1>5. CASE line = old
  <2>1. Memory(g) = Memory(f)
    <3>1. \A r \in Slots : g[r] = f[r]
      BY <1>5 DEF OnlyAt
    <3>2. Range(g) = Range(f) /\ \A l : Holding(g, l) = Holding(f, l)
      BY <1>1, <3>1 DEF Range, Holding
    <3> QED BY <1>2, <1>3, <3>2
  <2> HIDE DEF c, R, M
  <2>2. Memory(g) = [l \in Range(f) |-> c(l)]
    BY <1>2, <2>1 DEF M
  <2>3. CASE c(old) = 1 /\ R = [l \in Range(f) \ {old} |-> c(l)]
    <3>1. Editor!BagAdd(R, line) = [l \in (Range(f) \ {old}) \cup {old} |-> IF l = old THEN 1 ELSE R[l]]
      BY <1>5, <2>3 DEF Editor!BagAdd
    <3>2. (Range(f) \ {old}) \cup {old} = Range(f)
      BY <1>1
    <3> QED BY <2>2, <2>3, <3>1, <3>2 DEF R, M
  <2>4. CASE c(old) > 1 /\ R = [l \in Range(f) |-> IF l = old THEN c(l) - 1 ELSE c(l)]
    <3>1. Editor!BagAdd(R, line) = [l \in Range(f) |-> IF l = old THEN R[l] + 1 ELSE R[l]]
      BY <1>1, <1>5, <2>4 DEF Editor!BagAdd
    <3> QED BY <1>1, <1>2, <2>2, <2>4, <3>1 DEF R, M
  <2> QED BY <1>4, <2>3, <2>4
<1>6. CASE line # old
  <2>1. d(old) = c(old) - 1 /\ d(line) = c(line) + 1 /\ \A l : l # line /\ l # old => d(l) = c(l)
    <3>1. /\ Cardinality(Holding(g, f[s])) = Cardinality(Holding(f, f[s])) - 1
          /\ Cardinality(Holding(g, line)) = Cardinality(Holding(f, line)) + 1
          /\ \A l : l # line /\ l # f[s] => Holding(g, l) = Holding(f, l)
      BY <1>6, ExchangeCount
    <3> QED BY <3>1
  <2> HIDE DEF c, d, R, M, old, line
  <2>2. line \in DOMAIN R <=> line \in Range(f)
    BY <1>4, <1>6
  <2>3. \A l \in Range(f) : l # old => l \in DOMAIN R /\ R[l] = c(l)
    BY <1>4
  <2>4. old \in DOMAIN R <=> c(old) > 1
    BY <1>1, <1>2, <1>4
  <2>5. c(old) > 1 => R[old] = c(old) - 1
    BY <1>1, <1>4
  <2>6. DOMAIN R \cup {line} = Range(g)
    <3>1. ASSUME NEW l PROVE l \in DOMAIN R \cup {line} <=> l \in Range(g)
      <4>1. CASE l = line
        BY <1>1, <4>1
      <4>2. CASE l = old
        <5>1. l \in DOMAIN R \cup {line} <=> c(old) > 1
          BY <1>6, <2>4, <4>2
        <5>2. l \in Range(g) <=> c(old) - 1 # 0
          BY <1>3, <2>1, <4>2
        <5> QED BY <1>1, <1>2, <5>1, <5>2
      <4>3. CASE l # line /\ l # old
        BY <1>2, <1>3, <1>4, <2>1, <4>3
      <4> QED BY <4>1, <4>2, <4>3
    <3> QED BY <3>1
  <2>7. CASE line \in DOMAIN R
    <3>1. Editor!BagAdd(R, line) = [l \in Range(g) |-> IF l = line THEN R[l] + 1 ELSE R[l]]
      BY <2>6, <2>7 DEF Editor!BagAdd
    <3>2. \A l \in Range(g) : (IF l = line THEN R[l] + 1 ELSE R[l]) = d(l)
      BY <1>4, <1>6, <2>1, <2>2, <2>3, <2>5, <2>6, <2>7
    <3> QED BY <1>3, <3>1, <3>2 DEF R, M, old, line
  <2>8. CASE line \notin DOMAIN R
    <3>1. Editor!BagAdd(R, line) = [l \in Range(g) |-> IF l = line THEN 1 ELSE R[l]]
      BY <2>6, <2>8 DEF Editor!BagAdd
    <3>2. c(line) = 0
      BY <1>2, <2>2, <2>8
    <3>3. \A l \in Range(g) : (IF l = line THEN 1 ELSE R[l]) = d(l)
      BY <1>4, <1>6, <2>1, <2>3, <2>5, <2>6, <3>2
    <3> QED BY <1>3, <3>1, <3>3 DEF R, M, old, line
  <2> QED BY <2>7, <2>8
<1> QED BY <1>5, <1>6

LEMMA EmptyMemory == Memory(utl_his_ini.buf) = [l \in {<<>>} |-> HistNum]
<1>1. utl_his_ini.buf = [s \in Slots |-> <<>>]
  BY DEF utl_his_ini
<1>2. Holding([s \in Slots |-> <<>>], <<>>) = 0..(HistNum - 1)
  BY DEF Holding, Slots
<1>3. Cardinality(0..(HistNum - 1)) = HistNum
  BY FS_Interval, Sizes
<1>4. Range([s \in Slots |-> <<>>]) = {<<>>}
  BY SlotOK DEF Range
<1> QED BY <1>1, <1>2, <1>3, <1>4 DEF Memory, Holding

-----------------------------------------------------------------------------
(* The line editor that the shell is.                                                          *)

(* Wherever a line ends, the next prompt is one of the editor.                                  *)
LEMMA EditorPrompt == IInv' => Editor!Prompt
<1> SUFFICES ASSUME IInv' PROVE Editor!Prompt
  OBVIOUS
<1>1. hist'.ena \in BOOLEAN
  BY DEF IInv, Ring, Rings
<1>2. Size' - 1 \in {CmdLen - 1, AnswerLen - 1}
  BY DEF Size
<1> QED BY <1>1, <1>2 DEF Editor!Prompt

(* The lines of the ring are kept or forgotten at the end of a line.                            *)
Kept == hist'.buf = hist.buf
Forgotten == hist'.buf = utl_his_ini.buf

LEMMA StartOverForgets == StartOver => Forgotten
  BY DEF StartOver, Forgotten

LEMMA PromptKeeps ==
  ASSUME NEW h \in Rings, Prompt(h)
  PROVE  hist'.buf = h.buf
  BY EnabledRing DEF Prompt

LEMMA RefusedKeeps == Refused => Kept \/ Forgotten
  BY StartOverForgets DEF Refused, Kept

LEMMA AnsweredKeeps == IInv /\ Answered => Kept
  BY PromptKeeps DEF Answered, Kept, IInv, Ring

LEMMA AuthKeeps == shell_auth(buf) => Kept \/ Forgotten
<1> SUFFICES ASSUME shell_auth(buf) PROVE Kept \/ Forgotten
  OBVIOUS
<1>1. CASE hist' = hist
  BY <1>1 DEF Kept
<1>2. CASE Prompt(utl_his_ini)
  BY <1>2, EmptyRing, PromptKeeps DEF Forgotten
<1> QED BY <1>1, <1>2, RefusedKeeps DEF shell_auth

LEMMA InputKeeps ==
  ASSUME NEW h \in Rings, shell_input(buf, h)
  PROVE  hist'.buf = h.buf \/ Forgotten
<1>1. CASE hist' = h
  BY <1>1
<1>2. CASE Prompt(h)
  BY <1>2, PromptKeeps
<1> QED BY <1>1, <1>2, StartOverForgets DEF shell_input

LEMMA MemoryKept ==
  /\ Kept => Memory(hist.buf)' = Memory(hist.buf)
  /\ Forgotten => Memory(hist.buf)' = Editor!NoLines
<1>1. Memory(hist.buf)' = Memory(hist'.buf)
  BY DEF Memory, Slots, Range
<1> QED BY <1>1, EmptyMemory DEF Kept, Forgotten, Editor!NoLines

LEMMA EditorInit == Init => Editor!Init
<1> SUFFICES ASSUME Init PROVE Editor!Init
  OBVIOUS
<1>1. BeforeEscape(buf) = <<>>
  BY SubSeqEmpty DEF Init, BeforeEscape
<1>2. Size - 1 \in {CmdLen - 1, AnswerLen - 1}
  BY DEF Size
<1>3. hist.ena \in BOOLEAN
  BY DEF Init, utl_his_ini
<1>4. Memory(hist.buf) = Editor!NoLines
  BY EmptyMemory DEF Init, Editor!NoLines
<1> QED BY <1>1, <1>2, <1>3, <1>4 DEF Init, Editor!Init

LEMMA EditorStep == IInv /\ IInv' /\ [Next]_vars => [Editor!Next]_(Editor!vars)
<1> SUFFICES ASSUME IInv, IInv', [Next]_vars PROVE [Editor!Next]_(Editor!vars)
  OBVIOUS
<1>a. /\ Text = BeforeEscape(buf) /\ Text' = BeforeEscape(buf)'
  BY DEF Text
<1>b. ASSUME UNCHANGED <<at, hist>> PROVE Editor!SamePrompt /\ Memory(hist.buf)' = Memory(hist.buf)
  BY <1>b, MemoryKept DEF Kept, Editor!SamePrompt, Size
<1>1. ASSUME NEW c \in Chars, Typed(c) PROVE Editor!Next
  <2>1. Editor!Type(c)
    BY <1>1, <1>a, <1>b, TypedText, TextIs DEF Typed, AskVars, Editor!Type
  <2> QED BY <2>1 DEF Editor!Next, Chars
<1>2. CASE TooLong
  <2>1. Text' = <<>> /\ Len(Text) = Size - 1
    BY <1>2, ClearedText, TextIs DEF TooLong, KeyVars
  <2>2. Kept \/ Forgotten
    <3>1. CASE at = "cmd" /\ Prompt(utl_his_enable(hist, FALSE))
      <4>1. utl_his_enable(hist, FALSE) \in Rings /\ utl_his_enable(hist, FALSE).buf = hist.buf
        BY EnabledRing DEF IInv, Ring
      <4> QED BY <3>1, <4>1, PromptKeeps DEF Kept
    <3> QED BY <1>2, <3>1, RefusedKeeps, AnsweredKeeps DEF TooLong
  <2>3. Editor!TooLong
    BY <1>2, <1>a, <2>1, <2>2, MemoryKept, EditorPrompt DEF TooLong, Editor!TooLong
  <2> QED BY <2>3 DEF Editor!Next
<1>3. CASE Backspace
  <2>1. Text' = IF Text = <<>> THEN Text ELSE Front(Text)
    BY <1>3, BackspaceText
  <2>2. Editor!SamePrompt /\ Memory(hist.buf)' = Memory(hist.buf) /\ given' = <<>>
    BY <1>3, <1>b DEF Backspace, AskVars
  <2>3. CASE Text = <<>>
    BY <1>a, <2>1, <2>2, <2>3 DEF Editor!Ignore, Editor!Next
  <2>4. CASE Text # <<>>
    BY <1>a, <2>1, <2>2, <2>4 DEF Editor!Erase, Editor!Front, Front, Editor!Next
  <2> QED BY <2>3, <2>4
<1>4. CASE DropLine
  <2>1. Text' = <<>>
    BY <1>4, ClearedText DEF DropLine, KeyVars
  <2>2. Editor!Discard
    BY <1>4, <1>a, <1>b, <2>1 DEF DropLine, AskVars, Editor!Discard
  <2> QED BY <2>2 DEF Editor!Next
<1>5. CASE CarriageReturn
  <2>1. Text' = <<>> /\ Text = buf /\ given' = <<Text>>
    BY <1>5, ClearedText, TextIs DEF CarriageReturn, KeyVars
  <2>2. ASSUME Kept \/ Forgotten, ~hist.ena \/ Text = <<>> PROVE Editor!Next
    BY <1>a, <2>1, <2>2, MemoryKept, EditorPrompt DEF Editor!Enter, Editor!Next
  <2>3. CASE at \in {"usr", "pwd"} /\ shell_auth(buf)
    BY <2>2, <2>3, AuthKeeps DEF IInv, Ring
  <2>4. CASE at = "answer" /\ Answered
    BY <2>2, <2>4, AnsweredKeeps DEF IInv, Ring
  <2>5. CASE at = "cmd" /\ shell_input(buf, utl_his_enable(utl_his_store(buf), FALSE))
    <3> DEFINE l == hist.buf[hist.scnt]
    <3>1. buf \in Line(CmdChars, CmdLen) /\ hist \in Rings /\ hist.ena
      <4>1. buf \in Seq(CmdChars) /\ Len(buf) <= CmdLen - 1
        BY <2>1, <2>5, TextIs DEF Chars, Size
      <4> QED BY <2>5, <4>1, LineIs, Sizes DEF IInv, Ring
    <3>2. hist'.buf = utl_his_store(buf).buf \/ Forgotten
      BY <2>5, <3>1, StoredRing, EnabledRing, InputKeeps
    <3>3. CASE buf = <<>>
      <4>1. utl_his_store(buf) = hist
        BY <3>3 DEF utl_his_store
      <4> QED BY <2>1, <2>2, <3>2, <3>3, <4>1 DEF Kept
    <3>4. CASE buf # <<>> /\ hist'.buf = utl_his_store(buf).buf
      <4>1. hist.scnt \in Slots /\ hist.buf \in [Slots -> Line(CmdChars, CmdLen)]
        BY <3>1 DEF Rings
      <4>2. hist'.buf = [hist.buf EXCEPT ![hist.scnt] = buf]
        BY <3>1, <3>4 DEF utl_his_store, Rings
      <4>3. OnlyAt(hist.scnt, hist.buf, hist'.buf) /\ hist'.buf[hist.scnt] = buf
        BY <4>1, <4>2 DEF OnlyAt
      <4>4. Memory(hist'.buf) = Editor!BagAdd(Editor!BagRemove(Memory(hist.buf), l), buf)
        BY <4>1, <4>3, MemoryExchange
      <4>5. l \in DOMAIN Memory(hist.buf)
        BY <4>1 DEF Memory, Range
      <4>6. Memory(hist.buf)' = Editor!Replaced(l, BeforeEscape(buf))
        BY <1>a, <2>1, <4>4 DEF Editor!Replaced, Memory, Range, Slots
      <4> QED BY <1>a, <2>1, <3>1, <3>4, <4>5, <4>6, EditorPrompt DEF Editor!Enter, Editor!Next
    <3>5. CASE Forgotten
      BY <1>a, <2>1, <3>5, MemoryKept, EditorPrompt DEF Editor!Enter, Editor!Next
    <3> QED BY <3>2, <3>3, <3>4, <3>5
  <2> QED BY <1>5, <2>3, <2>4, <2>5 DEF CarriageReturn, Editor!Next
<1>6. ASSUME NEW key \in {"A", "B", "C"}, Escape(key) PROVE Editor!Next
  BY <1>6, <1>a, <1>b, EscapeText DEF Escape, AskVars, Editor!Ignore, Editor!Next
<1>7. CASE EscapeSecond
  BY <1>7, <1>a, <1>b, EscapeSecondText DEF EscapeSecond, AskVars, Editor!Ignore, Editor!Next
<1>8. CASE EscapeThird
  <2>1. at' = at /\ given' = <<>>
    BY <1>8 DEF EscapeThird, AskVars
  <2>2. CASE Text' = Text /\ hist' = hist
    BY <1>a, <1>b, <2>1, <2>2 DEF Editor!Ignore, Editor!Next
  <2>3. ASSUME NEW s \in Slots, hist.ena, Text' = hist.buf[s], hist' = Exchanged(s, Text)
        PROVE  Editor!Next
    <3>1. hist \in Rings /\ hist.buf \in [Slots -> Line(CmdChars, CmdLen)]
      BY DEF IInv, Ring, Rings
    <3>2. hist'.buf = [hist.buf EXCEPT ![s] = Text] /\ hist'.ena = hist.ena
      BY <2>3, <3>1 DEF Exchanged, Rings
    <3>3. OnlyAt(s, hist.buf, hist'.buf) /\ hist'.buf[s] = Text
      BY <3>1, <3>2 DEF OnlyAt
    <3>4. Memory(hist'.buf) = Editor!BagAdd(Editor!BagRemove(Memory(hist.buf), hist.buf[s]), Text)
      BY <3>3, MemoryExchange
    <3>5. hist.buf[s] \in DOMAIN Memory(hist.buf)
      BY <3>1 DEF Memory, Range
    <3>6. Memory(hist.buf)' = Editor!Replaced(hist.buf[s], BeforeEscape(buf))
      BY <1>a, <3>4 DEF Editor!Replaced, Memory, Range, Slots
    <3>7. Editor!SamePrompt
      BY <2>1, <3>2 DEF Editor!SamePrompt, Size
    <3>8. Editor!Recall
      BY <1>a, <2>1, <2>3, <3>5, <3>6, <3>7 DEF Editor!Recall
    <3> QED BY <3>8 DEF Editor!Next
  <2> QED BY <1>8, <2>2, <2>3, EscapeThirdText
<1>9. CASE UNCHANGED vars
  BY <1>9 DEF vars, Editor!vars, BeforeEscape, Size, Memory, Range, Slots
<1> QED
  BY <1>1, <1>2, <1>3, <1>4, <1>5, <1>6, <1>7, <1>8, <1>9 DEF Next

(* Each byte received is an edit of a line with a memory, or nothing: no line is lost or      *)
(* doubled by the cursor keys, and none ends but at Return or when it is too long.              *)
THEOREM ImplementsLineEditor == Spec => IsLineEditor
<1>1. IInv /\ IInv' /\ [Next]_vars => [Editor!Next]_(Editor!vars)
  BY EditorStep
<1> QED BY <1>1, EditorInit, IInvHolds, PTL DEF Spec, IsLineEditor, Editor!Spec

=============================================================================
