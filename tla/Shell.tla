------------------------------- MODULE Shell -------------------------------
(* The shell of the network samples on a UART (src/Network/sample/shell.c): log  *)
(* in, read a line byte by byte with backspace, cursor keys and a ring of lines   *)
(* entered before, run the command, and begin again. A step is one byte received.  *)
(* The telnet side is left out: the sample does not build it.                      *)
EXTENDS Integers, FiniteSets, SequencesExt

CONSTANTS
  CmdChars,    \* what is typed at the command prompt, " " among it
  Secrets,     \* what is typed at the other prompts
  CmdLen,      \* CFG_SH_CMD_BUF_LEN
  AnswerLen,   \* sizes of the other buffers
  HistNum,     \* CFG_SH_HISTORY_NUM
  LoginRetry,  \* CFG_SH_LOGIN_RETRY
  Accounts,    \* shell_usr_tbl: pairs of lines
  Quit, Ask,   \* words: leave; a command that asks Questions lines (ipcfg)
  Questions

\* The counters are UB and HistNum is a power of two: they wrap together.
ASSUME SizeAssumption ==
  /\ HistNum \in {2, 4, 8, 16, 32, 64, 128}
  /\ CmdLen \in Nat \ {0} /\ AnswerLen \in Nat \ {0}
  /\ LoginRetry \in Nat /\ Questions \in Nat \ {0}
  /\ CmdChars \cap Secrets = {}

VARIABLES
  at,       \* what the shell asks for: "usr", "pwd", "cmd", "answer"
  retry,    \* in shell_auth
  usr,      \* in shell_auth: the user name given
  asked,    \* lines the running command has got
  buf,      \* bytes in the buffer up to i, those of an escape sequence among them
  esc_cnt,  \* how far into an escape sequence
  keys,     \* bytes of the key pressed that are still to come
  hist,     \* T_SHELL_HIS
  given     \* the line handed to the caller in the last step, if one was

vars == <<at, retry, usr, asked, buf, esc_cnt, keys, hist, given>>

Size == IF at = "cmd" THEN CmdLen ELSE AnswerLen
Chars == IF at = "cmd" THEN CmdChars ELSE Secrets
Line(S, n) == BoundedSeq(S, n - 1)

(* ---- history ---- *)

Slots == 0..(HistNum - 1)
utl_his_ini == [ena |-> FALSE, ncnt |-> 0, scnt |-> 0, buf |-> [s \in Slots |-> <<>>]]

(* (Seeded fault: once enabled the history stays so.)                               *)
EnaStays(h, ena) == [h EXCEPT !.ena = @ \/ ena]

utl_his_enable(h, ena) == [h EXCEPT !.ena = ena]

(* utl_his_next: the line changes places with the one before or behind.             *)
NextSlot(key) == (hist.ncnt + (IF key = "A" THEN HistNum - 1 ELSE 1)) % HistNum

(* (Seeded fault: the line is replaced by a copy.)                                  *)
CopiedOnly(s, line) == [hist EXCEPT !.ncnt = s]

Exchanged(s, line) == [hist EXCEPT !.ncnt = s, !.buf[s] = line]

utl_his_store(line) ==
  IF hist.ena /\ line # <<>>
  THEN [hist EXCEPT !.buf[hist.scnt] = line,
                    !.ncnt = (@ + 1) % HistNum, !.scnt = (@ + 1) % HistNum]
  ELSE hist

(* ---- what is asked next ---- *)

AuthVars == <<retry, usr>>

(* net_console_tsk: the control block is cleared and the user is asked for.          *)
StartOver ==
  /\ at' = "usr" /\ retry' = 0 /\ usr' = <<>> /\ asked' = 0
  /\ hist' = utl_his_ini

Prompt(h) ==
  /\ at' = "cmd" /\ asked' = 0
  /\ hist' = utl_his_enable(h, TRUE)

(* A name or password too long, or not in the table, costs a try.                    *)
Refused ==
  \/ /\ retry < LoginRetry
     /\ at' = "usr" /\ retry' = retry + 1 /\ usr' = <<>>
     /\ UNCHANGED <<asked, hist>>
  \/ retry = LoginRetry /\ StartOver

shell_auth(line) ==
  \/ /\ at = "usr"
     /\ at' = "pwd" /\ usr' = line
     /\ UNCHANGED <<retry, asked, hist>>
  \/ /\ at = "pwd"
     /\ \/ <<usr, line>> \in Accounts
           /\ retry' = 0 /\ usr' = <<>> /\ Prompt(utl_his_ini)
        \/ <<usr, line>> \notin Accounts /\ Refused

(* shell_input: the first word names the command. quit ends the task, which has       *)
(* asked for its own next start.                                                       *)
FirstWord(line) ==
  LET inWord == {i \in DOMAIN line : line[i] # " "}
      from == Min(inWord)
      upto == CHOOSE j \in inWord : /\ from..j \subseteq inWord /\ j + 1 \notin inWord
  IN IF inWord = {} THEN <<>> ELSE SubSeq(line, from, upto)

shell_input(line, h) ==
  \/ FirstWord(line) = Quit /\ StartOver
  \/ FirstWord(line) = Ask
     /\ at' = "answer" /\ asked' = 0 /\ hist' = h /\ UNCHANGED AuthVars
  \/ FirstWord(line) \notin {Quit, Ask}
     /\ Prompt(h) /\ UNCHANGED AuthVars

(* The command takes what it is given, nothing for a line that was too long.           *)
Answered ==
  /\ UNCHANGED AuthVars
  /\ \/ asked + 1 < Questions /\ asked' = asked + 1 /\ UNCHANGED <<at, hist>>
     \/ asked + 1 = Questions /\ Prompt(hist)

(* ---- one byte ---- *)

KeyVars == <<esc_cnt, keys>>
AskVars == <<at, retry, usr, asked>>

Init ==
  /\ at = "usr" /\ retry = 0 /\ usr = <<>> /\ asked = 0
  /\ buf = <<>> /\ esc_cnt = 0 /\ keys = <<>>
  /\ hist = utl_his_ini /\ given = <<>>

(* (Seeded fault: the buffer is filled to its last byte.)                              *)
TypedFull(c) ==
  /\ esc_cnt = 0 /\ Len(buf) < Size
  /\ buf' = Append(buf, c) /\ given' = <<>>
  /\ UNCHANGED <<KeyVars, AskVars, hist>>

Typed(c) ==
  /\ esc_cnt = 0 /\ Len(buf) + 1 < Size
  /\ buf' = Append(buf, c) /\ given' = <<>>
  /\ UNCHANGED <<KeyVars, AskVars, hist>>

(* E_BOVR: the line is gone, the next byte begins another.                             *)
TooLong ==
  /\ esc_cnt = 0 /\ Len(buf) + 1 = Size
  /\ buf' = <<>> /\ given' = <<>>
  /\ \/ at \in {"usr", "pwd"} /\ Refused
     \/ at = "cmd" /\ Prompt(utl_his_enable(hist, FALSE)) /\ UNCHANGED AuthVars
     \/ at = "answer" /\ Answered
  /\ UNCHANGED KeyVars

Backspace ==
  /\ esc_cnt = 0
  /\ buf' = IF buf = <<>> THEN buf ELSE Front(buf)
  /\ given' = <<>>
  /\ UNCHANGED <<KeyVars, AskVars, hist>>

(* LF, or getc_com failed: what was typed so far is dropped.                           *)
DropLine ==
  /\ esc_cnt = 0
  /\ buf' = <<>> /\ given' = <<>>
  /\ UNCHANGED <<KeyVars, AskVars, hist>>

CarriageReturn ==
  /\ esc_cnt = 0
  /\ buf' = <<>> /\ given' = <<buf>>
  /\ \/ at \in {"usr", "pwd"} /\ shell_auth(buf)
     \/ at = "cmd" /\ LET h == utl_his_enable(utl_his_store(buf), FALSE)
                      IN shell_input(buf, h)
     \/ at = "answer" /\ Answered
  /\ UNCHANGED KeyVars

(* A cursor key sends ESC [ and a letter, with no byte between and no error in it.     *)
(* The bytes pass through the buffer; only keys for which there is room are pressed.    *)
Escape(key) ==
  /\ esc_cnt = 0 /\ Len(buf) + 3 <= Size
  /\ buf' = Append(buf, "esc") /\ esc_cnt' = 1 /\ keys' = <<"[", key>>
  /\ given' = <<>>
  /\ UNCHANGED <<AskVars, hist>>

EscapeSecond ==
  /\ esc_cnt = 1
  /\ buf' = Append(buf, Head(keys)) /\ esc_cnt' = 2 /\ keys' = Tail(keys)
  /\ given' = <<>>
  /\ UNCHANGED <<AskVars, hist>>

BeforeEscape(line) == SubSeq(line, 1, Len(line) - esc_cnt)

EscapeThird ==
  /\ esc_cnt = 2
  /\ LET line == BeforeEscape(buf)
         key == Head(keys)
         s == NextSlot(key)
     IN IF key \in {"A", "B"} /\ hist.ena
        THEN buf' = hist.buf[s] /\ hist' = Exchanged(s, line)
        ELSE buf' = line /\ hist' = hist
  /\ esc_cnt' = 0 /\ keys' = <<>> /\ given' = <<>>
  /\ UNCHANGED AskVars

Next ==
  \/ \E c \in Chars : Typed(c)
  \/ TooLong \/ Backspace \/ DropLine \/ CarriageReturn
  \/ \E key \in {"A", "B", "C"} : Escape(key)
  \/ EscapeSecond \/ EscapeThird

Spec == Init /\ [][Next]_vars

(* ---- properties ---- *)

(* Types; a NUL finds room behind what is in the buffer.                                *)
TypeOK ==
  /\ at \in {"usr", "pwd", "cmd", "answer"}
  /\ retry \in 0..LoginRetry /\ asked \in 0..(Questions - 1)
  /\ usr \in Line(Secrets, AnswerLen)
  /\ IF keys = <<>> THEN esc_cnt = 0 ELSE esc_cnt + Len(keys) = 3
  /\ Len(buf) <= Size - 1
  /\ hist \in [ena : BOOLEAN, ncnt : Slots, scnt : Slots,
               buf : [Slots -> Line(CmdChars \cup Secrets, CmdLen)]]

(* What is typed in answer to a question, a password at worst, can never be brought      *)
(* back with the cursor keys, neither at the command prompt nor by the next user, and     *)
(* whatever keys are pressed while it is typed (utl_his_enable, utl_his_ini).              *)
SecretsNotRecalled ==
  /\ \A s \in Slots : Range(hist.buf[s]) \cap Secrets = {}
  /\ at = "cmd" => Range(BeforeEscape(buf)) \cap Secrets = {}

(* How often each line stands in the ring.                                               *)
Memory(lines) ==
  [l \in Range(lines) |-> Cardinality({s \in Slots : lines[s] = l})]

(* The bytes in the buffer, with escape sequences in between, and the ring with its two   *)
(* counters are a line and a bag of lines: no key but Return and an overlong line ends     *)
(* one, and looking through the history neither loses nor doubles a line.                   *)
Editor == INSTANCE LineEditor WITH
  Chars <- CmdChars \cup Secrets,
  Size <- {CmdLen - 1, AnswerLen - 1},
  text <- BeforeEscape(buf),
  limit <- Size - 1,
  memory <- Memory(hist.buf),
  recalls <- hist.ena
IsLineEditor == Editor!Spec

=============================================================================
