---------------------------- MODULE LineEditor -----------------------------
(* What a console with a few remembered lines promises to who types: a line of   *)
(* less than the limit that grows and shrinks at its end, and a memory with which  *)
(* it may be exchanged. A line never gets lost by looking at another one: only      *)
(* entering a new line, or starting afresh, makes the memory forget one.             *)
EXTENDS Integers, SequencesExt, BagsExt

CONSTANTS Chars, Size, HistNum

VARIABLES text,     \* the line as it stands
          limit,    \* how long it may be
          memory,   \* a bag of HistNum remembered lines
          recalls,  \* remembered lines may be asked for
          given     \* the line that was just handed over; <<>> or <<line>>

vars == <<text, limit, memory, recalls, given>>

NoLines == [l \in {<<>>} |-> HistNum]
Replaced(old, new) == BagAdd(BagRemove(memory, old), new)
Prompt == limit' \in Size /\ recalls' \in BOOLEAN
SamePrompt == UNCHANGED <<limit, recalls>>

Init ==
  /\ text = <<>> /\ limit \in Size /\ memory = NoLines
  /\ recalls \in BOOLEAN /\ given = <<>>

Type(c) ==
  /\ Len(text) < limit
  /\ text' = Append(text, c) /\ given' = <<>>
  /\ SamePrompt /\ UNCHANGED memory

(* A line that would pass the limit is not handed over.                            *)
TooLong ==
  /\ Len(text) = limit
  /\ text' = <<>> /\ given' = <<>>
  /\ Prompt /\ memory' \in {memory, NoLines}

Erase ==
  /\ text # <<>>
  /\ text' = Front(text) /\ given' = <<>>
  /\ SamePrompt /\ UNCHANGED memory

Discard ==
  /\ text' = <<>> /\ given' = <<>>
  /\ SamePrompt /\ UNCHANGED memory

(* A key that does nothing here.                                                   *)
Ignore == given' = <<>> /\ SamePrompt /\ UNCHANGED <<text, memory>>

Recall ==
  /\ recalls
  /\ \E l \in DOMAIN memory : text' = l /\ memory' = Replaced(l, text)
  /\ given' = <<>> /\ SamePrompt

Enter ==
  /\ given' = <<text>> /\ text' = <<>> /\ Prompt
  /\ \/ (~recalls \/ text = <<>>) /\ memory' = memory
     \/ /\ recalls /\ text # <<>>
        /\ \E l \in DOMAIN memory : memory' = Replaced(l, text)
     \/ memory' = NoLines

Next == (\E c \in Chars : Type(c)) \/ TooLong \/ Erase \/ Discard \/ Ignore \/ Recall \/ Enter

Spec == Init /\ [][Next]_vars

=============================================================================
