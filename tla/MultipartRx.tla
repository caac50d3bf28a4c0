---------------------------- MODULE MultipartRx ----------------------------
(* Receiving a form of several parts in the web server                          *)
(* (src/Network/NetApp/httpd_mp_cgi.c): the content comes from the socket in     *)
(* pieces of any size; each round of the loop takes in a piece and then looks     *)
(* for the header of a part, or hands on body bytes and looks for the boundary    *)
(* behind them. A character is r (CR), n (LF), -, B (the boundary string), 0      *)
(* (NUL) or one of those that mean nothing here.                                  *)
EXTENDS Integers, SequencesExt

CONSTANTS Uploads,  \* [parts, tail, extra]: the bodies, what follows the last one
                    \* inside and behind the content
          Heads,    \* ends of the HTTP header as the server leaves it in rbuf
          BufSize,  \* rbufsz
          Failures, \* what may go wrong: "rcv", "cbk", "ctype"
          Word      \* 2^32: one above the largest UW

Char == {"r", "n", "-", "B", "0", "h", "x"}
CRLF == <<"r", "n">>
Delim == CRLF \o <<"-", "-", "B">>           \* "\r\n--" and the boundary
Header == Delim \o CRLF
Final == Delim \o <<"-", "-">> \o CRLF
PartHead == Header \o <<"h">> \o CRLF \o CRLF

Content(up) == FlattenSeq([i \in DOMAIN up.parts |-> PartHead \o up.parts[i]]) \o up.tail

(* The content begins behind the CR LF that ends the HTTP header.                *)
Sent(up) == Tail(Tail(Content(up)))

ASSUME BufAssumption == BufSize \in Nat /\ Word \in Nat /\ Word > BufSize

VARIABLES upload,      \* what the client sends
          net,         \* what of it rcv_soc has not delivered
          rbuf,        \* receive buffer; rxlen is its length
          rdlen,       \* how much of it is used up
          contentLen,  \* http->hdr.ContentLen
          stat,        \* "head", "body", "bodyend"
          pc,          \* "start", "setup", "rcv", "parse", "end"
          ercd,        \* the result
          told         \* history: the parts the callback was told of

vars == <<upload, net, rbuf, rdlen, contentLen, stat, pc, ercd, told>>

(* ---- searching ---- *)

Found == [ret : {"found", "part", "none"}, pos : Nat]

(* (Seeded fault: the beginning of a boundary at the end of the data is body.)     *)
AtWhole(kind, r) == IF r.ret = "found" THEN [kind |-> kind, ret |-> r.ret, pos |-> r.pos]
                    ELSE [kind |-> "none", ret |-> "none", pos |-> 0]

(* A place of the boundary, what it is the boundary of, and whether it is whole.   *)
At(kind, r) == [kind |-> kind, ret |-> r.ret, pos |-> r.pos]

(* mp_find_chk: m characters of pat match from sta on. After a mismatch the same  *)
(* character is compared with the start of pat, no earlier one again.             *)
Scan == [m : Nat, sta : Nat]
Take(pat, c, i) ==
  [st \in Scan |->
     IF st.m = Len(pat) THEN st
     ELSE IF c = pat[st.m + 1] THEN [m |-> st.m + 1, sta |-> st.sta]
     ELSE IF st.m > 0 /\ c = pat[1] THEN [m |-> 1, sta |-> i]
     ELSE [m |-> 0, sta |-> i + 1]]
Result(pat, skip) ==
  [st \in Scan |->
     [ret |-> IF st.m = Len(pat) THEN "found" ELSE IF st.m > 0 THEN "part" ELSE "none",
      pos |-> IF st.m > 0 THEN skip + st.sta ELSE 0]]

FindChk(pat, skip) ==
  [str \in Seq(Char) |->
     LET scan[i \in 0..Len(str)] ==
           IF i = 0 THEN [m |-> 0, sta |-> 1] ELSE Take(pat, str[i], i)[scan[i - 1]]
     IN Result(pat, skip)[scan[Len(str)]]]

(* httpd_mp_bdry_chk: where the header or the end of the form is, or may begin.   *)
Judge(h) ==
  [e \in Found |->
     IF h.ret = "found" THEN At("header", h)
     ELSE IF e.ret = "found" THEN At("end", e)
     ELSE IF h.pos # 0 /\ (e.pos = 0 \/ h.pos <= e.pos) THEN At("header", h)
     ELSE IF e.pos # 0 THEN At("end", e)
     ELSE At("none", h)]

Inside(str) ==
  [d \in Found |->
     IF d.ret # "found" THEN At("none", d)
     ELSE LET rest == SubSeq(str, d.pos, Len(str))
          IN Judge(FindChk(Header, d.pos - 1)[rest])[FindChk(Final, d.pos - 1)[rest]]]

BdryChk == [str \in Seq(Char) |-> Inside(str)[FindChk(Delim, 0)[str]]]

(* First place of pat in str, 0 if there is none. strstr stops at a NUL.           *)
MemMem(str, pat) ==
  LET S == {i \in 1..(Len(str) - Len(pat) + 1) : SubSeq(str, i, i + Len(pat) - 1) = pat}
  IN IF S = {} THEN 0 ELSE Min(S)
StrStr(str, pat) ==
  LET nul == MemMem(str, <<"0">>)
  IN MemMem(IF nul = 0 THEN str ELSE SubSeq(str, 1, nul - 1), pat)

(* Where the blank line that ends the HTTP header begins, 0 if there is none. The   *)
(* server may have overwritten its first CR with a NUL.                              *)
BlankLine(str) ==
  LET s1 == MemMem(str, CRLF \o CRLF)
      s2 == MemMem(str, <<"0", "n">> \o CRLF)
  IN IF s2 # 0 /\ (s1 = 0 \/ s2 < s1) THEN s2 ELSE s1

(* The HTTP header ends in its first blank line.                                     *)
ASSUME HeadAssumption ==
  \A head \in Heads : /\ head \in Seq(Char) /\ Len(head) > 3
                      /\ BlankLine(head) = Len(head) - 3

(* Content is well-formed (RFC 2046): behind each body the next boundary is the      *)
(* first that there is, and no part follows the end of the form. Its length fits     *)
(* a UW.                                                                             *)
ASSUME FormAssumption ==
  \A up \in Uploads :
    /\ up \in [parts : Seq(Seq(Char)), tail : Seq(Char), extra : Seq(Char)]
    /\ Len(Sent(up)) < Word
    /\ IsPrefix(Final, up.tail) /\ MemMem(up.tail \o up.extra, Header) = 0
    /\ \A i \in DOMAIN up.parts, pat \in {Header, Final} :
         MemMem(up.parts[i] \o (IF i = Len(up.parts) THEN Final ELSE PartHead), pat)
           \in {0, Len(up.parts[i]) + 1}

(* ---- start ---- *)

(* The server has read the header and part of the content. It leaves rdlen at the  *)
(* end of the header or of all. The two first characters make room for a copy of    *)
(* the boundary.                                                                    *)
Init ==
  /\ upload \in Uploads
  /\ \E head \in Heads, k \in 0..Len(Sent(upload) \o upload.extra) :
       LET all == Sent(upload) \o upload.extra
           top == <<"x", "x">> \o head
       IN /\ Len(top) + k <= BufSize + 1
          /\ rbuf = top \o SubSeq(all, 1, k)
          /\ net = SubSeq(all, k + 1, Len(all))
          /\ rdlen \in {Len(top), Len(top) + k}
  /\ contentLen = Len(Sent(upload))
  /\ stat = "head" /\ pc = "start" /\ ercd = "E_OK" /\ told = <<>>

Finish(e) == pc' = "end" /\ ercd' = e
InputVars == <<upload, net>>

(* The callback may refuse, the content need not be a form. Else the buffer gives   *)
(* up its first bytes for the copy of the boundary (http_rbufsz_dec).                *)
Start ==
  /\ pc = "start"
  /\ \/ "cbk" \in Failures /\ Finish("E_CBK") /\ UNCHANGED <<rbuf, rdlen>>
     \/ "ctype" \in Failures /\ Finish("E_NOSPT") /\ UNCHANGED <<rbuf, rdlen>>
     \/ /\ rbuf' = SubSeq(rbuf, 3, Len(rbuf)) /\ rdlen' = rdlen - 2
        /\ pc' = "setup" /\ ercd' = ercd
  /\ UNCHANGED <<InputVars, contentLen, stat, told>>

(* httpd_mp_setup: content that is in the buffer already begins with the last CR    *)
(* LF of the header.                                                                *)
Setup ==
  /\ pc = "setup" /\ pc' = "rcv"
  /\ LET s == BlankLine(rbuf)
         top == IF s + 1 < rdlen THEN s + 1 ELSE rdlen
     IN IF s = 0 THEN UNCHANGED <<rdlen, contentLen>>
        ELSE /\ rdlen' = top
             /\ contentLen' = (contentLen - (Len(rbuf) - top) + 2) % Word
  /\ UNCHANGED <<InputVars, rbuf, stat, ercd, told>>

(* ---- the loop ---- *)

(* httpd_mp_content_rcv: what is used up is dropped, the rest moves to the front;   *)
(* one byte stays free for the NUL.                                                  *)
Slid == SubSeq(rbuf, rdlen + 1, Len(rbuf))

(* (Seeded fault: no byte is kept for the NUL.)                                      *)
RoomAll == BufSize - Len(Slid)

Room == BufSize - Len(Slid) - 1

RcvFails == "rcv" \in Failures /\ contentLen > 0 /\ Finish("E_TMOUT")
              /\ UNCHANGED <<net, contentLen>> /\ rbuf' = Slid
RcvNomem == BufSize <= Len(Slid) /\ Finish("E_NOMEM")
              /\ UNCHANGED <<net, contentLen>> /\ rbuf' = Slid
(* Nothing is left to receive, or no room is and rcv_soc is asked for 0 bytes.       *)
RcvNothing == (contentLen = 0 \/ Room = 0) /\ pc' = "parse" /\ rbuf' = Slid
              /\ UNCHANGED <<net, contentLen, ercd>>
RcvPiece(k) ==
  /\ contentLen > 0 /\ k <= Room /\ k <= Len(net)
  /\ rbuf' = Slid \o SubSeq(net, 1, k)
  /\ net' = SubSeq(net, k + 1, Len(net))
  /\ IF k > contentLen THEN Finish("E_SYS") /\ contentLen' = contentLen
     ELSE pc' = "parse" /\ contentLen' = contentLen - k /\ ercd' = ercd

ContentRcv ==
  /\ pc = "rcv" /\ rdlen' = 0
  /\ \/ RcvNomem
     \/ BufSize > Len(Slid) /\ (RcvFails \/ RcvNothing \/ \E k \in 1..BufSize : RcvPiece(k))
  /\ UNCHANGED <<upload, stat, told>>

(* The condition of the loop, after a round that used up nothing or more.            *)
Again == IF contentLen' + Len(rbuf') > 0 THEN pc' = "rcv" /\ ercd' = ercd
                                         ELSE Finish("E_OK")

CbkFails == "cbk" \in Failures /\ Finish("E_CBK")

(* MPHEAD: the blank line behind the header of a part is there. Its first LF is      *)
(* overwritten, to end the search.                                                   *)
Head1 ==
  LET next == StrStr(rbuf, CRLF \o CRLF)
      cut == [rbuf EXCEPT ![next + 1] = "0"]
      b == BdryChk[SubSeq(cut, 1, next + 1)]
  IN /\ next # 0
     /\ rbuf' = cut /\ UNCHANGED contentLen
     /\ IF b.kind = "header" /\ b.ret = "found"
        THEN \/ /\ rdlen' = next + 3 /\ stat' = "body"
                /\ told' = Append(told, [dat |-> <<>>, full |-> FALSE])
                /\ Again
             \/ CbkFails /\ UNCHANGED <<rdlen, stat, told>>
        ELSE Again /\ UNCHANGED <<rdlen, stat, told>>

(* (Seeded fault: nothing is reset at the end of the form.)                            *)
FormOverKept == UNCHANGED <<rbuf, contentLen>>

(* The rest of the content is of no interest after the end of the form.               *)
FormOver == rbuf' = <<>> /\ contentLen' = 0

(* MPHEAD without one: the end of the form, or more is needed.                        *)
Head2 ==
  LET b == BdryChk[rbuf]
  IN /\ StrStr(rbuf, CRLF \o CRLF) = 0
     /\ IF b.kind = "end" /\ b.ret = "found"
        THEN FormOver /\ Again
        ELSE /\ UNCHANGED <<rbuf, contentLen>>
             /\ IF contentLen > 0 THEN Again ELSE Finish("E_CLS")
     /\ UNCHANGED <<rdlen, stat, told>>

(* MPBODY and MPBODYEND: what is before the boundary, or before what may become one, *)
(* is handed on; without either, all of it.                                            *)
Body ==
  LET b == BdryChk[rbuf]
      len == IF b.pos = 0 THEN Len(rbuf) ELSE b.pos - 1
      last == told[Len(told)]
  IN /\ UNCHANGED <<rbuf, contentLen>>
     /\ \/ /\ told' = [told EXCEPT ![Len(told)] =
                         [dat |-> last.dat \o SubSeq(rbuf, 1, len),
                          full |-> b.ret = "found"]]
           /\ stat' = IF b.ret = "found" THEN "head"
                      ELSE IF b.ret = "part" THEN "bodyend" ELSE stat
           /\ rdlen' = len
           /\ Again
        \/ CbkFails /\ UNCHANGED <<rdlen, stat, told>>

Parse ==
  /\ pc = "parse"
  /\ \/ stat = "head" /\ (Head1 \/ Head2)
     \/ stat \in {"body", "bodyend"} /\ Body
  /\ UNCHANGED InputVars

Done == pc = "end" /\ UNCHANGED vars

Next == Start \/ Setup \/ ContentRcv \/ Parse \/ Done

Spec == Init /\ [][Next]_vars

(* rcv_soc has a time-out and returns; the task goes on.                                *)
FairSpec == Spec /\ WF_vars(Next)

(* ---- properties ---- *)

(* Types; the NUL behind the data stays inside the buffer, and nobody uses up more      *)
(* than there is.                                                                        *)
TypeOK ==
  /\ stat \in {"head", "body", "bodyend"}
  /\ pc \in {"start", "setup", "rcv", "parse", "end"}
  /\ pc \in {"rcv", "parse"} => Len(rbuf) < BufSize
  /\ rdlen \in 0..Len(rbuf)
  /\ contentLen \in 0..(Word - 1)

(* The callback is given the bodies the client sent, byte for byte and one after the     *)
(* other, wherever the socket cut the content and however much a body looks like a        *)
(* boundary; and a receive that reports success gave it all of them.                      *)
PartsExact ==
  /\ Len(told) <= Len(upload.parts)
  /\ \A i \in DOMAIN told :
       /\ IsPrefix(told[i].dat, upload.parts[i])
       /\ (told[i].full \/ i < Len(told)) => told[i] = [dat |-> upload.parts[i], full |-> TRUE]
  /\ pc = "end" /\ ercd = "E_OK" =>
       Len(told) = Len(upload.parts) /\ \A i \in DOMAIN told : told[i].full

(* Every receive ends: the loop neither goes round for ever with a rest it cannot use up   *)
(* nor asks for more than there is, so that the END callback comes, also after errors.       *)
EndReached == <>(pc = "end")

=============================================================================
