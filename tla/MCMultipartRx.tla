--------------------------- MODULE MCMultipartRx ---------------------------
(* MultipartRx with all bodies of up to three characters and longer ones that   *)
(* hold beginnings of a boundary, blank lines, boundaries without their CR LF,   *)
(* whole ones that go on differently, and NULs.                                  *)
EXTENDS MultipartRx

Upload(parts, tail, extra) == [parts |-> parts, tail |-> tail, extra |-> extra]

Bodies == { Delim \o <<"x">>, Delim \o <<"-", "r">>, Delim \o <<"r", "x">>,
            <<"r", "n", "-", "-", "r", "n">>, CRLF \o CRLF \o <<"x">>,
            <<"r", "r", "n", "-", "-">>, <<"-", "-", "B">> \o CRLF, <<"r", "0", "n">> }
          \cup BoundedSeq({"r", "n", "-", "x"}, 3)
Tails == {Final, Final \o <<"x">>, Final \o CRLF \o CRLF}

(* Forms whose last line ends in CR LF. With content that ends in "--" the loop     *)
(* would not end (EndReached): the rest is kept, nothing more is received.           *)
Regular ==
  {Upload(<<b>>, Final, <<>>) : b \in Bodies}
    \cup {Upload(<<b, c>>, Final, <<>>) : b, c \in BoundedSeq({"r", "n", "x"}, 1) \cup {Delim \o <<"x">>}}
    \cup {Upload(<<<<"x">>>>, t, e) : t \in Tails, e \in {<<>>, <<"x", "x">>}}
    \cup {Upload(<<>>, t, <<>>) : t \in Tails}

MCHeads == {<<"x">> \o CRLF \o CRLF, <<"0", "n">> \o CRLF}
=============================================================================
