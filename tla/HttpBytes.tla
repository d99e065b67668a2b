------------------------------ MODULE HttpBytes ------------------------------
(***************************************************************************)
(* The byte stream of an HTTP connection, as far as framing can tell it    *)
(* apart. A unit is a run of bytes:                                        *)
(*   eol     one CR LF; two in a row are the header terminator             *)
(*   line    a line of val words (the request line has three)              *)
(*   status  a status line: three words or more, the second the number val *)
(*           (0 when it is not a number)                                   *)
(*   length  the header line Content-Length: val                           *)
(*   text    any other bytes, told apart by val                            *)
(* The bytes of a body are units like all others: a body may contain what  *)
(* looks like a terminator or a request. A read can end after any unit; a  *)
(* read that ends inside a CR LF differs only in that the search for the   *)
(* terminator fails once more, so that a terminator cut between its two    *)
(* line ends stands for every way of cutting it.                           *)
(***************************************************************************)
EXTENDS Integers, Sequences

Unit == [kind : {"eol", "line", "status", "length", "text"}, val : Int]

EOL == [kind |-> "eol", val |-> 0]
HEADER_TERMINATOR == <<EOL, EOL>>

(* std::string::find(HEADER_TERMINATOR): the first one.                    *)
TerminatorAt(b, i) == i \in 1 .. Len(b) - 1 /\ b[i] = EOL /\ b[i + 1] = EOL

HasTerminator(b) == \E i \in 1 .. Len(b) : TerminatorAt(b, i)

PosTerminator(b) ==
  CHOOSE i \in 1 .. Len(b) :
    TerminatorAt(b, i) /\ \A j \in 1 .. i - 1 : ~TerminatorAt(b, j)

(* The first header line, split at blanks, has exactly three words.        *)
WellFormed(headers) ==
  headers # <<>> /\ headers[1].kind = "line" /\ headers[1].val = 3

(* The value of the Content-Length header, -1 without one; with several,   *)
(* the container of the headers (external) decides which one counts.       *)
ContentLengths(headers) ==
  LET lines == {i \in 1 .. Len(headers) : headers[i].kind = "length"}
  IN IF lines = {} THEN {-1} ELSE {headers[i].val : i \in lines}

Smaller(a, b) == IF a < b THEN a ELSE b

(* How many units of body a content length stands for.                     *)
BodyLength(contentLength) == IF contentLength > 0 THEN contentLength ELSE 0

=============================================================================
