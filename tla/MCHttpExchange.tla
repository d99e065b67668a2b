--------------------------- MODULE MCHttpExchange ---------------------------
(* Instance of HttpExchange for TLC: answers with and without a body, with *)
(* a body that looks like a message, in error, malformed, two in a row,    *)
(* and what is left of them when the server fails.                         *)
EXTENDS HttpExchange, SequencesExt

Text(v) == [kind |-> "text", val |-> v]
StatusLine(s) == [kind |-> "status", val |-> s]

Message(first, b) == <<first, EOL, LengthLine(Len(b)), EOL, EOL>> \o b

Complete ==
  {Message(StatusLine(200), <<Text(1), Text(2)>>),
   Message(StatusLine(200), <<EOL, EOL, Text(1)>>),
   <<StatusLine(204), EOL, EOL>>,
   Message(StatusLine(404), <<Text(1)>>),
   <<StatusLine(500), EOL, EOL>>,
   <<StatusLine(0), EOL, EOL>>,
   Message([kind |-> "line", val |-> 2], <<Text(1)>>),
   <<EOL, EOL>>,
   Message(StatusLine(200), <<Text(1)>>) \o <<StatusLine(204), EOL, EOL>>}

MCAnswers == UNION {Prefixes(a) : a \in Complete}
MCData == {<<Text(1)>>, <<Text(1), Text(2)>>}

=============================================================================
