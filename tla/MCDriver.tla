------------------------------ MODULE MCDriver ------------------------------
(* Instance of Driver for TLC.                                             *)
EXTENDS Driver

\* Datagrams that are empty, short, as long as the caller's buffer, and longer;
\* contents that look like headers.
MCDatagrams ==
  {[from |-> 1, data |-> <<>>], [from |-> 2, data |-> <<1>>],
   [from |-> 1, data |-> <<2, 1>>], [from |-> 2, data |-> <<1, 2, 0>>]}

\* Parts that fill the ring alone, in pairs, or not at all.
MCParts == {<<>>, <<1>>, <<2, 1>>, <<1, 1, 2>>}
=============================================================================
