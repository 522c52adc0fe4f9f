------------------------------- MODULE UdpPort -------------------------------
(***************************************************************************)
(* What w55_udp_read promises to its callers: datagrams that were accepted *)
(* come out whole and in order, one per call, each with its sender, its    *)
(* full size and as much of it as the caller has room for.                 *)
(***************************************************************************)
EXTENDS Integers, Sequences

CONSTANTS
  Datagrams,   \* what may arrive: records of from and data
  Size         \* room in the caller's buffer

VARIABLES
  queue,   \* accepted, not yet read
  got      \* what the last call returned

Nothing == [from |-> 0, size |-> 0, copied |-> <<>>]

Init == queue = <<>> /\ got = Nothing

Accept(d) == queue' = Append(queue, d) /\ UNCHANGED got

Taken(d) ==
  [from |-> d.from, size |-> Len(d.data),
   copied |-> SubSeq(d.data, 1, IF Len(d.data) < Size THEN Len(d.data) ELSE Size)]

Take ==
  /\ queue # <<>>
  /\ got' = Taken(Head(queue))
  /\ queue' = Tail(queue)

\* A call finds nothing only if nothing is there.
FindNothing == queue = <<>> /\ got' = Nothing /\ UNCHANGED queue

Next == (\E d \in Datagrams : Accept(d)) \/ Take \/ FindNothing

Spec == Init /\ [][Next]_<<queue, got>>
=============================================================================
