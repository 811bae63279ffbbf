------------------------- MODULE MCCompletionAuthority -------------------------
(***************************************************************************)
(* CompletionAuthority for TLC: every graph of three nodes on two streams, *)
(* and two larger ones: a diamond across two streams, each of which waits  *)
(* for an event of the other, and a chain fed from the side.               *)
(***************************************************************************)
EXTENDS CompletionAuthority

Node(n) ==
    [stream : Stream, predecessor : 0..n, kind : {"future"}, subject : 1..n,
     recorded_by : {0}]
    \cup [stream : Stream, predecessor : 0..n, kind : {"record"}, subject : {0},
          recorded_by : {0}]
    \cup [stream : Stream, predecessor : 0..n, kind : {"wait"}, subject : {0},
          recorded_by : 1..n]

(* Every node has a future of its own and all events are one; the streams   *)
(* are interchangeable.                                                     *)
SmallGraphs ==
    {g \in [1..3 -> Node(3)] :
        /\ g[1].stream = 1
        /\ \A n \in 1..3 : g[n].kind = "future" => g[n].subject = n}

Future(s, p, n) ==
    [stream |-> s, predecessor |-> p, kind |-> "future", subject |-> n, recorded_by |-> 0]
RecordOf(s, p, e) ==
    [stream |-> s, predecessor |-> p, kind |-> "record", subject |-> e, recorded_by |-> 0]
WaitFor(s, p, e, r) ==
    [stream |-> s, predecessor |-> p, kind |-> "wait", subject |-> e, recorded_by |-> r]

Diamond ==
    <<WaitFor(2, 0, 1, 4), RecordOf(2, 1, 2), WaitFor(1, 5, 2, 2), RecordOf(1, 0, 1),
      Future(1, 4, 5)>>
SideFed ==
    <<Future(1, 0, 1), WaitFor(1, 1, 1, 5), Future(1, 2, 3), Future(2, 0, 4),
      RecordOf(2, 4, 1)>>

MCGraphs == SmallGraphs \cup {Diamond, SideFed}

=============================================================================
