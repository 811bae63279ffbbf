--------------------------- MODULE MCGraphExecution ---------------------------
(***************************************************************************)
(* GraphExecution for TLC: graphs on two streams over one or two segments. *)
(***************************************************************************)
EXTENDS GraphExecution

Future(s, p, n) ==
    [stream |-> s, predecessor |-> p, kind |-> "future", subject |-> n, recorded_by |-> 0]
RecordOf(s, p, e) ==
    [stream |-> s, predecessor |-> p, kind |-> "record", subject |-> e, recorded_by |-> 0]
WaitFor(s, p, e, r) ==
    [stream |-> s, predecessor |-> p, kind |-> "wait", subject |-> e, recorded_by |-> r]

Uses(a, b) == [s \in Segment |-> IF s = "a" THEN a ELSE b]
Unused == Uses("none", "none")

(* Stream 1 writes a and records; stream 2 waits, reads a and writes b,    *)
(* then runs a generated operation.                                        *)
Pipeline ==
    [nodes |-> <<Future(1, 0, 1), RecordOf(1, 1, 1), WaitFor(2, 0, 1, 2), Future(2, 3, 4),
                 Future(2, 4, 5)>>,
     action |-> <<"ordinary", "join", "join", "ordinary", "generated">>,
     uses |-> <<Uses("write", "none"), Unused, Unused, Uses("read", "write"), Unused>>]

(* Two readers of a on two streams; the writer of a waits for the other.   *)
ReadersThenWriter ==
    [nodes |-> <<Future(1, 0, 1), Future(2, 0, 2), RecordOf(2, 2, 1), WaitFor(1, 1, 1, 3),
                 Future(1, 4, 5)>>,
     action |-> <<"ordinary", "ordinary", "join", "join", "ordinary">>,
     uses |-> <<Uses("read", "none"), Uses("read", "write"), Unused, Unused,
                Uses("both", "read")>>]

(* The same without the event: the writer races the reader on stream 2.    *)
Racing ==
    [nodes |-> <<Future(1, 0, 1), Future(2, 0, 2), Future(1, 1, 3)>>,
     action |-> <<"ordinary", "ordinary", "ordinary">>,
     uses |-> <<Uses("read", "none"), Uses("read", "none"), Uses("write", "none")>>]

(* Two writers in turn, and a generated operation beside them.             *)
Rewriting ==
    [nodes |-> <<Future(1, 0, 1), Future(1, 1, 2), Future(2, 0, 3), Future(1, 2, 4)>>,
     action |-> <<"ordinary", "ordinary", "generated", "ordinary">>,
     uses |-> <<Uses("write", "none"), Uses("both", "none"), Unused, Uses("read", "write")>>]

MCRequests == {Pipeline, ReadersThenWriter, Racing, Rewriting}

=============================================================================
