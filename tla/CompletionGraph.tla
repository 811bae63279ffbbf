---------------------------- MODULE CompletionGraph ----------------------------
(***************************************************************************)
(* Completion graphs (fe2o3-completion, graph.rs): the validation of a     *)
(* graph, its dependency index and topological order, and the transitions  *)
(* of the authority that decides which node may run and which node shares  *)
(* the fate of another.                                                    *)
(*                                                                         *)
(* The nodes of a graph are a function from identities 1..n to             *)
(*   [stream, predecessor, kind, subject, recorded_by]                     *)
(* where 0 stands for an absent predecessor or record and subject is the   *)
(* future or the event of the node.  A validated graph keeps the indices   *)
(* computed from its nodes: [dependencies, successors, order].  Identities *)
(* are ordered, and the code keeps both indices sorted: a set stands for   *)
(* such a sequence, and Ascending is that sequence.                        *)
(***************************************************************************)
EXTENDS Naturals, Sequences, SequencesExt, FiniteSets, FiniteSetsExt

CONSTANT Stream  \* the declared streams

Kind == {"future", "record", "wait"}

(* FoldLeft as a recursive function of the number of elements taken, where  *)
(* TLC evaluates each intermediate result once.                             *)
Fold(op(_, _), base, seq) ==
    LET f[i \in 0..Len(seq)] ==
            IF i = 0 THEN base ELSE CHOOSE r \in {op(v, seq[i]) : v \in {f[i - 1]}} : TRUE
    IN  f[Len(seq)]

Ascending(S) ==
    CHOOSE s \in [1..Cardinality(S) -> S] : \A i, j \in DOMAIN s : i < j => s[i] < s[j]

(***************************************************************************)
(* Validation of the nodes g.                                              *)
(***************************************************************************)
(* dependency_indices: at most two. *)
Dependencies(g, n) ==
    ({g[n].predecessor} \cup (IF g[n].kind = "wait" THEN {g[n].recorded_by} ELSE {})) \ {0}

(* successor_index *)
Successors(g, n) == {m \in DOMAIN g : n \in Dependencies(g, m)}

(* The smallest ready node comes next. *)
NextInOrder(g, done) ==
    LET next == {m \in DOMAIN g \ ToSet(done) : Dependencies(g, m) \subseteq ToSet(done)}
    IN  IF next = {} THEN done ELSE Append(done, Min(next))

(* deterministic_topological_order: a graph with a cycle runs out of ready  *)
(* nodes.                                                                   *)
TopologicalOrder(g) == Fold(LAMBDA done, k : NextInOrder(g, done), <<>>, g)

(* What CompletionGraphV1::new checks of the nodes of one stream. *)
StreamIsChain(g, s) ==
    LET nodes == {n \in DOMAIN g : g[n].stream = s}
    IN  /\ nodes # {}
        /\ Cardinality({n \in nodes : g[n].predecessor = 0}) = 1
        /\ \A n \in nodes : g[n].predecessor # 0 =>
              /\ g[n].predecessor \in nodes
              /\ \A m \in nodes \ {n} : g[m].predecessor # g[n].predecessor

SubjectsAreUnique(g) ==
    \A n, m \in DOMAIN g :
        n # m /\ g[n].kind = g[m].kind /\ g[n].kind # "wait"
           => g[n].subject # g[m].subject

WaitsMatchRecords(g) ==
    \A n \in DOMAIN g : g[n].kind = "wait" =>
        /\ g[n].recorded_by \in DOMAIN g
        /\ g[g[n].recorded_by].kind = "record"
        /\ g[g[n].recorded_by].subject = g[n].subject

Accepted(g, streams) ==
    /\ \A n \in DOMAIN g : g[n].stream \in streams
    /\ \A s \in streams : StreamIsChain(g, s)
    /\ SubjectsAreUnique(g)
    /\ WaitsMatchRecords(g)
    /\ Len(TopologicalOrder(g)) = Cardinality(DOMAIN g)

(* CompletionGraphV1: what the authority needs of the nodes accepted. *)
NewGraph(g) ==
    [dependencies |-> [n \in DOMAIN g |-> Dependencies(g, n)],
     successors |-> [n \in DOMAIN g |-> Successors(g, n)],
     order |-> TopologicalOrder(g)]

Nodes(g) == DOMAIN g.dependencies

(***************************************************************************)
(* The authority over a validated graph g: [state, remaining, terminal,    *)
(* ready] where ready is the queue of readiness notifications.  The state  *)
(* of a node is [is, origin, code].                                        *)
(***************************************************************************)
Blocked == [is |-> "Blocked", origin |-> 0, code |-> 0]
Ready == [is |-> "Ready", origin |-> 0, code |-> 0]
Succeeded == [is |-> "Succeeded", origin |-> 0, code |-> 0]

TerminalStates ==
    {"Succeeded", "Failed", "Cancelled", "DependencyFailed", "DependencyCancelled"}

IsTerminal(s) == s.is \in TerminalStates

NewAuthority(g) ==
    LET remaining == [n \in Nodes(g) |-> Cardinality(g.dependencies[n])]
    IN  [state |-> [n \in Nodes(g) |-> IF remaining[n] = 0 THEN Ready ELSE Blocked],
         remaining |-> remaining,
         terminal |-> 0,
         ready |-> Ascending({n \in Nodes(g) : remaining[n] = 0})]

AllTerminal(a) == a.terminal = Cardinality(DOMAIN a.state)

Settle(a, n, s) == [a EXCEPT !.state[n] = s, !.terminal = @ + 1]

(* The nodes that wait for n, and those of them that wait for nothing else. *)
Waiting(g, a, n) == {m \in g.successors[n] : a.state[m] = Blocked}
FreedAtOnce(g, a, n) == Waiting(g, a, n)
Freed(g, a, n) == {m \in Waiting(g, a, n) : a.remaining[m] = 1}

release_successors(g, a, n) ==
    [a EXCEPT !.remaining = [m \in Nodes(g) |-> IF m \in Waiting(g, a, n) THEN @[m] - 1 ELSE @[m]],
              !.state = [m \in Nodes(g) |-> IF m \in Freed(g, a, n) THEN Ready ELSE @[m]],
              !.ready = @ \o Ascending(Freed(g, a, n))]

Causes == {"Failed", "Cancelled", "DependencyFailed", "DependencyCancelled"}

DependencyCauseDirect(s) ==
    [s EXCEPT !.is = IF s.is = "Failed"
                     THEN "DependencyFailed" ELSE "DependencyCancelled"]

dependency_cause(s) ==
    [s EXCEPT !.is = IF s.is \in {"Failed", "DependencyFailed"}
                     THEN "DependencyFailed" ELSE "DependencyCancelled"]

(* The queue of propagate_terminal_cause_from is emptied in topological      *)
(* order; the first dependency with a cause gives it, and the successors of  *)
(* a settled node are queued.                                                *)
VisitUnqueued(g, b, m) ==
    LET causes == {d \in g.dependencies[m] : b.authority.state[d].is \in Causes}
    IN  IF m \in b.queued /\ b.authority.state[m] = Blocked /\ causes # {}
        THEN [b EXCEPT !.authority =
                 Settle(@, m, dependency_cause(@.state[Min(causes)]))]
        ELSE b

Visit(g, b, m) ==
    LET causes == {d \in g.dependencies[m] : b.authority.state[d].is \in Causes}
    IN  IF m \in b.queued /\ b.authority.state[m] = Blocked /\ causes # {}
        THEN [authority |-> Settle(b.authority, m,
                                   dependency_cause(b.authority.state[Min(causes)])),
              queued |-> b.queued \cup g.successors[m]]
        ELSE b

propagate_terminal_cause_from(g, a, n) ==
    Fold(LAMBDA b, m : Visit(g, b, m),
         [authority |-> a, queued |-> g.successors[n]], g.order).authority

(***************************************************************************)
(* The transitions, and when they are accepted.                            *)
(***************************************************************************)
Outstanding(a, n) == a.state[n].is \in {"Ready", "CancelRequested"}

request_cancel(a, n, reason) ==
    [a EXCEPT !.state[n] = [is |-> "CancelRequested", origin |-> 0, code |-> reason]]

cancel_blocked(g, a, n, reason) ==
    propagate_terminal_cause_from(g,
        Settle(a, n, [is |-> "Cancelled", origin |-> n, code |-> reason]), n)

mark_succeeded(g, a, n) == release_successors(g, Settle(a, n, Succeeded), n)

mark_failed(g, a, n, error) ==
    propagate_terminal_cause_from(g,
        Settle(a, n, [is |-> "Failed", origin |-> n, code |-> error]), n)

mark_cancelled(g, a, n) ==
    propagate_terminal_cause_from(g,
        Settle(a, n, [is |-> "Cancelled", origin |-> n, code |-> a.state[n].code]), n)

-----------------------------------------------------------------------------
(***************************************************************************)
(* Reference definitions.                                                  *)
(***************************************************************************)
(* The nodes that n depends on, directly or through others: they are in      *)
(* every set that has the dependencies of n and of its own members.          *)
Ancestors(g, n) ==
    LET closed == {S \in SUBSET Nodes(g) : \A m \in S \cup {n} : g.dependencies[m] \subseteq S}
    IN  {m \in Nodes(g) : \A S \in closed : m \in S}

=============================================================================
