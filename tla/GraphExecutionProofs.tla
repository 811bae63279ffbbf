------------------------- MODULE GraphExecutionProofs -------------------------
(***************************************************************************)
(* Proofs about GraphExecution, for requests of any size and shape that    *)
(* admission accepts.  The invariant relates the driver to the plan of its *)
(* request (Sound) and to the backend and the context (Outside); the       *)
(* operators here take the request as a parameter q, which no step         *)
(* changes.                                                                *)
(***************************************************************************)
EXTENDS GraphExecution, CompletionAuthorityProofs

(***************************************************************************)
(* The order of a graph.                                                   *)
(***************************************************************************)
Before(g, m, n) ==
    \E i, j \in 1..Len(g.order) : g.order[i] = m /\ g.order[j] = n /\ i < j

LEMMA BeforeIsStrict ==
    ASSUME NEW g, WellFormed(g), NEW m, NEW n, Before(g, m, n), m = n \/ Before(g, n, m)
    PROVE  FALSE
BY OrderFacts DEF Before

LEMMA AncestorsComeBefore ==
    ASSUME NEW g, WellFormed(g), NEW n \in Nodes(g), NEW m \in Ancestors(g, n)
    PROVE  Before(g, m, n) /\ m \in Nodes(g)
<1>1. PICK j \in 1..Len(g.order) : g.order[j] = n
    BY DEF WellFormed
<1> DEFINE S == {g.order[i] : i \in 1..(j - 1)}
<1>2. Len(g.order) \in Nat /\ \A i \in 1..(j - 1) : i \in 1..Len(g.order) /\ i < j
    BY OrderFacts
<1>3. S \subseteq Nodes(g)
    BY <1>2, OrderFacts
<1>4. ASSUME NEW d \in g.dependencies[n]
      PROVE  d \in S
  <2>1. PICK p \in 1..(j - 1) : g.order[p] = d
      BY <1>1, OrderFacts
  <2> QED BY <2>1
<1>5. ASSUME NEW k \in S
      PROVE  g.dependencies[k] \subseteq S
  <2>1. PICK i \in 1..(j - 1) : g.order[i] = k
      OBVIOUS
  <2> SUFFICES ASSUME NEW d \in g.dependencies[k]
               PROVE  d \in S
      OBVIOUS
  <2>2. PICK p \in 1..(i - 1) : g.order[p] = d
      BY <1>2, <2>1, OrderFacts
  <2>3. p \in 1..(j - 1)
      BY <1>2
  <2> QED BY <2>2, <2>3
<1>6. m \in S
    BY <1>3, <1>4, <1>5, AncestorsInClosed
<1>7. PICK i \in 1..(j - 1) : g.order[i] = m
    BY <1>6
<1> QED BY <1>1, <1>2, <1>3, <1>6, <1>7 DEF Before

(* All ancestors of a node whose dependencies succeeded succeeded. *)
LEMMA AncestorsSucceeded ==
    ASSUME NEW g, WellFormed(g), NEW st, Follows(g, st), NEW n \in Nodes(g),
           \A d \in g.dependencies[n] : st[d] = Succeeded
    PROVE  \A m \in Ancestors(g, n) : st[m] = Succeeded
<1> DEFINE S == {m \in Nodes(g) : st[m] = Succeeded}
<1>1. g.dependencies[n] \subseteq S
    BY DEF WellFormed
<1>2. \A m \in S : st[m].is = "Succeeded"
    BY Names
<1>3. \A m \in S : g.dependencies[m] \subseteq S
    BY <1>2 DEF Follows, WellFormed
<1>4. Ancestors(g, n) \subseteq S
    BY <1>1, <1>3, AncestorsInClosed
<1> QED BY <1>4

LEMMA MaxIsGreatest ==
    ASSUME NEW k \in Nat, NEW S, S \subseteq 1..k, S # {}
    PROVE  Max(S) \in S /\ \A y \in S : Max(S) >= y
<1> DEFINE T == {k - x : x \in S}
<1>1. T \subseteq Nat /\ T # {}
  <2>1. \A x \in S : x \in 1..k /\ k - x \in Nat
      OBVIOUS
  <2> QED BY <2>1
<1>2. Min(T) \in T /\ \A y \in T : Min(T) <= y
    BY <1>1, MinIsLeast
<1>3. PICK x \in S : \A y \in S : k - x <= k - y
  <2>1. PICK x \in S : Min(T) = k - x
      BY <1>2
  <2> QED BY <1>2, <2>1
<1>4. \A y \in S : x >= y
    BY <1>3
<1> QED BY <1>4 DEF Max

(***************************************************************************)
(* An admitted request.                                                    *)
(***************************************************************************)
RequestTyped(q) ==
    /\ WellFormed(q.graph)
    /\ q.action \in [Nodes(q.graph) -> {"join", "ordinary", "generated"}]
    /\ q.reads \in [Nodes(q.graph) -> SUBSET Segment]
    /\ q.writes \in [Nodes(q.graph) -> SUBSET Segment]
    /\ \A n \in Nodes(q.graph) : q.action[n] = "join" => q.reads[n] = {} /\ q.writes[n] = {}

(* Conflicting nodes are ordered by the graph. *)
Ordered(q) ==
    \A n, m \in Nodes(q.graph) : \A s \in Segment :
        n # m /\ s \in q.writes[n] /\ s \in q.reads[m] \cup q.writes[m] =>
            n \in Ancestors(q.graph, m) \/ m \in Ancestors(q.graph, n)

(* The prior version is that of the last writer before the node. *)
PriorIsLast(q) ==
    \A n \in Nodes(q.graph) : \A s \in Segment :
        \/ /\ q.prior[n][s] = 0
           /\ \A m \in Nodes(q.graph) : Before(q.graph, m, n) => s \notin q.writes[m]
        \/ /\ q.prior[n][s] \in Nodes(q.graph)
           /\ s \in q.writes[q.prior[n][s]] /\ Before(q.graph, q.prior[n][s], n)
           /\ \A m \in Nodes(q.graph) : Before(q.graph, m, n) /\ s \in q.writes[m] =>
                 m = q.prior[n][s] \/ Before(q.graph, m, q.prior[n][s])

RequestIsSound(q) == RequestTyped(q) /\ Ordered(q) /\ PriorIsLast(q)

LEMMA AdmittedIsSound ==
    ASSUME NEW q \in Requests, NEW g, g = NewGraph(q.nodes), Admitted(q, g)
    PROVE  RequestIsSound(Plan(q, g))
<1>1. /\ q.nodes \in Seq(ToSet(q.nodes))
      /\ q.action \in [DOMAIN q.nodes -> {"join", "ordinary", "generated"}]
      /\ q.uses \in [DOMAIN q.nodes -> [Segment -> {"none", "read", "write", "both"}]]
      /\ \A n \in DOMAIN q.nodes : q.action[n] = "join" =>
            \A s \in Segment : q.uses[n][s] = "none"
    BY RequestAssumption
<1>2. Len(q.nodes) \in Nat /\ DOMAIN q.nodes = 1..Len(q.nodes)
    BY <1>1
<1>3. WellFormed(g)
    BY <1>2, AcceptedIsWellFormed DEF Admitted
<1>4. Nodes(g) = DOMAIN q.nodes
    BY DEF NewGraph, Nodes
<1>5. PICK p, N : p = Plan(q, g) /\ N = Nodes(g)
    OBVIOUS
<1>6. /\ p.graph = g /\ p.action = q.action
      /\ p.reads = [n \in N |-> {s \in Segment : q.uses[n][s] \in Reading}]
      /\ p.writes = [n \in N |-> {s \in Segment : q.uses[n][s] \in Writing}]
      /\ p.prior = [n \in N |-> [s \in Segment |-> PlannedPrior(q, g, n, s)]]
    BY <1>5 DEF Plan
<1>7. \A n \in N : \A s \in Segment : q.uses[n][s] \in {"none", "read", "write", "both"}
    BY <1>1, <1>4, <1>5
<1>8. RequestTyped(p)
  <2>1. p.reads \in [N -> SUBSET Segment] /\ p.writes \in [N -> SUBSET Segment]
      BY <1>6
  <2>2. \A n \in N : q.action[n] = "join" => p.reads[n] = {} /\ p.writes[n] = {}
      BY <1>1, <1>4, <1>5, <1>6 DEF Reading, Writing
  <2> QED BY <1>1, <1>3, <1>4, <1>5, <1>6, <2>1, <2>2 DEF RequestTyped
<1>9. Ordered(p)
  <2> SUFFICES ASSUME NEW n \in N, NEW m \in N, NEW s \in Segment, n # m,
                      s \in p.writes[n], s \in p.reads[m] \cup p.writes[m]
               PROVE  n \in Ancestors(g, m) \/ m \in Ancestors(g, n)
      BY <1>5, <1>6 DEF Ordered
  <2>1. q.uses[n][s] \in {"write", "both"} /\ q.uses[m][s] \in {"read", "write", "both"}
      BY <1>6 DEF Reading, Writing
  <2>2. PICK u : u = {q.uses[n][s], q.uses[m][s]}
      OBVIOUS
  <2>3. "none" \notin u /\ u # {"read"}
      BY <2>1, <2>2
  <2> QED BY <1>5, <2>2, <2>3 DEF Admitted, ConflictsOrdered
<1>10. PriorIsLast(p)
  <2> SUFFICES ASSUME NEW n \in N, NEW s \in Segment, NEW x, x = PlannedPrior(q, g, n, s)
               PROVE  \/ /\ x = 0
                         /\ \A m \in N : Before(g, m, n) => s \notin p.writes[m]
                      \/ /\ x \in N /\ s \in p.writes[x] /\ Before(g, x, n)
                         /\ \A m \in N : Before(g, m, n) /\ s \in p.writes[m] =>
                               m = x \/ Before(g, m, x)
    <3>1. \A n \in N : \A s \in Segment : p.prior[n][s] = PlannedPrior(q, g, n, s)
        BY <1>6
    <3> QED BY <3>1, <1>5, <1>6 DEF PriorIsLast
  <2>1. PICK W : W = {i \in DOMAIN g.order :
                         /\ q.uses[g.order[i]][s] \in Writing
                         /\ \E j \in DOMAIN g.order : g.order[j] = n /\ i < j}
      OBVIOUS
  <2>2. x = IF W = {} THEN 0 ELSE g.order[Max(W)]
      BY <2>1 DEF PlannedPrior
  <2>3. DOMAIN g.order = 1..Len(g.order) /\ Len(g.order) \in Nat
      BY <1>3 DEF WellFormed
  <2>4. \A i \in 1..Len(g.order) : g.order[i] \in N
      BY <1>3, <1>5, OrderFacts
  <2>5. \A i \in 1..Len(g.order) : s \in p.writes[g.order[i]] <=> q.uses[g.order[i]][s] \in Writing
      BY <1>6, <2>4
  <2>6. ASSUME NEW m \in N, Before(g, m, n), s \in p.writes[m]
        PROVE  \E i \in W : g.order[i] = m
    <3>1. PICK i, j \in 1..Len(g.order) : g.order[i] = m /\ g.order[j] = n /\ i < j
        BY <2>6 DEF Before
    <3> QED BY <2>1, <2>3, <2>5, <2>6, <3>1
  <2>7. CASE W = {}
      BY <2>2, <2>6, <2>7
  <2>8. CASE W # {}
    <3>1. W \subseteq 1..Len(g.order)
        BY <2>1, <2>3
    <3>2. PICK k : k = Max(W)
        OBVIOUS
    <3>3. k \in W /\ \A y \in W : k >= y
        BY <2>3, <2>8, <3>1, <3>2, MaxIsGreatest
    <3>4. x = g.order[k] /\ x \in N /\ s \in p.writes[x]
        BY <2>1, <2>2, <2>4, <2>5, <2>8, <3>1, <3>2, <3>3
    <3>5. Before(g, x, n)
        BY <2>1, <2>3, <3>3, <3>4 DEF Before
    <3>6. ASSUME NEW m \in N, Before(g, m, n), s \in p.writes[m]
          PROVE  m = x \/ Before(g, m, x)
      <4>1. PICK i \in W : g.order[i] = m
          BY <2>6, <3>6
      <4>2. i = k \/ i < k
          BY <3>1, <3>3
      <4> QED BY <3>1, <3>3, <3>4, <4>1, <4>2 DEF Before
    <3> QED BY <3>4, <3>5, <3>6
  <2> QED BY <2>7, <2>8
<1> QED BY <1>5, <1>8, <1>9, <1>10 DEF RequestIsSound

(***************************************************************************)
(* The driver.                                                             *)
(***************************************************************************)
RunFields ==
    {"authority", "ledger", "issued", "action", "parked", "active", "nextPoll", "applied",
     "cleanup", "rejected", "slot", "reply", "broken"}
LedgerFields == {"current", "pending", "version", "started"}
ContextFields == {"terminal", "reserved", "submissions"}

Codes == 1..4

LedgerTyped(q, l) ==
    /\ DOMAIN l = LedgerFields
    /\ l.current \in [Segment -> Nodes(q.graph) \cup {0, NoVersion}]
    /\ l.pending \in [Segment -> Nodes(q.graph) \cup {NoVersion}]
    /\ l.version \in [Nodes(q.graph) -> {"Planned", "InFlight", "Committed", "Failed"}]

Entries(q) == [node : Nodes(q.graph), status : {"pending", "ok", "failed"}]

RunTyped(q, r) ==
    /\ DOMAIN r = RunFields
    /\ LedgerTyped(q, r.ledger)
    /\ r.issued \subseteq Nodes(q.graph) /\ r.parked \subseteq Nodes(q.graph)
    /\ r.action \in [Nodes(q.graph) -> {"none", "join", "ordinary", "generated"}]
    /\ r.active \in Seq(Entries(q))
    /\ r.reply \in {"none", "report", "error"}
    /\ r.applied \in BOOLEAN /\ r.broken = FALSE
    /\ r.slot = (r.reply = "none")

Busy(s) == s.is \in {"Ready", "CancelRequested"}

(* The queue has each node once, before it is issued. *)
Queued(a, issued) ==
    /\ \A i, j \in 1..Len(a.ready) : a.ready[i] = a.ready[j] => i = j
    /\ \A i \in 1..Len(a.ready) : a.state[a.ready[i]] # Blocked /\ a.ready[i] \notin issued
    /\ \A n \in issued : a.state[n] # Blocked

(* What was issued had its dependencies, and only that can succeed; a request *)
(* to cancel is granted at once.                                              *)
IssuedInOrder(g, st, issued) ==
    /\ \A n \in issued : \A d \in g.dependencies[n] : st[d] = Succeeded
    /\ \A n \in Nodes(g) :
          (st[n] = Succeeded => n \in issued) /\ st[n].is # "CancelRequested"

(* The action of a node is there until it is issued or discarded, and a     *)
(* generated one is parked.                                                 *)
ActionsKept(q, st, r) ==
    \A n \in Nodes(q.graph) : n \notin r.issued =>
        /\ r.action[n] = q.action[n] \/ (r.action[n] = "none" /\ IsTerminal(st[n]))
        /\ r.action[n] = "generated" => n \in r.parked

(* An applied cancellation has reached everything not issued. *)
CancelReached(q, st, r) ==
    r.applied => \A n \in Nodes(q.graph) : n \notin r.issued => IsTerminal(st[n])

(* The roster: issued nodes, each once, that wait for their end. *)
RosterSound(q, st, issued, active) ==
    /\ \A i, j \in 1..Len(active) : active[i].node = active[j].node => i = j
    /\ \A i \in 1..Len(active) :
          /\ active[i].node \in issued /\ Busy(st[active[i].node])
          /\ q.action[active[i].node] # "join"

Flight(s) ==
    IF Busy(s) THEN "InFlight" ELSE IF s = Succeeded THEN "Committed" ELSE "Failed"

(* The versions follow the nodes issued. *)
VersionsFollow(q, l, st, issued) ==
    \A n \in Nodes(q.graph) : l.version[n] =
        IF n \in issued /\ q.writes[n] # {} THEN Flight(st[n]) ELSE "Planned"

PendingFollows(q, l, st, issued) ==
    /\ \A s \in Segment : l.pending[s] # NoVersion =>
          /\ l.pending[s] \in issued /\ s \in q.writes[l.pending[s]]
          /\ Busy(st[l.pending[s]])
    /\ \A w \in issued : \A s \in q.writes[w] :
          Busy(st[w]) => l.pending[s] = w /\ l.current[s] = NoVersion

(* The current version is that of the last writer issued, if it succeeded. *)
LastWriter(q, issued, w, s) ==
    \A x \in issued : s \in q.writes[x] => x = w \/ x \in Ancestors(q.graph, w)

CurrentFollows(q, l, st, issued) ==
    /\ \A s \in Segment : (\A w \in issued : s \notin q.writes[w]) => l.current[s] = 0
    /\ \A w \in issued : \A s \in q.writes[w] :
          st[w] = Succeeded /\ LastWriter(q, issued, w, s) => l.current[s] = w

LedgerFollows(q, l, st, issued) ==
    /\ l.started = issued
    /\ VersionsFollow(q, l, st, issued)
    /\ PendingFollows(q, l, st, issued)
    /\ CurrentFollows(q, l, st, issued)

Sound(q, r) ==
    /\ RunTyped(q, r)
    /\ Consistent(q.graph, Codes, r.authority)
    /\ Queued(r.authority, r.issued)
    /\ IssuedInOrder(q.graph, r.authority.state, r.issued)
    /\ ActionsKept(q, r.authority.state, r)
    /\ CancelReached(q, r.authority.state, r)
    /\ RosterSound(q, r.authority.state, r.issued, r.active)
    /\ LedgerFollows(q, r.ledger, r.authority.state, r.issued)

(***************************************************************************)
(* The backend and the context.                                            *)
(***************************************************************************)
(* What the backend does was issued, and the roster knows no more than that. *)
BackendFollows(q, nat, issued, active) ==
    /\ nat \in [Nodes(q.graph) -> {"none", "running", "ok", "failed"}]
    /\ \A n \in Nodes(q.graph) : nat[n] # "none" => n \in issued /\ q.action[n] # "join"
    /\ \A i \in 1..Len(active) :
          /\ nat[active[i].node] # "none"
          /\ active[i].status # "pending" => nat[active[i].node] = active[i].status

SuccessIsRetired(q, st, nat, submissions) ==
    \A n \in Nodes(q.graph) : st[n] = Succeeded =>
        q.action[n] = "join" \/ (nat[n] = "ok" /\ n \notin submissions)

(* Without a fault the context holds nothing but the roster. *)
InRoster(active, n) == \E i \in 1..Len(active) : active[i].node = n

ContextFollows(q, r, c, faulty) ==
    /\ DOMAIN c = ContextFields /\ c.submissions \subseteq Nodes(q.graph)
    /\ c.terminal \in BOOLEAN /\ c.reserved \in BOOLEAN
    /\ ~ faulty /\ r.reply = "none" => \A n \in c.submissions : InRoster(r.active, n)
    /\ c.terminal => faulty
    /\ r.reply = "error" => c.terminal
    /\ r.reply = "report" => ~ c.reserved
    /\ r.reply = "none" => c.reserved

Outside(q, r, nat, c, faulty) ==
    /\ BackendFollows(q, nat, r.issued, r.active)
    /\ SuccessIsRetired(q, r.authority.state, nat, c.submissions)
    /\ ContextFollows(q, r, c, faulty)

IInv ==
    /\ RequestIsSound(request)
    /\ Sound(request, run)
    /\ Outside(request, run, native, context, fault)
    /\ engine.left \in 0..Budget /\ cancel \in BOOLEAN /\ fault \in BOOLEAN

(***************************************************************************)
(* Two nodes issued that conflict: one has succeeded before the other.     *)
(***************************************************************************)
LEMMA IssuedHasAncestors ==
    ASSUME NEW q, RequestIsSound(q), NEW a, Consistent(q.graph, Codes, a), NEW issued,
           issued \subseteq Nodes(q.graph), IssuedInOrder(q.graph, a.state, issued),
           NEW w \in issued, NEW m \in Ancestors(q.graph, w)
    PROVE  a.state[m] = Succeeded
BY AncestorsSucceeded DEF RequestIsSound, RequestTyped, Consistent, IssuedInOrder

LEMMA BusyHasAncestors ==
    ASSUME NEW q, RequestIsSound(q), NEW a, Consistent(q.graph, Codes, a),
           NEW n \in Nodes(q.graph), Busy(a.state[n]), NEW m \in Ancestors(q.graph, n)
    PROVE  a.state[m] = Succeeded
<1>1. a.state[n].is \in {"Ready", "CancelRequested", "Succeeded", "Failed"}
    BY DEF Busy
<1> QED BY <1>1, ReadyMeansAllSucceeded DEF RequestIsSound, RequestTyped, Consistent

LEMMA BusyIsNot ==
    ASSUME NEW s, Busy(s)
    PROVE  s # Succeeded /\ s # Blocked /\ ~ IsTerminal(s) /\ s.is \notin Causes
BY DEF Busy, Succeeded, Blocked, IsTerminal, TerminalStates, Causes

LEMMA OutstandingIsBusy ==
    ASSUME NEW a, NEW n
    PROVE  Outstanding(a, n) = Busy(a.state[n])
BY DEF Outstanding, Busy

LEMMA ReadyIsBusy == Busy(Ready)
BY DEF Ready, Busy

(* A busy node shares no segment that it or the other writes with an issued  *)
(* one that is not an ancestor that succeeded.                               *)
LEMMA NoConflict ==
    ASSUME NEW q, RequestIsSound(q), NEW a, Consistent(q.graph, Codes, a), NEW issued,
           issued \subseteq Nodes(q.graph), IssuedInOrder(q.graph, a.state, issued),
           NEW w \in issued, NEW n \in Nodes(q.graph), n # w, Busy(a.state[n]),
           NEW s \in Segment, s \in q.writes[w] \/ s \in q.writes[n],
           s \in q.reads[w] \cup q.writes[w], s \in q.reads[n] \cup q.writes[n]
    PROVE  a.state[w] = Succeeded /\ w \in Ancestors(q.graph, n)
<1>1. w \in Ancestors(q.graph, n) \/ n \in Ancestors(q.graph, w)
    BY DEF RequestIsSound, Ordered
<1>2. n \notin Ancestors(q.graph, w)
    BY IssuedHasAncestors, BusyIsNot
<1>3. a.state[w] = Succeeded
    BY <1>1, <1>2, BusyHasAncestors
<1> QED BY <1>1, <1>2, <1>3

(***************************************************************************)
(* The ledger.                                                             *)
(***************************************************************************)
(* A node that is ready finds its versions. *)
FindsVersions(q, l, n, s) ==
    /\ l.current[s] = q.prior[n][s]
    /\ q.prior[n][s] = 0 \/ l.version[q.prior[n][s]] = "Committed"
    /\ s \in q.writes[n] => l.pending[s] = NoVersion

LEMMA ReadyFindsVersions ==
    ASSUME NEW q, RequestIsSound(q), NEW a, Consistent(q.graph, Codes, a), NEW issued,
           issued \subseteq Nodes(q.graph), IssuedInOrder(q.graph, a.state, issued),
           NEW l, LedgerFollows(q, l, a.state, issued),
           NEW n \in Nodes(q.graph), n \notin issued, Busy(a.state[n]),
           NEW s \in q.reads[n] \cup q.writes[n]
    PROVE  FindsVersions(q, l, n, s)
<1> SUFFICES /\ l.current[s] = q.prior[n][s]
             /\ q.prior[n][s] = 0 \/ l.version[q.prior[n][s]] = "Committed"
             /\ s \in q.writes[n] => l.pending[s] = NoVersion
    BY DEF FindsVersions
<1>1. s \in Segment
    BY DEF RequestIsSound, RequestTyped
<1>2. ASSUME NEW w \in issued, s \in q.writes[w]
      PROVE  w \in Ancestors(q.graph, n) /\ a.state[w] = Succeeded /\ w \in Nodes(q.graph)
    BY <1>1, <1>2, NoConflict
<1>3. \A m \in Ancestors(q.graph, n) : Before(q.graph, m, n) /\ m \in Nodes(q.graph)
    BY AncestorsComeBefore DEF RequestIsSound, RequestTyped
<1>4. s \in q.writes[n] => l.pending[s] = NoVersion
  <2> SUFFICES ASSUME l.pending[s] # NoVersion
               PROVE  FALSE
      OBVIOUS
  <2>1. PICK w : w = l.pending[s]
      OBVIOUS
  <2>2. w \in issued /\ s \in q.writes[w] /\ Busy(a.state[w])
      BY <1>1, <2>1 DEF LedgerFollows, PendingFollows
  <2> QED BY <1>2, <2>2, BusyIsNot
<1>5. PICK p : p = q.prior[n][s]
    OBVIOUS
<1>6. CASE /\ p = 0
           /\ \A m \in Nodes(q.graph) : Before(q.graph, m, n) => s \notin q.writes[m]
  <2>1. \A w \in issued : s \notin q.writes[w]
      BY <1>2, <1>3, <1>6
  <2>2. l.current[s] = 0
      BY <1>1, <2>1 DEF LedgerFollows, CurrentFollows
  <2> QED BY <1>4, <1>5, <1>6, <2>2
<1>7. CASE /\ p \in Nodes(q.graph) /\ s \in q.writes[p] /\ Before(q.graph, p, n)
           /\ \A m \in Nodes(q.graph) : Before(q.graph, m, n) /\ s \in q.writes[m] =>
                 m = p \/ Before(q.graph, m, p)
  <2>0. WellFormed(q.graph)
      BY DEF RequestIsSound, RequestTyped
  <2>1. p # n /\ ~ Before(q.graph, n, p)
      BY <1>7, <2>0, BeforeIsStrict
  <2>2. p \in Ancestors(q.graph, n)
    <3>1. p \in Ancestors(q.graph, n) \/ n \in Ancestors(q.graph, p)
        BY <1>1, <1>7, <2>1 DEF RequestIsSound, Ordered
    <3> QED BY <1>7, <2>0, <2>1, <3>1, AncestorsComeBefore
  <2>3. a.state[p] = Succeeded
      BY <2>2, BusyHasAncestors
  <2>4. p \in issued
      BY <1>7, <2>3 DEF IssuedInOrder
  <2>5. LastWriter(q, issued, p, s)
    <3> SUFFICES ASSUME NEW x \in issued, s \in q.writes[x], x # p
                 PROVE  x \in Ancestors(q.graph, p)
        BY DEF LastWriter
    <3>1. Before(q.graph, x, p) /\ x \in Nodes(q.graph)
        BY <1>2, <1>3, <1>7
    <3>2. x \in Ancestors(q.graph, p) \/ p \in Ancestors(q.graph, x)
        BY <1>1, <1>7, <3>1 DEF RequestIsSound, Ordered
    <3> QED BY <1>7, <2>0, <3>1, <3>2, AncestorsComeBefore, BeforeIsStrict
  <2>6. l.current[s] = p
      BY <1>7, <2>3, <2>4, <2>5 DEF LedgerFollows, CurrentFollows
  <2>7. l.version[p] = "Committed"
    <3>1. Flight(a.state[p]) = "Committed"
        BY <2>3, BusyIsNot DEF Flight
    <3> QED BY <1>7, <2>4, <3>1 DEF LedgerFollows, VersionsFollow
  <2> QED BY <1>4, <1>5, <2>6, <2>7
<1> QED BY <1>1, <1>5, <1>6, <1>7 DEF RequestIsSound, PriorIsLast

LEMMA ReadyCanBegin ==
    ASSUME NEW q, q = request, RequestIsSound(q), NEW a, Consistent(q.graph, Codes, a),
           NEW issued, issued \subseteq Nodes(q.graph),
           IssuedInOrder(q.graph, a.state, issued),
           NEW l, LedgerFollows(q, l, a.state, issued),
           NEW n \in Nodes(q.graph), n \notin issued, Busy(a.state[n])
    PROVE  CanBegin(l, n)
<1>1. \A s \in q.reads[n] \cup q.writes[n] : FindsVersions(q, l, n, s)
    BY ReadyFindsVersions
<1>2. l.version[n] = "Planned" /\ n \notin l.started
    BY DEF LedgerFollows, VersionsFollow
<1> QED BY <1>1, <1>2 DEF CanBegin, Available, CurrentIs, Reads, Writes, Prior, FindsVersions

LEMMA BusyCanCommit ==
    ASSUME NEW q, q = request, RequestIsSound(q), NEW st, NEW issued,
           NEW l, LedgerFollows(q, l, st, issued), issued \subseteq Nodes(q.graph),
           NEW n \in issued, Busy(st[n])
    PROVE  CanCommit(l, n)
<1>1. \A s \in q.writes[n] : l.pending[s] = n /\ l.current[s] = NoVersion
    BY DEF LedgerFollows, PendingFollows
<1>2. q.writes[n] # {} => l.version[n] = "InFlight"
    BY DEF LedgerFollows, VersionsFollow, Flight
<1> QED BY <1>1, <1>2 DEF CanCommit, Writes

(* What the operations do to a ledger, piece by piece. *)
Changed(q, l, k, n, version) ==
    \A m \in Nodes(q.graph) : k.version[m] =
        IF m = n /\ q.writes[n] # {} THEN version ELSE l.version[m]

LEMMA BeginFields ==
    ASSUME NEW q, q = request, RequestIsSound(q), NEW l, LedgerTyped(q, l),
           NEW n \in Nodes(q.graph), NEW k, k = begin(l, n)
    PROVE  /\ LedgerTyped(q, k) /\ k.started = l.started \cup {n}
           /\ \A s \in Segment :
                 /\ k.current[s] = IF s \in q.writes[n] THEN NoVersion ELSE l.current[s]
                 /\ k.pending[s] = IF s \in q.writes[n] THEN n ELSE l.pending[s]
           /\ Changed(q, l, k, n, "InFlight")
<1>1. PICK W, N : W = q.writes[n] /\ N = Nodes(q.graph)
    OBVIOUS
<1>2. /\ DOMAIN l = LedgerFields
      /\ l.current \in [Segment -> N \cup {0, NoVersion}]
      /\ l.pending \in [Segment -> N \cup {NoVersion}]
      /\ l.version \in [N -> {"Planned", "InFlight", "Committed", "Failed"}]
    BY <1>1 DEF LedgerTyped
<1>3. /\ DOMAIN k = LedgerFields
      /\ k.started = l.started \cup {n}
      /\ k.current = [s \in Segment |-> IF s \in W THEN NoVersion ELSE l.current[s]]
      /\ k.pending = [s \in Segment |-> IF s \in W THEN n ELSE l.pending[s]]
      /\ k.version = [l.version EXCEPT ![n] = IF W = {} THEN l.version[n] ELSE "InFlight"]
    BY <1>1, <1>2 DEF begin, Writes, LedgerFields
<1>4. k.current \in [Segment -> N \cup {0, NoVersion}]
    BY <1>2, <1>3
<1>5. k.pending \in [Segment -> N \cup {NoVersion}]
    BY <1>1, <1>2, <1>3
<1>6. k.version \in [N -> {"Planned", "InFlight", "Committed", "Failed"}]
    BY <1>1, <1>2, <1>3
<1>7. Changed(q, l, k, n, "InFlight")
    BY <1>1, <1>2, <1>3 DEF Changed
<1> QED BY <1>1, <1>3, <1>4, <1>5, <1>6, <1>7 DEF LedgerTyped

LEMMA CommitFields ==
    ASSUME NEW q, q = request, RequestIsSound(q), NEW l, LedgerTyped(q, l),
           NEW n \in Nodes(q.graph), NEW k, k = commit(l, n)
    PROVE  /\ LedgerTyped(q, k) /\ k.started = l.started
           /\ \A s \in Segment :
                 /\ k.current[s] = IF s \in q.writes[n] THEN n ELSE l.current[s]
                 /\ k.pending[s] = IF s \in q.writes[n] THEN NoVersion ELSE l.pending[s]
           /\ Changed(q, l, k, n, "Committed")
<1>1. PICK W, N : W = q.writes[n] /\ N = Nodes(q.graph)
    OBVIOUS
<1>2. /\ DOMAIN l = LedgerFields
      /\ l.current \in [Segment -> N \cup {0, NoVersion}]
      /\ l.pending \in [Segment -> N \cup {NoVersion}]
      /\ l.version \in [N -> {"Planned", "InFlight", "Committed", "Failed"}]
    BY <1>1 DEF LedgerTyped
<1>3. /\ DOMAIN k = LedgerFields
      /\ k.started = l.started
      /\ k.current = [s \in Segment |-> IF s \in W THEN n ELSE l.current[s]]
      /\ k.pending = [s \in Segment |-> IF s \in W THEN NoVersion ELSE l.pending[s]]
      /\ k.version = [l.version EXCEPT ![n] = IF W = {} THEN l.version[n] ELSE "Committed"]
    BY <1>1, <1>2 DEF commit, Writes, LedgerFields
<1>4. k.current \in [Segment -> N \cup {0, NoVersion}]
    BY <1>1, <1>2, <1>3
<1>5. k.pending \in [Segment -> N \cup {NoVersion}]
    BY <1>2, <1>3
<1>6. k.version \in [N -> {"Planned", "InFlight", "Committed", "Failed"}]
    BY <1>1, <1>2, <1>3
<1>7. Changed(q, l, k, n, "Committed")
    BY <1>1, <1>2, <1>3 DEF Changed
<1> QED BY <1>1, <1>3, <1>4, <1>5, <1>6, <1>7 DEF LedgerTyped

LEMMA FailFields ==
    ASSUME NEW q, q = request, RequestIsSound(q), NEW l, LedgerTyped(q, l),
           NEW n \in Nodes(q.graph), NEW k, k = fail(l, n)
    PROVE  /\ LedgerTyped(q, k) /\ k.started = l.started /\ k.current = l.current
           /\ \A s \in Segment :
                 k.pending[s] = IF s \in q.writes[n] THEN NoVersion ELSE l.pending[s]
           /\ Changed(q, l, k, n, "Failed")
<1>1. PICK W, N : W = q.writes[n] /\ N = Nodes(q.graph)
    OBVIOUS
<1>2. /\ DOMAIN l = LedgerFields
      /\ l.current \in [Segment -> N \cup {0, NoVersion}]
      /\ l.pending \in [Segment -> N \cup {NoVersion}]
      /\ l.version \in [N -> {"Planned", "InFlight", "Committed", "Failed"}]
    BY <1>1 DEF LedgerTyped
<1>3. /\ DOMAIN k = LedgerFields
      /\ k.started = l.started /\ k.current = l.current
      /\ k.pending = [s \in Segment |-> IF s \in W THEN NoVersion ELSE l.pending[s]]
      /\ k.version = [l.version EXCEPT ![n] = IF W = {} THEN l.version[n] ELSE "Failed"]
    BY <1>1, <1>2 DEF fail, Writes, LedgerFields
<1>5. k.pending \in [Segment -> N \cup {NoVersion}]
    BY <1>2, <1>3
<1>6. k.version \in [N -> {"Planned", "InFlight", "Committed", "Failed"}]
    BY <1>1, <1>2, <1>3
<1>7. Changed(q, l, k, n, "Failed")
    BY <1>1, <1>2, <1>3 DEF Changed
<1> QED BY <1>1, <1>2, <1>3, <1>5, <1>6, <1>7 DEF LedgerTyped

LEMMA BeginFollows ==
    ASSUME NEW q, q = request, RequestIsSound(q), NEW a, Consistent(q.graph, Codes, a),
           NEW issued, issued \subseteq Nodes(q.graph),
           IssuedInOrder(q.graph, a.state, issued),
           NEW l, LedgerTyped(q, l), LedgerFollows(q, l, a.state, issued),
           NEW n \in Nodes(q.graph), n \notin issued, Busy(a.state[n]),
           NEW k, k = begin(l, n)
    PROVE  LedgerFollows(q, k, a.state, issued \cup {n})
<1>0. PICK next : next = issued \cup {n}
    OBVIOUS
<1>1. /\ k.started = l.started \cup {n}
      /\ \A s \in Segment :
            /\ k.current[s] = IF s \in q.writes[n] THEN NoVersion ELSE l.current[s]
            /\ k.pending[s] = IF s \in q.writes[n] THEN n ELSE l.pending[s]
      /\ Changed(q, l, k, n, "InFlight")
    BY BeginFields
<1>2. \A m \in Nodes(q.graph) : \A s \in q.writes[m] : s \in Segment
    BY DEF RequestIsSound, RequestTyped
<1>3. ASSUME NEW w \in issued, NEW s \in q.writes[w], s \in q.writes[n]
      PROVE  a.state[w] = Succeeded /\ w \in Ancestors(q.graph, n)
    BY <1>2, <1>3, NoConflict
<1>4. VersionsFollow(q, k, a.state, next)
  <2>1. Flight(a.state[n]) = "InFlight"
      BY DEF Flight
  <2>2. VersionsFollow(q, l, a.state, issued)
      BY DEF LedgerFollows
  <2> QED BY <1>0, <1>1, <2>1, <2>2 DEF VersionsFollow, Changed
<1>5. PendingFollows(q, k, a.state, next)
  <2>0. PendingFollows(q, l, a.state, issued)
      BY DEF LedgerFollows
  <2>1. ASSUME NEW s \in Segment, k.pending[s] # NoVersion
        PROVE  /\ k.pending[s] \in next /\ s \in q.writes[k.pending[s]]
               /\ Busy(a.state[k.pending[s]])
      BY <1>0, <1>1, <2>0, <2>1 DEF PendingFollows
  <2>2. ASSUME NEW w \in next, NEW s \in q.writes[w], Busy(a.state[w])
        PROVE  k.pending[s] = w /\ k.current[s] = NoVersion
    <3>1. CASE w = n
        BY <1>1, <1>2, <3>1
    <3>2. CASE w # n
      <4>1. w \in issued /\ s \in Segment
          BY <1>0, <1>2, <3>2
      <4>2. s \notin q.writes[n]
          BY <1>3, <2>2, <4>1, BusyIsNot
      <4> QED BY <1>1, <2>0, <2>2, <4>1, <4>2 DEF PendingFollows
    <3> QED BY <3>1, <3>2
  <2> QED BY <2>1, <2>2 DEF PendingFollows
<1>6. CurrentFollows(q, k, a.state, next)
  <2>0. CurrentFollows(q, l, a.state, issued)
      BY DEF LedgerFollows
  <2>1. ASSUME NEW s \in Segment, \A w \in next : s \notin q.writes[w]
        PROVE  k.current[s] = 0
      BY <1>0, <1>1, <2>0, <2>1 DEF CurrentFollows
  <2>2. ASSUME NEW w \in next, NEW s \in q.writes[w], a.state[w] = Succeeded,
               LastWriter(q, next, w, s)
        PROVE  k.current[s] = w
    <3>1. w # n
        BY <2>2, BusyIsNot
    <3>2. w \in issued /\ s \in Segment
        BY <1>0, <1>2, <3>1
    <3>3. s \notin q.writes[n]
      <4>1. SUFFICES ASSUME s \in q.writes[n]
                     PROVE  FALSE
          OBVIOUS
      <4>2. n \in Ancestors(q.graph, w)
          BY <1>0, <2>2, <3>1, <4>1 DEF LastWriter
      <4> QED BY <3>2, <4>2, IssuedHasAncestors, BusyIsNot
    <3>4. LastWriter(q, issued, w, s)
        BY <1>0, <2>2 DEF LastWriter
    <3> QED BY <1>1, <2>0, <2>2, <3>2, <3>3, <3>4 DEF CurrentFollows
  <2> QED BY <2>1, <2>2 DEF CurrentFollows
<1> QED BY <1>0, <1>1, <1>4, <1>5, <1>6 DEF LedgerFollows

(***************************************************************************)
(* The end of a busy node n: it becomes terminal, and the others change    *)
(* only from Blocked.                                                      *)
(***************************************************************************)
Ends(g, st, n, t) ==
    /\ IsTerminal(t[n])
    /\ \A m \in Nodes(g) : m # n /\ t[m] # st[m] =>
          st[m] = Blocked /\ t[m] # Succeeded /\ t[m] # Blocked /\ t[m].is # "CancelRequested"

LEMMA EndFollows ==
    ASSUME NEW q, q = request, RequestIsSound(q), NEW a, Consistent(q.graph, Codes, a),
           NEW issued, issued \subseteq Nodes(q.graph), \A m \in issued : a.state[m] # Blocked,
           IssuedInOrder(q.graph, a.state, issued),
           NEW l, LedgerTyped(q, l), LedgerFollows(q, l, a.state, issued),
           NEW n \in issued, Busy(a.state[n]),
           NEW t, Ends(q.graph, a.state, n, t),
           NEW k, \/ k = commit(l, n) /\ t[n] = Succeeded
                  \/ k = fail(l, n) /\ t[n] # Succeeded
                  \/ k = l /\ t[n] = Succeeded /\ q.writes[n] = {}
    PROVE  LedgerFollows(q, k, t, issued)
<1>0. n \in Nodes(q.graph)
    OBVIOUS
<1>1. /\ k.started = l.started
      /\ \A s \in Segment :
            /\ s \notin q.writes[n] => k.current[s] = l.current[s]
            /\ t[n] = Succeeded /\ s \in q.writes[n] => k.current[s] = n
            /\ k.pending[s] = IF s \in q.writes[n] THEN NoVersion ELSE l.pending[s]
      /\ Changed(q, l, k, n, IF t[n] = Succeeded THEN "Committed" ELSE "Failed")
  <2>1. CASE k = commit(l, n) /\ t[n] = Succeeded
      BY <1>0, <2>1, CommitFields
  <2>2. CASE k = fail(l, n) /\ t[n] # Succeeded
      BY <1>0, <2>2, FailFields
  <2>3. CASE k = l /\ t[n] = Succeeded /\ q.writes[n] = {}
      BY <2>3 DEF Changed
  <2> QED BY <2>1, <2>2, <2>3
<1>2. \A m \in Nodes(q.graph) : \A s \in q.writes[m] : s \in Segment
    BY DEF RequestIsSound, RequestTyped
<1>3. \A m \in issued : m # n => t[m] = a.state[m]
    BY DEF Ends
<1>4. ~ Busy(t[n])
    BY BusyIsNot DEF Ends
<1>5. VersionsFollow(q, k, t, issued)
  <2>1. Flight(t[n]) = IF t[n] = Succeeded THEN "Committed" ELSE "Failed"
      BY <1>4 DEF Flight
  <2>2. VersionsFollow(q, l, a.state, issued)
      BY DEF LedgerFollows
  <2>3. PICK version : version = IF t[n] = Succeeded THEN "Committed" ELSE "Failed"
      OBVIOUS
  <2>4. Changed(q, l, k, n, version)
      BY <1>1, <2>3
  <2> QED BY <1>3, <2>1, <2>2, <2>3, <2>4 DEF VersionsFollow, Changed
<1>6. PendingFollows(q, k, t, issued)
  <2>0. PendingFollows(q, l, a.state, issued)
      BY DEF LedgerFollows
  <2>1. ASSUME NEW s \in Segment, k.pending[s] # NoVersion
        PROVE  /\ k.pending[s] \in issued /\ s \in q.writes[k.pending[s]]
               /\ Busy(t[k.pending[s]])
    <3>1. k.pending[s] = l.pending[s] /\ s \notin q.writes[n]
        BY <1>1, <2>1
    <3>2. /\ k.pending[s] \in issued /\ s \in q.writes[k.pending[s]]
          /\ Busy(a.state[k.pending[s]])
        BY <2>0, <2>1, <3>1 DEF PendingFollows
    <3> QED BY <1>3, <3>1, <3>2
  <2>2. ASSUME NEW w \in issued, NEW s \in q.writes[w], Busy(t[w])
        PROVE  k.pending[s] = w /\ k.current[s] = NoVersion
    <3>1. w # n /\ Busy(a.state[w]) /\ s \in Segment
        BY <1>2, <1>3, <1>4, <2>2
    <3>2. s \notin q.writes[n]
        BY <2>0, <3>1 DEF PendingFollows
    <3> QED BY <1>1, <2>0, <3>1, <3>2 DEF PendingFollows
  <2> QED BY <2>1, <2>2 DEF PendingFollows
<1>7. CurrentFollows(q, k, t, issued)
  <2>0. CurrentFollows(q, l, a.state, issued)
      BY DEF LedgerFollows
  <2>1. ASSUME NEW s \in Segment, \A w \in issued : s \notin q.writes[w]
        PROVE  k.current[s] = 0
      BY <1>1, <2>0, <2>1 DEF CurrentFollows
  <2>2. ASSUME NEW w \in issued, NEW s \in q.writes[w], t[w] = Succeeded,
               LastWriter(q, issued, w, s)
        PROVE  k.current[s] = w
    <3>1. CASE w = n
        BY <1>1, <1>2, <2>2, <3>1
    <3>2. CASE w # n
      <4>1. a.state[w] = Succeeded /\ s \in Segment
          BY <1>2, <1>3, <2>2, <3>2
      <4>2. s \notin q.writes[n]
        <5>1. SUFFICES ASSUME s \in q.writes[n]
                       PROVE  FALSE
            OBVIOUS
        <5>2. n \in Ancestors(q.graph, w)
            BY <2>2, <3>2, <5>1 DEF LastWriter
        <5> QED BY <5>2, IssuedHasAncestors, BusyIsNot
      <4> QED BY <1>1, <2>0, <2>2, <4>1, <4>2 DEF CurrentFollows
    <3> QED BY <3>1, <3>2
  <2> QED BY <2>1, <2>2 DEF CurrentFollows
<1> QED BY <1>1, <1>5, <1>6, <1>7 DEF LedgerFollows

(* What else the end of a node leaves sound. *)
LEMMA EndKeeps ==
    ASSUME NEW q, RequestIsSound(q), NEW r, Sound(q, r), NEW n \in r.issued,
           Busy(r.authority.state[n]), ~ InRoster(r.active, n),
           NEW t, Ends(q.graph, r.authority.state, n, t)
    PROVE  /\ \A m \in r.issued : t[m] # Blocked
           /\ IssuedInOrder(q.graph, t, r.issued)
           /\ ActionsKept(q, t, r)
           /\ CancelReached(q, t, r)
           /\ RosterSound(q, t, r.issued, r.active)
<1>0. PICK st, issued : st = r.authority.state /\ issued = r.issued
    OBVIOUS
<1>1. /\ issued \subseteq Nodes(q.graph) /\ n \in issued /\ \A m \in issued : st[m] # Blocked
      /\ \A m \in Nodes(q.graph) : q.graph.dependencies[m] \subseteq Nodes(q.graph)
    BY <1>0 DEF Sound, RunTyped, Queued, RequestIsSound, RequestTyped, WellFormed
<1>2. \A m \in Nodes(q.graph) : m # n /\ st[m] # Blocked => t[m] = st[m]
    BY <1>0 DEF Ends
<1>3. st[n] # Succeeded /\ ~ IsTerminal(st[n]) /\ t[n] # Blocked
    BY <1>0, BusyIsNot, BlockedIsNotTerminal DEF Ends
<1>4. \A m \in issued : t[m] # Blocked
    BY <1>1, <1>2, <1>3
<1>5. IssuedInOrder(q.graph, t, issued)
  <2>0. IssuedInOrder(q.graph, st, issued)
      BY <1>0 DEF Sound
  <2>1. ASSUME NEW m \in issued, NEW d \in q.graph.dependencies[m]
        PROVE  t[d] = Succeeded
    <3>1. st[d] = Succeeded /\ d \in Nodes(q.graph)
        BY <1>1, <2>0 DEF IssuedInOrder
    <3> QED BY <1>2, <1>3, <3>1, BlockedIsNotTerminal
  <2>2. ASSUME NEW m \in Nodes(q.graph), t[m] = Succeeded
        PROVE  m \in issued
    <3>1. m = n \/ st[m] = Succeeded
        BY <1>0, <2>2 DEF Ends
    <3> QED BY <1>1, <2>0, <3>1 DEF IssuedInOrder
  <2>3. ASSUME NEW m \in Nodes(q.graph)
        PROVE  t[m].is # "CancelRequested"
    <3>1. CASE m = n
        BY <3>1 DEF Ends, IsTerminal, TerminalStates
    <3>2. CASE m # n
        BY <1>0, <2>0, <3>2 DEF IssuedInOrder, Ends
    <3> QED BY <3>1, <3>2
  <2> QED BY <2>1, <2>2, <2>3 DEF IssuedInOrder
<1>6. \A m \in Nodes(q.graph) : IsTerminal(st[m]) => t[m] = st[m]
    BY <1>2, <1>3, BlockedIsNotTerminal
<1>7. ActionsKept(q, t, r)
    BY <1>0, <1>6 DEF Sound, ActionsKept
<1>8. CancelReached(q, t, r)
    BY <1>0, <1>6 DEF Sound, CancelReached
<1>9. RosterSound(q, t, issued, r.active)
  <2>0. RosterSound(q, st, issued, r.active)
      BY <1>0 DEF Sound
  <2>1. ASSUME NEW i \in 1..Len(r.active)
        PROVE  t[r.active[i].node] = st[r.active[i].node]
    <3>1. r.active[i].node # n
        BY DEF InRoster
    <3> QED BY <1>1, <1>2, <2>0, <3>1 DEF RosterSound
  <2> QED BY <2>0, <2>1 DEF RosterSound
<1> QED BY <1>0, <1>4, <1>5, <1>7, <1>8, <1>9

(* What became ready is queued. *)
Appends(g, a, y) ==
    \/ y.ready = a.ready
    \/ \E F : /\ F \subseteq Nodes(g)
              /\ \A m \in F : a.state[m] = Blocked /\ y.state[m] # Blocked
              /\ y.ready = a.ready \o Ascending(F)

LEMMA QueueAppends ==
    ASSUME NEW g, WellFormed(g), NEW a, NEW y, NEW issued, Queued(a, issued),
           a.ready \in Seq(Nodes(g)), \A m \in issued : y.state[m] # Blocked,
           \A m \in Nodes(g) : y.state[m] = Blocked => a.state[m] = Blocked,
           Appends(g, a, y)
    PROVE  Queued(y, issued)
<1>1. CASE y.ready = a.ready
  <2>1. PICK p : p = y.ready
      OBVIOUS
  <2>2. p = a.ready /\ p \in Seq(Nodes(g))
      BY <1>1, <2>1
  <2>3. \A i \in 1..Len(p) : p[i] \in Nodes(g)
      BY <2>2
  <2>4. /\ \A i, j \in 1..Len(p) : p[i] = p[j] => i = j
        /\ \A i \in 1..Len(p) : a.state[p[i]] # Blocked /\ p[i] \notin issued
      BY <2>2 DEF Queued
  <2>5. \A i \in 1..Len(p) : y.state[p[i]] # Blocked /\ p[i] \notin issued
      BY <2>3, <2>4
  <2>6. ASSUME NEW i \in 1..Len(p), NEW j \in 1..Len(p), p[i] = p[j]
        PROVE  i = j
      BY <2>4, <2>6
  <2> QED BY <2>1, <2>5, <2>6 DEF Queued
<1>2. CASE y.ready # a.ready
  <2>0. PICK F : /\ F \subseteq Nodes(g)
                 /\ \A m \in F : a.state[m] = Blocked /\ y.state[m] # Blocked
                 /\ y.ready = a.ready \o Ascending(F)
      BY <1>2 DEF Appends
  <2>1. PICK p, v, w : p = a.ready /\ v = Ascending(F) /\ w = y.ready
      OBVIOUS
  <2>2. /\ v \in Seq(F) /\ p \in Seq(Nodes(g)) /\ w = p \o v
        /\ \A i, j \in 1..Len(v) : v[i] = v[j] => i = j
        /\ \A i, j \in 1..Len(p) : p[i] = p[j] => i = j
    <3>1. /\ v \in Seq(F)
          /\ \A i, j \in 1..Len(v) : v[i] = v[j] => i = j
      <4>1. /\ Ascending(F) \in Seq(F)
            /\ \A i, j \in 1..Len(Ascending(F)) :
                  Ascending(F)[i] = Ascending(F)[j] => i = j
          BY <2>0, NodesUpTo
      <4> QED BY <2>1, <4>1
    <3>2. p \in Seq(Nodes(g)) /\ w = p \o v
        BY <2>0, <2>1
    <3>3. \A i, j \in 1..Len(p) : p[i] = p[j] => i = j
        BY <2>1 DEF Queued
    <3> QED BY <3>1, <3>2, <3>3
  <2>3. /\ Len(p) \in Nat /\ Len(v) \in Nat /\ Len(w) = Len(p) + Len(v)
        /\ \A i \in 1..Len(p) : p[i] \in Nodes(g)
        /\ \A i \in 1..Len(v) : v[i] \in F
    <3>1. v \in Seq(Nodes(g))
        BY <2>0, <2>2
    <3> QED BY <2>2, <3>1
  <2>4. \A i \in 1..Len(p) : a.state[p[i]] # Blocked /\ p[i] \notin issued
      BY <2>1 DEF Queued
  <2>5. \A i \in 1..Len(w) : w[i] = IF i <= Len(p) THEN p[i] ELSE v[i - Len(p)]
    <3>1. v \in Seq(Nodes(g))
        BY <2>0, <2>2
    <3> QED BY <2>2, <2>3, <3>1
  <2>6. \A i \in 1..Len(w) : i <= Len(p) \/ i - Len(p) \in 1..Len(v)
      BY <2>3
  <2>7. ASSUME NEW i \in 1..Len(w), NEW j \in 1..Len(w), w[i] = w[j]
        PROVE  i = j
    <3>1. CASE i <= Len(p) /\ j <= Len(p)
      <4>1. i \in 1..Len(p) /\ j \in 1..Len(p)
          BY <2>3, <3>1
      <4>2. p[i] = p[j]
          BY <2>5, <2>7, <3>1
      <4> QED BY <2>2, <4>1, <4>2
    <3>2. CASE ~ (i <= Len(p)) /\ ~ (j <= Len(p))
      <4>1. v[i - Len(p)] = v[j - Len(p)]
          BY <2>5, <2>7, <3>2
      <4>2. i - Len(p) \in 1..Len(v) /\ j - Len(p) \in 1..Len(v)
          BY <2>6, <3>2
      <4>3. i - Len(p) = j - Len(p)
          BY <2>2, <4>1, <4>2
      <4>4. i \in Int /\ j \in Int /\ Len(p) \in Int
          BY <2>3
      <4> QED BY <4>3, <4>4
    <3>3. CASE i <= Len(p) /\ ~ (j <= Len(p))
      <4>0. i \in 1..Len(p) /\ j - Len(p) \in 1..Len(v)
          BY <2>3, <2>6, <3>3
      <4>1. i \in 1..Len(p) /\ p[i] \in F
          BY <2>3, <2>5, <2>7, <3>3, <4>0
      <4> QED BY <2>0, <2>4, <4>1
    <3>4. CASE ~ (i <= Len(p)) /\ j <= Len(p)
      <4>0. j \in 1..Len(p) /\ i - Len(p) \in 1..Len(v)
          BY <2>3, <2>6, <3>4
      <4>1. j \in 1..Len(p) /\ p[j] \in F
          BY <2>3, <2>5, <2>7, <3>4, <4>0
      <4> QED BY <2>0, <2>4, <4>1
    <3> QED BY <3>1, <3>2, <3>3, <3>4
  <2>8. ASSUME NEW i \in 1..Len(w)
        PROVE  y.state[w[i]] # Blocked /\ w[i] \notin issued
    <3>1. CASE i <= Len(p)
      <4>1. i \in 1..Len(p) /\ w[i] = p[i]
          BY <2>3, <2>5, <3>1
      <4> QED BY <2>3, <2>4, <4>1
    <3>2. CASE ~ (i <= Len(p))
      <4>1. w[i] \in F
          BY <2>3, <2>5, <2>6, <3>2
      <4> QED BY <2>0, <4>1 DEF Queued
    <3> QED BY <3>1, <3>2
  <2> QED BY <2>1, <2>7, <2>8 DEF Queued
<1> QED BY <1>1, <1>2

(***************************************************************************)
(* The driver after the end of a node: only the authority, the ledger and  *)
(* the flags differ.                                                       *)
(***************************************************************************)
SameBut(r, x) ==
    /\ DOMAIN x = RunFields
    /\ x.issued = r.issued /\ x.action = r.action /\ x.parked = r.parked
    /\ x.active = r.active /\ x.applied = r.applied
    /\ x.slot = r.slot /\ x.reply = r.reply /\ x.broken = r.broken

EndsTo(g, a, n, y) ==
    Consistent(g, Codes, y) /\ Ends(g, a.state, n, y.state) /\ Appends(g, a, y)

LEMMA EndSound ==
    ASSUME NEW q, q = request, RequestIsSound(q), NEW r, Sound(q, r), NEW n \in r.issued,
           Busy(r.authority.state[n]), ~ InRoster(r.active, n),
           NEW x, SameBut(r, x), LedgerTyped(q, x.ledger),
           EndsTo(q.graph, r.authority, n, x.authority),
           \/ x.ledger = commit(r.ledger, n) /\ x.authority.state[n] = Succeeded
           \/ x.ledger = fail(r.ledger, n) /\ x.authority.state[n] # Succeeded
           \/ x.ledger = r.ledger /\ x.authority.state[n] = Succeeded /\ q.writes[n] = {}
    PROVE  Sound(q, x)
<1>0. /\ Consistent(q.graph, Codes, x.authority)
      /\ Ends(q.graph, r.authority.state, n, x.authority.state)
    BY DEF EndsTo
<1>1. PICK a, y : a = r.authority /\ y = x.authority
    OBVIOUS
<1>2. /\ \A m \in r.issued : y.state[m] # Blocked
      /\ IssuedInOrder(q.graph, y.state, r.issued)
      /\ ActionsKept(q, y.state, r)
      /\ CancelReached(q, y.state, r)
      /\ RosterSound(q, y.state, r.issued, r.active)
    BY <1>0, <1>1, EndKeeps
<1>3. a.ready \in Seq(Nodes(q.graph)) /\ Queued(a, r.issued)
    BY <1>1, AuthorityFields DEF Sound, Consistent
<1>4. \A m \in Nodes(q.graph) : y.state[m] = Blocked => a.state[m] = Blocked
    BY <1>0, <1>1, BlockedIsNotTerminal DEF Ends
<1>5. Queued(y, r.issued)
  <2>1. WellFormed(q.graph) /\ Appends(q.graph, a, y)
      BY <1>1 DEF RequestIsSound, RequestTyped, EndsTo
  <2>2. \A m \in r.issued : y.state[m] # Blocked
      BY <1>2
  <2> QED BY <1>3, <1>4, <2>1, <2>2, QueueAppends
<1>6. LedgerFollows(q, x.ledger, y.state, r.issued)
  <2>1. /\ r.issued \subseteq Nodes(q.graph) /\ LedgerTyped(q, r.ledger)
        /\ Consistent(q.graph, Codes, a) /\ IssuedInOrder(q.graph, a.state, r.issued)
        /\ LedgerFollows(q, r.ledger, a.state, r.issued)
        /\ \A m \in r.issued : a.state[m] # Blocked
      BY <1>1 DEF Sound, RunTyped, Queued
  <2>2. PICK k, t : k = x.ledger /\ t = y.state
      OBVIOUS
  <2>3. \/ k = commit(r.ledger, n) /\ t[n] = Succeeded
        \/ k = fail(r.ledger, n) /\ t[n] # Succeeded
        \/ k = r.ledger /\ t[n] = Succeeded /\ q.writes[n] = {}
      BY <1>1, <2>2
  <2>4. Ends(q.graph, a.state, n, t) /\ Busy(a.state[n])
      BY <1>0, <1>1, <2>2
  <2>5. LedgerFollows(q, k, t, r.issued)
      BY <2>1, <2>3, <2>4, EndFollows
  <2> QED BY <2>2, <2>5
<1>7. RunTyped(q, x)
    BY DEF Sound, RunTyped, SameBut
<1>8. ActionsKept(q, y.state, x)
    BY <1>2 DEF ActionsKept, SameBut
<1>9. CancelReached(q, y.state, x)
    BY <1>2 DEF CancelReached, SameBut
<1> QED BY <1>0, <1>1, <1>2, <1>5, <1>6, <1>7, <1>8, <1>9 DEF Sound, SameBut

(* No other node succeeds. *)
OnlyMore(g, st, t, n) ==
    \A m \in Nodes(g) : t[m] = Succeeded => m = n \/ st[m] = Succeeded

LEMMA SucceedEnds ==
    ASSUME NEW g, WellFormed(g), NEW a, Consistent(g, Codes, a), NEW n \in Nodes(g),
           Busy(a.state[n]), NEW y, y = mark_succeeded(g, a, n)
    PROVE  /\ EndsTo(g, a, n, y)
           /\ y.state[n] = Succeeded /\ OnlyMore(g, a.state, y.state, n)
<1>1. Outstanding(a, n)
    BY OutstandingIsBusy
<1>2. Consistent(g, Codes, y)
    BY <1>1, SucceedSound
<1>3. PICK F : /\ F \subseteq Nodes(g)
               /\ \A m \in F : a.state[m] = Blocked /\ y.state[m] = Ready
               /\ \A m \in Nodes(g) \ F :
                     y.state[m] = IF m = n THEN Succeeded ELSE a.state[m]
               /\ y.ready = a.ready \o Ascending(F)
    BY <1>1, SucceedSound
<1>4. n \notin F /\ y.state[n] = Succeeded /\ IsTerminal(Succeeded)
  <2>1. n \notin F
      BY <1>3, BusyIsNot
  <2> QED BY <1>3, <2>1 DEF IsTerminal, TerminalStates, Succeeded
<1>5. Ready # Blocked /\ Ready # Succeeded /\ Ready.is # "CancelRequested"
    BY DEF Ready, Blocked, Succeeded
<1>6. Ends(g, a.state, n, y.state) /\ OnlyMore(g, a.state, y.state, n)
    BY <1>3, <1>4, <1>5 DEF Ends, OnlyMore
<1>7. \A m \in F : a.state[m] = Blocked /\ y.state[m] # Blocked
    BY <1>3, <1>5
<1>8. Appends(g, a, y)
    BY <1>3, <1>7 DEF Appends
<1> QED BY <1>2, <1>4, <1>6, <1>8 DEF EndsTo

LEMMA FailEnds ==
    ASSUME NEW g, WellFormed(g), NEW a, Consistent(g, Codes, a), NEW n \in Nodes(g),
           Busy(a.state[n]), NEW code \in Codes, NEW y, y = mark_failed(g, a, n, code)
    PROVE  /\ EndsTo(g, a, n, y)
           /\ y.state[n] # Succeeded
           /\ \A m \in Nodes(g) : y.state[m] = Succeeded => a.state[m] = Succeeded
<1>1. Caused(g, Codes, a, n, y)
    BY OutstandingIsBusy, CausesSound
<1>2. y.state[n].is \in Causes
    BY <1>1 DEF Caused, Causes
<1>3. y.state[n] # Succeeded /\ IsTerminal(y.state[n])
    BY <1>2, CausesAreNotBlocked
<1>4. \A m \in Nodes(g) : m # n /\ y.state[m] # a.state[m] =>
          /\ a.state[m] = Blocked /\ y.state[m] # Succeeded /\ y.state[m] # Blocked
          /\ y.state[m].is # "CancelRequested"
    BY <1>1, CausesAreNotBlocked DEF Caused
<1> QED BY <1>1, <1>3, <1>4 DEF Caused, Ends, EndsTo, Appends

(***************************************************************************)
(* The steps of the driver that end a node.                                *)
(***************************************************************************)
OthersStay(r, x, n) ==
    \A m \in r.issued : m # n => x.authority.state[m] = r.authority.state[m]

LEMMA OthersAreLeft ==
    ASSUME NEW q, NEW r, Sound(q, r), NEW n, NEW x,
           EndsTo(q.graph, r.authority, n, x.authority)
    PROVE  OthersStay(r, x, n)
BY DEF OthersStay, EndsTo, Ends, Sound, RunTyped, Queued

LEMMA SucceedOperationKeeps ==
    ASSUME NEW q, q = request, RequestIsSound(q), NEW r, Sound(q, r), NEW n \in r.issued,
           Busy(r.authority.state[n]), ~ InRoster(r.active, n),
           NEW x, x = SucceedOperation(r, n)
    PROVE  /\ Sound(q, x) /\ SameBut(r, x)
           /\ OnlyMore(q.graph, r.authority.state, x.authority.state, n)
           /\ OthersStay(r, x, n)
<1>1. /\ DOMAIN r = RunFields /\ r.issued \subseteq Nodes(q.graph) /\ LedgerTyped(q, r.ledger)
      /\ WellFormed(q.graph) /\ Consistent(q.graph, Codes, r.authority)
      /\ LedgerFollows(q, r.ledger, r.authority.state, r.issued)
    BY DEF Sound, RunTyped, RequestIsSound, RequestTyped
<1>2. CanCommit(r.ledger, n)
    BY <1>1, BusyCanCommit
<1>3. PICK z : z = [r EXCEPT !.ledger = commit(@, n)]
    OBVIOUS
<1>4. DOMAIN z = RunFields /\ z.authority = r.authority /\ z.ledger = commit(r.ledger, n)
    BY <1>1, <1>3 DEF RunFields
<1>5. x = [z EXCEPT !.authority = mark_succeeded(q.graph, r.authority, n)]
  <2>1. Outstanding(z.authority, n)
      BY <1>4, OutstandingIsBusy
  <2> QED BY <1>2, <1>3, <1>4, <2>1 DEF SucceedOperation, Succeed
<1>6. /\ x.authority = mark_succeeded(q.graph, r.authority, n)
      /\ x.ledger = commit(r.ledger, n)
    BY <1>4, <1>5 DEF RunFields
<1>7. SameBut(r, x)
    BY <1>1, <1>3, <1>4, <1>5 DEF SameBut, RunFields
<1>8. LedgerTyped(q, x.ledger)
  <2>1. n \in Nodes(q.graph)
      BY <1>1
  <2> QED BY <1>1, <1>6, <2>1, CommitFields
<1>9. n \in Nodes(q.graph)
    BY <1>1
<1>10. /\ EndsTo(q.graph, r.authority, n, x.authority)
       /\ x.authority.state[n] = Succeeded
       /\ OnlyMore(q.graph, r.authority.state, x.authority.state, n)
    BY <1>1, <1>6, <1>9, SucceedEnds
<1>11. Sound(q, x)
    BY <1>6, <1>7, <1>8, <1>10, EndSound
<1> QED BY <1>7, <1>10, <1>11, OthersAreLeft

(* A join has nothing to commit. *)
LEMMA SucceedKeeps ==
    ASSUME NEW q, q = request, RequestIsSound(q), NEW r, Sound(q, r), NEW n \in r.issued,
           Busy(r.authority.state[n]), ~ InRoster(r.active, n), q.writes[n] = {},
           NEW x, x = Succeed(r, n)
    PROVE  /\ Sound(q, x) /\ SameBut(r, x)
           /\ OnlyMore(q.graph, r.authority.state, x.authority.state, n)
           /\ OthersStay(r, x, n)
<1>1. /\ DOMAIN r = RunFields /\ r.issued \subseteq Nodes(q.graph) /\ LedgerTyped(q, r.ledger)
      /\ WellFormed(q.graph) /\ Consistent(q.graph, Codes, r.authority)
    BY DEF Sound, RunTyped, RequestIsSound, RequestTyped
<1>2. x = [r EXCEPT !.authority = mark_succeeded(q.graph, r.authority, n)]
    BY OutstandingIsBusy DEF Succeed
<1>3. x.authority = mark_succeeded(q.graph, r.authority, n) /\ x.ledger = r.ledger
    BY <1>1, <1>2 DEF RunFields
<1>4. SameBut(r, x)
    BY <1>1, <1>2 DEF SameBut, RunFields
<1>5. n \in Nodes(q.graph)
    BY <1>1
<1>6. /\ EndsTo(q.graph, r.authority, n, x.authority)
      /\ x.authority.state[n] = Succeeded
      /\ OnlyMore(q.graph, r.authority.state, x.authority.state, n)
    BY <1>1, <1>3, <1>5, SucceedEnds
<1>7. Sound(q, x)
    BY <1>1, <1>3, <1>4, <1>6, EndSound
<1> QED BY <1>4, <1>6, <1>7, OthersAreLeft

LEMMA FailNodeKeeps ==
    ASSUME NEW q, q = request, RequestIsSound(q), NEW r, Sound(q, r), NEW n \in r.issued,
           Busy(r.authority.state[n]), ~ InRoster(r.active, n), NEW code \in Codes,
           NEW x, x = fail_node(r, n, code)
    PROVE  /\ Sound(q, x) /\ SameBut(r, x)
           /\ \A m \in Nodes(q.graph) :
                 x.authority.state[m] = Succeeded => r.authority.state[m] = Succeeded
           /\ OthersStay(r, x, n)
<1>1. /\ DOMAIN r = RunFields /\ r.issued \subseteq Nodes(q.graph) /\ LedgerTyped(q, r.ledger)
      /\ WellFormed(q.graph) /\ Consistent(q.graph, Codes, r.authority)
      /\ LedgerFollows(q, r.ledger, r.authority.state, r.issued)
    BY DEF Sound, RunTyped, RequestIsSound, RequestTyped
<1>2. \A s \in q.writes[n] : r.ledger.pending[s] = n
    BY <1>1 DEF LedgerFollows, PendingFollows
<1>3. x = [r EXCEPT !.cleanup = TRUE, !.ledger = fail(@, n),
                    !.authority = mark_failed(q.graph, @, n, code)]
    BY <1>2, OutstandingIsBusy DEF fail_node, Writes
<1>4. /\ x.authority = mark_failed(q.graph, r.authority, n, code)
      /\ x.ledger = fail(r.ledger, n)
    BY <1>1, <1>3 DEF RunFields
<1>5. SameBut(r, x)
    BY <1>1, <1>3 DEF SameBut, RunFields
<1>6. LedgerTyped(q, x.ledger)
  <2>1. n \in Nodes(q.graph)
      BY <1>1
  <2> QED BY <1>1, <1>4, <2>1, FailFields
<1>7. n \in Nodes(q.graph)
    BY <1>1
<1>8. /\ EndsTo(q.graph, r.authority, n, x.authority)
      /\ x.authority.state[n] # Succeeded
      /\ \A m \in Nodes(q.graph) :
            x.authority.state[m] = Succeeded => r.authority.state[m] = Succeeded
    BY <1>1, <1>4, <1>7, FailEnds
<1>9. Sound(q, x)
    BY <1>4, <1>5, <1>6, <1>8, EndSound
<1> QED BY <1>5, <1>8, <1>9, OthersAreLeft

(***************************************************************************)
(* The sweep of a cancellation.                                            *)
(***************************************************************************)
(* Nodes not issued, and not at their end, get a cause. *)
Cancels(g, st, issued, t) ==
    \A m \in Nodes(g) : t[m] # st[m] =>
        m \notin issued /\ ~ IsTerminal(st[m]) /\ t[m].is \in Causes

(* The driver b after the first i nodes of the sweep of r. *)
Swept(q, r, raised, i, b) ==
    /\ DOMAIN b = RunFields
    /\ b.issued = r.issued /\ b.ledger = r.ledger /\ b.active = r.active
    /\ b.applied = r.applied /\ b.slot = r.slot /\ b.reply = r.reply /\ b.broken = r.broken
    /\ b.parked \subseteq Nodes(q.graph)
    /\ b.action \in [Nodes(q.graph) -> {"none", "join", "ordinary", "generated"}]
    /\ Consistent(q.graph, Codes, b.authority)
    /\ b.authority.ready = r.authority.ready
    /\ Cancels(q.graph, r.authority.state, r.issued, b.authority.state)
    /\ ActionsKept(q, b.authority.state, b)
    /\ raised => \A j \in 1..i : j \notin r.issued => IsTerminal(b.authority.state[j])

LEMMA CancelNodeCauses ==
    ASSUME NEW q, q = request, RequestIsSound(q), NEW a, Consistent(q.graph, Codes, a),
           NEW issued, \A m \in issued : a.state[m] # Blocked,
           NEW n \in Nodes(q.graph), n \notin issued, a.state[n].is # "CancelRequested",
           NEW y, y = CancelUnissuedNode(a, n)
    PROVE  /\ Consistent(q.graph, Codes, y) /\ y.ready = a.ready
           /\ Cancels(q.graph, a.state, issued, y.state)
           /\ IsTerminal(y.state[n])
<1>0. WellFormed(q.graph) /\ 1 \in Codes
    BY DEF RequestIsSound, RequestTyped, Codes
<1>1. ASSUME NEW b, Caused(q.graph, Codes, b, n, y), b.ready = a.ready,
             \A m \in Nodes(q.graph) : m # n => b.state[m] = a.state[m],
             ~ IsTerminal(a.state[n])
      PROVE  /\ Consistent(q.graph, Codes, y) /\ y.ready = a.ready
             /\ Cancels(q.graph, a.state, issued, y.state)
             /\ IsTerminal(y.state[n])
  <2>1. Consistent(q.graph, Codes, y) /\ y.ready = a.ready
      BY <1>1 DEF Caused
  <2>2. y.state[n].is \in Causes /\ IsTerminal(y.state[n])
      BY <1>1 DEF Caused, Causes, IsTerminal, TerminalStates
  <2>3. ASSUME NEW m \in Nodes(q.graph), y.state[m] # a.state[m], m # n
        PROVE  a.state[m] = Blocked /\ y.state[m].is \in Causes
      BY <1>1, <2>3 DEF Caused
  <2> QED BY <1>1, <2>1, <2>2, <2>3, BlockedIsNotTerminal DEF Cancels
<1>2. CASE a.state[n] = Blocked
  <2>0. a.state[n] # Ready
      BY <1>2 DEF Ready, Blocked
  <2>1. y = cancel_blocked(q.graph, a, n, 1)
      BY <1>2, <2>0 DEF CancelUnissuedNode
  <2>2. Caused(q.graph, Codes, a, n, y)
      BY <1>0, <1>2, <2>1, CausesSound
  <2>3. ~ IsTerminal(a.state[n])
      BY <1>2, BlockedIsNotTerminal
  <2> QED BY <1>1, <2>2, <2>3
<1>3. CASE a.state[n] = Ready
  <2>1. PICK b : b = request_cancel(a, n, 1)
      OBVIOUS
  <2>2. y = mark_cancelled(q.graph, b, n)
    <3>1. a.state[n] # Blocked
        BY <1>3, ReadyIsBusy, BusyIsNot
    <3> QED BY <1>3, <2>1, <3>1 DEF CancelUnissuedNode
  <2>3. /\ Consistent(q.graph, Codes, b) /\ b.ready = a.ready
        /\ b.state[n].is = "CancelRequested"
        /\ \A m \in Nodes(q.graph) \ {n} : b.state[m] = a.state[m]
      BY <1>0, <1>3, <2>1, RequestSound
  <2>4. Caused(q.graph, Codes, b, n, y)
      BY <1>0, <2>2, <2>3, CausesSound
  <2>5. ~ IsTerminal(a.state[n])
      BY <1>3, ReadyIsBusy, BusyIsNot
  <2> QED BY <1>1, <2>3, <2>4, <2>5
<1>4. CASE a.state[n] # Blocked /\ a.state[n] # Ready
  <2>1. y = a
      BY <1>4 DEF CancelUnissuedNode
  <2>2. a.state[n] \in NodeStates(Nodes(q.graph), Codes)
      BY AuthorityFields DEF Consistent
  <2>3. IsTerminal(a.state[n])
      BY <1>4, <2>2, StateCases, Names DEF IsTerminal
  <2> QED BY <2>1, <2>3 DEF Cancels
<1> QED BY <1>2, <1>3, <1>4

LEMMA DiscardKeeps ==
    ASSUME NEW q, q = request, RequestIsSound(q), NEW r, Sound(q, r), r.reply = "none",
           NEW raised \in BOOLEAN, NEW i \in Nat, NEW b, Swept(q, r, raised, i, b),
           i + 1 \in Nodes(q.graph)
    PROVE  Swept(q, r, raised, i + 1, Discard(b, i + 1, raised))
<1>0. PICK n : n = i + 1
    OBVIOUS
<1>1. n \in Nodes(q.graph) /\ \A j \in 1..n : j \in 1..i \/ j = n
    BY <1>0
<1>2. CASE n \in b.issued \/ (~ raised /\ ~ IsTerminal(b.authority.state[n]))
  <2>1. Discard(b, n, raised) = b
      BY <1>2 DEF Discard
  <2>2. raised => \A j \in 1..n : j \notin r.issued => IsTerminal(b.authority.state[j])
      BY <1>1, <1>2 DEF Swept
  <2>3. Swept(q, r, raised, n, b)
      BY <2>2 DEF Swept
  <2> QED BY <1>0, <2>1, <2>3
<1>3. CASE n \notin b.issued /\ (raised \/ IsTerminal(b.authority.state[n]))
  <2>1. Discardable(b, n)
      BY <1>1, <1>3 DEF Swept, ActionsKept, Discardable
  <2>2. PICK a, y : a = b.authority /\ y = CancelUnissuedNode(a, n)
      OBVIOUS
  <2>3. PICK x : x = Discard(b, n, raised)
      OBVIOUS
  <2>4. x = [b EXCEPT !.authority = y, !.action[n] = "none", !.parked = @ \ {n}]
      BY <1>3, <2>1, <2>2, <2>3 DEF Discard, Swept
  <2>5. DOMAIN b = RunFields /\ b.issued = r.issued
      BY DEF Swept
  <2>6. /\ DOMAIN x = RunFields /\ x.authority = y /\ x.parked = b.parked \ {n}
        /\ x.action = [b.action EXCEPT ![n] = "none"]
        /\ x.issued = b.issued /\ x.ledger = b.ledger /\ x.active = b.active
        /\ x.applied = b.applied /\ x.slot = b.slot /\ x.reply = b.reply
        /\ x.broken = b.broken
      BY <2>4, <2>5 DEF RunFields
  <2>7. /\ Cancels(q.graph, r.authority.state, r.issued, a.state)
        /\ Consistent(q.graph, Codes, a) /\ a.ready = r.authority.ready
        /\ ActionsKept(q, a.state, b)
      BY <2>2 DEF Swept
  <2>8. /\ r.issued \subseteq Nodes(q.graph)
        /\ \A m \in r.issued : r.authority.state[m] # Blocked
        /\ \A m \in Nodes(q.graph) : r.authority.state[m].is # "CancelRequested"
      BY DEF Sound, RunTyped, Queued, IssuedInOrder
  <2>9. \A m \in r.issued : a.state[m] # Blocked
      BY <2>7, <2>8 DEF Cancels
  <2>10. \A m \in Nodes(q.graph) : a.state[m].is # "CancelRequested"
      BY <2>7, <2>8, Names DEF Cancels
  <2>11. /\ Consistent(q.graph, Codes, y) /\ y.ready = a.ready
         /\ Cancels(q.graph, a.state, r.issued, y.state)
         /\ IsTerminal(y.state[n])
      BY <1>1, <1>3, <2>2, <2>5, <2>7, <2>9, <2>10, CancelNodeCauses
  <2>12. Cancels(q.graph, r.authority.state, r.issued, y.state)
      BY <2>7, <2>11 DEF Cancels
  <2>13. \A m \in Nodes(q.graph) : IsTerminal(a.state[m]) => IsTerminal(y.state[m])
      BY <2>11 DEF Cancels
  <2>14. b.action \in [Nodes(q.graph) -> {"none", "join", "ordinary", "generated"}]
      BY DEF Swept
  <2>15. \A m \in Nodes(q.graph) : x.action[m] = IF m = n THEN "none" ELSE b.action[m]
      BY <2>6, <2>14
  <2>16. ActionsKept(q, y.state, x)
    <3> SUFFICES ASSUME NEW m \in Nodes(q.graph), m \notin r.issued
                 PROVE  /\ \/ x.action[m] = q.action[m]
                           \/ x.action[m] = "none" /\ IsTerminal(y.state[m])
                        /\ x.action[m] = "generated" => m \in x.parked
        BY <2>5, <2>6 DEF ActionsKept
    <3>1. CASE m = n
        BY <2>11, <2>15, <3>1
    <3>2. CASE m # n
        BY <2>5, <2>6, <2>7, <2>13, <2>15, <3>2 DEF ActionsKept
    <3> QED BY <3>1, <3>2
  <2>17. x.action \in [Nodes(q.graph) -> {"none", "join", "ordinary", "generated"}]
      BY <2>6, <2>14
  <2>18. raised => \A j \in 1..n : j \notin r.issued => IsTerminal(y.state[j])
    <3> SUFFICES ASSUME raised, NEW j \in 1..n, j \notin r.issued
                 PROVE  IsTerminal(y.state[j])
        OBVIOUS
    <3>1. CASE j = n
        BY <2>11, <3>1
    <3>2. CASE j \in 1..i
      <4>1. IsTerminal(a.state[j])
          BY <2>2, <3>2 DEF Swept
      <4>2. PICK k \in Nat : Nodes(q.graph) = 1..k
          BY DEF RequestIsSound, RequestTyped, WellFormed
      <4>3. j \in Nodes(q.graph)
          BY <1>0, <1>1, <3>2, <4>2
      <4> QED BY <2>13, <4>1, <4>3
    <3> QED BY <1>1, <3>1, <3>2
  <2>19. /\ x.issued = r.issued /\ x.ledger = r.ledger /\ x.active = r.active
         /\ x.applied = r.applied /\ x.slot = r.slot /\ x.reply = r.reply
         /\ x.broken = r.broken /\ x.parked \subseteq Nodes(q.graph)
      BY <2>6 DEF Swept
  <2>20. x.authority.ready = r.authority.ready
      BY <2>6, <2>7, <2>11
  <2>21. Swept(q, r, raised, n, x)
      BY <2>6, <2>11, <2>12, <2>16, <2>17, <2>18, <2>19, <2>20 DEF Swept
  <2> QED BY <1>0, <2>3, <2>21
<1> QED BY <1>2, <1>3

DiscardStep(b, n, raised) == CHOOSE x \in {Discard(v, n, raised) : v \in {b}} : TRUE

SweepTrace(f, r, raised, k) ==
    f = [i \in 0..k |-> IF i = 0 THEN r ELSE DiscardStep(f[i - 1], InOrder[i], raised)]

LEMMA SweepTraceExists ==
    ASSUME NEW r, NEW raised
    PROVE  \A k \in Nat : \E f : SweepTrace(f, r, raised, k)
<1> DEFINE S == {k \in Nat : \E f : SweepTrace(f, r, raised, k)}
<1>1. 0 \in S
  <2> DEFINE f == [i \in 0..0 |-> r]
  <2>1. SweepTrace(f, r, raised, 0)
      BY DEF SweepTrace
  <2> QED BY <2>1
<1>2. ASSUME NEW k \in Nat, k \in S
      PROVE  k + 1 \in S
  <2>1. PICK f : SweepTrace(f, r, raised, k)
      BY <1>2
  <2> DEFINE h == [i \in 0..(k + 1) |->
                      IF i <= k THEN f[i] ELSE DiscardStep(f[k], InOrder[k + 1], raised)]
  <2>2. SweepTrace(h, r, raised, k + 1)
      BY <2>1 DEF SweepTrace
  <2> QED BY <2>2
<1> QED BY <1>1, <1>2, NatInductionSet

LEMMA SweepReaches ==
    ASSUME NEW q, q = request, RequestIsSound(q), NEW r, Sound(q, r), r.reply = "none",
           NEW raised \in BOOLEAN
    PROVE  \E k \in Nat : /\ Nodes(q.graph) = 1..k
                          /\ Swept(q, r, raised, k, Sweep(r, raised))
<1>1. PICK k \in Nat : Nodes(q.graph) = 1..k
    BY DEF RequestIsSound, RequestTyped, WellFormed
<1>2. InOrder = [n \in 1..k |-> n] /\ Len(InOrder) = k /\ \A n \in 1..k : InOrder[n] = n
  <2>1. InOrder = [n \in 1..k |-> n]
      BY <1>1 DEF InOrder, Node
  <2>2. InOrder \in Seq(1..k) /\ Len(InOrder) = k
      BY <2>1
  <2> QED BY <2>1, <2>2
<1> DEFINE f == CHOOSE h : SweepTrace(h, r, raised, k)
<1>3. SweepTrace(f, r, raised, k)
    BY SweepTraceExists
<1>4. Sweep(r, raised) = f[k]
    BY <1>2 DEF Sweep, Fold, SweepTrace, DiscardStep
<1> HIDE DEF f
<1> DEFINE S == {i \in Nat : i <= k => Swept(q, r, raised, i, f[i])}
<1>5. 0 \in S
  <2>1. f[0] = r
      BY <1>3 DEF SweepTrace
  <2>2. Swept(q, r, raised, 0, r)
      BY DEF Swept, Sound, RunTyped, Cancels
  <2> QED BY <2>1, <2>2
<1>6. ASSUME NEW i \in Nat, i \in S
      PROVE  i + 1 \in S
  <2> SUFFICES ASSUME i + 1 <= k
               PROVE  Swept(q, r, raised, i + 1, f[i + 1])
      OBVIOUS
  <2>1. f[i + 1] = DiscardStep(f[i], InOrder[i + 1], raised)
      BY <1>3 DEF SweepTrace
  <2>2. DiscardStep(f[i], InOrder[i + 1], raised) = Discard(f[i], InOrder[i + 1], raised)
      BY DEF DiscardStep
  <2>3. InOrder[i + 1] = i + 1 /\ i + 1 \in Nodes(q.graph)
      BY <1>1, <1>2
  <2>4. Swept(q, r, raised, i, f[i])
      BY <1>6
  <2>5. Swept(q, r, raised, i + 1, Discard(f[i], i + 1, raised))
      BY <2>3, <2>4, DiscardKeeps
  <2> QED BY <2>1, <2>2, <2>3, <2>5
<1>7. k \in S
    BY <1>5, <1>6, NatInductionSet
<1>8. Swept(q, r, raised, k, f[k])
    BY <1>7
<1> QED BY <1>1, <1>4, <1>8

(* The ledger looks at issued nodes only. *)
LEMMA LedgerStays ==
    ASSUME NEW q, NEW l, NEW st, NEW issued, issued \subseteq Nodes(q.graph),
           LedgerFollows(q, l, st, issued), NEW t, \A m \in issued : t[m] = st[m]
    PROVE  LedgerFollows(q, l, t, issued)
<1>1. VersionsFollow(q, l, t, issued)
    BY DEF LedgerFollows, VersionsFollow
<1>2. PendingFollows(q, l, t, issued)
    BY DEF LedgerFollows, PendingFollows
<1>3. CurrentFollows(q, l, t, issued)
    BY DEF LedgerFollows, CurrentFollows
<1> QED BY <1>1, <1>2, <1>3 DEF LedgerFollows

(* What apply_cancel leaves alone. *)
SameRoster(q, r, x) ==
    /\ DOMAIN x = RunFields
    /\ x.issued = r.issued /\ x.active = r.active
    /\ x.slot = r.slot /\ x.reply = r.reply /\ x.broken = r.broken
    /\ r.applied => x.applied
    /\ \A m \in Nodes(q.graph) :
          x.authority.state[m] = Succeeded => r.authority.state[m] = Succeeded

LEMMA SweptIsSound ==
    ASSUME NEW q, q = request, RequestIsSound(q), NEW r, Sound(q, r),
           NEW raised \in BOOLEAN, NEW k \in Nat, Nodes(q.graph) = 1..k,
           NEW b, Swept(q, r, raised, k, b),
           NEW x, DOMAIN x = RunFields, x.authority = b.authority, x.ledger = b.ledger,
           x.issued = b.issued, x.action = b.action, x.parked = b.parked,
           x.active = b.active, x.slot = b.slot, x.reply = b.reply, x.broken = b.broken,
           x.applied = b.applied \/ x.applied = (b.applied \/ raised)
    PROVE  Sound(q, x) /\ SameRoster(q, r, x)
<1>1. PICK st, t, issued : st = r.authority.state /\ t = b.authority.state
                           /\ issued = r.issued
    OBVIOUS
<1>2. /\ Cancels(q.graph, st, issued, t) /\ issued \subseteq Nodes(q.graph)
      /\ x.issued = issued /\ x.active = r.active /\ x.ledger = r.ledger
      /\ b.applied = r.applied /\ r.applied \in BOOLEAN
    BY <1>1 DEF Swept, Sound, RunTyped
<1>3. \A m \in issued : t[m] = st[m]
    BY <1>2 DEF Cancels
<1>4. \A m \in Nodes(q.graph) : t[m] = st[m] \/ (t[m].is \in Causes /\ ~ IsTerminal(st[m]))
    BY <1>2 DEF Cancels
<1>5. \A m \in Nodes(q.graph) : t[m] = Succeeded <=> st[m] = Succeeded
  <2>1. IsTerminal(Succeeded)
      BY DEF IsTerminal, TerminalStates, Succeeded
  <2> QED BY <1>4, <2>1, CausesAreNotBlocked
<1>6. \A m \in Nodes(q.graph) : IsTerminal(st[m]) => t[m] = st[m]
    BY <1>4
<1>7. RunTyped(q, x)
    BY <1>2 DEF Swept, Sound, RunTyped
<1>8. Queued(x.authority, issued)
  <2>1. /\ Queued(r.authority, issued) /\ r.authority.ready \in Seq(Nodes(q.graph))
        /\ \A m \in issued : st[m] # Blocked
      BY <1>1, AuthorityFields DEF Sound, Consistent, Queued
  <2>2. \A m \in issued : t[m] # Blocked
      BY <1>3, <2>1
  <2>3. \A m \in Nodes(q.graph) : t[m] = Blocked => st[m] = Blocked
      BY <1>4, CausesAreNotBlocked
  <2>4. Appends(q.graph, r.authority, x.authority)
      BY DEF Appends, Swept
  <2>5. WellFormed(q.graph)
      BY DEF RequestIsSound, RequestTyped
  <2> QED BY <1>1, <2>1, <2>2, <2>3, <2>4, <2>5, QueueAppends
<1>9. IssuedInOrder(q.graph, t, issued)
  <2>1. IssuedInOrder(q.graph, st, issued)
      BY <1>1 DEF Sound
  <2>2. \A m \in Nodes(q.graph) : q.graph.dependencies[m] \subseteq Nodes(q.graph)
      BY DEF RequestIsSound, RequestTyped, WellFormed
  <2>3. \A m \in issued : \A d \in q.graph.dependencies[m] : t[d] = Succeeded
      BY <1>2, <1>5, <2>1, <2>2 DEF IssuedInOrder
  <2>4. \A m \in Nodes(q.graph) : t[m].is # "CancelRequested"
      BY <1>4, <2>1, Names DEF IssuedInOrder
  <2> QED BY <1>5, <2>1, <2>3, <2>4 DEF IssuedInOrder
<1>10. ActionsKept(q, t, x)
    BY <1>1 DEF Swept, ActionsKept
<1>11. CancelReached(q, t, x)
  <2>1. CASE r.applied
      BY <1>1, <1>2, <1>6, <2>1 DEF Sound, CancelReached
  <2>2. CASE ~ r.applied
      BY <1>1, <1>2, <2>2 DEF Swept, CancelReached
  <2> QED BY <2>1, <2>2
<1>12. RosterSound(q, t, issued, x.active)
    BY <1>1, <1>2, <1>3 DEF Sound, RosterSound
<1>13. LedgerFollows(q, x.ledger, t, issued)
    BY <1>1, <1>2, <1>3, LedgerStays DEF Sound
<1>14. Consistent(q.graph, Codes, x.authority)
    BY DEF Swept
<1>15. SameRoster(q, r, x)
    BY <1>1, <1>2, <1>5 DEF SameRoster, Swept
<1> QED BY <1>1, <1>2, <1>7, <1>8, <1>9, <1>10, <1>11, <1>12, <1>13, <1>14, <1>15 DEF Sound

LEMMA ApplyCancelKeeps ==
    ASSUME NEW q, q = request, RequestIsSound(q), NEW r, Sound(q, r), r.reply = "none",
           NEW raised \in BOOLEAN, NEW x, x = apply_cancel(r, raised)
    PROVE  Sound(q, x) /\ SameRoster(q, r, x)
<1>1. PICK b : b = Sweep(r, raised)
    OBVIOUS
<1>2. PICK k \in Nat : Nodes(q.graph) = 1..k /\ Swept(q, r, raised, k, b)
    BY <1>1, SweepReaches
<1>3. CASE x = r
    BY <1>3 DEF SameRoster, Sound, RunTyped
<1>4. CASE x # r
  <2>1. b.reply = "none" /\ DOMAIN b = RunFields
      BY <1>2 DEF Swept
  <2>2. x = [b EXCEPT !.applied = @ \/ raised, !.cleanup = FALSE]
      BY <1>1, <1>4, <2>1 DEF apply_cancel
  <2>3. /\ DOMAIN x = RunFields /\ x.authority = b.authority /\ x.ledger = b.ledger
        /\ x.issued = b.issued /\ x.action = b.action /\ x.parked = b.parked
        /\ x.active = b.active /\ x.slot = b.slot /\ x.reply = b.reply
        /\ x.broken = b.broken /\ x.applied = (b.applied \/ raised)
      BY <2>1, <2>2 DEF RunFields
  <2> QED BY <1>2, <2>3, SweptIsSound
<1> QED BY <1>3, <1>4

(***************************************************************************)
(* The roster.                                                             *)
(***************************************************************************)
Member(e, s) == \E j \in 1..Len(s) : e = s[j]

(* Every entry of s is one of t. *)
Within(s, t) == \A i \in 1..Len(s) : Member(s[i], t)

(* Every entry of s is e or one of t. *)
Enlisted(s, t, e) == \A i \in 1..Len(s) : s[i] = e \/ Member(s[i], t)

(* The nodes of s are those of t, but for n. *)
Covered(s, t, n) == \A m : InRoster(s, m) => m = n \/ InRoster(t, m)

LEMMA TailOfRoster ==
    ASSUME NEW q, NEW st, NEW issued, NEW active \in Seq(Entries(q)), active # <<>>,
           RosterSound(q, st, issued, active), NEW s, s = Tail(active), NEW e, e = Head(active)
    PROVE  /\ s \in Seq(Entries(q)) /\ e \in Entries(q) /\ RosterSound(q, st, issued, s)
           /\ e.node \in issued /\ Busy(st[e.node]) /\ q.action[e.node] # "join"
           /\ ~ InRoster(s, e.node) /\ Within(s, active) /\ Member(e, active)
           /\ Covered(active, s, e.node)
<1>1. /\ Len(active) \in Nat /\ Len(active) # 0 /\ s \in Seq(Entries(q))
      /\ Len(s) = Len(active) - 1 /\ e = active[1] /\ 1 \in 1..Len(active)
      /\ \A i \in 1..Len(s) : s[i] = active[i + 1] /\ i + 1 \in 1..Len(active)
  <2>1. Len(active) \in Nat /\ Len(active) # 0
      OBVIOUS
  <2>2. s \in Seq(Entries(q)) /\ Len(s) = Len(active) - 1 /\ e = active[1]
      BY <2>1
  <2>3. \A i \in 1..(Len(active) - 1) : s[i] = active[i + 1]
      BY <2>1
  <2> QED BY <2>1, <2>2, <2>3
<1>2. e \in Entries(q) /\ \A i \in 1..Len(active) : active[i] \in Entries(q)
    BY <1>1
<1>3. /\ \A i, j \in 1..Len(active) : active[i].node = active[j].node => i = j
      /\ \A i \in 1..Len(active) :
            /\ active[i].node \in issued /\ Busy(st[active[i].node])
            /\ q.action[active[i].node] # "join"
    BY DEF RosterSound
<1>4. ASSUME NEW i \in 1..Len(s), NEW j \in 1..Len(s), s[i].node = s[j].node
      PROVE  i = j
  <2>1. i + 1 = j + 1
      BY <1>1, <1>3, <1>4
  <2> QED BY <1>1, <2>1
<1>5. RosterSound(q, st, issued, s)
    BY <1>1, <1>3, <1>4 DEF RosterSound
<1>6. ~ InRoster(s, e.node)
  <2> SUFFICES ASSUME NEW i \in 1..Len(s), s[i].node = e.node
               PROVE  FALSE
      BY DEF InRoster
  <2>1. i + 1 = 1
      BY <1>1, <1>3
  <2> QED BY <1>1, <2>1
<1>7. Within(s, active)
    BY <1>1 DEF Within, Member
<1>8. ASSUME NEW n, InRoster(active, n)
      PROVE  n = e.node \/ InRoster(s, n)
  <2>1. PICK i \in 1..Len(active) : active[i].node = n
      BY <1>8 DEF InRoster
  <2>2. CASE i = 1
      BY <1>1, <2>1, <2>2
  <2>3. CASE i # 1
    <3>1. i - 1 \in 1..Len(s) /\ (i - 1) + 1 = i
        BY <1>1, <2>3
    <3>2. s[i - 1].node = n
        BY <1>1, <2>1, <3>1
    <3> QED BY <3>1, <3>2 DEF InRoster
  <2> QED BY <2>2, <2>3
<1>9. Member(e, active) /\ Covered(active, s, e.node)
    BY <1>1, <1>8 DEF Member, Covered
<1> QED BY <1>1, <1>2, <1>3, <1>5, <1>6, <1>7, <1>9

LEMMA AppendToRoster ==
    ASSUME NEW q, NEW st, NEW issued, NEW active \in Seq(Entries(q)),
           RosterSound(q, st, issued, active), NEW e \in Entries(q),
           ~ InRoster(active, e.node), e.node \in issued, Busy(st[e.node]),
           q.action[e.node] # "join", NEW s, s = Append(active, e)
    PROVE  /\ s \in Seq(Entries(q)) /\ RosterSound(q, st, issued, s)
           /\ Enlisted(s, active, e)
           /\ InRoster(s, e.node) /\ Covered(active, s, e.node)
<1>1. /\ Len(active) \in Nat /\ s \in Seq(Entries(q)) /\ Len(s) = Len(active) + 1
      /\ s[Len(active) + 1] = e /\ \A i \in 1..Len(active) : s[i] = active[i]
    OBVIOUS
<1>2. \A i \in 1..Len(s) : i \in 1..Len(active) \/ i = Len(active) + 1
    BY <1>1
<1>3. \A i \in 1..Len(active) : i \in 1..Len(s)
    BY <1>1
<1>4. /\ \A i, j \in 1..Len(active) : active[i].node = active[j].node => i = j
      /\ \A i \in 1..Len(active) :
            /\ active[i].node \in issued /\ Busy(st[active[i].node])
            /\ q.action[active[i].node] # "join" /\ active[i].node # e.node
    BY DEF RosterSound, InRoster
<1>5. ASSUME NEW i \in 1..Len(s), NEW j \in 1..Len(s), s[i].node = s[j].node
      PROVE  i = j
  <2>1. CASE i \in 1..Len(active) /\ j \in 1..Len(active)
      BY <1>1, <1>4, <1>5, <2>1
  <2>2. CASE i \in 1..Len(active) /\ j = Len(active) + 1
      BY <1>1, <1>4, <1>5, <2>2
  <2>3. CASE i = Len(active) + 1 /\ j \in 1..Len(active)
      BY <1>1, <1>4, <1>5, <2>3
  <2>4. CASE i = Len(active) + 1 /\ j = Len(active) + 1
      BY <2>4
  <2> QED BY <1>2, <2>1, <2>2, <2>3, <2>4
<1>6. ASSUME NEW i \in 1..Len(s)
      PROVE  /\ s[i].node \in issued /\ Busy(st[s[i].node])
             /\ q.action[s[i].node] # "join"
             /\ s[i] = e \/ Member(s[i], active)
  <2>1. CASE i \in 1..Len(active)
      BY <1>1, <1>4, <2>1 DEF Member
  <2>2. CASE i = Len(active) + 1
      BY <1>1, <2>2
  <2> QED BY <1>2, <2>1, <2>2
<1>7. RosterSound(q, st, issued, s)
    BY <1>5, <1>6 DEF RosterSound
<1>8. InRoster(s, e.node)
  <2>1. Len(active) + 1 \in 1..Len(s)
      BY <1>1
  <2> QED BY <1>1, <2>1 DEF InRoster
<1>9. Covered(active, s, e.node)
    BY <1>1, <1>3 DEF InRoster, Covered
<1>10. Enlisted(s, active, e)
    BY <1>6 DEF Enlisted
<1> QED BY <1>1, <1>7, <1>8, <1>9, <1>10

(***************************************************************************)
(* The driver with another roster, and the other small steps.              *)
(***************************************************************************)
SameButRoster(r, x) ==
    /\ DOMAIN x = RunFields
    /\ x.authority = r.authority /\ x.ledger = r.ledger
    /\ x.issued = r.issued /\ x.action = r.action /\ x.applied = r.applied
    /\ x.slot = r.slot /\ x.reply = r.reply /\ x.broken = r.broken

LEMMA RosterChanges ==
    ASSUME NEW q, NEW r, Sound(q, r), NEW x, SameButRoster(r, x),
           x.active \in Seq(Entries(q)), x.parked \subseteq Nodes(q.graph),
           r.parked \subseteq x.parked \cup r.issued,
           RosterSound(q, r.authority.state, r.issued, x.active)
    PROVE  Sound(q, x)
<1>1. RunTyped(q, x)
    BY DEF Sound, RunTyped, SameButRoster
<1>2. ActionsKept(q, x.authority.state, x)
    BY DEF Sound, ActionsKept, SameButRoster
<1>3. CancelReached(q, x.authority.state, x)
    BY DEF Sound, CancelReached, SameButRoster
<1> QED BY <1>1, <1>2, <1>3 DEF Sound, SameButRoster

Answered(r, reply) == [r EXCEPT !.slot = FALSE, !.reply = reply]

LEMMA ReplySound ==
    ASSUME NEW q, NEW r, Sound(q, r), NEW reply \in {"error", "report"},
           NEW x, x = Answered(r, reply)
    PROVE  /\ Sound(q, x) /\ x.reply = reply
           /\ x.issued = r.issued /\ x.active = r.active /\ x.authority = r.authority
<1>0. DOMAIN r = RunFields
    BY DEF Sound, RunTyped
<1>1. /\ DOMAIN x = RunFields /\ x.authority = r.authority /\ x.ledger = r.ledger
      /\ x.issued = r.issued /\ x.action = r.action /\ x.applied = r.applied
      /\ x.parked = r.parked /\ x.active = r.active /\ x.broken = r.broken
      /\ x.slot = FALSE /\ x.reply = reply
    BY <1>0 DEF RunFields, Answered
<1>2. RunTyped(q, x)
    BY <1>1 DEF Sound, RunTyped
<1>3. ActionsKept(q, x.authority.state, x)
    BY <1>1 DEF Sound, ActionsKept
<1>4. CancelReached(q, x.authority.state, x)
    BY <1>1 DEF Sound, CancelReached
<1> QED BY <1>1, <1>2, <1>3, <1>4 DEF Sound

LEMMA RejectSound ==
    ASSUME NEW q, NEW r, Sound(q, r), r.reply = "none", NEW x, x = Reject(r)
    PROVE  /\ Sound(q, x) /\ x.reply = "error"
           /\ x.issued = r.issued /\ x.active = r.active /\ x.authority = r.authority
<1>1. PICK e : e = "error"
    OBVIOUS
<1>2. x = Answered(r, e)
    BY <1>1 DEF Reject, Answered
<1>3. e \in {"error", "report"}
    BY <1>1
<1>4. /\ Sound(q, x) /\ x.reply = e
      /\ x.issued = r.issued /\ x.active = r.active /\ x.authority = r.authority
    BY <1>2, <1>3, ReplySound
<1> QED BY <1>1, <1>4

(***************************************************************************)
(* Issuing.                                                                *)
(***************************************************************************)
Pop(r) == [r EXCEPT !.authority.ready = Tail(@)]

(* The first node of the queue is taken, and is not there again. *)
Popping(q, r, x, n) ==
    /\ Sound(q, x) /\ SameBut(r, x) /\ x.authority.state = r.authority.state
    /\ n \in Nodes(q.graph) /\ n \notin r.issued
    /\ \A i \in 1..Len(x.authority.ready) : x.authority.ready[i] # n

LEMMA PopSound ==
    ASSUME NEW q, NEW r, Sound(q, r), r.authority.ready # <<>>, NEW x, x = Pop(r),
           NEW n, n = Head(r.authority.ready)
    PROVE  Popping(q, r, x, n)
<1>1. PICK a, y, u, v : a = r.authority /\ y = x.authority /\ u = a.ready /\ v = Tail(u)
    OBVIOUS
<1>2. /\ DOMAIN r = RunFields /\ a \in Authorities(q.graph, Codes)
      /\ u \in Seq(Nodes(q.graph)) /\ u # <<>> /\ n = Head(u)
    BY <1>1, AuthorityFields DEF Sound, RunTyped, Consistent
<1>3. /\ DOMAIN x = RunFields /\ y = WithReady(a, v) /\ x.ledger = r.ledger
      /\ x.issued = r.issued /\ x.action = r.action /\ x.applied = r.applied
      /\ x.parked = r.parked /\ x.active = r.active /\ x.broken = r.broken
      /\ x.slot = r.slot /\ x.reply = r.reply
    BY <1>1, <1>2 DEF RunFields, WithReady, Pop
<1>4. /\ Len(u) \in Nat /\ Len(u) # 0 /\ v \in Seq(Nodes(q.graph)) /\ Len(v) = Len(u) - 1
      /\ n = u[1] /\ n \in Nodes(q.graph) /\ 1 \in 1..Len(u)
      /\ \A i \in 1..Len(v) : v[i] = u[i + 1] /\ i + 1 \in 1..Len(u)
  <2>1. Len(u) \in Nat /\ Len(u) # 0
      BY <1>2
  <2>2. v \in Seq(Nodes(q.graph)) /\ Len(v) = Len(u) - 1 /\ n = u[1]
    <3>1. v = Tail(u)
        BY <1>1
    <3> QED BY <1>2, <2>1, <3>1
  <2>3. \A i \in 1..(Len(u) - 1) : v[i] = u[i + 1]
      BY <1>1, <1>2, <2>1
  <2> QED BY <1>2, <2>1, <2>2, <2>3
<1>5. /\ y \in Authorities(q.graph, Codes) /\ y.ready = v
      /\ y.state = a.state /\ y.remaining = a.remaining /\ y.terminal = a.terminal
  <2>1. y \in Authorities(q.graph, Codes)
      BY <1>2, <1>3, <1>4, OneField
  <2> QED BY <1>2, <1>3, <2>1 DEF WithReady, Authorities
<1>6. Consistent(q.graph, Codes, y)
    BY <1>1, <1>5 DEF Sound, Consistent
<1>7. /\ \A i, j \in 1..Len(u) : u[i] = u[j] => i = j
      /\ \A i \in 1..Len(u) : a.state[u[i]] # Blocked /\ u[i] \notin r.issued
      /\ \A m \in r.issued : a.state[m] # Blocked
    BY <1>1 DEF Sound, Queued
<1>8. ASSUME NEW i \in 1..Len(v), NEW j \in 1..Len(v), v[i] = v[j]
      PROVE  i = j
  <2>1. i + 1 = j + 1
      BY <1>4, <1>7, <1>8
  <2> QED BY <1>4, <2>1
<1>9. ASSUME NEW i \in 1..Len(v)
      PROVE  v[i] # n /\ y.state[v[i]] # Blocked /\ v[i] \notin r.issued
  <2>1. i + 1 # 1
      BY <1>4
  <2> QED BY <1>4, <1>5, <1>7, <2>1
<1>10. Queued(y, r.issued)
    BY <1>5, <1>7, <1>8, <1>9 DEF Queued
<1>11. RunTyped(q, x)
    BY <1>3 DEF Sound, RunTyped
<1>12. ActionsKept(q, y.state, x)
    BY <1>1, <1>3, <1>5 DEF Sound, ActionsKept
<1>13. CancelReached(q, y.state, x)
    BY <1>1, <1>3, <1>5 DEF Sound, CancelReached
<1>14. Sound(q, x)
    BY <1>1, <1>3, <1>5, <1>6, <1>10, <1>11, <1>12, <1>13 DEF Sound
<1>15. SameBut(r, x)
    BY <1>3 DEF SameBut
<1>16. n \in Nodes(q.graph) /\ n \notin r.issued
    BY <1>4, <1>7
<1>17. \A i \in 1..Len(x.authority.ready) : x.authority.ready[i] # n
    BY <1>1, <1>5, <1>9
<1> QED BY <1>1, <1>5, <1>14, <1>15, <1>16, <1>17 DEF Popping

Begin(r, n) ==
    [r EXCEPT !.ledger = begin(@, n), !.issued = @ \cup {n}, !.action[n] = "none"]

LEMMA BegunSound ==
    ASSUME NEW q, q = request, RequestIsSound(q), NEW r, Sound(q, r), NEW n \in Nodes(q.graph),
           n \notin r.issued, r.authority.state[n] = Ready,
           \A i \in 1..Len(r.authority.ready) : r.authority.ready[i] # n,
           NEW x, x = Begin(r, n)
    PROVE  /\ Sound(q, x) /\ x.authority = r.authority /\ x.active = r.active
           /\ x.issued = r.issued \cup {n} /\ x.reply = r.reply /\ x.parked = r.parked
           /\ Busy(x.authority.state[n]) /\ ~ InRoster(x.active, n)
<1>1. PICK a, st, next : a = r.authority /\ st = a.state /\ next = r.issued \cup {n}
    OBVIOUS
<1>2. /\ DOMAIN r = RunFields /\ r.issued \subseteq Nodes(q.graph)
      /\ r.action \in [Nodes(q.graph) -> {"none", "join", "ordinary", "generated"}]
      /\ Consistent(q.graph, Codes, a) /\ Queued(a, r.issued)
      /\ IssuedInOrder(q.graph, st, r.issued) /\ LedgerTyped(q, r.ledger)
      /\ LedgerFollows(q, r.ledger, st, r.issued)
      /\ RosterSound(q, st, r.issued, r.active)
    BY <1>1 DEF Sound, RunTyped
<1>3. /\ DOMAIN x = RunFields /\ x.authority = a /\ x.ledger = begin(r.ledger, n)
      /\ x.issued = next /\ x.action = [r.action EXCEPT ![n] = "none"]
      /\ x.applied = r.applied /\ x.parked = r.parked /\ x.active = r.active
      /\ x.broken = r.broken /\ x.slot = r.slot /\ x.reply = r.reply
    BY <1>1, <1>2 DEF RunFields, Begin
<1>4. Busy(st[n]) /\ st[n] # Blocked
    BY <1>1, ReadyIsBusy, BusyIsNot
<1>5. LedgerTyped(q, x.ledger)
    BY <1>2, <1>3, BeginFields
<1>6. LedgerFollows(q, x.ledger, st, next)
  <2>1. /\ IssuedInOrder(q.graph, a.state, r.issued) /\ Busy(a.state[n])
        /\ LedgerFollows(q, r.ledger, a.state, r.issued)
      BY <1>1, <1>2, <1>4
  <2>2. LedgerFollows(q, begin(r.ledger, n), a.state, r.issued \cup {n})
      BY <1>2, <2>1, BeginFollows
  <2> QED BY <1>1, <1>3, <2>2
<1>7. \A m \in Nodes(q.graph) : x.action[m] = IF m = n THEN "none" ELSE r.action[m]
    BY <1>2, <1>3
<1>8. x.action \in [Nodes(q.graph) -> {"none", "join", "ordinary", "generated"}]
    BY <1>2, <1>3
<1>9. RunTyped(q, x)
    BY <1>1, <1>3, <1>5, <1>8 DEF Sound, RunTyped
<1>10. Queued(a, next)
    BY <1>1, <1>2, <1>4 DEF Queued
<1>11. IssuedInOrder(q.graph, st, next)
  <2>1. st[n].is \in {"Ready", "CancelRequested", "Succeeded", "Failed"}
      BY <1>4 DEF Busy
  <2>2. \A d \in q.graph.dependencies[n] : st[d] = Succeeded
      BY <1>1, <1>2, <2>1 DEF Consistent, Follows
  <2> QED BY <1>1, <1>2, <2>2 DEF IssuedInOrder
<1>12. ActionsKept(q, st, x)
    BY <1>1, <1>3, <1>7 DEF Sound, ActionsKept
<1>13. CancelReached(q, st, x)
    BY <1>1, <1>3 DEF Sound, CancelReached
<1>14. RosterSound(q, st, next, r.active)
    BY <1>1, <1>2 DEF RosterSound
<1>15. ~ InRoster(r.active, n)
    BY <1>2 DEF RosterSound, InRoster
<1>16. Sound(q, x)
    BY <1>1, <1>2, <1>3, <1>6, <1>9, <1>10, <1>11, <1>12, <1>13, <1>14 DEF Sound
<1> QED BY <1>1, <1>3, <1>4, <1>15, <1>16

(* An issued node is not parked any more. *)
Unpark(r, n) == [r EXCEPT !.parked = @ \ {n}]

LEMMA UnparkSound ==
    ASSUME NEW q, NEW r, Sound(q, r), NEW n \in r.issued, NEW x, x = Unpark(r, n)
    PROVE  /\ Sound(q, x) /\ SameButRoster(r, x) /\ x.active = r.active
<1>1. DOMAIN r = RunFields
    BY DEF Sound, RunTyped
<1>2. x.active = r.active /\ x.parked = r.parked \ {n}
    BY <1>1 DEF RunFields, Unpark
<1>3. SameButRoster(r, x)
    BY <1>1 DEF SameButRoster, RunFields, Unpark
<1>4. /\ x.active \in Seq(Entries(q)) /\ x.parked \subseteq Nodes(q.graph)
      /\ r.parked \subseteq x.parked \cup r.issued
      /\ RosterSound(q, r.authority.state, r.issued, x.active)
    BY <1>2 DEF Sound, RunTyped
<1> QED BY <1>2, <1>3, <1>4, RosterChanges

(***************************************************************************)
(* The driver of a step, by its parts.                                     *)
(***************************************************************************)
LEMMA TurnedSound ==
    ASSUME NEW q, Sound(q, run)
    PROVE  /\ Sound(q, Turned) /\ SameButRoster(run, Turned)
           /\ Turned.active = run.active
<1>1. PICK r, x : r = run /\ x = Turned
    OBVIOUS
<1>2. DOMAIN r = RunFields
    BY <1>1 DEF Sound, RunTyped
<1>3. SameButRoster(r, x) /\ x.active = r.active /\ x.parked = r.parked
    BY <1>1, <1>2 DEF Turned, SameButRoster, RunFields
<1>4. /\ x.active \in Seq(Entries(q)) /\ x.parked \subseteq Nodes(q.graph)
      /\ RosterSound(q, r.authority.state, r.issued, x.active)
    BY <1>1, <1>3 DEF Sound, RunTyped
<1>5. Sound(q, x)
    BY <1>1, <1>3, <1>4, RosterChanges
<1> QED BY <1>1, <1>3, <1>5

LEMMA IssuingSound ==
    ASSUME NEW q, q = request, RequestIsSound(q), Sound(q, run), run.reply = "none"
    PROVE  Sound(q, Issuing) /\ SameRoster(q, run, Issuing)
<1>1. PICK r, y, x : r = run /\ y = Turned /\ x = Issuing
    OBVIOUS
<1>2. Sound(q, y) /\ SameButRoster(r, y) /\ y.active = r.active
    BY <1>1, TurnedSound
<1>3. SameRoster(q, r, y) /\ y.reply = "none"
    BY <1>1, <1>2 DEF SameRoster, SameButRoster
<1>4. CASE x = y
    BY <1>1, <1>2, <1>3, <1>4
<1>5. CASE x # y
  <2>1. x = apply_cancel(y, TRUE)
      BY <1>1, <1>5 DEF Issuing
  <2>2. Sound(q, x) /\ SameRoster(q, y, x)
      BY <1>2, <1>3, <2>1, ApplyCancelKeeps
  <2>3. SameRoster(q, r, x)
      BY <1>3, <2>2 DEF SameRoster
  <2> QED BY <1>1, <2>2, <2>3
<1> QED BY <1>4, <1>5

(* The driver without the head of the roster. *)
LEMMA UnpolledSound ==
    ASSUME NEW q, Sound(q, run), run.active # <<>>, NEW n, n = Polled.node
    PROVE  /\ Sound(q, Unpolled) /\ SameButRoster(run, Unpolled)
           /\ Unpolled.active = Tail(run.active)
           /\ Polled \in Entries(q) /\ n \in run.issued /\ Busy(run.authority.state[n])
           /\ q.action[n] # "join" /\ ~ InRoster(Unpolled.active, n)
           /\ Within(Unpolled.active, run.active)
           /\ Member(Polled, run.active) /\ Covered(run.active, Unpolled.active, n)
<1>1. PICK r, x, e : r = run /\ x = Unpolled /\ e = Polled
    OBVIOUS
<1>2. DOMAIN r = RunFields /\ r.active \in Seq(Entries(q))
      /\ r.parked \subseteq Nodes(q.graph)
      /\ RosterSound(q, r.authority.state, r.issued, r.active)
    BY <1>1 DEF Sound, RunTyped
<1>3. SameButRoster(r, x) /\ x.active = Tail(r.active) /\ x.parked = r.parked
    BY <1>1, <1>2 DEF Unpolled, Turned, SameButRoster, RunFields
<1>4. e = Head(r.active) /\ n = e.node /\ r.active # <<>>
    BY <1>1 DEF Polled
<1>5. /\ x.active \in Seq(Entries(q)) /\ e \in Entries(q)
      /\ RosterSound(q, r.authority.state, r.issued, x.active)
      /\ e.node \in r.issued /\ Busy(r.authority.state[e.node]) /\ q.action[e.node] # "join"
      /\ ~ InRoster(x.active, e.node) /\ Within(x.active, r.active)
      /\ Member(e, r.active) /\ Covered(r.active, x.active, e.node)
    BY <1>2, <1>3, <1>4, TailOfRoster
<1>6. Sound(q, x)
    BY <1>1, <1>2, <1>3, <1>5, RosterChanges
<1> QED BY <1>1, <1>3, <1>4, <1>5, <1>6

(* A driver with one more entry. *)
Enlist(r, e) == [r EXCEPT !.active = Append(@, e)]

LEMMA EnlistSound ==
    ASSUME NEW q, NEW r, Sound(q, r), NEW e \in Entries(q), ~ InRoster(r.active, e.node),
           e.node \in r.issued, Busy(r.authority.state[e.node]), q.action[e.node] # "join",
           NEW x, x = Enlist(r, e)
    PROVE  /\ Sound(q, x) /\ SameButRoster(r, x)
           /\ Enlisted(x.active, r.active, e)
           /\ InRoster(x.active, e.node) /\ Covered(r.active, x.active, e.node)
<1>1. /\ DOMAIN r = RunFields /\ r.active \in Seq(Entries(q)) /\ r.parked \subseteq Nodes(q.graph)
      /\ RosterSound(q, r.authority.state, r.issued, r.active)
    BY DEF Sound, RunTyped
<1>2. SameButRoster(r, x) /\ x.active = Append(r.active, e) /\ x.parked = r.parked
    BY <1>1 DEF Enlist, SameButRoster, RunFields
<1>3. /\ x.active \in Seq(Entries(q))
      /\ RosterSound(q, r.authority.state, r.issued, x.active)
      /\ Enlisted(x.active, r.active, e)
      /\ InRoster(x.active, e.node) /\ Covered(r.active, x.active, e.node)
    BY <1>1, <1>2, AppendToRoster
<1>4. Sound(q, x)
    BY <1>1, <1>2, <1>3, RosterChanges
<1> QED BY <1>2, <1>3, <1>4

(***************************************************************************)
(* What the rest of the system sees of a step.                             *)
(***************************************************************************)
Known(nat, e) == nat[e.node] # "none" /\ (e.status # "pending" => nat[e.node] = e.status)

LEMMA BackendRoster ==
    ASSUME NEW q, NEW nat, NEW issued, NEW active, BackendFollows(q, nat, issued, active),
           NEW next, issued \subseteq next, NEW s,
           \A i \in 1..Len(s) : Known(nat, s[i]) \/ Member(s[i], active)
    PROVE  BackendFollows(q, nat, next, s)
<1>1. \A j \in 1..Len(active) : Known(nat, active[j])
    BY DEF BackendFollows, Known
<1>2. \A i \in 1..Len(s) : Known(nat, s[i])
    BY <1>1 DEF Member
<1> QED BY <1>2 DEF BackendFollows, Known

(* A step of the driver alone. *)
LEMMA OutsideStays ==
    ASSUME NEW q, NEW r, NEW nat, NEW c, NEW faulty, Outside(q, r, nat, c, faulty),
           NEW x, x.issued = r.issued, x.active = r.active, x.reply = r.reply,
           \A m \in Nodes(q.graph) :
              x.authority.state[m] = Succeeded => r.authority.state[m] = Succeeded
    PROVE  Outside(q, x, nat, c, faulty)
<1>1. BackendFollows(q, nat, x.issued, x.active)
    BY DEF Outside
<1>2. SuccessIsRetired(q, x.authority.state, nat, c.submissions)
    BY DEF Outside, SuccessIsRetired
<1>3. ContextFollows(q, x, c, faulty)
    BY DEF Outside, ContextFollows
<1> QED BY <1>1, <1>2, <1>3 DEF Outside

(* The end of the driver with an error: the context is sealed for a fault. *)
LEMMA OutsideSealed ==
    ASSUME NEW q, NEW nat, NEW c, NEW k, NEW x, x.reply = "error",
           BackendFollows(q, nat, x.issued, x.active),
           SuccessIsRetired(q, x.authority.state, nat, c.submissions),
           DOMAIN k = ContextFields, k.submissions = c.submissions, k.terminal = TRUE,
           k.reserved \in BOOLEAN, c.submissions \subseteq Nodes(q.graph)
    PROVE  Outside(q, x, nat, k, TRUE)
BY DEF Outside, ContextFollows

(***************************************************************************)
(* The actions.                                                            *)
(***************************************************************************)
LEMMA Stepped ==
    ASSUME IInv, NEW q, q = request, request' = request, Sound(q, run'),
           Outside(q, run', native', context', fault'), engine'.left \in 0..Budget,
           cancel' \in BOOLEAN, fault' \in BOOLEAN
    PROVE  IInv'
BY DEF IInv

LEMMA TurnFacts ==
    ASSUME IInv, NEW polls, Turn(polls)
    PROVE  /\ request' = request /\ cancel' = cancel /\ engine'.left \in 0..Budget
           /\ run.reply = "none" /\ ~ context.terminal
           /\ polls = TRUE => run.active # <<>>
BY BoundsAssumption DEF IInv, Turn, Goto, Live

LEMMA InitIInv == Init => IInv
<1> SUFFICES ASSUME Init
             PROVE  IInv
    OBVIOUS
<1>1. PICK p \in Requests :
          \E g \in {h \in {NewGraph(p.nodes)} : Admitted(p, h)} : request = Plan(p, g)
    BY DEF Init
<1>a. PICK g : g = NewGraph(p.nodes) /\ Admitted(p, g) /\ request = Plan(p, g)
    BY <1>1
<1>2. RequestIsSound(request)
    BY <1>1, <1>a, AdmittedIsSound
<1>3. PICK q : q = request
    OBVIOUS
<1>4. PICK g1, N : g1 = q.graph /\ N = Nodes(g1)
    OBVIOUS
<1>5. WellFormed(g1) /\ q.action \in [N -> {"join", "ordinary", "generated"}]
    BY <1>2, <1>3, <1>4 DEF RequestIsSound, RequestTyped
<1>6. PICK r, a, l : r = run /\ a = NewAuthority(g1) /\ l = NewLedger
    OBVIOUS
<1>7. /\ DOMAIN r = RunFields /\ r.authority = a /\ r.ledger = l /\ r.issued = {}
      /\ r.action = q.action /\ r.parked = {n \in N : q.action[n] = "generated"}
      /\ r.active = <<>> /\ r.applied = FALSE /\ r.slot = TRUE /\ r.reply = "none"
      /\ r.broken = FALSE
    BY <1>3, <1>4, <1>6 DEF Init, Start, RunFields, Node, Action
<1>8. /\ DOMAIN l = LedgerFields /\ l.current = [s \in Segment |-> 0]
      /\ l.pending = [s \in Segment |-> NoVersion]
      /\ l.version = [n \in N |-> "Planned"] /\ l.started = {}
    BY <1>3, <1>4, <1>6 DEF NewLedger, LedgerFields, Node
<1>9. Consistent(g1, Codes, a) /\ Notices(g1, a, a.ready)
    BY <1>5, <1>6, NewAuthoritySound
<1>10. LedgerTyped(q, l)
    BY <1>4, <1>8 DEF LedgerTyped
<1>11. RunTyped(q, r)
  <2>1. r.action \in [N -> {"none", "join", "ordinary", "generated"}]
      BY <1>5, <1>7
  <2>2. r.active \in Seq(Entries(q)) /\ r.issued \subseteq N /\ r.parked \subseteq N
      BY <1>7
  <2> QED BY <1>4, <1>7, <1>10, <2>1, <2>2 DEF RunTyped
<1>12. Queued(a, {})
    BY <1>9 DEF Notices, Queued
<1>13. \A n \in N : a.state[n] = Ready \/ a.state[n] = Blocked
    BY <1>4, <1>6 DEF NewAuthority
<1>14. \A n \in N : a.state[n] # Succeeded /\ a.state[n].is # "CancelRequested"
    BY <1>13 DEF Ready, Blocked, Succeeded
<1>15. IssuedInOrder(g1, a.state, {})
    BY <1>4, <1>14 DEF IssuedInOrder
<1>16. ActionsKept(q, a.state, r)
    BY <1>4, <1>7 DEF ActionsKept
<1>17. CancelReached(q, a.state, r) /\ RosterSound(q, a.state, {}, <<>>)
    BY <1>7 DEF CancelReached, RosterSound
<1>18. LedgerFollows(q, l, a.state, {})
    BY <1>4, <1>8 DEF LedgerFollows, VersionsFollow, PendingFollows, CurrentFollows
<1>19. Sound(q, r)
    BY <1>4, <1>7, <1>9, <1>11, <1>12, <1>15, <1>16, <1>17, <1>18 DEF Sound
<1>20. /\ native = [n \in N |-> "none"] /\ fault = FALSE /\ cancel = FALSE
       /\ context = [terminal |-> FALSE, reserved |-> TRUE, submissions |-> {}]
       /\ engine = [at |-> "idle", left |-> 0]
    BY <1>3, <1>4 DEF Init, Node
<1>21. BackendFollows(q, native, r.issued, r.active)
    BY <1>4, <1>7, <1>20 DEF BackendFollows
<1>22. SuccessIsRetired(q, r.authority.state, native, context.submissions)
    BY <1>4, <1>7, <1>14 DEF SuccessIsRetired
<1>23. ContextFollows(q, r, context, fault)
    BY <1>7, <1>20 DEF ContextFollows, ContextFields
<1>24. Outside(q, r, native, context, fault)
    BY <1>21, <1>22, <1>23 DEF Outside
<1>25. engine.left \in 0..Budget
    BY <1>20, BoundsAssumption
<1> QED BY <1>2, <1>3, <1>6, <1>19, <1>20, <1>24, <1>25 DEF IInv

LEMMA BackendFinishesKeeps ==
    ASSUME IInv, NEW n \in Node, BackendFinishes(n)
    PROVE  IInv'
<1>1. PICK q : q = request
    OBVIOUS
<1>2. PICK outcome \in {"ok", "failed"} : native' = [native EXCEPT ![n] = outcome]
    BY DEF BackendFinishes
<1>3. /\ native[n] = "running" /\ n \in Nodes(q.graph) /\ request' = request /\ run' = run
      /\ context' = context /\ fault' = fault /\ cancel' = cancel /\ engine' = engine
    BY <1>1 DEF BackendFinishes, Node
<1>4. Outside(q, run, native, context, fault) /\ Sound(q, run)
    BY <1>1 DEF IInv
<1>5. native \in [Nodes(q.graph) -> {"none", "running", "ok", "failed"}]
    BY <1>4 DEF Outside, BackendFollows
<1>6. /\ native' \in [Nodes(q.graph) -> {"none", "running", "ok", "failed"}]
      /\ \A m \in Nodes(q.graph) : native'[m] = IF m = n THEN outcome ELSE native[m]
    BY <1>2, <1>5
<1>7. \A i \in 1..Len(run.active) : /\ run.active[i].node \in Nodes(q.graph)
                                     /\ run.active[i].status # "running"
  <2>1. run.active \in Seq(Entries(q))
      BY <1>4 DEF Sound, RunTyped
  <2>2. \A i \in 1..Len(run.active) : run.active[i] \in Entries(q)
      BY <2>1
  <2> QED BY <2>2 DEF Entries
<1>8. BackendFollows(q, native', run.issued, run.active)
    BY <1>3, <1>4, <1>6, <1>7 DEF Outside, BackendFollows
<1>9. SuccessIsRetired(q, run.authority.state, native', context.submissions)
    BY <1>3, <1>4, <1>6 DEF Outside, SuccessIsRetired
<1>10. Outside(q, run, native', context, fault)
    BY <1>4, <1>8, <1>9 DEF Outside
<1> QED BY <1>1, <1>3, <1>4, <1>10, Stepped DEF IInv

(* A step that changes the driver alone. *)
LEMMA DriverStep ==
    ASSUME IInv, NEW q, q = request, NEW x, Sound(q, x), SameRoster(q, run, x),
           run' = x, request' = request, native' = native, context' = context,
           fault' = fault, cancel' \in BOOLEAN, engine'.left \in 0..Budget
    PROVE  IInv' /\ run'.issued = run.issued
<1>1. Outside(q, run, native, context, fault)
    BY DEF IInv
<1>2. Outside(q, x, native, context, fault)
    BY <1>1, OutsideStays DEF SameRoster
<1> QED BY <1>2, Stepped DEF IInv, SameRoster

LEMMA Unchanged ==
    ASSUME NEW q, Sound(q, run)
    PROVE  SameRoster(q, run, run)
BY DEF SameRoster, Sound, RunTyped

(* Continue does not seal the context for a driver that goes on. *)
LEMMA ContinueFacts ==
    ASSUME NEW r, r.reply = "none", Continue(r)
    PROVE  run' = r /\ context' = context
BY DEF Continue, Failed

LEMMA AdvanceKeeps ==
    ASSUME IInv, Advance
    PROVE  IInv' /\ run'.issued = run.issued
<1>1. PICK q, x : q = request /\ x = apply_cancel(run, cancel)
    OBVIOUS
<1>2. RequestIsSound(q) /\ Sound(q, run) /\ run.reply = "none" /\ cancel \in BOOLEAN
    BY <1>1 DEF IInv, Advance, Live
<1>3. Sound(q, x) /\ SameRoster(q, run, x)
    BY <1>1, <1>2, ApplyCancelKeeps
<1>4. x.reply = "none" /\ Continue(x)
    BY <1>1, <1>2, <1>3 DEF SameRoster, Advance
<1>5. run' = x /\ context' = context
    BY <1>4, ContinueFacts
<1>6. /\ request' = request /\ native' = native /\ fault' = fault /\ cancel' = cancel
      /\ engine'.left \in 0..Budget
    BY BoundsAssumption DEF Advance, Goto
<1> QED BY <1>1, <1>2, <1>3, <1>5, <1>6, DriverStep

LEMMA IssueNothingKeeps ==
    ASSUME IInv, IssueNothing
    PROVE  IInv' /\ run'.issued = run.issued
<1>1. PICK q, x : q = request /\ x = apply_cancel(run, TRUE)
    OBVIOUS
<1>2. RequestIsSound(q) /\ Sound(q, run) /\ run.reply = "none"
    BY <1>1 DEF IInv, IssueNothing, Live
<1>3. Sound(q, x) /\ SameRoster(q, run, x)
    BY <1>1, <1>2, ApplyCancelKeeps
<1>4. /\ run' = x /\ context' = context /\ request' = request /\ native' = native
      /\ fault' = fault /\ cancel' = cancel /\ engine' = engine
    BY <1>1 DEF IssueNothing
<1> QED BY <1>1, <1>3, <1>4, DriverStep DEF IInv

LEMMA SkipNotificationKeeps ==
    ASSUME IInv, SkipNotification
    PROVE  IInv' /\ run'.issued = run.issued
<1>1. PICK q, x, y : q = request /\ x = Issuing /\ y = Popped
    OBVIOUS
<1>2. RequestIsSound(q) /\ Sound(q, run) /\ Turn(FALSE)
    BY <1>1 DEF IInv, SkipNotification
<1>3. /\ run.reply = "none" /\ request' = request /\ cancel' = cancel
      /\ engine'.left \in 0..Budget
    BY <1>2, TurnFacts
<1>4. Sound(q, x) /\ SameRoster(q, run, x)
    BY <1>1, <1>2, <1>3, IssuingSound
<1>5. x.reply = "none" /\ ~ Failed(x)
    BY <1>3, <1>4 DEF SameRoster, Failed
<1>6. x.authority.ready # <<>> /\ Continue(y) /\ native' = native /\ fault' = fault
    BY <1>1, <1>5 DEF SkipNotification
<1>7. y = Pop(x)
    BY <1>1 DEF Popped, Pop
<1>8. Sound(q, y) /\ SameBut(x, y) /\ y.authority.state = x.authority.state
  <2>1. Popping(q, x, y, Head(x.authority.ready))
      BY <1>4, <1>6, <1>7, PopSound
  <2> QED BY <2>1 DEF Popping
<1>9. SameRoster(q, run, y) /\ y.reply = "none"
    BY <1>4, <1>5, <1>8 DEF SameBut, SameRoster
<1>10. run' = y /\ context' = context
    BY <1>6, <1>9, ContinueFacts
<1> QED BY <1>1, <1>3, <1>6, <1>8, <1>9, <1>10, DriverStep DEF IInv

LEMMA EndRoundKeeps ==
    ASSUME IInv, EndRound
    PROVE  IInv' /\ run'.issued = run.issued
<1>1. PICK q : q = request
    OBVIOUS
<1>2. Sound(q, run)
    BY <1>1 DEF IInv
<1>3. /\ request' = request /\ native' = native /\ fault' = fault /\ cancel' = cancel
      /\ context' = context /\ engine'.left \in 0..Budget /\ (run' = run \/ run' = Turned)
    BY BoundsAssumption DEF EndRound, Goto
<1>4. CASE run' = run
    BY <1>1, <1>2, <1>3, <1>4, Unchanged, DriverStep DEF IInv
<1>5. CASE run' = Turned
  <2>1. Sound(q, Turned) /\ SameButRoster(run, Turned) /\ Turned.active = run.active
      BY <1>2, TurnedSound
  <2>2. SameRoster(q, run, Turned)
      BY <2>1 DEF SameButRoster, SameRoster
  <2> QED BY <1>1, <1>3, <1>5, <2>1, <2>2, DriverStep DEF IInv
<1> QED BY <1>3, <1>4, <1>5

(***************************************************************************)
(* Issuing a node.                                                         *)
(***************************************************************************)
(* A step in which the driver issues or ends nodes, without a new success. *)
LEMMA OutsideGrows ==
    ASSUME NEW q, NEW r, NEW nat, NEW c, NEW faulty, Outside(q, r, nat, c, faulty),
           NEW x, r.issued \subseteq x.issued, x.active = r.active, x.reply = r.reply,
           \A m \in Nodes(q.graph) : x.authority.state[m] = Succeeded =>
              r.authority.state[m] = Succeeded \/ q.action[m] = "join"
    PROVE  Outside(q, x, nat, c, faulty)
<1>1. BackendFollows(q, nat, x.issued, x.active)
    BY DEF Outside, BackendFollows
<1>2. SuccessIsRetired(q, x.authority.state, nat, c.submissions)
    BY DEF Outside, SuccessIsRetired
<1>3. ContextFollows(q, x, c, faulty)
    BY DEF Outside, ContextFollows
<1> QED BY <1>1, <1>2, <1>3 DEF Outside

Pending(n) == [node |-> n, status |-> "pending"]

(* The backend starts a node. *)
LEMMA BackendStarts ==
    ASSUME NEW q, NEW nat, NEW issued, NEW active, BackendFollows(q, nat, issued, active),
           active \in Seq(Entries(q)),
           NEW n \in Nodes(q.graph), q.action[n] # "join", ~ InRoster(active, n),
           NEW next, next = issued \cup {n}, NEW s,
           \A i \in 1..Len(s) : s[i] = Pending(n) \/ Member(s[i], active),
           NEW k, k = [nat EXCEPT ![n] = "running"]
    PROVE  BackendFollows(q, k, next, s)
<1>1. /\ nat \in [Nodes(q.graph) -> {"none", "running", "ok", "failed"}]
      /\ \A j \in 1..Len(active) : Known(nat, active[j])
      /\ \A m \in Nodes(q.graph) : nat[m] # "none" => m \in issued /\ q.action[m] # "join"
    BY DEF BackendFollows, Known
<1>2. /\ k \in [Nodes(q.graph) -> {"none", "running", "ok", "failed"}]
      /\ \A m \in Nodes(q.graph) : k[m] = IF m = n THEN "running" ELSE nat[m]
    BY <1>1
<1>3. \A m \in Nodes(q.graph) : k[m] # "none" => m \in next /\ q.action[m] # "join"
    BY <1>1, <1>2
<1>4. \A j \in 1..Len(active) : active[j].node \in Nodes(q.graph) /\ active[j].node # n
  <2>1. \A j \in 1..Len(active) : active[j] \in Entries(q)
      OBVIOUS
  <2> QED BY <2>1 DEF InRoster, Entries
<1>5. \A j \in 1..Len(active) : Known(k, active[j])
    BY <1>1, <1>2, <1>4 DEF Known
<1>6. Known(k, Pending(n))
    BY <1>2 DEF Known, Pending
<1>7. \A i \in 1..Len(s) : Known(k, s[i])
    BY <1>5, <1>6 DEF Member
<1> QED BY <1>2, <1>3, <1>7 DEF BackendFollows, Known

LEMMA IssueFacts ==
    ASSUME IInv, NEW n, Turn(FALSE), ~ Failed(Issuing), CanIssue(n), NEW q, q = request
    PROVE  /\ RequestIsSound(q) /\ n \in Nodes(q.graph) /\ n \notin Popped.issued
           /\ ~ run.applied /\ CanBegin(Popped.ledger, n)
           /\ Popped.action[n] = q.action[n]
           /\ Sound(q, Begun(n)) /\ Begun(n).reply = "none"
           /\ Begun(n).issued = run.issued \cup {n} /\ Begun(n).active = run.active
           /\ Busy(Begun(n).authority.state[n]) /\ ~ InRoster(run.active, n)
           /\ Outside(q, Begun(n), native, context, fault)
<1>1. PICK y, p, b : y = Issuing /\ p = Popped /\ b = Begun(n)
    OBVIOUS
<1>2. RequestIsSound(q) /\ Sound(q, run) /\ run.reply = "none"
    BY TurnFacts DEF IInv
<1>3. Sound(q, y) /\ SameRoster(q, run, y)
    BY <1>1, <1>2, IssuingSound
<1>4. y.authority.ready # <<>> /\ n = Head(y.authority.ready) /\ y.authority.state[n] = Ready
    BY <1>1 DEF CanIssue
<1>5. p = Pop(y)
    BY <1>1 DEF Popped, Pop
<1>6. /\ Sound(q, p) /\ SameBut(y, p) /\ p.authority.state = y.authority.state
      /\ n \in Nodes(q.graph) /\ n \notin y.issued
      /\ \A i \in 1..Len(p.authority.ready) : p.authority.ready[i] # n
  <2>1. Popping(q, y, p, n)
      BY <1>3, <1>4, <1>5, PopSound
  <2> QED BY <2>1 DEF Popping
<1>7. /\ p.issued = run.issued /\ p.active = run.active /\ p.reply = "none"
      /\ n \notin p.issued /\ p.authority.state[n] = Ready
    BY <1>2, <1>3, <1>4, <1>6 DEF SameBut, SameRoster
<1>8. Busy(p.authority.state[n]) /\ ~ IsTerminal(p.authority.state[n])
    BY <1>7, ReadyIsBusy, BusyIsNot
<1>9. ~ run.applied
  <2>1. y.authority.state[n] = p.authority.state[n] /\ CancelReached(q, y.authority.state, y)
      BY <1>3, <1>6 DEF Sound
  <2>2. ~ y.applied
      BY <1>6, <1>8, <2>1 DEF CancelReached
  <2> QED BY <1>3, <2>2 DEF SameRoster
<1>10. CanBegin(p.ledger, n)
    BY <1>2, <1>6, <1>7, <1>8, ReadyCanBegin DEF Sound, RunTyped
<1>11. p.action[n] = q.action[n]
    BY <1>6, <1>7, <1>8 DEF Sound, ActionsKept
<1>12. b = Begin(p, n)
    BY <1>1 DEF Begun, Begin
<1>13. /\ Sound(q, b) /\ b.authority = p.authority /\ b.active = p.active
       /\ b.issued = p.issued \cup {n} /\ b.reply = p.reply
       /\ Busy(b.authority.state[n]) /\ ~ InRoster(b.active, n)
    BY <1>2, <1>6, <1>7, <1>12, BegunSound
<1>14. \A m \in Nodes(q.graph) : b.authority.state[m] = Succeeded =>
          run.authority.state[m] = Succeeded
    BY <1>3, <1>6, <1>13 DEF SameRoster
<1>15. Outside(q, b, native, context, fault)
  <2>1. Outside(q, run, native, context, fault)
      BY DEF IInv
  <2>2. run.issued \subseteq b.issued /\ b.active = run.active /\ b.reply = run.reply
      BY <1>2, <1>7, <1>13
  <2> QED BY <1>14, <2>1, <2>2, OutsideGrows
<1> QED BY <1>1, <1>2, <1>6, <1>7, <1>9, <1>10, <1>11, <1>13, <1>15

(* The node goes to the backend. *)
Submit(r, n) == [r EXCEPT !.active = Append(@, Pending(n)), !.parked = @ \ {n}]

LEMMA SubmitSound ==
    ASSUME NEW q, NEW b, Sound(q, b), NEW n \in b.issued, n \in Nodes(q.graph),
           q.action[n] # "join", Busy(b.authority.state[n]), ~ InRoster(b.active, n),
           NEW x, x = Submit(b, n)
    PROVE  /\ Sound(q, x) /\ SameButRoster(b, x)
           /\ Enlisted(x.active, b.active, Pending(n))
           /\ InRoster(x.active, n) /\ Covered(b.active, x.active, n)
<1>1. PICK e, z : e = Pending(n) /\ z = Enlist(b, e)
    OBVIOUS
<1>2. e \in Entries(q) /\ e.node = n
    BY <1>1 DEF Pending, Entries
<1>3. /\ Sound(q, z) /\ SameButRoster(b, z) /\ Enlisted(z.active, b.active, e)
      /\ InRoster(z.active, e.node) /\ Covered(b.active, z.active, e.node)
  <2>1. ~ InRoster(b.active, e.node) /\ e.node \in b.issued /\ q.action[e.node] # "join"
        /\ Busy(b.authority.state[e.node])
      BY <1>2
  <2> QED BY <1>1, <1>2, <2>1, EnlistSound
<1>4. x = Unpark(z, n)
  <2>1. DOMAIN b = RunFields
      BY DEF Sound, RunTyped
  <2> QED BY <1>1, <2>1 DEF Submit, Unpark, Enlist, RunFields
<1>5. n \in z.issued
    BY <1>3 DEF SameButRoster
<1>6. Sound(q, x) /\ SameButRoster(z, x) /\ x.active = z.active
    BY <1>3, <1>4, <1>5, UnparkSound
<1>7. SameButRoster(b, x)
    BY <1>3, <1>6 DEF SameButRoster
<1> QED BY <1>1, <1>2, <1>3, <1>6, <1>7

LEMMA SubmitOutside ==
    ASSUME NEW q, NEW b, Sound(q, b), NEW nat, NEW c, NEW faulty,
           NEW r, Outside(q, r, nat, c, faulty), r.reply = "none", b.reply = "none",
           r.active = b.active, r.active \in Seq(Entries(q)),
           NEW n \in Nodes(q.graph), q.action[n] # "join", ~ InRoster(r.active, n),
           b.issued = r.issued \cup {n}, b.authority.state[n] # Succeeded,
           \A m \in Nodes(q.graph) :
              b.authority.state[m] = Succeeded => r.authority.state[m] = Succeeded,
           NEW x, SameButRoster(b, x), Enlisted(x.active, b.active, Pending(n)),
           InRoster(x.active, n), Covered(b.active, x.active, n),
           NEW k, k = [nat EXCEPT ![n] = "running"],
           NEW d, d = [c EXCEPT !.submissions = @ \cup {n}]
    PROVE  Outside(q, x, k, d, faulty)
<1>1. x.issued = r.issued \cup {n} /\ x.authority = b.authority /\ x.reply = "none"
    BY DEF SameButRoster
<1>2. \A i \in 1..Len(x.active) : x.active[i] = Pending(n) \/ Member(x.active[i], r.active)
    BY DEF Enlisted
<1>3. BackendFollows(q, k, x.issued, x.active)
    BY <1>1, <1>2, BackendStarts DEF Outside
<1>4. /\ DOMAIN c = ContextFields /\ c.submissions \subseteq Nodes(q.graph)
      /\ c.terminal \in BOOLEAN /\ c.reserved \in BOOLEAN /\ c.reserved
      /\ c.terminal => faulty
      /\ ~ faulty => \A m \in c.submissions : InRoster(r.active, m)
    BY DEF Outside, ContextFollows
<1>5. /\ DOMAIN d = ContextFields /\ d.submissions = c.submissions \cup {n}
      /\ d.terminal = c.terminal /\ d.reserved = c.reserved
    BY <1>4 DEF ContextFields
<1>6. nat \in [Nodes(q.graph) -> {"none", "running", "ok", "failed"}]
    BY DEF Outside, BackendFollows
<1>7. \A m \in Nodes(q.graph) : m # n => k[m] = nat[m]
    BY <1>6
<1>8. SuccessIsRetired(q, x.authority.state, k, d.submissions)
    BY <1>1, <1>5, <1>7 DEF Outside, SuccessIsRetired
<1>9. ASSUME ~ faulty, NEW m \in d.submissions
      PROVE  InRoster(x.active, m)
    BY <1>4, <1>5, <1>9 DEF Covered
<1>10. ContextFollows(q, x, d, faulty)
    BY <1>1, <1>4, <1>5, <1>9 DEF ContextFollows
<1> QED BY <1>3, <1>8, <1>10 DEF Outside

LEMMA IssueKeeps ==
    ASSUME IInv, NEW n \in Node, Issue(n)
    PROVE  IInv'
<1>1. Turn(FALSE) /\ ~ Failed(Issuing) /\ CanIssue(n)
    BY DEF Issue
<1>2. PICK q, b : q = request /\ b = Begun(n)
    OBVIOUS
<1>3. /\ RequestIsSound(q) /\ n \in Nodes(q.graph) /\ n \notin Popped.issued
      /\ CanBegin(Popped.ledger, n) /\ Popped.action[n] = q.action[n]
      /\ Sound(q, b) /\ b.reply = "none"
      /\ b.issued = run.issued \cup {n} /\ b.active = run.active
      /\ Busy(b.authority.state[n]) /\ ~ InRoster(run.active, n)
      /\ Outside(q, b, native, context, fault)
    BY <1>1, <1>2, IssueFacts
<1>4. /\ request' = request /\ cancel' = cancel /\ engine'.left \in 0..Budget
      /\ run.reply = "none" /\ ~ context.terminal /\ cancel \in BOOLEAN /\ fault \in BOOLEAN
    BY <1>1, TurnFacts DEF IInv
<1>5. n \in b.issued /\ ~ InRoster(b.active, n) /\ b.authority.state[n] # Succeeded
    BY <1>3, BusyIsNot
<1>6. q.action[n] \in {"join", "ordinary", "generated"}
      /\ (q.action[n] = "join" => q.writes[n] = {})
    BY <1>3 DEF RequestIsSound, RequestTyped
<1>7. b.active \in Seq(Entries(q))
    BY <1>3 DEF Sound, RunTyped
<1>8. \/ q.action[n] = "join" /\ Continue(Succeed(b, n)) /\ UNCHANGED <<native, fault>>
      \/ /\ q.action[n] # "join"
         /\ run' = [b EXCEPT !.active = Append(@, [node |-> n, status |-> "pending"]),
                             !.parked = @ \ {n}]
         /\ context' = [context EXCEPT !.submissions = @ \cup {n}]
         /\ native' = [native EXCEPT ![n] = "running"]
         /\ UNCHANGED fault
      \/ /\ q.action[n] # "join"
         /\ Continue(fail_node([b EXCEPT !.parked = @ \ {n}], n, 1))
         /\ UNCHANGED <<native, fault>>
      \/ /\ q.action[n] # "join"
         /\ run' = Reject(b) /\ Seal
         /\ native' = [native EXCEPT ![n] = "running"]
         /\ fault' = TRUE
    BY <1>2, <1>3, <1>6 DEF Issue
<1>9. CASE q.action[n] = "join" /\ Continue(Succeed(b, n)) /\ UNCHANGED <<native, fault>>
  <2>1. PICK x : x = Succeed(b, n)
      OBVIOUS
  <2>2. /\ Sound(q, x) /\ SameBut(b, x)
        /\ OnlyMore(q.graph, b.authority.state, x.authority.state, n)
      BY <1>2, <1>3, <1>5, <1>6, <1>9, <2>1, SucceedKeeps
  <2>3. x.reply = "none" /\ x.issued = b.issued /\ x.active = b.active
      BY <1>3, <2>2 DEF SameBut
  <2>4. run' = x /\ context' = context
      BY <1>9, <2>1, <2>3, ContinueFacts
  <2>5. Outside(q, x, native, context, fault)
    <3>1. \A m \in Nodes(q.graph) : x.authority.state[m] = Succeeded =>
             b.authority.state[m] = Succeeded \/ q.action[m] = "join"
        BY <1>9, <2>2 DEF OnlyMore
    <3> QED BY <1>3, <2>3, <3>1, OutsideGrows
  <2> QED BY <1>2, <1>4, <1>9, <2>2, <2>4, <2>5, Stepped
<1>10. CASE /\ q.action[n] # "join"
            /\ run' = [b EXCEPT !.active = Append(@, [node |-> n, status |-> "pending"]),
                                !.parked = @ \ {n}]
            /\ context' = [context EXCEPT !.submissions = @ \cup {n}]
            /\ native' = [native EXCEPT ![n] = "running"]
            /\ UNCHANGED fault
  <2>1. PICK x, k, d : x = run' /\ k = native' /\ d = context'
      OBVIOUS
  <2>2. x = Submit(b, n)
      BY <1>10, <2>1 DEF Pending, Submit
  <2>3. /\ Sound(q, x) /\ SameButRoster(b, x)
        /\ Enlisted(x.active, b.active, Pending(n))
        /\ InRoster(x.active, n) /\ Covered(b.active, x.active, n)
      BY <1>3, <1>5, <1>10, <2>2, SubmitSound
  <2>4. d = [context EXCEPT !.submissions = @ \cup {n}] /\ k = [native EXCEPT ![n] = "running"]
      BY <1>10, <2>1
  <2>5. b.issued = b.issued \cup {n}
      BY <1>5
  <2>6. Outside(q, x, k, d, fault)
      BY <1>3, <1>5, <1>7, <1>10, <2>3, <2>4, <2>5, SubmitOutside
  <2> QED BY <1>2, <1>4, <1>10, <2>1, <2>3, <2>6, Stepped
<1>11. CASE /\ q.action[n] # "join"
            /\ Continue(fail_node([b EXCEPT !.parked = @ \ {n}], n, 1))
            /\ UNCHANGED <<native, fault>>
  <2>1. PICK z, x : z = Unpark(b, n) /\ x = fail_node(z, n, 1)
      OBVIOUS
  <2>2. Sound(q, z) /\ SameButRoster(b, z) /\ z.active = b.active
      BY <1>3, <1>5, <2>1, UnparkSound
  <2>3. /\ n \in z.issued /\ Busy(z.authority.state[n]) /\ ~ InRoster(z.active, n)
        /\ z.reply = "none" /\ 1 \in Codes
      BY <1>3, <1>5, <2>2 DEF SameButRoster, Codes
  <2>4. /\ Sound(q, x) /\ SameBut(z, x)
        /\ \A m \in Nodes(q.graph) :
              x.authority.state[m] = Succeeded => z.authority.state[m] = Succeeded
      BY <1>2, <1>3, <2>1, <2>2, <2>3, FailNodeKeeps
  <2>5. x.reply = "none" /\ x.issued = b.issued /\ x.active = b.active
      BY <2>2, <2>3, <2>4 DEF SameBut, SameButRoster
  <2>6. Continue(x)
      BY <1>11, <2>1 DEF Unpark
  <2>7. run' = x /\ context' = context
      BY <2>5, <2>6, ContinueFacts
  <2>8. Outside(q, x, native, context, fault)
    <3>1. \A m \in Nodes(q.graph) : x.authority.state[m] = Succeeded =>
             b.authority.state[m] = Succeeded \/ q.action[m] = "join"
        BY <2>2, <2>4 DEF SameButRoster
    <3> QED BY <1>3, <2>5, <3>1, OutsideGrows
  <2> QED BY <1>2, <1>4, <1>11, <2>4, <2>7, <2>8, Stepped
<1>12. CASE /\ q.action[n] # "join"
            /\ run' = Reject(b) /\ Seal
            /\ native' = [native EXCEPT ![n] = "running"]
            /\ fault' = TRUE
  <2>1. PICK x, k, d : x = Reject(b) /\ k = native' /\ d = context'
      OBVIOUS
  <2>2. /\ Sound(q, x) /\ x.reply = "error"
        /\ x.issued = b.issued /\ x.active = b.active /\ x.authority = b.authority
      BY <1>3, <2>1, RejectSound
  <2>3. k = [native EXCEPT ![n] = "running"] /\ b.issued = b.issued \cup {n}
      BY <1>5, <1>12, <2>1
  <2>4. BackendFollows(q, native, b.issued, b.active)
        /\ SuccessIsRetired(q, b.authority.state, native, context.submissions)
        /\ ContextFollows(q, b, context, fault)
      BY <1>3 DEF Outside
  <2>5. BackendFollows(q, k, b.issued, b.active)
    <3>1. \A i \in 1..Len(b.active) : Member(b.active[i], b.active)
        BY DEF Member
    <3> QED BY <1>3, <1>5, <1>7, <1>12, <2>3, <2>4, <3>1, BackendStarts
  <2>6. SuccessIsRetired(q, b.authority.state, k, context.submissions)
    <3>1. native \in [Nodes(q.graph) -> {"none", "running", "ok", "failed"}]
        BY <2>4 DEF BackendFollows
    <3>2. \A m \in Nodes(q.graph) : m # n => k[m] = native[m]
        BY <2>3, <3>1
    <3> QED BY <1>5, <2>4, <3>2 DEF SuccessIsRetired
  <2>7. /\ DOMAIN d = ContextFields /\ d.submissions = context.submissions /\ d.terminal = TRUE
        /\ d.reserved \in BOOLEAN /\ context.submissions \subseteq Nodes(q.graph)
    <3>1. /\ DOMAIN context = ContextFields /\ context.submissions \subseteq Nodes(q.graph)
          /\ context.reserved \in BOOLEAN
        BY <2>4 DEF ContextFollows
    <3>2. d = [context EXCEPT !.terminal = TRUE]
        BY <1>12, <2>1 DEF Seal
    <3> QED BY <3>1, <3>2 DEF ContextFields
  <2>8. Outside(q, x, k, d, TRUE)
      BY <2>2, <2>5, <2>6, <2>7, OutsideSealed
  <2> QED BY <1>2, <1>4, <1>12, <2>1, <2>2, <2>8, Stepped
<1> QED BY <1>8, <1>9, <1>10, <1>11, <1>12

(***************************************************************************)
(* Polling.                                                                *)
(***************************************************************************)
(* What is in the context is the entry taken off the roster, or on it. *)
Accounted(active, submissions, n) ==
    \A m \in submissions : m = n \/ InRoster(active, m)

LEMMA PolledFacts ==
    ASSUME IInv, Turn(TRUE), NEW q, q = request, NEW n, n = Polled.node
    PROVE  /\ RequestIsSound(q) /\ Sound(q, Unpolled) /\ Unpolled.reply = "none"
           /\ n \in Unpolled.issued /\ n \in Nodes(q.graph) /\ q.action[n] # "join"
           /\ Busy(Unpolled.authority.state[n]) /\ ~ InRoster(Unpolled.active, n)
           /\ Polled \in Entries(q) /\ Known(native, Polled)
           /\ BackendFollows(q, native, Unpolled.issued, Unpolled.active)
           /\ SuccessIsRetired(q, Unpolled.authority.state, native, context.submissions)
           /\ ~ fault => Accounted(Unpolled.active, context.submissions, n)
           /\ Unpolled.issued = run.issued
<1>1. PICK u, e : u = Unpolled /\ e = Polled
    OBVIOUS
<1>2. /\ RequestIsSound(q) /\ Sound(q, run) /\ Outside(q, run, native, context, fault)
      /\ run.reply = "none" /\ run.active # <<>>
    BY TurnFacts DEF IInv
<1>3. /\ Sound(q, u) /\ SameButRoster(run, u)
      /\ e \in Entries(q) /\ n \in run.issued /\ Busy(run.authority.state[n])
      /\ q.action[n] # "join" /\ ~ InRoster(u.active, n)
      /\ Within(u.active, run.active) /\ Member(e, run.active)
      /\ Covered(run.active, u.active, n)
    BY <1>1, <1>2, UnpolledSound
<1>4. u.issued = run.issued /\ u.authority = run.authority /\ u.reply = "none"
    BY <1>2, <1>3 DEF SameButRoster
<1>5. n \in Nodes(q.graph)
    BY <1>2, <1>3 DEF Sound, RunTyped
<1>6. BackendFollows(q, native, run.issued, run.active)
    BY <1>2 DEF Outside
<1>7. Known(native, e)
    BY <1>3, <1>6 DEF BackendFollows, Known, Member
<1>8. BackendFollows(q, native, u.issued, u.active)
    BY <1>3, <1>4, <1>6, BackendRoster DEF Within
<1>9. SuccessIsRetired(q, u.authority.state, native, context.submissions)
    BY <1>2, <1>4 DEF Outside
<1>10. ASSUME ~ fault
       PROVE  Accounted(u.active, context.submissions, n)
  <2>1. \A m \in context.submissions : InRoster(run.active, m)
      BY <1>2, <1>10 DEF Outside, ContextFollows
  <2> QED BY <1>3, <2>1 DEF Accounted, Covered
<1> QED BY <1>1, <1>2, <1>3, <1>4, <1>5, <1>7, <1>8, <1>9, <1>10

LEMMA ContextFacts ==
    ASSUME IInv, Turn(TRUE)
    PROVE  /\ DOMAIN context = ContextFields /\ context.terminal = FALSE
           /\ context.reserved = TRUE /\ context.submissions \subseteq Nodes(request.graph)
<1>1. run.reply = "none" /\ ~ context.terminal
    BY TurnFacts
<1> QED BY <1>1 DEF IInv, Outside, ContextFollows

SameContext(c, d) ==
    /\ DOMAIN d = ContextFields /\ d.terminal = c.terminal /\ d.reserved = c.reserved
    /\ d.submissions = c.submissions

(* The entry goes back to the end of the roster. *)
LEMMA RequeueKeeps ==
    ASSUME IInv, Turn(TRUE), NEW n, n = Polled.node, NEW e, e.node = n,
           e \in Entries(request), Known(native, e), NEW x, SameButRoster(Unpolled, x),
           x.active = Append(Unpolled.active, e), x.parked = Unpolled.parked,
           NEW d, SameContext(context, d),
           run' = x, native' = native, context' = d, fault' = fault
    PROVE  IInv' /\ run'.issued = run.issued
<1>1. PICK q, u : q = request /\ u = Unpolled
    OBVIOUS
<1>2. /\ RequestIsSound(q) /\ Sound(q, u) /\ u.reply = "none" /\ u.issued = run.issued
      /\ n \in u.issued /\ q.action[n] # "join"
      /\ Busy(u.authority.state[n]) /\ ~ InRoster(u.active, n)
      /\ BackendFollows(q, native, u.issued, u.active)
      /\ SuccessIsRetired(q, u.authority.state, native, context.submissions)
      /\ ~ fault => Accounted(u.active, context.submissions, n)
    BY <1>1, PolledFacts
<1>3. /\ request' = request /\ cancel' = cancel /\ engine'.left \in 0..Budget
      /\ cancel \in BOOLEAN /\ fault \in BOOLEAN
    BY TurnFacts DEF IInv
<1>4. /\ u.active \in Seq(Entries(q)) /\ u.parked \subseteq Nodes(q.graph)
      /\ RosterSound(q, u.authority.state, u.issued, u.active)
    BY <1>2 DEF Sound, RunTyped
<1>5. /\ x.active \in Seq(Entries(q))
      /\ RosterSound(q, u.authority.state, u.issued, x.active)
      /\ Enlisted(x.active, u.active, e)
      /\ InRoster(x.active, e.node) /\ Covered(u.active, x.active, e.node)
  <2>1. /\ e \in Entries(q) /\ ~ InRoster(u.active, e.node) /\ e.node \in u.issued
        /\ Busy(u.authority.state[e.node]) /\ q.action[e.node] # "join"
      BY <1>1, <1>2
  <2>2. PICK s, t, st, issued : /\ s = x.active /\ t = u.active /\ st = u.authority.state
                                /\ issued = u.issued
      OBVIOUS
  <2>3. s = Append(t, e)
      BY <1>1, <2>2
  <2>4. /\ t \in Seq(Entries(q)) /\ RosterSound(q, st, issued, t) /\ ~ InRoster(t, e.node)
        /\ e.node \in issued /\ Busy(st[e.node])
      BY <1>4, <2>1, <2>2
  <2>5. /\ s \in Seq(Entries(q)) /\ RosterSound(q, st, issued, s)
        /\ Enlisted(s, t, e) /\ InRoster(s, e.node) /\ Covered(t, s, e.node)
      BY <2>1, <2>3, <2>4, AppendToRoster
  <2> QED BY <2>2, <2>5
<1>6. SameButRoster(u, x) /\ x.parked = u.parked
    BY <1>1
<1>7. Sound(q, x)
    BY <1>2, <1>4, <1>5, <1>6, RosterChanges
<1>8. x.issued = u.issued /\ x.authority = u.authority /\ x.reply = "none"
    BY <1>2, <1>6 DEF SameButRoster
<1>9. \A i \in 1..Len(x.active) : Known(native, x.active[i]) \/ Member(x.active[i], u.active)
    BY <1>5 DEF Enlisted
<1>10. BackendFollows(q, native, x.issued, x.active)
    BY <1>2, <1>8, <1>9, BackendRoster
<1>11. SuccessIsRetired(q, x.authority.state, native, context.submissions)
    BY <1>2, <1>8
<1>12. ASSUME ~ fault, NEW m \in context.submissions
       PROVE  InRoster(x.active, m)
    BY <1>2, <1>5, <1>12 DEF Accounted, Covered
<1>13. ContextFollows(q, x, d, fault)
    BY <1>1, <1>8, <1>12, ContextFacts DEF ContextFollows, SameContext
<1>14. Outside(q, x, native, d, fault)
    BY <1>10, <1>11, <1>13 DEF Outside, SameContext
<1> QED BY <1>1, <1>2, <1>3, <1>7, <1>8, <1>14, Stepped

(* The context became terminal while polling. *)
LEMMA PollSealsKeeps ==
    ASSUME IInv, Turn(TRUE), run' = Reject(Unpolled), Seal, native' = native, fault' = TRUE
    PROVE  IInv' /\ run'.issued = run.issued
<1>1. PICK q, u, x, d, n : /\ q = request /\ u = Unpolled /\ x = Reject(u) /\ d = context'
                           /\ n = Polled.node
    OBVIOUS
<1>2. /\ Sound(q, u) /\ u.reply = "none" /\ u.issued = run.issued
      /\ BackendFollows(q, native, u.issued, u.active)
      /\ SuccessIsRetired(q, u.authority.state, native, context.submissions)
    BY <1>1, PolledFacts
<1>3. /\ request' = request /\ cancel' = cancel /\ engine'.left \in 0..Budget
      /\ cancel \in BOOLEAN
    BY TurnFacts DEF IInv
<1>4. /\ Sound(q, x) /\ x.reply = "error"
      /\ x.issued = u.issued /\ x.active = u.active /\ x.authority = u.authority
    BY <1>1, <1>2, RejectSound
<1>5. /\ DOMAIN d = ContextFields /\ d.submissions = context.submissions /\ d.terminal = TRUE
      /\ d.reserved \in BOOLEAN /\ context.submissions \subseteq Nodes(q.graph)
  <2>1. d = [context EXCEPT !.terminal = TRUE]
      BY <1>1 DEF Seal
  <2> QED BY <1>1, <2>1, ContextFacts DEF ContextFields
<1>6. Outside(q, x, native, d, TRUE)
    BY <1>2, <1>4, <1>5, OutsideSealed
<1> QED BY <1>1, <1>2, <1>3, <1>4, <1>6, Stepped

(* Only n may succeed, when the backend did and the context let it go. *)
Retires(q, st, t, n, submissions) ==
    \A m \in Nodes(q.graph) : t[m] = Succeeded =>
        st[m] = Succeeded \/ (m = n /\ native[n] = "ok" /\ n \notin submissions)

(* The entry ends, and leaves the context unless there was a fault. *)
LEMMA EndedKeeps ==
    ASSUME IInv, Turn(TRUE), NEW n, n = Polled.node, NEW x, Sound(request, x),
           SameBut(Unpolled, x), NEW d, DOMAIN d = ContextFields,
           d.terminal = FALSE, d.reserved = TRUE,
           \/ d.submissions = context.submissions \ {n}
           \/ d.submissions = context.submissions /\ fault' = TRUE,
           Retires(request, Unpolled.authority.state, x.authority.state, n, d.submissions),
           run' = x, native' = native, context' = d, fault' \in BOOLEAN, fault => fault'
    PROVE  IInv' /\ run'.issued = run.issued
<1>1. PICK q, u, k : q = request /\ u = Unpolled /\ k = fault'
    OBVIOUS
<1>2. /\ RequestIsSound(q) /\ u.reply = "none" /\ u.issued = run.issued
      /\ BackendFollows(q, native, u.issued, u.active)
      /\ SuccessIsRetired(q, u.authority.state, native, context.submissions)
      /\ ~ fault => Accounted(u.active, context.submissions, n)
    BY <1>1, PolledFacts
<1>3. /\ request' = request /\ cancel' = cancel /\ engine'.left \in 0..Budget
      /\ cancel \in BOOLEAN
    BY TurnFacts DEF IInv
<1>4. SameBut(u, x)
    BY <1>1
<1>5. x.issued = u.issued /\ x.active = u.active /\ x.reply = "none"
    BY <1>2, <1>4 DEF SameBut
<1>6. /\ d.submissions \subseteq context.submissions /\ d.submissions \subseteq Nodes(q.graph)
      /\ ~ k => d.submissions = context.submissions \ {n} /\ ~ fault
  <2>1. context.submissions \subseteq Nodes(q.graph)
      BY <1>1, ContextFacts
  <2>2. d.submissions \subseteq context.submissions
      OBVIOUS
  <2>3. ~ k => d.submissions = context.submissions \ {n} /\ ~ fault
      BY <1>1
  <2> QED BY <2>1, <2>2, <2>3
<1>7. \A m \in Nodes(q.graph) : x.authority.state[m] = Succeeded =>
          \/ u.authority.state[m] = Succeeded
          \/ m = n /\ native[n] = "ok" /\ n \notin d.submissions
    BY <1>1 DEF Retires
<1>8. SuccessIsRetired(q, x.authority.state, native, d.submissions)
    BY <1>2, <1>6, <1>7 DEF SuccessIsRetired
<1>9. ASSUME ~ k, NEW m \in d.submissions
      PROVE  InRoster(x.active, m)
    BY <1>2, <1>5, <1>6, <1>9 DEF Accounted
<1>10. ContextFollows(q, x, d, k)
    BY <1>5, <1>6, <1>9 DEF ContextFollows
<1>11. Outside(q, x, native, d, k)
    BY <1>2, <1>5, <1>8, <1>10 DEF Outside
<1> QED BY <1>1, <1>2, <1>3, <1>5, <1>11, Stepped

Rejected(r) == [r EXCEPT !.rejected = @ + 1]

(* An entry goes back, with or without a rejection counted. *)
LEMMA RequeuedFacts ==
    ASSUME IInv, Turn(TRUE), NEW status, NEW x,
           x = Requeued(status) \/ x = Rejected(Requeued(status))
    PROVE  /\ SameButRoster(Unpolled, x) /\ x.parked = Unpolled.parked
           /\ x.active = Append(Unpolled.active, [node |-> Polled.node, status |-> status])
<1>1. PICK u, e : u = Unpolled /\ e = [node |-> Polled.node, status |-> status]
    OBVIOUS
<1>2. DOMAIN u = RunFields
    BY <1>1, PolledFacts DEF Sound, RunTyped
<1>3. PICK z : z = Requeued(status)
    OBVIOUS
<1>4. z = Enlist(u, e)
    BY <1>1, <1>3 DEF Requeued, Enlist
<1>5. SameButRoster(u, z) /\ z.active = Append(u.active, e) /\ z.parked = u.parked
    BY <1>2, <1>4 DEF Enlist, SameButRoster, RunFields
<1>6. CASE x = z
    BY <1>1, <1>5, <1>6
<1>7. CASE x = Rejected(z)
  <2>1. SameButRoster(z, x) /\ x.active = z.active /\ x.parked = z.parked
      BY <1>5, <1>7 DEF Rejected, SameButRoster, RunFields
  <2>2. SameButRoster(u, x)
      BY <1>5, <2>1 DEF SameButRoster
  <2> QED BY <1>1, <1>5, <2>1, <2>2
<1> QED BY <1>3, <1>6, <1>7

LEMMA RequeuedKeeps ==
    ASSUME IInv, Turn(TRUE), NEW status \in {"pending", "ok", "failed"},
           status # "pending" => native[Polled.node] = status,
           run' = Requeued(status) \/ run' = Rejected(Requeued(status)),
           NEW d, SameContext(context, d), native' = native, context' = d, fault' = fault
    PROVE  IInv' /\ run'.issued = run.issued
<1>1. PICK q, n, e, x : /\ q = request /\ n = Polled.node /\ x = run'
                        /\ e = [node |-> n, status |-> status]
    OBVIOUS
<1>2. x = Requeued(status) \/ x = Rejected(Requeued(status))
    BY <1>1
<1>3. /\ SameButRoster(Unpolled, x) /\ x.parked = Unpolled.parked
      /\ x.active = Append(Unpolled.active, e)
    BY <1>1, <1>2, RequeuedFacts
<1>4. n \in Nodes(q.graph) /\ Known(native, Polled)
    BY <1>1, PolledFacts
<1>5. e \in Entries(request) /\ e.node = n /\ e.status = status
    BY <1>1, <1>4 DEF Entries
<1>6. Known(native, e)
    BY <1>1, <1>4, <1>5 DEF Known
<1>7. run' = x
    BY <1>1
<1> QED BY <1>1, <1>3, <1>5, <1>6, <1>7, RequeueKeeps

LEMMA PollKeeps ==
    ASSUME IInv, Poll
    PROVE  IInv' /\ run'.issued = run.issued
<1>1. PICK q, n : q = request /\ n = Polled.node
    OBVIOUS
<1>2. Turn(TRUE) /\ native' = native
    BY DEF Poll
<1>3. /\ Known(native, Polled) /\ n \in Nodes(q.graph)
      /\ native \in [Nodes(q.graph) -> {"none", "running", "ok", "failed"}]
    BY <1>1, <1>2, PolledFacts DEF BackendFollows
<1>4. \/ run' = Requeued(Observed(n)) /\ context' = context /\ fault' = fault
      \/ run' = Rejected(Requeued("pending")) /\ context' = context /\ fault' = fault
      \/ run' = Reject(Unpolled) /\ Seal /\ fault' = TRUE
    BY <1>1 DEF Poll, Rejected
<1>a. SameContext(context, context)
    BY <1>2, ContextFacts DEF SameContext
<1>5. CASE run' = Requeued(Observed(n)) /\ context' = context /\ fault' = fault
  <2>1. PICK status : status = Observed(n)
      OBVIOUS
  <2>2. status \in {"pending", "ok", "failed"} /\ (status # "pending" => native[n] = status)
      BY <1>1, <1>3, <2>1 DEF Observed, Known
  <2> QED BY <1>1, <1>2, <1>a, <1>5, <2>1, <2>2, RequeuedKeeps
<1>6. CASE run' = Rejected(Requeued("pending")) /\ context' = context /\ fault' = fault
  <2>1. PICK status : status = "pending"
      OBVIOUS
  <2>2. run' = Rejected(Requeued(status)) /\ status \in {"pending", "ok", "failed"}
      BY <1>6, <2>1
  <2> QED BY <1>2, <1>a, <1>6, <2>1, <2>2, RequeuedKeeps
<1>7. CASE run' = Reject(Unpolled) /\ Seal /\ fault' = TRUE
    BY <1>2, <1>7, PollSealsKeeps
<1> QED BY <1>4, <1>5, <1>6, <1>7

(* The context, sealed if the driver r failed. *)
Sealed(c, r) == [c EXCEPT !.terminal = @ \/ Failed(r)]

LEMMA NotSealed ==
    ASSUME NEW c, DOMAIN c = ContextFields, c.terminal = FALSE, NEW r, r.reply = "none"
    PROVE  SameContext(c, Sealed(c, r))
<1>1. (c.terminal \/ Failed(r)) = FALSE
    BY DEF Failed
<1>2. Sealed(c, r) = [c EXCEPT !.terminal = FALSE]
    BY <1>1 DEF Sealed
<1> QED BY <1>2 DEF SameContext, ContextFields

LEMMA ReleasedFields ==
    ASSUME NEW c, DOMAIN c = ContextFields, NEW n, NEW d, d = Released(c, n)
    PROVE  /\ DOMAIN d = ContextFields /\ d.terminal = c.terminal /\ d.reserved = c.reserved
           /\ d.submissions = c.submissions \ {n}
BY DEF Released, ContextFields

(* The end of the polled node, as both ways to poll give it. *)
LEMMA ResultKeeps ==
    ASSUME IInv, Turn(TRUE), NEW n, n = Polled.node, NEW x, NEW code \in Codes,
           \/ x = SucceedOperation(Unpolled, n) /\ native[n] = "ok"
           \/ x = fail_node(Unpolled, n, code),
           NEW d,
           \/ d = Sealed(Released(context, n), x)
           \/ d = Sealed(context, x) /\ fault' = TRUE
              /\ x = fail_node(Unpolled, n, code),
           run' = x, native' = native, context' = d, fault' \in BOOLEAN, fault => fault'
    PROVE  IInv' /\ run'.issued = run.issued
<1>1. PICK q, u : q = request /\ u = Unpolled
    OBVIOUS
<1>2. /\ RequestIsSound(q) /\ Sound(q, u) /\ u.reply = "none"
      /\ n \in u.issued /\ Busy(u.authority.state[n]) /\ ~ InRoster(u.active, n)
    BY <1>1, PolledFacts
<1>3. /\ DOMAIN context = ContextFields /\ context.terminal = FALSE /\ context.reserved = TRUE
    BY ContextFacts
<1>4. CASE x = SucceedOperation(Unpolled, n) /\ native[n] = "ok"
           /\ d = Sealed(Released(context, n), x)
  <2>1. /\ Sound(q, x) /\ SameBut(u, x)
        /\ OnlyMore(q.graph, u.authority.state, x.authority.state, n)
      BY <1>1, <1>2, <1>4, SucceedOperationKeeps
  <2>2. x.reply = "none"
      BY <1>2, <2>1 DEF SameBut
  <2>3. PICK z : z = Released(context, n)
      OBVIOUS
  <2>4. /\ DOMAIN z = ContextFields /\ z.terminal = FALSE /\ z.reserved = TRUE
        /\ z.submissions = context.submissions \ {n}
      BY <1>3, <2>3, ReleasedFields
  <2>5. /\ DOMAIN d = ContextFields /\ d.terminal = FALSE /\ d.reserved = TRUE
        /\ d.submissions = context.submissions \ {n}
    <3>1. SameContext(z, Sealed(z, x))
        BY <2>2, <2>4, NotSealed
    <3> QED BY <1>4, <2>3, <2>4, <3>1 DEF SameContext
  <2>6. Retires(request, Unpolled.authority.state, x.authority.state, n, d.submissions)
      BY <1>1, <1>4, <2>1, <2>5 DEF OnlyMore, Retires
  <2> QED BY <1>1, <2>1, <2>5, <2>6, EndedKeeps
<1>5. CASE x = fail_node(Unpolled, n, code)
  <2>1. /\ Sound(q, x) /\ SameBut(u, x)
        /\ \A m \in Nodes(q.graph) :
              x.authority.state[m] = Succeeded => u.authority.state[m] = Succeeded
      BY <1>1, <1>2, <1>5, FailNodeKeeps
  <2>2. x.reply = "none"
      BY <1>2, <2>1 DEF SameBut
  <2>3. PICK z : z = Released(context, n)
      OBVIOUS
  <2>4. /\ DOMAIN z = ContextFields /\ z.terminal = FALSE /\ z.reserved = TRUE
        /\ z.submissions = context.submissions \ {n}
      BY <1>3, <2>3, ReleasedFields
  <2>5. /\ DOMAIN d = ContextFields /\ d.terminal = FALSE /\ d.reserved = TRUE
        /\ \/ d.submissions = context.submissions \ {n}
           \/ d.submissions = context.submissions /\ fault' = TRUE
    <3>1. SameContext(z, Sealed(z, x)) /\ SameContext(context, Sealed(context, x))
        BY <1>3, <2>2, <2>4, NotSealed
    <3> QED BY <1>3, <2>3, <2>4, <3>1 DEF SameContext
  <2>6. Retires(request, Unpolled.authority.state, x.authority.state, n, d.submissions)
      BY <1>1, <2>1 DEF Retires
  <2> QED BY <1>1, <2>1, <2>5, <2>6, EndedKeeps
<1> QED BY <1>4, <1>5

LEMMA RetireKeeps ==
    ASSUME IInv, Retire
    PROVE  IInv' /\ run'.issued = run.issued
<1>1. PICK n, status : n = Polled.node /\ status = Polled.status
    OBVIOUS
<1>2. Turn(TRUE) /\ native' = native /\ status # "pending"
    BY <1>1 DEF Retire
<1>3. status \in {"pending", "ok", "failed"} /\ native[n] = status
  <2>1. Polled \in Entries(request) /\ Known(native, Polled)
      BY <1>2, PolledFacts
  <2> QED BY <1>1, <1>2, <2>1 DEF Known, Entries
<1>4. fault \in BOOLEAN
    BY DEF IInv
<1>5. PICK r : r = IF status = "ok" THEN SucceedOperation(Unpolled, n)
                   ELSE fail_node(Unpolled, n, 2)
    OBVIOUS
<1>6. \/ run' = r /\ context' = Sealed(Released(context, n), r) /\ fault' = fault
      \/ run' = Rejected(Requeued(status)) /\ context' = context /\ fault' = fault
      \/ run' = Reject(Unpolled) /\ Seal /\ fault' = TRUE
    BY <1>1, <1>5 DEF Retire, Rejected, Sealed
<1>7. CASE run' = r /\ context' = Sealed(Released(context, n), r) /\ fault' = fault
  <2>1. PICK code, d : code = 2 /\ d = context'
      OBVIOUS
  <2>2. code \in Codes
      BY <2>1 DEF Codes
  <2>3. \/ r = SucceedOperation(Unpolled, n) /\ native[n] = "ok"
        \/ r = fail_node(Unpolled, n, code)
      BY <1>3, <1>5, <2>1
  <2>4. d = Sealed(Released(context, n), r)
      BY <1>7, <2>1
  <2> QED BY <1>1, <1>2, <1>4, <1>7, <2>1, <2>2, <2>3, <2>4, ResultKeeps
<1>8. CASE run' = Rejected(Requeued(status)) /\ context' = context /\ fault' = fault
  <2>1. SameContext(context, context)
      BY <1>2, ContextFacts DEF SameContext
  <2> QED BY <1>1, <1>2, <1>3, <1>8, <2>1, RequeuedKeeps
<1>9. CASE run' = Reject(Unpolled) /\ Seal /\ fault' = TRUE
    BY <1>2, <1>9, PollSealsKeeps
<1> QED BY <1>6, <1>7, <1>8, <1>9

LEMMA PollGeneratedKeeps ==
    ASSUME IInv, PollGenerated
    PROVE  IInv' /\ run'.issued = run.issued
<1>1. PICK n, x : n = Polled.node /\ x = run'
    OBVIOUS
<1>2. Turn(TRUE) /\ native' = native /\ fault \in BOOLEAN
    BY DEF PollGenerated, IInv
<1>3. PICK faulty \in BOOLEAN, c \in {context, Released(context, n)} :
          /\ ObserveGenerated(Unpolled, context, n, x, c, faulty)
          /\ context' = Sealed(c, x)
          /\ fault' = (fault \/ faulty)
    BY <1>1 DEF PollGenerated, Sealed
<1>4. \/ /\ x = Requeued("pending") /\ c = context /\ ~ faulty
      \/ /\ native[n] = "ok" /\ x = SucceedOperation(Unpolled, n)
         /\ c = Released(context, n)
      \/ /\ x = fail_node(Unpolled, n, 4) /\ c = Released(context, n)
      \/ /\ x = fail_node(Unpolled, n, 4) /\ c = context /\ faulty
    BY <1>1, <1>3 DEF ObserveGenerated, Requeued
<1>5. fault' \in BOOLEAN /\ (fault => fault') /\ (faulty => fault' = TRUE)
    BY <1>2, <1>3
<1>6. PICK code, d, status : code = 4 /\ d = context' /\ status = "pending"
    OBVIOUS
<1>7. code \in Codes /\ run' = x /\ status \in {"pending", "ok", "failed"}
    BY <1>1, <1>6 DEF Codes
<1>8. CASE x = Requeued("pending") /\ c = context /\ ~ faulty
  <2>1. run' = Requeued(status) /\ fault' = fault
      BY <1>1, <1>2, <1>3, <1>6, <1>8
  <2>2. x.reply = "none"
    <3>1. SameButRoster(Unpolled, x) /\ Unpolled.reply = "none"
        BY <1>2, <1>8, RequeuedFacts, PolledFacts
    <3> QED BY <3>1 DEF SameButRoster
  <2>3. SameContext(context, d) /\ context' = d
    <3>1. DOMAIN context = ContextFields /\ context.terminal = FALSE
        BY <1>2, ContextFacts
    <3> QED BY <1>3, <1>6, <1>8, <2>2, <3>1, NotSealed
  <2> QED BY <1>2, <1>6, <1>7, <2>1, <2>3, RequeuedKeeps
<1>9. CASE /\ native[n] = "ok" /\ x = SucceedOperation(Unpolled, n)
           /\ c = Released(context, n)
    BY <1>1, <1>2, <1>3, <1>5, <1>6, <1>7, <1>9, ResultKeeps
<1>10. CASE x = fail_node(Unpolled, n, 4) /\ c = Released(context, n)
    BY <1>1, <1>2, <1>3, <1>5, <1>6, <1>7, <1>10, ResultKeeps
<1>11. CASE x = fail_node(Unpolled, n, 4) /\ c = context /\ faulty
    BY <1>1, <1>2, <1>3, <1>5, <1>6, <1>7, <1>11, ResultKeeps
<1> QED BY <1>4, <1>8, <1>9, <1>10, <1>11

(***************************************************************************)
(* The end of the driver.                                                  *)
(***************************************************************************)
LEMMA AllEnded ==
    ASSUME NEW q, q = request, RequestIsSound(q), NEW x, Sound(q, x), AllTerminal(x.authority)
    PROVE  ReportReady(x.ledger)
<1>1. PICK a, T : a = x.authority /\ T = TerminalNodes(q.graph, a.state)
    OBVIOUS
<1>2. WellFormed(q.graph) /\ Consistent(q.graph, Codes, a)
    BY <1>1 DEF RequestIsSound, RequestTyped, Sound
<1>3. DOMAIN a.state = Nodes(q.graph) /\ a.terminal = Cardinality(T)
    BY <1>1, <1>2 DEF Consistent, Authorities
<1>4. Cardinality(Nodes(q.graph)) = Cardinality(T)
    BY <1>1, <1>3 DEF AllTerminal
<1>5. T \in SUBSET Nodes(q.graph) /\ IsFiniteSet(Nodes(q.graph))
    BY <1>1, <1>2, NodesFinite DEF TerminalNodes
<1>6. T = Nodes(q.graph)
    BY <1>4, <1>5, FS_Subset
<1>7. \A n \in Nodes(q.graph) : IsTerminal(a.state[n])
    BY <1>1, <1>6 DEF TerminalNodes
<1>8. \A n \in Nodes(q.graph) : ~ Busy(a.state[n])
    BY <1>7, BusyIsNot
<1>9. /\ VersionsFollow(q, x.ledger, a.state, x.issued)
      /\ PendingFollows(q, x.ledger, a.state, x.issued) /\ x.issued \subseteq Nodes(q.graph)
    BY <1>1 DEF Sound, LedgerFollows, RunTyped
<1>10. \A s \in Segment : x.ledger.pending[s] = NoVersion
    BY <1>8, <1>9 DEF PendingFollows
<1>11. \A n \in Nodes(q.graph) : x.ledger.version[n] # "InFlight"
    BY <1>8, <1>9 DEF VersionsFollow, Flight
<1> QED BY <1>10, <1>11 DEF ReportReady, Node

(* A driver that ended all its nodes can report, unless there was a fault. *)
LEMMA OnlyFaultsPreventTheReport ==
    ASSUME NEW q, q = request, RequestIsSound(q), NEW x, Sound(q, x), x.reply = "none",
           NEW nat, NEW c, NEW faulty, Outside(q, x, nat, c, faulty), ~ c.terminal,
           Finishable(x), ~ Finished(x, c)
    PROVE  faulty
<1>1. ReportReady(x.ledger) /\ x.active = <<>>
    BY AllEnded DEF Finishable
<1>2. c.reserved
    BY DEF Outside, ContextFollows
<1>3. c.submissions # {}
    BY <1>1, <1>2 DEF Finished
<1>4. \A m : ~ InRoster(x.active, m)
    BY <1>1 DEF InRoster
<1> QED BY <1>3, <1>4 DEF Outside, ContextFollows

LEMMA OutsideReported ==
    ASSUME NEW q, NEW x, Sound(q, x), NEW nat, NEW c, NEW faulty, Outside(q, x, nat, c, faulty),
           NEW y, y = Answered(x, "report"), NEW d, d = [c EXCEPT !.reserved = FALSE]
    PROVE  Sound(q, y) /\ Outside(q, y, nat, d, faulty) /\ y.issued = x.issued
<1>1. PICK reply : reply = "report"
    OBVIOUS
<1>2. reply \in {"error", "report"} /\ y = Answered(x, reply)
    BY <1>1
<1>3. /\ Sound(q, y) /\ y.reply = reply
      /\ y.issued = x.issued /\ y.active = x.active /\ y.authority = x.authority
    BY <1>2, ReplySound
<1>4. ContextFollows(q, x, c, faulty)
    BY DEF Outside
<1>5. /\ DOMAIN d = ContextFields /\ d.submissions = c.submissions
      /\ d.terminal = c.terminal /\ d.reserved = FALSE
    BY <1>4 DEF ContextFollows, ContextFields
<1>6. ContextFollows(q, y, d, faulty)
    BY <1>1, <1>3, <1>4, <1>5 DEF ContextFollows
<1> QED BY <1>3, <1>5, <1>6 DEF Outside

LEMMA OutsideRejected ==
    ASSUME NEW q, NEW x, Sound(q, x), x.reply = "none", NEW nat, NEW c, NEW faulty,
           Outside(q, x, nat, c, faulty),
           NEW y, y = Reject(x), NEW d, d = [c EXCEPT !.terminal = TRUE]
    PROVE  Sound(q, y) /\ Outside(q, y, nat, d, TRUE)
<1>1. /\ Sound(q, y) /\ y.reply = "error"
      /\ y.issued = x.issued /\ y.active = x.active /\ y.authority = x.authority
    BY RejectSound
<1>2. /\ DOMAIN c = ContextFields /\ c.submissions \subseteq Nodes(q.graph)
      /\ c.reserved \in BOOLEAN
    BY DEF Outside, ContextFollows
<1>3. /\ DOMAIN d = ContextFields /\ d.submissions = c.submissions
      /\ d.terminal = TRUE /\ d.reserved \in BOOLEAN
    BY <1>2 DEF ContextFields
<1>4. /\ BackendFollows(q, nat, y.issued, y.active)
      /\ SuccessIsRetired(q, y.authority.state, nat, c.submissions)
    BY <1>1 DEF Outside
<1> QED BY <1>1, <1>2, <1>3, <1>4, OutsideSealed

LEMMA ConcludeKeeps ==
    ASSUME IInv, Conclude
    PROVE  IInv' /\ run'.issued = run.issued
<1>1. PICK q, x : q = request /\ x = apply_cancel(run, cancel)
    OBVIOUS
<1>2. /\ RequestIsSound(q) /\ Sound(q, run) /\ run.reply = "none" /\ cancel \in BOOLEAN
      /\ Outside(q, run, native, context, fault) /\ ~ context.terminal /\ fault \in BOOLEAN
    BY <1>1 DEF IInv, Conclude, Live
<1>3. Sound(q, x) /\ SameRoster(q, run, x)
    BY <1>1, <1>2, ApplyCancelKeeps
<1>4. x.reply = "none" /\ ~ Failed(x) /\ x.issued = run.issued
    BY <1>2, <1>3 DEF SameRoster, Failed
<1>5. Outside(q, x, native, context, fault)
    BY <1>2, <1>3, OutsideStays DEF SameRoster
<1>6. /\ request' = request /\ native' = native /\ cancel' = cancel
      /\ engine'.left \in 0..Budget
    BY BoundsAssumption DEF Conclude, Goto
<1>7. PICK y, d : y = run' /\ d = context'
    OBVIOUS
<1>8. \/ /\ y = Answered(x, "report") /\ d = [context EXCEPT !.reserved = FALSE]
         /\ fault' = fault
      \/ /\ y = Reject(x) /\ d = [context EXCEPT !.terminal = TRUE]
         /\ \/ fault' = TRUE
            \/ fault' = fault /\ Finishable(x) /\ ~ Finished(x, context)
      \/ y = x /\ d = context /\ fault' = fault
    BY <1>1, <1>4, <1>7 DEF Conclude, Seal, Answered
<1>9. CASE /\ y = Answered(x, "report") /\ d = [context EXCEPT !.reserved = FALSE]
           /\ fault' = fault
  <2>1. Sound(q, y) /\ Outside(q, y, native, d, fault) /\ y.issued = x.issued
      BY <1>3, <1>5, <1>9, OutsideReported
  <2> QED BY <1>1, <1>2, <1>4, <1>6, <1>7, <1>9, <2>1, Stepped
<1>10. CASE /\ y = Reject(x) /\ d = [context EXCEPT !.terminal = TRUE]
            /\ \/ fault' = TRUE
               \/ fault' = fault /\ Finishable(x) /\ ~ Finished(x, context)
  <2>1. fault' = TRUE
      BY <1>1, <1>2, <1>3, <1>4, <1>5, <1>10, OnlyFaultsPreventTheReport
  <2>2. Sound(q, y) /\ Outside(q, y, native, d, TRUE)
      BY <1>3, <1>4, <1>5, <1>10, OutsideRejected
  <2>3. y.issued = x.issued
      BY <1>3, <1>4, <1>10, RejectSound
  <2> QED BY <1>1, <1>2, <1>4, <1>6, <1>7, <2>1, <2>2, <2>3, Stepped
<1>11. CASE y = x /\ d = context /\ fault' = fault
    BY <1>1, <1>2, <1>3, <1>4, <1>5, <1>6, <1>7, <1>11, Stepped
<1> QED BY <1>8, <1>9, <1>10, <1>11

(***************************************************************************)
(* Graph::stop takes the entries of the roster A one after the other.      *)
(***************************************************************************)
Roll(q, A) ==
    /\ A \in Seq(Entries(q))
    /\ \A i, j \in 1..Len(A) : A[i].node = A[j].node => i = j
    /\ \A j \in 1..Len(A) : q.action[A[j].node] # "join" /\ Known(native, A[j])

Ahead(r, A, i) ==
    \A j \in 1..Len(A) : j > i =>
        /\ A[j].node \in r.issued /\ Busy(r.authority.state[A[j].node])
        /\ ~ InRoster(r.active, A[j].node)

Remains(A, i, m) == \E j \in 1..Len(A) : j > i /\ A[j].node = m

(* Without a fault the context holds the roster kept and the entries ahead. *)
Kept(r, submissions, A, i) ==
    \A m \in submissions : InRoster(r.active, m) \/ Remains(A, i, m)

ContextOpen(q, c) ==
    /\ DOMAIN c = ContextFields /\ c.terminal = FALSE /\ c.reserved = TRUE
    /\ c.submissions \subseteq Nodes(q.graph)

Taken(q, A, lost, i, b) ==
    /\ DOMAIN b = {"run", "context"}
    /\ Sound(q, b.run) /\ b.run.reply = "none" /\ b.run.issued = run.issued
    /\ BackendFollows(q, native, b.run.issued, b.run.active)
    /\ SuccessIsRetired(q, b.run.authority.state, native, b.context.submissions)
    /\ ContextOpen(q, b.context)
    /\ Ahead(b.run, A, i)
    /\ ~ fault /\ lost = {} => Kept(b.run, b.context.submissions, A, i)

(* The entry stays on the roster. *)
LEMMA TakeLeaves ==
    ASSUME NEW q, q = request, RequestIsSound(q), NEW A, Roll(q, A), NEW lost, NEW i \in Nat,
           NEW p, p = i + 1, p \in 1..Len(A), NEW b, Taken(q, A, lost, i, b), NEW y,
           DOMAIN y = {"run", "context"}, y.run = Enlist(b.run, A[p]), y.context = b.context
    PROVE  Taken(q, A, lost, p, y)
<1>1. PICK r, x, e, n : r = b.run /\ x = y.run /\ e = A[p] /\ n = e.node
    OBVIOUS
<1>2. /\ Sound(q, r) /\ r.reply = "none" /\ BackendFollows(q, native, r.issued, r.active)
      /\ r.issued = run.issued
      /\ SuccessIsRetired(q, r.authority.state, native, b.context.submissions)
      /\ Ahead(r, A, i)
    BY <1>1 DEF Taken
<1>3. e \in Entries(q) /\ q.action[n] # "join" /\ Known(native, e)
  <2>1. A \in Seq(Entries(q))
      BY DEF Roll
  <2> QED BY <1>1, <2>1 DEF Roll
<1>4. p > i /\ \A j \in 1..Len(A) : j > p => j > i /\ j # p
    OBVIOUS
<1>5. n \in r.issued /\ Busy(r.authority.state[n]) /\ ~ InRoster(r.active, n)
    BY <1>1, <1>2, <1>4 DEF Ahead
<1>6. /\ Sound(q, x) /\ SameButRoster(r, x) /\ Enlisted(x.active, r.active, e)
      /\ InRoster(x.active, e.node) /\ Covered(r.active, x.active, e.node)
    BY <1>1, <1>2, <1>3, <1>5, EnlistSound
<1>7. x.issued = r.issued /\ x.authority = r.authority /\ x.reply = "none"
    BY <1>2, <1>6 DEF SameButRoster
<1>8. \A k \in 1..Len(x.active) : Known(native, x.active[k]) \/ Member(x.active[k], r.active)
    BY <1>3, <1>6 DEF Enlisted
<1>9. BackendFollows(q, native, x.issued, x.active)
    BY <1>2, <1>7, <1>8, BackendRoster
<1>10. ASSUME NEW j \in 1..Len(A), j > p
       PROVE  ~ InRoster(x.active, A[j].node)
  <2>1. A[j].node # n /\ ~ InRoster(r.active, A[j].node)
      BY <1>1, <1>2, <1>4, <1>10 DEF Ahead, Roll
  <2>2. ASSUME NEW k \in 1..Len(x.active)
        PROVE  x.active[k].node # A[j].node
    <3>1. x.active[k] = e \/ Member(x.active[k], r.active)
        BY <1>6 DEF Enlisted
    <3>2. CASE x.active[k] = e
        BY <1>1, <2>1, <3>2
    <3>3. CASE Member(x.active[k], r.active)
        BY <2>1, <3>3 DEF Member, InRoster
    <3> QED BY <3>1, <3>2, <3>3
  <2> QED BY <2>2 DEF InRoster
<1>11. Ahead(x, A, p)
    BY <1>2, <1>4, <1>7, <1>10 DEF Ahead
<1>12. ASSUME ~ fault, lost = {}
       PROVE  Kept(x, y.context.submissions, A, p)
  <2> SUFFICES ASSUME NEW m \in b.context.submissions
               PROVE  InRoster(x.active, m) \/ Remains(A, p, m)
      BY DEF Kept
  <2>1. InRoster(r.active, m) \/ Remains(A, i, m)
      BY <1>1, <1>12 DEF Taken, Kept
  <2>2. CASE InRoster(r.active, m)
      BY <1>6, <2>2 DEF Covered
  <2>3. CASE Remains(A, i, m)
    <3>1. PICK j \in 1..Len(A) : j > i /\ A[j].node = m
        BY <2>3 DEF Remains
    <3>2. CASE j = p
        BY <1>1, <1>6, <3>1, <3>2
    <3>3. CASE j # p
      <4>1. j > p
          BY <3>1, <3>3
      <4> QED BY <3>1, <4>1 DEF Remains
    <3> QED BY <3>2, <3>3
  <2> QED BY <2>1, <2>2, <2>3
<1> QED BY <1>1, <1>2, <1>6, <1>7, <1>9, <1>11, <1>12 DEF Taken

(* The result of the entry is taken; a lost one stays in the context. *)
LEMMA TakeEnds ==
    ASSUME NEW q, q = request, RequestIsSound(q), NEW A, Roll(q, A), NEW lost, NEW i \in Nat,
           NEW p, p = i + 1, p \in 1..Len(A), NEW b, Taken(q, A, lost, i, b), NEW n,
           n = A[p].node, NEW y, DOMAIN y = {"run", "context"},
           Sound(q, y.run), SameBut(b.run, y.run), OthersStay(b.run, y.run, n),
           Retires(q, b.run.authority.state, y.run.authority.state, n, y.context.submissions),
           DOMAIN y.context = ContextFields, y.context.terminal = FALSE,
           y.context.reserved = TRUE,
           \/ y.context.submissions = b.context.submissions \ {n}
           \/ y.context.submissions = b.context.submissions /\ lost # {}
    PROVE  Taken(q, A, lost, p, y)
<1>1. PICK r, x : r = b.run /\ x = y.run
    OBVIOUS
<1>2. /\ r.reply = "none" /\ BackendFollows(q, native, r.issued, r.active)
      /\ r.issued = run.issued
      /\ SuccessIsRetired(q, r.authority.state, native, b.context.submissions)
      /\ Ahead(r, A, i) /\ b.context.submissions \subseteq Nodes(q.graph)
    BY <1>1 DEF Taken, ContextOpen
<1>3. x.issued = r.issued /\ x.active = r.active /\ x.reply = "none"
    BY <1>1, <1>2 DEF SameBut
<1>4. p > i /\ \A j \in 1..Len(A) : j > p => j > i /\ j # p
    OBVIOUS
<1>5. y.context.submissions \subseteq b.context.submissions
    OBVIOUS
<1>6. SuccessIsRetired(q, x.authority.state, native, y.context.submissions)
    BY <1>1, <1>2, <1>5 DEF SuccessIsRetired, Retires
<1>7. ASSUME NEW j \in 1..Len(A), j > p
      PROVE  /\ A[j].node \in x.issued /\ Busy(x.authority.state[A[j].node])
             /\ ~ InRoster(x.active, A[j].node)
  <2>1. A[j].node # n
      BY <1>4, <1>7 DEF Roll
  <2>2. A[j].node \in r.issued /\ Busy(r.authority.state[A[j].node])
        /\ ~ InRoster(r.active, A[j].node)
      BY <1>2, <1>4, <1>7 DEF Ahead
  <2>3. x.authority.state[A[j].node] = r.authority.state[A[j].node]
      BY <1>1, <2>1, <2>2 DEF OthersStay
  <2> QED BY <1>3, <2>2, <2>3
<1>8. Ahead(x, A, p)
    BY <1>7 DEF Ahead
<1>9. ASSUME ~ fault, lost = {}
      PROVE  Kept(x, y.context.submissions, A, p)
  <2> SUFFICES ASSUME NEW m \in y.context.submissions
               PROVE  InRoster(x.active, m) \/ Remains(A, p, m)
      BY DEF Kept
  <2>1. m \in b.context.submissions /\ m # n
      BY <1>9
  <2>2. InRoster(r.active, m) \/ Remains(A, i, m)
      BY <1>1, <1>9, <2>1 DEF Taken, Kept
  <2>3. CASE Remains(A, i, m)
    <3>1. PICK j \in 1..Len(A) : j > i /\ A[j].node = m
        BY <2>3 DEF Remains
    <3>2. j # p
        BY <2>1, <3>1
    <3>3. j > p
        BY <3>1, <3>2
    <3> QED BY <3>1, <3>3 DEF Remains
  <2> QED BY <1>3, <2>2, <2>3
<1>10. ContextOpen(q, y.context)
    BY <1>2, <1>5 DEF ContextOpen
<1> QED BY <1>1, <1>2, <1>3, <1>6, <1>8, <1>9, <1>10 DEF Taken

LEMMA TakeKeeps ==
    ASSUME NEW q, q = request, RequestIsSound(q), NEW A, Roll(q, A), NEW lost, NEW i \in Nat,
           NEW p, p = i + 1, p \in 1..Len(A), NEW b, Taken(q, A, lost, i, b), NEW e, e = A[p],
           NEW y, y = Take(b, e, lost)
    PROVE  Taken(q, A, lost, p, y)
<1>1. PICK r, n : r = b.run /\ n = e.node
    OBVIOUS
<1>2. /\ Sound(q, r) /\ r.reply = "none" /\ DOMAIN b = {"run", "context"}
      /\ ContextOpen(q, b.context) /\ Ahead(r, A, i)
    BY <1>1 DEF Taken
<1>3. ~ Failed(r)
    BY <1>2 DEF Failed
<1>4. n \in r.issued /\ Busy(r.authority.state[n]) /\ ~ InRoster(r.active, n)
  <2>1. p > i
      OBVIOUS
  <2> QED BY <1>1, <1>2, <2>1 DEF Ahead
<1>5. n \in Nodes(q.graph)
    BY <1>2, <1>4 DEF Sound, RunTyped
<1>6. \/ y = [b EXCEPT !.run.active = Append(@, e)]
      \/ n \in lost /\ y = [b EXCEPT !.run = fail_node(@, n, 4)]
      \/ /\ native[n] = "ok"
         /\ y = [run |-> SucceedOperation(r, n), context |-> Released(b.context, n)]
      \/ y = [run |-> fail_node(r, n, 4), context |-> Released(b.context, n)]
    BY <1>1 DEF Take
<1>7. CASE y = [b EXCEPT !.run.active = Append(@, e)]
  <2>1. DOMAIN y = {"run", "context"} /\ y.run = Enlist(r, e) /\ y.context = b.context
      BY <1>1, <1>2, <1>7 DEF Enlist
  <2> QED BY <1>1, <2>1, TakeLeaves
<1>8. PICK z, k, c : /\ z = Released(b.context, n) /\ k = fail_node(r, n, 4)
                     /\ c = SucceedOperation(r, n)
    OBVIOUS
<1>9. /\ DOMAIN z = ContextFields /\ z.terminal = FALSE /\ z.reserved = TRUE
      /\ z.submissions = b.context.submissions \ {n}
    BY <1>2, <1>8, ReleasedFields DEF ContextOpen
<1>10. 4 \in Codes
    BY DEF Codes
<1>11. /\ Sound(q, k) /\ SameBut(r, k) /\ OthersStay(r, k, n)
       /\ \A m \in Nodes(q.graph) :
             k.authority.state[m] = Succeeded => r.authority.state[m] = Succeeded
    BY <1>2, <1>4, <1>8, <1>10, FailNodeKeeps
<1>12. CASE n \in lost /\ y = [b EXCEPT !.run = fail_node(@, n, 4)]
  <2>1. DOMAIN y = {"run", "context"} /\ y.run = k /\ y.context = b.context /\ lost # {}
      BY <1>1, <1>2, <1>8, <1>12
  <2>2. Retires(q, r.authority.state, k.authority.state, n, y.context.submissions)
      BY <1>11 DEF Retires
  <2> QED BY <1>1, <1>2, <1>11, <2>1, <2>2, TakeEnds DEF ContextOpen
<1>13. CASE /\ native[n] = "ok"
            /\ y = [run |-> SucceedOperation(r, n), context |-> Released(b.context, n)]
  <2>1. DOMAIN y = {"run", "context"} /\ y.run = c /\ y.context = z
      BY <1>8, <1>13
  <2>2. /\ Sound(q, c) /\ SameBut(r, c) /\ OthersStay(r, c, n)
        /\ OnlyMore(q.graph, r.authority.state, c.authority.state, n)
      BY <1>2, <1>4, <1>8, SucceedOperationKeeps
  <2>3. Retires(q, r.authority.state, c.authority.state, n, z.submissions)
      BY <1>9, <1>13, <2>2 DEF Retires, OnlyMore
  <2> QED BY <1>1, <1>9, <2>1, <2>2, <2>3, TakeEnds
<1>14. CASE y = [run |-> fail_node(r, n, 4), context |-> Released(b.context, n)]
  <2>1. DOMAIN y = {"run", "context"} /\ y.run = k /\ y.context = z
      BY <1>8, <1>14
  <2>2. Retires(q, r.authority.state, k.authority.state, n, z.submissions)
      BY <1>11 DEF Retires
  <2> QED BY <1>1, <1>9, <1>11, <2>1, <2>2, TakeEnds
<1> QED BY <1>6, <1>7, <1>12, <1>13, <1>14

TakeStep(b, e, lost) == CHOOSE x \in {Take(v, e, lost) : v \in {b}} : TRUE

StopTrace(f, b, A, lost, k) ==
    f = [i \in 0..k |-> IF i = 0 THEN b ELSE TakeStep(f[i - 1], A[i], lost)]

LEMMA StopTraceExists ==
    ASSUME NEW b, NEW A, NEW lost
    PROVE  \A k \in Nat : \E f : StopTrace(f, b, A, lost, k)
<1> DEFINE S == {k \in Nat : \E f : StopTrace(f, b, A, lost, k)}
<1>1. 0 \in S
  <2> DEFINE f == [i \in 0..0 |-> b]
  <2>1. StopTrace(f, b, A, lost, 0)
      BY DEF StopTrace
  <2> QED BY <2>1
<1>2. ASSUME NEW k \in Nat, k \in S
      PROVE  k + 1 \in S
  <2>1. PICK f : StopTrace(f, b, A, lost, k)
      BY <1>2
  <2> DEFINE h == [i \in 0..(k + 1) |->
                      IF i <= k THEN f[i] ELSE TakeStep(f[k], A[k + 1], lost)]
  <2>2. StopTrace(h, b, A, lost, k + 1)
      BY <2>1 DEF StopTrace
  <2> QED BY <2>2
<1> QED BY <1>1, <1>2, NatInductionSet

Emptied(r, c) == [run |-> [r EXCEPT !.active = <<>>], context |-> c]

LEMMA StopReaches ==
    ASSUME NEW q, q = request, RequestIsSound(q), NEW r, NEW c, NEW A, A = r.active,
           Roll(q, A), NEW lost, Taken(q, A, lost, 0, Emptied(r, c))
    PROVE  Taken(q, A, lost, Len(A), StopRoster(r, c, lost))
<1>1. PICK k : k = Len(A)
    OBVIOUS
<1>2. k \in Nat
    BY <1>1 DEF Roll
<1> DEFINE f == CHOOSE h : StopTrace(h, Emptied(r, c), A, lost, k)
<1>3. StopTrace(f, Emptied(r, c), A, lost, k)
    BY <1>2, StopTraceExists
<1>4. StopRoster(r, c, lost) = f[k]
    BY <1>1 DEF StopRoster, Fold, StopTrace, TakeStep, Emptied
<1> HIDE DEF f
<1> DEFINE S == {i \in Nat : i <= k => Taken(q, A, lost, i, f[i])}
<1>5. 0 \in S
  <2>1. f[0] = Emptied(r, c)
      BY <1>2, <1>3 DEF StopTrace
  <2> QED BY <2>1
<1>6. ASSUME NEW i \in Nat, i \in S
      PROVE  i + 1 \in S
  <2> SUFFICES ASSUME i + 1 <= k
               PROVE  Taken(q, A, lost, i + 1, f[i + 1])
      OBVIOUS
  <2>1. f[i + 1] = TakeStep(f[i], A[i + 1], lost)
      BY <1>2, <1>3 DEF StopTrace
  <2>2. TakeStep(f[i], A[i + 1], lost) = Take(f[i], A[i + 1], lost)
      BY DEF TakeStep
  <2>3. PICK p, y, b : p = i + 1 /\ y = f[i + 1] /\ b = f[i]
      OBVIOUS
  <2>4. p \in 1..Len(A) /\ y = Take(b, A[p], lost) /\ Taken(q, A, lost, i, b)
      BY <1>1, <1>2, <1>6, <2>1, <2>2, <2>3
  <2>5. Taken(q, A, lost, p, y)
      BY <2>3, <2>4, TakeKeeps
  <2> QED BY <2>3, <2>5
<1>7. k \in S
    BY <1>2, <1>5, <1>6, NatInductionSet
<1> QED BY <1>1, <1>4, <1>7

LEMMA EmptiedIsTaken ==
    ASSUME NEW q, NEW r, Sound(q, r), r.reply = "none", r.issued = run.issued, NEW c, NEW A, A = r.active,
           Outside(q, r, native, c, fault), ~ c.terminal, NEW lost
    PROVE  Roll(q, A) /\ Taken(q, A, lost, 0, Emptied(r, c))
<1>1. PICK b, x : b = Emptied(r, c) /\ x = b.run
    OBVIOUS
<1>2. /\ DOMAIN r = RunFields /\ A \in Seq(Entries(q)) /\ r.parked \subseteq Nodes(q.graph)
      /\ RosterSound(q, r.authority.state, r.issued, A)
      /\ BackendFollows(q, native, r.issued, A)
      /\ SuccessIsRetired(q, r.authority.state, native, c.submissions)
      /\ ContextFollows(q, r, c, fault)
    BY DEF Sound, RunTyped, Outside
<1>3. Roll(q, A)
    BY <1>2 DEF Roll, RosterSound, BackendFollows, Known
<1>4. DOMAIN b = {"run", "context"} /\ x = [r EXCEPT !.active = <<>>] /\ b.context = c
    BY <1>1 DEF Emptied
<1>5. SameButRoster(r, x) /\ x.active = <<>> /\ x.parked = r.parked
    BY <1>2, <1>4 DEF SameButRoster, RunFields
<1>6. x.active \in Seq(Entries(q)) /\ RosterSound(q, r.authority.state, r.issued, x.active)
    BY <1>5 DEF RosterSound
<1>7. Sound(q, x)
    BY <1>2, <1>5, <1>6, RosterChanges
<1>8. x.issued = r.issued /\ x.authority = r.authority /\ x.reply = "none"
    BY <1>5 DEF SameButRoster
<1>9. BackendFollows(q, native, x.issued, x.active)
    BY <1>2, <1>5, <1>8 DEF BackendFollows
<1>10. ContextOpen(q, c)
    BY <1>2 DEF ContextFollows, ContextOpen
<1>11. Ahead(x, A, 0)
  <2>1. \A m : ~ InRoster(x.active, m)
      BY <1>5 DEF InRoster
  <2> QED BY <1>2, <1>8, <2>1 DEF Ahead, RosterSound
<1>12. ASSUME ~ fault
       PROVE  Kept(x, c.submissions, A, 0)
  <2> SUFFICES ASSUME NEW m \in c.submissions
               PROVE  Remains(A, 0, m)
      BY DEF Kept
  <2>1. InRoster(A, m)
      BY <1>2, <1>12 DEF ContextFollows
  <2>2. \A j \in 1..Len(A) : j > 0
      BY <1>2
  <2> QED BY <2>1, <2>2 DEF InRoster, Remains
<1>13. Taken(q, A, lost, 0, b)
    BY <1>1, <1>2, <1>4, <1>7, <1>8, <1>9, <1>10, <1>11, <1>12 DEF Taken
<1> QED BY <1>1, <1>3, <1>13

LEMMA TakenIsOutside ==
    ASSUME NEW q, NEW A, Roll(q, A), NEW lost, NEW b, Taken(q, A, lost, Len(A), b),
           NEW k, k = (fault \/ lost # {})
    PROVE  /\ Sound(q, b.run) /\ b.run.reply = "none" /\ ~ b.context.terminal
           /\ b.run.issued = run.issued
           /\ Outside(q, b.run, native, b.context, k)
<1>1. PICK r, c : r = b.run /\ c = b.context
    OBVIOUS
<1>2. /\ Sound(q, r) /\ r.reply = "none" /\ ContextOpen(q, c) /\ r.issued = run.issued
      /\ BackendFollows(q, native, r.issued, r.active)
      /\ SuccessIsRetired(q, r.authority.state, native, c.submissions)
      /\ ~ fault /\ lost = {} => Kept(r, c.submissions, A, Len(A))
    BY <1>1 DEF Taken
<1>3. \A m : ~ Remains(A, Len(A), m)
  <2>1. Len(A) \in Nat
      BY DEF Roll
  <2>2. \A j \in 1..Len(A) : ~ (j > Len(A))
      BY <2>1
  <2> QED BY <2>2 DEF Remains
<1>4. ASSUME ~ k, NEW m \in c.submissions
      PROVE  InRoster(r.active, m)
    BY <1>2, <1>3, <1>4 DEF Kept
<1>5. ContextFollows(q, r, c, k)
    BY <1>2, <1>4 DEF ContextFollows, ContextOpen
<1> QED BY <1>1, <1>2, <1>5 DEF Outside, ContextOpen

LEMMA StopKeeps ==
    ASSUME IInv, Stop
    PROVE  IInv' /\ run'.issued = run.issued
<1>1. PICK q, first : q = request /\ first = apply_cancel(run, TRUE)
    OBVIOUS
<1>2. /\ RequestIsSound(q) /\ Sound(q, run) /\ run.reply = "none"
      /\ Outside(q, run, native, context, fault) /\ ~ context.terminal /\ fault \in BOOLEAN
      /\ engine.left \in 0..Budget
    BY <1>1 DEF IInv, Stop, Live
<1>3. /\ request' = request /\ native' = native /\ cancel' = TRUE /\ engine' = engine
    BY DEF Stop
<1>4. PICK lost :
         LET rest == StopRoster(first, context, lost)
             last == apply_cancel(rest.run, TRUE)
         IN  /\ fault' = (fault \/ lost # {} \/ (~ Failed(last) /\ ~ Finishable(last)))
             /\ IF Failed(last)
                THEN run' = last /\ Seal
                ELSE IF Finished(last, rest.context)
                THEN /\ run' = [last EXCEPT !.slot = FALSE, !.reply = "report"]
                     /\ context' = [rest.context EXCEPT !.reserved = FALSE]
                ELSE /\ run' = Reject(last)
                     /\ context' = [rest.context EXCEPT !.terminal = TRUE]
    BY <1>1 DEF Stop
<1>5. PICK rest, r, c, last, A, k :
          /\ rest = StopRoster(first, context, lost) /\ r = rest.run /\ c = rest.context
          /\ last = apply_cancel(r, TRUE) /\ A = first.active /\ k = (fault \/ lost # {})
    OBVIOUS
<1>6. Sound(q, first) /\ SameRoster(q, run, first)
    BY <1>1, <1>2, ApplyCancelKeeps
<1>7. first.reply = "none" /\ first.issued = run.issued /\ Outside(q, first, native, context, fault)
    BY <1>2, <1>6, OutsideStays DEF SameRoster
<1>8. Roll(q, A) /\ Taken(q, A, lost, 0, Emptied(first, context))
    BY <1>2, <1>5, <1>6, <1>7, EmptiedIsTaken
<1>9. Taken(q, A, lost, Len(A), rest)
    BY <1>1, <1>2, <1>5, <1>8, StopReaches
<1>10. /\ Sound(q, r) /\ r.reply = "none" /\ ~ c.terminal /\ r.issued = run.issued
       /\ Outside(q, r, native, c, k)
    BY <1>5, <1>8, <1>9, TakenIsOutside
<1>11. Sound(q, last) /\ SameRoster(q, r, last)
    BY <1>1, <1>2, <1>5, <1>10, ApplyCancelKeeps
<1>12. /\ last.reply = "none" /\ ~ Failed(last) /\ Outside(q, last, native, c, k)
       /\ last.issued = run.issued
    BY <1>10, <1>11, OutsideStays DEF SameRoster, Failed
<1>13. PICK y, d : y = run' /\ d = context'
    OBVIOUS
<1>14. k \in BOOLEAN
    BY <1>5
<1>15. fault' = (k \/ ~ Finishable(last))
    BY <1>4, <1>5, <1>12
<1>16. \/ /\ Finished(last, c) /\ y = Answered(last, "report")
          /\ d = [c EXCEPT !.reserved = FALSE]
       \/ ~ Finished(last, c) /\ y = Reject(last) /\ d = [c EXCEPT !.terminal = TRUE]
    BY <1>4, <1>5, <1>12, <1>13 DEF Answered
<1>17. CASE /\ Finished(last, c) /\ y = Answered(last, "report")
            /\ d = [c EXCEPT !.reserved = FALSE]
  <2>1. fault' = k
      BY <1>14, <1>15, <1>17 DEF Finished
  <2>2. Sound(q, y) /\ Outside(q, y, native, d, k) /\ y.issued = last.issued
      BY <1>11, <1>12, <1>17, OutsideReported
  <2> QED BY <1>1, <1>2, <1>3, <1>12, <1>13, <1>14, <2>1, <2>2, Stepped
<1>18. CASE ~ Finished(last, c) /\ y = Reject(last) /\ d = [c EXCEPT !.terminal = TRUE]
  <2>1. Finishable(last) => k
      BY <1>1, <1>2, <1>10, <1>11, <1>12, <1>18, OnlyFaultsPreventTheReport
  <2>2. fault' = TRUE
      BY <1>15, <2>1
  <2>3. Sound(q, y) /\ Outside(q, y, native, d, TRUE)
      BY <1>11, <1>12, <1>18, OutsideRejected
  <2>4. y.issued = last.issued
      BY <1>11, <1>12, <1>18, RejectSound
  <2> QED BY <1>1, <1>2, <1>3, <1>12, <1>13, <2>2, <2>3, <2>4, Stepped
<1> QED BY <1>16, <1>17, <1>18

(***************************************************************************)
(* Every step.                                                             *)
(***************************************************************************)
(* Every step keeps the invariant, and only Issue issues a node. *)
LEMMA NextKeeps ==
    ASSUME IInv, [Next]_vars
    PROVE  IInv' /\ (run.applied => run'.issued = run.issued)
<1>1. CASE UNCHANGED vars
    BY <1>1 DEF vars, IInv
<1>2. CASE Advance
    BY <1>2, AdvanceKeeps
<1>3. CASE IssueNothing
    BY <1>3, IssueNothingKeeps
<1>4. CASE SkipNotification
    BY <1>4, SkipNotificationKeeps
<1>5. CASE Poll
    BY <1>5, PollKeeps
<1>6. CASE Retire
    BY <1>6, RetireKeeps
<1>7. CASE PollGenerated
    BY <1>7, PollGeneratedKeeps
<1>8. CASE EndRound
    BY <1>8, EndRoundKeeps
<1>9. CASE Conclude
    BY <1>9, ConcludeKeeps
<1>10. ASSUME NEW n \in Node, Issue(n)
       PROVE  IInv' /\ ~ run.applied
  <2>1. Turn(FALSE) /\ ~ Failed(Issuing) /\ CanIssue(n)
      BY <1>10 DEF Issue
  <2>2. ~ run.applied
      BY <2>1, IssueFacts
  <2> QED BY <1>10, <2>2, IssueKeeps
<1>11. CASE Stop
    BY <1>11, StopKeeps
<1>12. CASE CancelUnissued
  <2>1. /\ request' = request /\ run' = run /\ native' = native /\ context' = context
        /\ engine' = engine /\ fault' = fault /\ cancel' = TRUE
      BY <1>12 DEF CancelUnissued
  <2> QED BY <2>1, Stepped DEF IInv
<1>13. ASSUME NEW n \in Node, BackendFinishes(n)
       PROVE  IInv' /\ run' = run
  <2>1. run' = run
      BY <1>13 DEF BackendFinishes
  <2> QED BY <1>13, <2>1, BackendFinishesKeeps
<1>14. CASE Done
    BY <1>1, <1>14 DEF Done
<1> QED BY <1>1, <1>2, <1>3, <1>4, <1>5, <1>6, <1>7, <1>8, <1>9, <1>10, <1>11, <1>12, <1>13,
           <1>14 DEF Next, Owner

(* The inductive invariant of the execution of an admitted graph. *)
THEOREM Invariance == Spec => []IInv
<1>1. Init => IInv
    BY InitIInv
<1>2. IInv /\ [Next]_vars => IInv'
    BY NextKeeps
<1> QED BY <1>1, <1>2, PTL DEF Spec

(* The driver, its ledger and the context keep their types. *)
THEOREM TypeCorrect == Spec => []TypeOK
<1>1. IInv => TypeOK
  <2> SUFFICES ASSUME IInv
               PROVE  TypeOK
      OBVIOUS
  <2>1. PICK q, r : q = request /\ r = run
      OBVIOUS
  <2>2. RunTyped(q, r) /\ LedgerTyped(q, r.ledger)
      BY <2>1 DEF IInv, Sound, RunTyped
  <2>3. /\ native \in [Nodes(q.graph) -> {"none", "running", "ok", "failed"}]
        /\ context.submissions \subseteq Nodes(q.graph) /\ engine.left \in 0..Budget
      BY <2>1 DEF IInv, Outside, BackendFollows, ContextFollows
  <2>4. \A i \in DOMAIN r.active :
            r.active[i] \in [node : Nodes(q.graph), status : {"pending", "ok", "failed"}]
    <3>1. r.active \in Seq(Entries(q))
        BY <2>2 DEF RunTyped
    <3>2. \A i \in DOMAIN r.active : r.active[i] \in Entries(q)
        BY <3>1
    <3> QED BY <3>2 DEF Entries
  <2> QED BY <2>1, <2>2, <2>3, <2>4 DEF TypeOK, Node, RunTyped, LedgerTyped
<1> QED BY <1>1, Invariance, PTL

(* Two operations that the backend runs at the same time do not conflict: the *)
(* one the graph orders first has succeeded before the other one is issued,   *)
(* and nothing that succeeded is still running.                               *)
THEOREM ConflictsNeverOverlapHolds == Spec => []ConflictsNeverOverlap
<1>1. IInv => ConflictsNeverOverlap
  <2> SUFFICES ASSUME IInv, NEW n \in Node, NEW m \in Node, n # m,
                      native[n] = "running", native[m] = "running",
                      NEW s \in Writes(n), s \in Reads(m) \cup Writes(m)
               PROVE  FALSE
      BY DEF ConflictsNeverOverlap
  <2>1. PICK q, a : q = request /\ a = run.authority
      OBVIOUS
  <2>2. /\ RequestIsSound(q) /\ Consistent(q.graph, Codes, a)
        /\ run.issued \subseteq Nodes(q.graph) /\ IssuedInOrder(q.graph, a.state, run.issued)
        /\ BackendFollows(q, native, run.issued, run.active)
        /\ SuccessIsRetired(q, a.state, native, context.submissions)
      BY <2>1 DEF IInv, Sound, RunTyped, Outside
  <2>3. n \in Nodes(q.graph) /\ m \in Nodes(q.graph) /\ n \in run.issued /\ m \in run.issued
      BY <2>1, <2>2 DEF BackendFollows, Node
  <2>4. /\ s \in q.writes[n] /\ s \in q.reads[m] \cup q.writes[m] /\ s \in Segment
        /\ q.action[n] # "join" /\ q.action[m] # "join"
      BY <2>1, <2>2, <2>3 DEF Writes, Reads, RequestIsSound, RequestTyped, BackendFollows
  <2>5. n \in Ancestors(q.graph, m) \/ m \in Ancestors(q.graph, n)
      BY <2>2, <2>3, <2>4 DEF RequestIsSound, Ordered
  <2>6. a.state[n] # Succeeded /\ a.state[m] # Succeeded
      BY <2>2, <2>3, <2>4 DEF SuccessIsRetired
  <2> QED BY <2>2, <2>3, <2>5, <2>6, IssuedHasAncestors
<1> QED BY <1>1, Invariance, PTL

(* No assertion of the driver fails, and the context is sealed only after a  *)
(* fault of the backend or of the owner.                                     *)
THEOREM NoSelfInflictedQuarantineHolds == Spec => []NoSelfInflictedQuarantine
<1>1. IInv => NoSelfInflictedQuarantine
    BY DEF IInv, Sound, RunTyped, Outside, ContextFollows, NoSelfInflictedQuarantine
<1> QED BY <1>1, Invariance, PTL

(* A node that succeeded, but for a join, ended well in the backend and was *)
(* released by the context.                                                 *)
THEOREM SucceededIsRetiredHolds == Spec => []SucceededIsRetired
<1>1. IInv => SucceededIsRetired
    BY DEF IInv, Outside, SuccessIsRetired, SucceededIsRetired, Node, Action
<1> QED BY <1>1, Invariance, PTL

(* The slot is free only when the context is, or takes no graph any more. *)
THEOREM FreeSlotFreeContextHolds == Spec => []FreeSlotFreeContext
<1>1. IInv => FreeSlotFreeContext
    BY DEF IInv, Sound, RunTyped, Outside, ContextFollows, FreeSlotFreeContext
<1> QED BY <1>1, Invariance, PTL

(* After the cancellation was applied no node is issued. *)
THEOREM CancellationStopsIssueHolds == Spec => CancellationStopsIssue
<1>1. IInv /\ [Next]_vars => [run.applied => run'.issued = run.issued]_vars
    BY NextKeeps
<1> QED BY <1>1, Invariance, PTL DEF Spec, CancellationStopsIssue

=============================================================================
