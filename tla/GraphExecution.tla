---------------------------- MODULE GraphExecution ----------------------------
(***************************************************************************)
(* The execution of an admitted graph by the owner thread of the runtime   *)
(* (fe2o3-runtime, async_engine/graph.rs, graph/admitted.rs,               *)
(* graph/versions.rs): readiness from the completion authority, the ledger *)
(* of data versions, the reservation and the submissions of the context,   *)
(* cancellation raised by another thread, and the end of the engine.       *)
(*                                                                         *)
(* The owner thread advances the graph in bounded rounds.  Between two of  *)
(* its steps the backend finishes work and the control flag may be raised. *)
(* A version of a segment is named by the node that writes it, 0 for the   *)
(* one found at admission.                                                 *)
(***************************************************************************)
EXTENDS CompletionGraph, Integers

CONSTANTS
    Requests,    \* the requests submitted: [nodes, action, uses]
    Segment,     \* the pieces of memory effects are cut into
    Budget,      \* polls_per_tick
    MaxRejected  \* bound on rejected observations and releases

ASSUME BoundsAssumption == Budget \in Nat \ {0} /\ MaxRejected \in Nat

(* The parts of a request go together, and only actions use memory. *)
ASSUME RequestAssumption ==
    \A q \in Requests :
        /\ q.nodes \in Seq(ToSet(q.nodes))
        /\ q.action \in [DOMAIN q.nodes -> {"join", "ordinary", "generated"}]
        /\ q.uses \in [DOMAIN q.nodes -> [Segment -> {"none", "read", "write", "both"}]]
        /\ \A n \in DOMAIN q.nodes : q.action[n] = "join" =>
              \A s \in Segment : q.uses[n][s] = "none"

VARIABLES
    request,  \* the admitted request and its plan
    run,      \* the driver: see Start
    native,   \* per node, what the backend does: "none", "running", "ok", "failed"
    cancel,   \* RuntimeGraphControlV1
    context,  \* [terminal, reserved, submissions]
    engine,   \* [at, left]: where the owner thread is in advance
    fault     \* the backend or the owner gave a reason for a terminal context

vars == <<request, run, native, cancel, context, engine, fault>>

NoVersion == -1

Reading == {"read", "both"}
Writing == {"write", "both"}

(***************************************************************************)
(* Admission of the request q with the graph g of its nodes.               *)
(***************************************************************************)
ConflictsAllowed(q, g) == TRUE

(* validate_hazards: conflicting effects are ordered by the graph. *)
ConflictsOrdered(q, g) ==
    \A n, m \in Nodes(g) : n # m =>
        \/ n \in Ancestors(g, m) \/ m \in Ancestors(g, n)
        \/ \A s \in Segment :
              LET uses == {q.uses[n][s], q.uses[m][s]}
              IN  "none" \in uses \/ uses = {"read"}

(* Joins, and only joins, have no action. *)
Admitted(q, g) ==
    /\ Accepted(q.nodes, Stream)
    /\ ConflictsOrdered(q, g)
    /\ \A n \in Nodes(g) : q.nodes[n].kind = "future" <=> q.action[n] # "join"

(* The planned lineage: the last writer of s before n in topological order. *)
PlannedPrior(q, g, n, s) ==
    LET writers == {i \in DOMAIN g.order :
                       /\ q.uses[g.order[i]][s] \in Writing
                       /\ \E j \in DOMAIN g.order : g.order[j] = n /\ i < j}
    IN  IF writers = {} THEN 0 ELSE g.order[Max(writers)]

Plan(q, g) ==
    [graph |-> g,
     action |-> q.action,
     reads |-> [n \in Nodes(g) |-> {s \in Segment : q.uses[n][s] \in Reading}],
     writes |-> [n \in Nodes(g) |-> {s \in Segment : q.uses[n][s] \in Writing}],
     prior |-> [n \in Nodes(g) |-> [s \in Segment |-> PlannedPrior(q, g, n, s)]]]

Node == Nodes(request.graph)
InOrder == [n \in Node |-> n]
Action(n) == request.action[n]
Reads(n) == request.reads[n]
Writes(n) == request.writes[n]
Prior(n, s) == request.prior[n][s]

NewLedger ==
    [current |-> [s \in Segment |-> 0],
     pending |-> [s \in Segment |-> NoVersion],
     version |-> [n \in Node |-> "Planned"],
     started |-> {}]

Start ==
    [authority |-> NewAuthority(request.graph),
     ledger |-> NewLedger,
     issued |-> {},
     action |-> request.action,
     parked |-> {n \in Node : Action(n) = "generated"},
     active |-> <<>>,
     nextPoll |-> FALSE,
     applied |-> FALSE,    \* cancel_applied
     cleanup |-> FALSE,    \* terminal_cleanup_pending
     rejected |-> 0,       \* rejected_observations + rejected_releases
     slot |-> TRUE,        \* graph_slot is occupied
     reply |-> "none",
     broken |-> FALSE]     \* an assertion or an unwrap failed

Init ==
    /\ \E q \in Requests : \E g \in {h \in {NewGraph(q.nodes)} : Admitted(q, h)} :
          request = Plan(q, g)
    /\ run = Start
    /\ native = [n \in Node |-> "none"]
    /\ cancel = FALSE
    /\ context = [terminal |-> FALSE, reserved |-> TRUE, submissions |-> {}]
    /\ engine = [at |-> "idle", left |-> 0]
    /\ fault = FALSE

(***************************************************************************)
(* The version ledger.                                                     *)
(***************************************************************************)
CurrentIs(l, n, s) == l.current[s] = Prior(n, s)

Available(l, n, s) ==
    /\ CurrentIs(l, n, s)
    /\ Prior(n, s) = 0 \/ l.version[Prior(n, s)] = "Committed"

CanBegin(l, n) ==
    /\ \A s \in Reads(n) : Available(l, n, s)
    /\ \A s \in Writes(n) :
          l.version[n] = "Planned" /\ l.pending[s] = NoVersion /\ CurrentIs(l, n, s)
    /\ n \notin l.started

BeginKeepsCurrent(l, n) ==
    [l EXCEPT !.started = @ \cup {n},
              !.pending = [s \in Segment |-> IF s \in Writes(n) THEN n ELSE @[s]],
              !.version[n] = IF Writes(n) = {} THEN @ ELSE "InFlight"]

begin(l, n) ==
    [l EXCEPT !.started = @ \cup {n},
              !.current = [s \in Segment |-> IF s \in Writes(n) THEN NoVersion ELSE @[s]],
              !.pending = [s \in Segment |-> IF s \in Writes(n) THEN n ELSE @[s]],
              !.version[n] = IF Writes(n) = {} THEN @ ELSE "InFlight"]

CanCommit(l, n) ==
    \A s \in Writes(n) :
        l.version[n] = "InFlight" /\ l.pending[s] = n /\ l.current[s] = NoVersion

commit(l, n) ==
    [l EXCEPT !.current = [s \in Segment |-> IF s \in Writes(n) THEN n ELSE @[s]],
              !.pending = [s \in Segment |-> IF s \in Writes(n) THEN NoVersion ELSE @[s]],
              !.version[n] = IF Writes(n) = {} THEN @ ELSE "Committed"]

fail(l, n) ==
    [l EXCEPT !.pending = [s \in Segment |-> IF s \in Writes(n) THEN NoVersion ELSE @[s]],
              !.version[n] = IF Writes(n) = {} THEN @ ELSE "Failed"]

ReportReady(l) ==
    /\ \A s \in Segment : l.pending[s] = NoVersion
    /\ \A n \in Node : l.version[n] # "InFlight"

(***************************************************************************)
(* Steps of the driver, as functions of its state.  A driver that replied  *)
(* an error quarantined the context or found it terminal.                  *)
(***************************************************************************)
Reject(r) ==
    [r EXCEPT !.slot = FALSE, !.reply = IF @ = "none" THEN "error" ELSE @]

Break(r) == [r EXCEPT !.broken = TRUE]

Succeed(r, n) ==
    IF ~ Outstanding(r.authority, n) THEN Break(r)
    ELSE [r EXCEPT !.authority = mark_succeeded(request.graph, @, n)]

SucceedOperation(r, n) ==
    IF CanCommit(r.ledger, n)
    THEN Succeed([r EXCEPT !.ledger = commit(@, n)], n)
    ELSE Reject(r)

fail_node(r, n, code) ==
    IF ~ Outstanding(r.authority, n)
          \/ \E s \in Writes(n) : r.ledger.pending[s] # n
    THEN Break(r)
    ELSE [r EXCEPT !.cleanup = TRUE,
                   !.ledger = fail(@, n),
                   !.authority = mark_failed(request.graph, @, n, code)]

CancelBlockedNode(a, n) ==
    IF a.state[n] = Blocked THEN cancel_blocked(request.graph, a, n, 1) ELSE a

CancelUnissuedNode(a, n) ==
    CASE a.state[n] = Blocked -> cancel_blocked(request.graph, a, n, 1)
      [] a.state[n] = Ready ->
            mark_cancelled(request.graph, request_cancel(a, n, 1), n)
      [] OTHER -> a

Discardable(r, n) == r.action[n] = "generated" => n \in r.parked

(* A generated owner that is not parked any more ends it: see Failed. *)
Discard(b, n, raised) ==
    IF \/ n \in b.issued
       \/ ~ raised /\ ~ IsTerminal(b.authority.state[n])
       \/ b.reply # "none"
    THEN b
    ELSE IF ~ Discardable(b, n) THEN Reject(b)
    ELSE [b EXCEPT !.authority = CancelUnissuedNode(@, n),
                   !.action[n] = "none",
                   !.parked = @ \ {n}]

Sweep(r, raised) == Fold(LAMBDA b, n : Discard(b, n, raised), r, InOrder)

apply_cancel(r, raised) ==
    LET swept == Sweep(r, raised)
    IN  IF (~ raised \/ r.applied) /\ ~ r.cleanup THEN r
        ELSE IF swept.reply # "none" THEN swept
        ELSE [swept EXCEPT !.applied = @ \/ raised, !.cleanup = FALSE]

Failed(r) == r.reply = "error"

Finishable(r) == AllTerminal(r.authority) /\ r.active = <<>>

(* AdmittedGraphV1::finish succeeds: the context retires the reservation. *)
Finished(r, c) ==
    /\ Finishable(r)
    /\ ReportReady(r.ledger)
    /\ ~ c.terminal /\ c.reserved /\ c.submissions = {}

(***************************************************************************)
(* Actions.                                                                *)
(***************************************************************************)
Goto(at, left) == engine' = [at |-> at, left |-> left]

SealForgotten == UNCHANGED context

(* The context seals itself; the driver is dropped at the end of the round. *)
Seal == context' = [context EXCEPT !.terminal = TRUE]

(* External: the backend ends what was submitted. *)
BackendFinishes(n) ==
    /\ native[n] = "running"
    /\ \E outcome \in {"ok", "failed"} : native' = [native EXCEPT ![n] = outcome]
    /\ UNCHANGED <<request, run, cancel, context, engine, fault>>

(* RuntimeGraphControlV1::cancel_unissued, on any thread. *)
CancelUnissued ==
    /\ ~ cancel
    /\ cancel' = TRUE
    /\ UNCHANGED <<request, run, native, context, engine, fault>>

Live == run.reply = "none" /\ ~ context.terminal

(* The outcome of a driver step that touches neither backend nor context. *)
Continue(r) ==
    /\ run' = r
    /\ IF Failed(r) THEN Seal ELSE UNCHANGED context

Advance ==
    /\ engine.at = "idle" /\ Live
    /\ Continue(apply_cancel(run, cancel))
    /\ Goto("round", Budget)
    /\ UNCHANGED <<request, native, cancel, fault>>

(* One iteration: poll and issue take turns, the other one if it has none. *)
Turn(polls) ==
    /\ engine.at = "round" /\ engine.left > 0 /\ Live
    /\ polls = IF run.active = <<>> THEN FALSE
               ELSE IF run.authority.ready = <<>> /\ (~ cancel \/ run.applied) THEN TRUE
               ELSE ~ run.nextPoll
    /\ Goto("round", engine.left - 1)
    /\ UNCHANGED <<request, cancel>>

Turned == [run EXCEPT !.nextPoll = ~ @]

(* What issue_one finds: the driver after the cancellation check. *)
Issuing == IF cancel THEN apply_cancel(Turned, TRUE) ELSE Turned

Popped == [Issuing EXCEPT !.authority.ready = Tail(@)]

(* issue_one finds no notification, but applies the cancellation: the same *)
(* iteration goes on to poll.                                              *)
IssueNothing ==
    /\ engine.at = "round" /\ engine.left > 0 /\ Live
    /\ cancel /\ ~ run.applied
    /\ run.active = <<>> \/ run.nextPoll
    /\ LET r == apply_cancel(run, TRUE)
       IN  ~ Failed(r) /\ r.authority.ready = <<>> /\ run' = r
    /\ UNCHANGED <<request, native, cancel, context, engine, fault>>

(* A notification made stale by a cancellation is dropped. *)
SkipNotification ==
    /\ Turn(FALSE)
    /\ Failed(Issuing) \/ Issuing.authority.ready # <<>>
    /\ \/ Failed(Issuing) /\ Continue(Issuing)
       \/ /\ ~ Failed(Issuing)
          /\ Issuing.authority.state[Head(Issuing.authority.ready)] # Ready
          /\ Continue(Popped)
    /\ UNCHANGED <<native, fault>>

CanIssue(n) ==
    /\ Issuing.authority.ready # <<>>
    /\ n = Head(Issuing.authority.ready)
    /\ Issuing.authority.state[n] = Ready

Begun(n) ==
    [Popped EXCEPT !.ledger = begin(@, n), !.issued = @ \cup {n}, !.action[n] = "none"]

Issue(n) ==
    /\ Turn(FALSE)
    /\ ~ Failed(Issuing) /\ CanIssue(n)
    /\ IF n \in Popped.issued THEN Continue(Break(Popped)) /\ UNCHANGED <<native, fault>>
       ELSE IF ~ CanBegin(Popped.ledger, n)
       THEN Continue(Reject(Popped)) /\ UNCHANGED <<native, fault>>
       ELSE CASE Popped.action[n] \in {"none", "join"} ->
                    Continue(Succeed(Begun(n), n)) /\ UNCHANGED <<native, fault>>
              [] OTHER ->
                    \/ /\ run' = [Begun(n) EXCEPT
                                    !.active = Append(@, [node |-> n, status |-> "pending"]),
                                    !.parked = @ \ {n}]
                       /\ context' = [context EXCEPT !.submissions = @ \cup {n}]
                       /\ native' = [native EXCEPT ![n] = "running"]
                       /\ UNCHANGED fault
                    \/ \* definitely not published: a generated owner is discarded
                       /\ Continue(fail_node([Begun(n) EXCEPT !.parked = @ \ {n}], n, 1))
                       /\ UNCHANGED <<native, fault>>
                    \/ \* the context became terminal while submitting
                       /\ run' = Reject(Begun(n)) /\ Seal
                       /\ native' = [native EXCEPT ![n] = "running"]
                       /\ fault' = TRUE

Polled == Head(run.active)
Unpolled == [Turned EXCEPT !.active = Tail(@)]
RequeuedLost(status) == Unpolled

Requeued(status) ==
    [Unpolled EXCEPT !.active = Append(@, [node |-> Polled.node, status |-> status])]

Observed(n) == IF native[n] = "running" THEN "pending" ELSE native[n]

(* poll_one on a submission that is not retiring. *)
Poll ==
    /\ Turn(TRUE)
    /\ Polled.status = "pending"
    /\ Action(Polled.node) = "ordinary"
    /\ \/ /\ run' = Requeued(Observed(Polled.node))
          /\ UNCHANGED <<context, fault>>
       \/ \* the observation was rejected
          /\ run.rejected < MaxRejected
          /\ run' = [Requeued("pending") EXCEPT !.rejected = @ + 1]
          /\ UNCHANGED <<context, fault>>
       \/ run' = Reject(Unpolled) /\ Seal /\ fault' = TRUE
    /\ UNCHANGED native

ReleasedNot(c, n) == c

Released(c, n) == [c EXCEPT !.submissions = @ \ {n}]

(* poll_one on a submission that is retiring: it is released first. *)
Retire ==
    /\ Turn(TRUE)
    /\ Polled.status # "pending"
    /\ \/ /\ LET r == IF Polled.status = "ok" THEN SucceedOperation(Unpolled, Polled.node)
                      ELSE fail_node(Unpolled, Polled.node, 2)
             IN  /\ run' = r
                 /\ context' = [Released(context, Polled.node) EXCEPT
                                  !.terminal = @ \/ Failed(r)]
          /\ UNCHANGED fault
       \/ \* the release was rejected
          /\ run.rejected < MaxRejected
          /\ run' = [Requeued(Polled.status) EXCEPT !.rejected = @ + 1]
          /\ UNCHANGED <<context, fault>>
       \/ run' = Reject(Unpolled) /\ Seal /\ fault' = TRUE
    /\ UNCHANGED native

(* observe_generated: the reply cell of the operation, filled after its      *)
(* settlement, or with an error that says nothing about the native side.     *)
ObserveGenerated(r, c, n, next, nextContext, faulty) ==
    \/ /\ native[n] = "running"
       /\ next = [r EXCEPT !.active = Append(@, [node |-> n, status |-> "pending"])]
       /\ nextContext = c /\ ~ faulty
    \/ /\ native[n] = "ok"
       /\ next = SucceedOperation(r, n)
       /\ nextContext = Released(c, n) /\ ~ faulty
    \/ /\ native[n] = "failed"
       /\ next = fail_node(r, n, 4)
       /\ nextContext = Released(c, n) /\ ~ faulty
    \/ \* an engine error: the operation keeps its place in the context
       /\ next = fail_node(r, n, 4)
       /\ nextContext = c /\ faulty

PollGenerated ==
    /\ Turn(TRUE)
    /\ Polled.status = "pending"
    /\ Action(Polled.node) = "generated"
    /\ \E faulty \in BOOLEAN, c \in {context, Released(context, Polled.node)} :
          /\ ObserveGenerated(Unpolled, context, Polled.node, run', c, faulty)
          /\ context' = [c EXCEPT !.terminal = @ \/ Failed(run')]
          /\ fault' = (fault \/ faulty)
    /\ UNCHANGED native

(* Neither side has anything to do, or the budget is used up. *)
EndRound ==
    /\ engine.at = "round" /\ Live
    /\ \/ engine.left = 0
       \/ run.active = <<>> /\ run.authority.ready = <<>> /\ (~ cancel \/ run.applied)
    /\ run' = IF engine.left = 0 THEN run ELSE Turned
    /\ Goto("tail", 0)
    /\ UNCHANGED <<request, native, cancel, context, fault>>

(* The last apply_cancel, finish, and the flush of the streams. *)
Conclude ==
    /\ engine.at = "tail" /\ Live
    /\ LET r == apply_cancel(run, cancel)
       IN  \/ Failed(r) /\ Continue(r) /\ UNCHANGED fault
           \/ /\ ~ Failed(r) /\ Finishable(r)
              /\ IF Finished(r, context)
                 THEN /\ run' = [r EXCEPT !.slot = FALSE, !.reply = "report"]
                      /\ context' = [context EXCEPT !.reserved = FALSE]
                 ELSE run' = Reject(r) /\ Seal
              /\ UNCHANGED fault
           \/ /\ ~ Failed(r) /\ ~ Finishable(r)
              /\ \/ run' = r /\ UNCHANGED <<context, fault>>
                 \/ run' = Reject(r) /\ Seal /\ fault' = TRUE
    /\ Goto("idle", 0)
    /\ UNCHANGED <<request, native, cancel>>

(* Scheduler finish: Graph::stop takes the results of generated operations  *)
(* that are there already, and polls nothing.  The driver is then dropped.  *)
Take(b, entry, lost) ==
    IF \/ Failed(b.run) \/ Action(entry.node) # "generated"
       \/ native[entry.node] = "running" /\ entry.node \notin lost
    THEN [b EXCEPT !.run.active = Append(@, entry)]
    ELSE IF entry.node \in lost
    THEN [b EXCEPT !.run = fail_node(@, entry.node, 4)]
    ELSE [run |-> IF native[entry.node] = "ok" THEN SucceedOperation(b.run, entry.node)
                  ELSE fail_node(b.run, entry.node, 4),
          context |-> Released(b.context, entry.node)]

StopRoster(r, c, lost) ==
    Fold(LAMBDA b, entry : Take(b, entry, lost),
         [run |-> [r EXCEPT !.active = <<>>], context |-> c], r.active)

Roster(r) == {r.active[i].node : i \in DOMAIN r.active}

(* The results in lost are engine errors. *)
Stop ==
    /\ engine.at = "idle" /\ Live
    /\ \E lost \in SUBSET {n \in Roster(run) : Action(n) = "generated"} :
       LET first == apply_cancel(run, TRUE)
           rest == StopRoster(first, context, lost)
           last == apply_cancel(rest.run, TRUE)
       IN  /\ fault' = (fault \/ lost # {} \/ (~ Failed(last) /\ ~ Finishable(last)))
           /\ IF Failed(last)
              THEN run' = last /\ Seal
              ELSE IF Finished(last, rest.context)
              THEN /\ run' = [last EXCEPT !.slot = FALSE, !.reply = "report"]
                   /\ context' = [rest.context EXCEPT !.reserved = FALSE]
              ELSE /\ run' = Reject(last)
                   /\ context' = [rest.context EXCEPT !.terminal = TRUE]
    /\ cancel' = TRUE
    /\ UNCHANGED <<request, native, engine>>

(* The driver is gone: its reply was given and its slot is free. *)
Done ==
    /\ run.reply # "none"
    /\ UNCHANGED vars

Owner ==
    \/ Advance \/ IssueNothing \/ SkipNotification \/ Poll \/ Retire \/ PollGenerated
    \/ EndRound \/ Conclude
    \/ \E n \in Node : Issue(n)

Next ==
    \/ Owner \/ Stop \/ CancelUnissued \/ Done
    \/ \E n \in Node : BackendFinishes(n)

Spec == Init /\ [][Next]_vars

(* The owner thread keeps advancing and the backend ends what it started. *)
Fairness ==
    /\ WF_vars(Owner)
    /\ \A n \in 1..Max({Len(q.nodes) : q \in Requests}) :
          WF_vars(n \in Node /\ BackendFinishes(n))

FairSpec == Spec /\ Fairness

-----------------------------------------------------------------------------
TypeOK ==
    /\ run.issued \subseteq Node /\ run.parked \subseteq Node
    /\ run.action \in [Node -> {"none", "join", "ordinary", "generated"}]
    /\ \A i \in DOMAIN run.active :
          run.active[i] \in [node : Node, status : {"pending", "ok", "failed"}]
    /\ run.ledger.current \in [Segment -> Node \cup {0, NoVersion}]
    /\ run.ledger.pending \in [Segment -> Node \cup {NoVersion}]
    /\ run.reply \in {"none", "report", "error"}
    /\ native \in [Node -> {"none", "running", "ok", "failed"}]
    /\ context.submissions \subseteq Node
    /\ engine.left \in 0..Budget

(* Two operations that the backend runs at the same time never touch the  *)
(* same memory with one of them writing it.                               *)
ConflictsNeverOverlap ==
    \A n, m \in Node :
        n # m /\ native[n] = "running" /\ native[m] = "running" =>
            Writes(n) \cap (Reads(m) \cup Writes(m)) = {}

(* The driver never trips over itself: no assertion or unwrap fails, no   *)
(* version is unavailable, no parked owner is missing, and the context is *)
(* sealed only for a reason outside the graph.                            *)
NoSelfInflictedQuarantine ==
    ~ run.broken /\ (context.terminal => fault)

(* A node counts as succeeded only after the backend succeeded and its    *)
(* submission was released; then its successors may be issued.            *)
SucceededIsRetired ==
    \A n \in Node : run.authority.state[n] = Succeeded =>
        \/ Action(n) = "join"
        \/ native[n] = "ok" /\ n \notin context.submissions

(* The slot for a graph is free only when the context can take another    *)
(* one, or no graph at all any more.                                      *)
FreeSlotFreeContext ==
    ~ run.slot => ~ context.reserved \/ context.terminal

(* After the cancellation was applied no further node is issued. *)
CancellationStopsIssue ==
    [][run.applied => run'.issued = run.issued]_vars

(* The future of the graph is always resolved and the slot released.      *)
ReplyComes == <>(run.reply # "none" /\ ~ run.slot)

=============================================================================
