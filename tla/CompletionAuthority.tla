-------------------------- MODULE CompletionAuthority --------------------------
(***************************************************************************)
(* CompletionAuthorityV1 driven by an arbitrary caller: cancellations and  *)
(* the backend's observations come in any order the contracts of the       *)
(* unsafe calls allow.  A refused call changes nothing and is not a step.  *)
(***************************************************************************)
EXTENDS CompletionGraph

CONSTANTS
    Graphs,   \* the graphs requested
    Code      \* cancellation reasons and failure codes

ASSUME AuthorityAssumption ==
    /\ Code \subseteq Nat \ {0}
    /\ \A g \in Graphs : g \in Seq(ToSet(g))

VARIABLES
    graph,
    authority,
    notified,  \* notifications popped, in order
    report     \* the states reported, once

authorityVars == <<graph, authority, notified, report>>

NoReport == <<>>

AuthorityInit ==
    /\ graph \in {NewGraph(g) : g \in {h \in Graphs : Accepted(h, Stream)}}
    /\ authority = NewAuthority(graph)
    /\ notified = <<>>
    /\ report = NoReport

Step(next) ==
    /\ report = NoReport
    /\ authority' = next
    /\ UNCHANGED <<graph, notified, report>>

PeekReadyNotification ==
    /\ report = NoReport
    /\ authority.ready # <<>>
    /\ Len(notified) < Cardinality(Nodes(graph))
    /\ notified' = Append(notified, Head(authority.ready))
    /\ UNCHANGED <<graph, authority, report>>

PopReadyNotification ==
    /\ report = NoReport
    /\ authority.ready # <<>>
    /\ notified' = Append(notified, Head(authority.ready))
    /\ authority' = [authority EXCEPT !.ready = Tail(@)]
    /\ UNCHANGED <<graph, report>>

RequestCancel(n, reason) ==
    /\ authority.state[n] = Ready
    /\ Step(request_cancel(authority, n, reason))

CancelBlocked(n, reason) ==
    /\ authority.state[n] = Blocked
    /\ Step(cancel_blocked(graph, authority, n, reason))

MarkSucceeded(n) ==
    /\ Outstanding(authority, n)
    /\ Step(mark_succeeded(graph, authority, n))

MarkFailed(n, error) ==
    /\ Outstanding(authority, n)
    /\ Step(mark_failed(graph, authority, n, error))

MarkCancelled(n) ==
    /\ authority.state[n].is = "CancelRequested"
    /\ Step(mark_cancelled(graph, authority, n))

TryIntoReport ==
    /\ report = NoReport
    /\ AllTerminal(authority)
    /\ report' = authority.state
    /\ UNCHANGED <<graph, authority, notified>>

Reported == report # NoReport /\ UNCHANGED authorityVars

Observe(n) ==
    MarkSucceeded(n) \/ MarkCancelled(n) \/ \E error \in Code : MarkFailed(n, error)

AuthorityNext ==
    \/ PopReadyNotification
    \/ \E n \in Nodes(graph) :
          \/ Observe(n)
          \/ \E reason \in Code : RequestCancel(n, reason) \/ CancelBlocked(n, reason)
    \/ TryIntoReport
    \/ Reported

AuthoritySpec == AuthorityInit /\ [][AuthorityNext]_authorityVars

(* The backend finishes with every node it was given. *)
AuthorityFairness ==
    /\ WF_authorityVars(\E n \in Nodes(graph) : Observe(n))
    /\ WF_authorityVars(TryIntoReport)

AuthorityFairSpec == AuthoritySpec /\ AuthorityFairness

-----------------------------------------------------------------------------
State ==
    [is : {"Blocked", "Ready", "Succeeded"}, origin : {0}, code : {0}]
    \cup [is : {"CancelRequested"}, origin : {0}, code : Code]
    \cup [is : Causes, origin : Nodes(graph), code : Code]

AuthorityTypeOK ==
    /\ authority.state \in [Nodes(graph) -> State]
    /\ authority.remaining \in [Nodes(graph) -> 0..2]
    /\ authority.terminal \in 0..Cardinality(Nodes(graph))
    /\ authority.ready \in Seq(Nodes(graph))
    /\ notified \in Seq(Nodes(graph))

(* A node is handed to the backend only after everything it waits for     *)
(* succeeded, whatever failed or was cancelled in between elsewhere.      *)
ReadyAfterDependencies ==
    \A n \in Nodes(graph) :
        Outstanding(authority, n) \/ authority.state[n].is \in {"Succeeded", "Failed"} =>
            \A m \in Ancestors(graph, n) : authority.state[m] = Succeeded

(* No node stays behind: below a node that failed or was cancelled every  *)
(* node is terminal in the same step, across joins and streams.           *)
NobodyWaitsForAFailure ==
    \A n \in Nodes(graph) :
        (\E m \in Ancestors(graph, n) : authority.state[m].is \in Causes)
           => IsTerminal(authority.state[n])

(* An inherited cause names an ancestor that itself failed, or was        *)
(* cancelled, with the same code; a direct one names the node.            *)
CausesAreTrue ==
    \A n \in Nodes(graph) :
        LET s == authority.state[n]
        IN  /\ s.is \in {"Failed", "Cancelled"} => s.origin = n
            /\ s.is \in {"DependencyFailed", "DependencyCancelled"} =>
                  /\ s.origin \in Ancestors(graph, n)
                  /\ authority.state[s.origin] =
                        [s EXCEPT !.is = IF s.is = "DependencyFailed"
                                         THEN "Failed" ELSE "Cancelled"]

(* A node is notified once at most, and a node waiting to be submitted    *)
(* has been notified or is in the queue.                                  *)
NotifiedOnce ==
    LET notices == notified \o authority.ready
    IN  /\ IsInjective(notices)
        /\ \A n \in Nodes(graph) :
              Outstanding(authority, n) => n \in ToSet(notices)

(* When the backend answers for every node it was given, the authority    *)
(* becomes a report: no node is left blocked, nothing is lost.            *)
ReportComes == <>(report # NoReport)

=============================================================================
