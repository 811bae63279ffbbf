------------------------------ MODULE ServiceState ------------------------------
(***************************************************************************)
(* The persistent service state of fe2o3-service-model (state.rs).  The    *)
(* crate holds no operations: it accepts or refuses a pair of states, by   *)
(* validate_transition_to, which asks that both satisfy the global         *)
(* invariants and that every record took an edge of its own state machine. *)
(* The steps here are the accepted pairs, however many records one changes.*)
(*                                                                         *)
(* A step is accepted only from valid to valid states, so what no valid    *)
(* state can hold is left out: the generation word beside the logical      *)
(* generation (always its remainder), Exhausted generations, WrapRisk.     *)
(* Tasks start Reserved, so Accepted is out of reach.  The failure record  *)
(* and the admission cutoff are functions of the lifecycle: no rule ties a *)
(* cutoff to the one before, and one above every sequence is always valid. *)
(* Phase regions shadow the running workers, one active for each, and the  *)
(* oldest live generation of a slot may be given up at any step: neither   *)
(* holds back any other record.                                            *)
(***************************************************************************)
EXTENDS Integers

CONSTANTS
    Slots, Tasks, Leases, Workers, Records,   \* identifiers
    Dependencies,
    Needs,           \* the dependency epochs each task is submitted with
    MaxGeneration    \* the largest logical generation (u64::MAX)

None == "none"

ASSUME ServiceAssumption ==
    /\ MaxGeneration \in Nat
    /\ Needs \in [Tasks -> SUBSET Dependencies]
    /\ None \notin UNION {Slots, Tasks, Leases, Workers, Records}

Outcome == {"Succeeded", "Cancelled", "Failed"}
Lifecycle == {"Starting", "Running", "Draining", "Stopping", "Stopped",
              "FailedMayAccess", "FailedQuiesced"}

VARIABLES
    lifecycle,
    slots,        \* [phase, generation, task, lease, outcome, record]
    tasks,        \* [phase, slot, generation, lease, outcome, record]
    leases,       \* [phase, slot, generation, task, worker, outcome, record]
    workers,      \* [phase, task, lease]
    dependencies, \* [phase, producer]
    completions   \* [task, slot, generation, outcome, visible]

vars == <<lifecycle, slots, tasks, leases, workers, dependencies, completions>>

EmptySlot(g) == [phase |-> "Empty", generation |-> g, task |-> None,
                 lease |-> None, outcome |-> None, record |-> None]
NoTask == [phase |-> "absent", slot |-> None, generation |-> 0,
           lease |-> None, outcome |-> None, record |-> None]
NoLease == [phase |-> "absent", slot |-> None, generation |-> 0, task |-> None,
            worker |-> None, outcome |-> None, record |-> None]
NoCompletion == [task |-> None, slot |-> None, generation |-> 0,
                 outcome |-> None, visible |-> FALSE]
Parked(phase) == [phase |-> phase, task |-> None, lease |-> None]

Init ==
    /\ lifecycle = "Starting"
    /\ slots = [s \in Slots |-> EmptySlot(0)]
    /\ tasks = [t \in Tasks |-> NoTask]
    /\ leases = [l \in Leases |-> NoLease]
    /\ workers = [w \in Workers |-> Parked("Starting")]
    /\ dependencies = [d \in Dependencies |-> [phase |-> "absent", producer |-> None]]
    /\ completions = [c \in Records |-> NoCompletion]

-----------------------------------------------------------------------------
(* The edges of each state machine: what a record may be after one step.   *)

LifecycleEdges(l) ==
    {l} \cup
    (CASE l = "Starting" -> {"Running", "FailedMayAccess", "FailedQuiesced"}
       [] l = "Running"  -> {"Draining", "Stopping", "FailedMayAccess", "FailedQuiesced"}
       [] l = "Draining" -> {"Stopping", "FailedMayAccess", "FailedQuiesced"}
       [] l = "Stopping" -> {"Stopped", "FailedMayAccess", "FailedQuiesced"}
       [] l = "FailedMayAccess" -> {"FailedQuiesced"}
       [] OTHER -> {})

Unfinished == {"Reserved", "Initialized", "Published", "Acquired", "Executing"}

ReclaimedInPlace(s) == {EmptySlot(s.generation)}

(* The one edge that advances a generation; at the largest there is none. *)
Reclaimed(s) == {EmptySlot(g) : g \in {s.generation + 1} \cap (0..MaxGeneration)}

SlotReserved(s, t) == [s EXCEPT !.phase = "Reserved", !.task = t]
SlotAcquired(s, l) == [s EXCEPT !.phase = "Acquired", !.lease = l]
SlotCompleted(s, o, c) ==
    [s EXCEPT !.phase = "Completed", !.lease = None, !.outcome = o, !.record = c]

(* Any unfinished occupant may be cut short with an unsuccessful outcome. *)
SlotEdges(s) ==
    {s} \cup
    (CASE s.phase = "Empty" -> {SlotReserved(s, t) : t \in Tasks}
       [] s.phase = "Reserved" -> {[s EXCEPT !.phase = "Initialized"]}
       [] s.phase = "Initialized" -> {[s EXCEPT !.phase = "Published"]}
       [] s.phase = "Published" -> {SlotAcquired(s, l) : l \in Leases}
       [] s.phase = "Acquired" -> {[s EXCEPT !.phase = "Executing"]}
       [] s.phase = "Completed" -> {[s EXCEPT !.phase = "Reclaimable"]}
       [] s.phase = "Reclaimable" -> Reclaimed(s)
       [] OTHER -> {})
    \cup
    {SlotCompleted(s, o, c) :
        o \in {p \in Outcome : \/ s.phase = "Executing"
                               \/ s.phase \in Unfinished /\ p # "Succeeded"},
        c \in Records}

Terminal == {"Completed", "Cancelled", "Failed"}
Leased == {"Acquired", "Executing", "CompletionPending"}

(* From any stage: cancelled with a record, or failed with or without one. *)
Endings(t) ==
    {[t EXCEPT !.phase = e[1], !.lease = None, !.outcome = None, !.record = e[2]] :
        e \in IF t.phase \in Terminal \cup {"absent"} THEN {}
              ELSE ({"Cancelled", "Failed"} \X Records) \cup {<<"Failed", None>>}}

TaskAdded(t, s, g) == [t EXCEPT !.phase = "Reserved", !.slot = s, !.generation = g]
TaskAcquired(t, l) == [t EXCEPT !.phase = "Acquired", !.lease = l]
TaskPending(t, o) == [t EXCEPT !.phase = "CompletionPending", !.outcome = o]
TaskCompleted(t, c) == [t EXCEPT !.phase = "Completed", !.lease = None, !.record = c]

(* A task is added Reserved, walks to CompletionPending, and ends. *)
TaskEdges(t) ==
    {t} \cup
    (CASE t.phase = "absent" ->
              {TaskAdded(t, s, g) : s \in Slots, g \in 0..MaxGeneration}
       [] t.phase = "Reserved" -> {[t EXCEPT !.phase = "Initialized"]}
       [] t.phase = "Initialized" -> {[t EXCEPT !.phase = "Published"]}
       [] t.phase = "Published" -> {TaskAcquired(t, l) : l \in Leases}
       [] t.phase = "Acquired" -> {[t EXCEPT !.phase = "Executing"]}
       [] t.phase = "Executing" -> {TaskPending(t, o) : o \in Outcome}
       [] t.phase = "CompletionPending" /\ t.outcome = "Succeeded" ->
              {TaskCompleted(t, c) : c \in Records}
       [] OTHER -> {})
    \cup Endings(t)

LeaseAdded(l, s, g, t, w) ==
    [l EXCEPT !.phase = "Issued", !.slot = s, !.generation = g, !.task = t,
              !.worker = w]
LeaseConsumed(l, o, c) == [l EXCEPT !.phase = "Consumed", !.outcome = o, !.record = c]

(* A lease is added Issued and keeps its key until it is consumed. *)
LeaseEdges(l) ==
    {l} \cup
    (CASE l.phase = "absent" ->
              {LeaseAdded(l, s, g, t, w) :
                  s \in Slots, g \in 0..MaxGeneration, t \in Tasks, w \in Workers}
       [] l.phase = "Issued" -> {[l EXCEPT !.phase = "Executing"]}
       [] OTHER -> {})
    \cup
    {LeaseConsumed(l, o, c) :
        o \in {p \in Outcome : l.phase \in {"Issued", "Executing"}}, c \in Records}

WorkerEdges(w) ==
    {w} \cup
    (CASE w.phase = "Starting" -> {Parked("Idle")}
       [] w.phase = "Idle" -> {Parked("Acquiring"), Parked("Exiting")}
       [] w.phase = "Acquiring" ->
              {Parked("Idle"), Parked("Exiting")} \cup
              {[phase |-> "Running", task |-> t, lease |-> l] : t \in Tasks, l \in Leases}
       [] w.phase = "Running" -> {[w EXCEPT !.phase = "Publishing"]}
       [] w.phase = "Publishing" -> {Parked("Acquiring"), Parked("Idle")}
       [] w.phase = "Exiting" -> {Parked("Exited")}
       [] OTHER -> {})
    \cup {Parked(p) : p \in IF w.phase = "Exited" THEN {} ELSE {"Failed"}}

DependencyEdges(d) ==
    {d} \cup
    (CASE d.phase = "absent" -> {[d EXCEPT !.phase = "Pending"]}
       [] d.phase = "Pending" ->
              {[phase |-> p, producer |-> t] : p \in {"CompletionPublished", "Failed"}, t \in Tasks}
       [] d.phase = "CompletionPublished" -> {[d EXCEPT !.phase = "VisibleSatisfied"]}
       [] OTHER -> {})

-----------------------------------------------------------------------------
(* validate_global_invariants, by the records each part relates.           *)

Live(l) == l.phase \in {"Issued", "Executing"}
Key(x) == <<x.slot, x.generation>>

(* slot_task_phase_matches *)
PhasesMatch(s, t) ==
    \/ s.phase \in Unfinished /\ t.phase = s.phase
    \/ s.phase = "Executing" /\ t.phase = "CompletionPending"
    \/ /\ s.phase \in {"Completed", "Reclaimable"}
       /\ t.phase = IF s.outcome = "Succeeded" THEN "Completed" ELSE s.outcome

(* check_slot_task: the occupant's task has this slot, stage and lease. *)
OccupantsAgree ==
    \A s \in Slots : slots[s].task # None =>
        LET t == tasks[slots[s].task]
        IN  /\ Key(t) = <<s, slots[s].generation>>
            /\ PhasesMatch(slots[s], t)
            /\ slots[s].lease # None => t.lease = slots[s].lease

(* An unfinished task is the occupant of the slot it names. *)
SlotsAgree ==
    \A t \in Tasks : tasks[t].phase \notin Terminal \cup {"absent"} =>
        /\ slots[tasks[t].slot].task = t
        /\ slots[tasks[t].slot].generation = tasks[t].generation

(* The dependencies of every task a worker holds are visibly satisfied. *)
DependenciesAgree ==
    \A t \in Tasks : tasks[t].phase \in Leased =>
        \A d \in Needs[t] : dependencies[d].phase = "VisibleSatisfied"

(* Every completion is the record its terminal task names, and every task  *)
(* that names a record has it.                                             *)
CompletionsAgree ==
    /\ \A c \in Records : completions[c] # NoCompletion =>
           LET t == tasks[completions[c].task]
           IN  /\ t.phase = IF completions[c].outcome = "Succeeded" THEN "Completed"
                            ELSE completions[c].outcome
               /\ Key(t) = Key(completions[c]) /\ t.record = c
    /\ \A t \in Tasks : tasks[t].record # None =>
           completions[tasks[t].record].task = t
    /\ \A s \in Slots : slots[s].phase = "Reclaimable" =>
           completions[slots[s].record].visible

(* A held task has a live lease of its own, keys name existing tasks, and  *)
(* live leases share neither task nor slot key.                            *)
LeasesAgree ==
    /\ \A t \in Tasks : tasks[t].phase \in Leased =>
           Live(leases[tasks[t].lease]) /\ leases[tasks[t].lease].task = t
    /\ \A l \in Leases : leases[l].phase # "absent" =>
           tasks[leases[l].task].phase # "absent"
    /\ \A l, m \in Leases : l # m /\ Live(leases[l]) /\ Live(leases[m]) =>
           /\ leases[l].task # leases[m].task
           /\ Key(leases[l]) # Key(leases[m])

(* A consumed lease names the completion of its task. *)
ConsumedAgree ==
    \A l \in Leases : leases[l].phase = "Consumed" =>
        LET c == completions[leases[l].record]
        IN  /\ c.task = leases[l].task /\ Key(c) = Key(leases[l])
            /\ c.outcome = leases[l].outcome

HoldsLeaseOfAnyone(w) ==
    LET l == leases[workers[w].lease]
        t == tasks[workers[w].task]
    IN  /\ l.phase = "Executing" /\ l.task = workers[w].task
        /\ t.phase \in {"Executing", "CompletionPending"} /\ t.lease = workers[w].lease

(* A running worker executes the lease issued to it, for the task it runs. *)
HoldsLease(w) ==
    LET l == leases[workers[w].lease]
        t == tasks[workers[w].task]
    IN  /\ l.phase = "Executing" /\ l.task = workers[w].task /\ l.worker = w
        /\ t.phase \in {"Executing", "CompletionPending"} /\ t.lease = workers[w].lease

WorkersAgree ==
    \A w \in Workers : workers[w].phase = "Running" => HoldsLease(w)

is_quiescent ==
    /\ \A s \in Slots : slots[s].phase = "Empty"
    /\ \A t \in Tasks : tasks[t].phase \in Terminal \cup {"absent"}
    /\ \A l \in Leases : ~ Live(leases[l])
    /\ \A w \in Workers : workers[w].phase \in {"Exited", "Failed"}
    /\ \A c \in Records : completions[c] # NoCompletion => completions[c].visible

LifecycleAgrees == lifecycle = "Stopped" => is_quiescent

-----------------------------------------------------------------------------
(* validate_transition_to                                                  *)

(* One edge for each record of a table. *)
EachFrom(edges) ==
    {f \in [DOMAIN edges -> UNION {edges[x] : x \in DOMAIN edges}] :
        \A x \in DOMAIN edges : f[x] \in edges[x]}

SlotRulesOpen(s, n, before, after) ==
    s.phase = "Published" /\ n.phase = "Acquired" => before \in {"Running", "Draining"}

(* A slot is reserved only while the service runs, before and after, and   *)
(* acquired only while it runs or drains.                                  *)
SlotRules(s, n, before, after) ==
    /\ s.phase = "Empty" /\ n.phase = "Reserved" => before = "Running" /\ after = "Running"
    /\ s.phase = "Published" /\ n.phase = "Acquired" => before \in {"Running", "Draining"}

(* The records a state with these tasks must have, each old one keeping    *)
(* its fields and its visibility.                                          *)
CompletionChoices(c) ==
    {r \in {[task |-> t, slot |-> tasks'[t].slot, generation |-> tasks'[t].generation,
             outcome |-> IF tasks'[t].phase = "Completed" THEN "Succeeded" ELSE tasks'[t].phase,
             visible |-> v] : t \in {u \in Tasks : tasks'[u].record = c}, v \in BOOLEAN}
           \cup {NoCompletion} :
        completions[c] # NoCompletion =>
            [r EXCEPT !.visible = TRUE] = [completions[c] EXCEPT !.visible = TRUE]
            /\ (completions[c].visible => r.visible)}

Next ==
    /\ lifecycle' \in LifecycleEdges(lifecycle)
    /\ slots' \in {f \in EachFrom([s \in Slots |-> SlotEdges(slots[s])]) :
                      \A s \in Slots : SlotRules(slots[s], f[s], lifecycle, lifecycle')}
    /\ tasks' \in EachFrom([t \in Tasks |-> TaskEdges(tasks[t])])
    /\ OccupantsAgree' /\ SlotsAgree'
    /\ completions' \in EachFrom([c \in Records |-> CompletionChoices(c)])
    /\ CompletionsAgree'
    /\ dependencies' \in EachFrom([d \in Dependencies |-> DependencyEdges(dependencies[d])])
    /\ DependenciesAgree'
    /\ leases' \in EachFrom([l \in Leases |-> LeaseEdges(leases[l])])
    /\ LeasesAgree' /\ ConsumedAgree'
    /\ workers' \in EachFrom([w \in Workers |-> WorkerEdges(workers[w])])
    /\ WorkersAgree'
    /\ LifecycleAgrees'

Spec == Init /\ [][Next]_vars

-----------------------------------------------------------------------------
Phases == Unfinished \cup Terminal \cup
          {"absent", "Empty", "Reclaimable", "CompletionPending", "Issued", "Consumed",
           "Starting", "Idle", "Acquiring", "Running", "Publishing", "Exiting", "Exited",
           "Pending", "CompletionPublished", "VisibleSatisfied"}

(* The type invariant: identifiers name records of the configuration, and  *)
(* generations stay in their words (the records of state.rs).              *)
TypeOK ==
    /\ lifecycle \in Lifecycle
    /\ slots \in [Slots -> [phase : Phases, generation : 0..MaxGeneration,
                            task : Tasks \cup {None}, lease : Leases \cup {None},
                            outcome : Outcome \cup {None}, record : Records \cup {None}]]
    /\ tasks \in [Tasks -> [phase : Phases, slot : Slots \cup {None},
                            generation : 0..MaxGeneration, lease : Leases \cup {None},
                            outcome : Outcome \cup {None}, record : Records \cup {None}]]
    /\ leases \in [Leases -> [phase : Phases, slot : Slots \cup {None},
                              generation : 0..MaxGeneration, task : Tasks \cup {None},
                              worker : Workers \cup {None},
                              outcome : Outcome \cup {None}, record : Records \cup {None}]]
    /\ workers \in [Workers -> [phase : Phases, task : Tasks \cup {None},
                                lease : Leases \cup {None}]]
    /\ dependencies \in [Dependencies -> [phase : Phases, producer : Tasks \cup {None}]]
    /\ completions \in [Records -> [task : Tasks \cup {None}, slot : Slots \cup {None},
                                    generation : 0..MaxGeneration,
                                    outcome : Outcome \cup {None}, visible : BOOLEAN]]

(* Over the whole life of the service, no two tasks are ever given the     *)
(* same slot in the same generation: a stale slot key never names another  *)
(* task's payload, although a terminal task is no longer checked against   *)
(* its slot (reserve and reclaim edges, generation rule).                  *)
OneTaskPerGeneration ==
    \A t, u \in Tasks : t # u /\ tasks[t].slot # None => Key(tasks[t]) # Key(tasks[u])

(* Once the service has left Running it accepts no task again, whatever    *)
(* way it left: the cutoff itself may be rewritten by any later step, so   *)
(* only the reserve rule closes admission (validate_transition_to).        *)
AdmissionStaysClosed ==
    [][lifecycle \notin {"Starting", "Running"} =>
          {t \in Tasks : tasks'[t].phase # "absent"} = {t \in Tasks : tasks[t].phase # "absent"}]_vars

(* Two workers never run the same task at the same time, and a worker runs *)
(* a task only while the task still has its slot: the lease, the worker    *)
(* and the slot records are changed by different actors (lease and worker  *)
(* checks together).                                                       *)
RunsAlone ==
    \A w \in Workers : workers[w].phase = "Running" =>
        LET t == workers[w].task
        IN  /\ \A v \in Workers \ {w} : workers[v].phase = "Running" => workers[v].task # t
            /\ slots[tasks[t].slot].task = t
            /\ slots[tasks[t].slot].generation = tasks[t].generation

(* What the semantics promises of reuse: before a slot becomes reusable    *)
(* its lease is consumed and the completion of its task is visible         *)
(* (docs/persistent-gpu-execution-semantics-v1.md).                        *)
ReusableAfterCompletion ==
    \A s \in Slots : slots[s].phase = "Reclaimable" =>
        /\ \E c \in Records : completions[c].task = slots[s].task /\ completions[c].visible
        /\ \A l \in Leases : Live(leases[l]) =>
              Key(leases[l]) # <<s, slots[s].generation>>

=============================================================================
