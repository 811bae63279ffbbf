-------------------------- MODULE ServiceStateProofs --------------------------
(***************************************************************************)
(* Proofs about ServiceState, for every set of slots, tasks, leases,       *)
(* workers and records and for every largest generation.                   *)
(***************************************************************************)
EXTENDS ServiceState, TLAPS

(***************************************************************************)
(* The inductive invariant.                                                *)
(***************************************************************************)
(* What the validation asks of the state after each step. *)
Validated == OccupantsAgree /\ SlotsAgree /\ WorkersAgree

(* Fields that a record has only in some of its phases.                    *)
Shapes ==
    /\ \A s \in Slots : slots[s].phase = "Empty" => slots[s].task = None
    /\ \A t \in Tasks :
          /\ tasks[t].phase = "absent" => tasks[t] = NoTask
          /\ tasks[t].phase # "absent" => tasks[t].slot \in Slots
          /\ tasks[t].record # None => tasks[t].phase \in Terminal
    /\ \A w \in Workers : workers[w].phase = "Running" =>
          workers[w].task \in Tasks /\ workers[w].lease \in Leases

(* A task that holds the current generation of its slot is the occupant;   *)
(* every other task that had the slot had it in an older generation.       *)
Current ==
    \A t \in Tasks : tasks[t].phase # "absent" =>
        LET s == slots[tasks[t].slot]
        IN  /\ tasks[t].generation <= s.generation
            /\ tasks[t].generation = s.generation => s.task = t

IInv == TypeOK /\ Validated /\ Shapes /\ Current /\ OneTaskPerGeneration

(***************************************************************************)
(* The edges of each state machine.                                        *)
(***************************************************************************)
SlotRecords ==
    [phase : Phases, generation : 0..MaxGeneration, task : Tasks \cup {None},
     lease : Leases \cup {None}, outcome : Outcome \cup {None},
     record : Records \cup {None}]
TaskRecords ==
    [phase : Phases, slot : Slots \cup {None}, generation : 0..MaxGeneration,
     lease : Leases \cup {None}, outcome : Outcome \cup {None},
     record : Records \cup {None}]
LeaseRecords ==
    [phase : Phases, slot : Slots \cup {None}, generation : 0..MaxGeneration,
     task : Tasks \cup {None}, worker : Workers \cup {None},
     outcome : Outcome \cup {None}, record : Records \cup {None}]
WorkerRecords ==
    [phase : Phases, task : Tasks \cup {None}, lease : Leases \cup {None}]
DependencyRecords == [phase : Phases, producer : Tasks \cup {None}]
CompletionRecords ==
    [task : Tasks \cup {None}, slot : Slots \cup {None},
     generation : 0..MaxGeneration, outcome : Outcome \cup {None},
     visible : BOOLEAN]

LEMMA TableTypes ==
    TypeOK <=> /\ lifecycle \in Lifecycle
               /\ slots \in [Slots -> SlotRecords] /\ tasks \in [Tasks -> TaskRecords]
               /\ leases \in [Leases -> LeaseRecords]
               /\ workers \in [Workers -> WorkerRecords]
               /\ dependencies \in [Dependencies -> DependencyRecords]
               /\ completions \in [Records -> CompletionRecords]
BY DEF TypeOK, SlotRecords, TaskRecords, LeaseRecords, WorkerRecords,
       DependencyRecords, CompletionRecords

LEMMA OneOfEachEdge ==
    ASSUME NEW edges, NEW f \in EachFrom(edges)
    PROVE  /\ f \in [DOMAIN edges -> UNION {edges[x] : x \in DOMAIN edges}]
           /\ \A x \in DOMAIN edges : f[x] \in edges[x]
BY DEF EachFrom

LEMMA LifecycleTyped ==
    ASSUME NEW l \in Lifecycle
    PROVE  LifecycleEdges(l) \subseteq Lifecycle
BY DEF LifecycleEdges, Lifecycle

LEMMA EmptyTyped ==
    ASSUME NEW g \in 0..MaxGeneration
    PROVE  /\ EmptySlot(g) \in SlotRecords /\ EmptySlot(g).phase = "Empty"
           /\ EmptySlot(g).generation = g /\ EmptySlot(g).task = None
BY DEF EmptySlot, SlotRecords, Phases

(* A slot is left alone, taken, worked on under the same key, or emptied   *)
(* in its next generation.                                                 *)
LEMMA SlotEdgeKinds ==
    ASSUME NEW s \in SlotRecords, NEW n \in SlotEdges(s)
    PROVE  /\ n \in SlotRecords
           /\ \/ n = s
              \/ /\ s.phase = "Empty" /\ n.phase = "Reserved"
                 /\ n.generation = s.generation
              \/ /\ s.phase # "Empty" /\ n.phase \notin {"Empty", "Reserved"}
                 /\ n.task = s.task /\ n.generation = s.generation
              \/ /\ n.phase = "Empty" /\ n.task = None
                 /\ n.generation = s.generation + 1
<1>0. /\ {"Reserved", "Initialized", "Published", "Acquired", "Executing",
          "Completed", "Reclaimable", "Empty"} \subseteq Phases
      /\ "Completed" \notin Unfinished /\ "Empty" \notin Unfinished
    BY DEF Phases, Unfinished, Terminal
<1>1. CASE n = s
    BY <1>1
<1>2. CASE \E t \in Tasks : s.phase = "Empty"
             /\ n = SlotReserved(s, t)
    BY <1>0, <1>2 DEF SlotRecords, SlotReserved
<1>3. CASE \E p \in {"Initialized", "Published", "Executing", "Reclaimable"} :
             s.phase # "Empty" /\ n = [s EXCEPT !.phase = p]
    BY <1>0, <1>3 DEF SlotRecords
<1>4. CASE \E l \in Leases : s.phase = "Published"
             /\ n = SlotAcquired(s, l)
    BY <1>0, <1>4 DEF SlotRecords, SlotAcquired
<1>5. CASE n \in Reclaimed(s)
  <2>1. PICK g \in 0..MaxGeneration : g = s.generation + 1 /\ n = EmptySlot(g)
      BY <1>5 DEF Reclaimed
  <2> QED BY <2>1, EmptyTyped
<1>6. CASE \E o \in Outcome, c \in Records : s.phase \in Unfinished
             /\ n = SlotCompleted(s, o, c)
    BY <1>0, <1>6 DEF SlotRecords, SlotCompleted
<1>7. \/ n = s
      \/ \E t \in Tasks : s.phase = "Empty"
            /\ n = SlotReserved(s, t)
      \/ \E p \in {"Initialized", "Published", "Executing", "Reclaimable"} :
            s.phase # "Empty" /\ n = [s EXCEPT !.phase = p]
      \/ \E l \in Leases : s.phase = "Published"
            /\ n = SlotAcquired(s, l)
      \/ n \in Reclaimed(s)
      \/ \E o \in Outcome, c \in Records : s.phase \in Unfinished
            /\ n = SlotCompleted(s, o, c)
    BY DEF SlotEdges, Unfinished
<1> QED BY <1>1, <1>2, <1>3, <1>4, <1>5, <1>6, <1>7

(* A task is left alone, added, or works on under the same key.            *)
LEMMA TaskEdgeKinds ==
    ASSUME NEW t \in TaskRecords, NEW n \in TaskEdges(t)
    PROVE  /\ n \in TaskRecords
           /\ \/ n = t
              \/ /\ t.phase = "absent" /\ n.phase = "Reserved" /\ n.slot \in Slots
                 /\ n.record = t.record
              \/ /\ t.phase # "absent" /\ n.phase # "absent"
                 /\ n.slot = t.slot /\ n.generation = t.generation
                 /\ \/ n.phase \in Terminal
                    \/ n.record = t.record /\ t.phase \notin Terminal
<1>0. /\ {"Reserved", "Initialized", "Published", "Acquired", "Executing",
          "CompletionPending", "Completed", "Cancelled", "Failed"} \subseteq Phases
      /\ "absent" \notin Terminal
      /\ {"Completed", "Cancelled", "Failed"} \subseteq Terminal
    BY DEF Phases, Unfinished, Terminal
<1>1. CASE n = t
    BY <1>1
<1>2. CASE \E s \in Slots, g \in 0..MaxGeneration : t.phase = "absent"
             /\ n = TaskAdded(t, s, g)
    BY <1>0, <1>2 DEF TaskRecords, TaskAdded
<1>3. CASE \E p \in {"Initialized", "Published", "Executing"} :
             /\ t.phase \in {"Reserved", "Initialized", "Acquired"}
             /\ n = [t EXCEPT !.phase = p]
    BY <1>0, <1>3 DEF TaskRecords, Terminal
<1>4. CASE \E l \in Leases : t.phase = "Published"
             /\ n = TaskAcquired(t, l)
    BY <1>0, <1>4 DEF TaskRecords, TaskAcquired, Terminal
<1>5. CASE \E o \in Outcome : t.phase = "Executing"
             /\ n = TaskPending(t, o)
    BY <1>0, <1>5 DEF TaskRecords, TaskPending, Terminal
<1>6. CASE \E c \in Records : t.phase = "CompletionPending"
             /\ n = TaskCompleted(t, c)
    BY <1>0, <1>6 DEF TaskRecords, TaskCompleted
<1>7. CASE n \in Endings(t)
  <2>1. PICK e \in ({"Cancelled", "Failed"} \X Records) \cup {<<"Failed", None>>} :
          /\ t.phase \notin Terminal \cup {"absent"}
          /\ n = [t EXCEPT !.phase = e[1], !.lease = None, !.outcome = None,
                           !.record = e[2]]
      BY <1>7 DEF Endings
  <2>2. e[1] \in {"Cancelled", "Failed"} /\ e[2] \in Records \cup {None}
      OBVIOUS
  <2> QED BY <1>0, <2>1, <2>2 DEF TaskRecords
<1>8. \/ n = t
      \/ \E s \in Slots, g \in 0..MaxGeneration : t.phase = "absent"
            /\ n = TaskAdded(t, s, g)
      \/ \E p \in {"Initialized", "Published", "Executing"} :
            /\ t.phase \in {"Reserved", "Initialized", "Acquired"}
            /\ n = [t EXCEPT !.phase = p]
      \/ \E l \in Leases : t.phase = "Published"
            /\ n = TaskAcquired(t, l)
      \/ \E o \in Outcome : t.phase = "Executing"
            /\ n = TaskPending(t, o)
      \/ \E c \in Records : t.phase = "CompletionPending"
            /\ n = TaskCompleted(t, c)
      \/ n \in Endings(t)
    BY DEF TaskEdges
<1> QED BY <1>1, <1>2, <1>3, <1>4, <1>5, <1>6, <1>7, <1>8

LEMMA LeaseEdgesTyped ==
    ASSUME NEW l \in LeaseRecords, NEW n \in LeaseEdges(l)
    PROVE  n \in LeaseRecords
<1>0. {"Issued", "Executing", "Consumed"} \subseteq Phases
    BY DEF Phases, Unfinished
<1>1. CASE \E s \in Slots, g \in 0..MaxGeneration, t \in Tasks, w \in Workers :
             n = LeaseAdded(l, s, g, t, w)
    BY <1>0, <1>1 DEF LeaseRecords, LeaseAdded
<1>2. CASE n = [l EXCEPT !.phase = "Executing"]
    BY <1>0, <1>2 DEF LeaseRecords
<1>3. CASE \E o \in Outcome, c \in Records :
             n = LeaseConsumed(l, o, c)
    BY <1>0, <1>3 DEF LeaseRecords, LeaseConsumed
<1> QED BY <1>1, <1>2, <1>3 DEF LeaseEdges

LEMMA ParkedTyped ==
    ASSUME NEW p \in Phases
    PROVE  Parked(p) \in WorkerRecords /\ Parked(p).phase = p
BY DEF Parked, WorkerRecords

LEMMA WorkerEdgeKinds ==
    ASSUME NEW w \in WorkerRecords, NEW n \in WorkerEdges(w)
    PROVE  /\ n \in WorkerRecords
           /\ \/ n = w
              \/ n.phase # "Running"
              \/ n.task \in Tasks /\ n.lease \in Leases
<1>0. {"Idle", "Acquiring", "Exiting", "Running", "Publishing", "Exited", "Failed"}
        \subseteq Phases
    BY DEF Phases, Terminal
<1>1. CASE \E p \in {"Idle", "Acquiring", "Exiting", "Exited", "Failed"} : n = Parked(p)
    BY <1>0, <1>1, ParkedTyped
<1>2. CASE \E t \in Tasks, l \in Leases : n = [phase |-> "Running", task |-> t, lease |-> l]
    BY <1>0, <1>2 DEF WorkerRecords
<1>3. CASE n = [w EXCEPT !.phase = "Publishing"]
    BY <1>0, <1>3 DEF WorkerRecords
<1>4. n = w \/ (\E p \in {"Idle", "Acquiring", "Exiting", "Exited", "Failed"} : n = Parked(p))
      \/ (\E t \in Tasks, l \in Leases : n = [phase |-> "Running", task |-> t, lease |-> l])
      \/ n = [w EXCEPT !.phase = "Publishing"]
    BY DEF WorkerEdges
<1> QED BY <1>1, <1>2, <1>3, <1>4

LEMMA DependencyEdgesTyped ==
    ASSUME NEW d \in DependencyRecords, NEW n \in DependencyEdges(d)
    PROVE  n \in DependencyRecords
<1>0. {"Pending", "CompletionPublished", "Failed", "VisibleSatisfied"} \subseteq Phases
    BY DEF Phases, Terminal
<1> QED BY <1>0 DEF DependencyEdges, DependencyRecords

(***************************************************************************)
(* What an accepted pair of states is, record by record.                   *)
(***************************************************************************)
LEMMA SlotStep ==
    ASSUME TypeOK, Next
    PROVE  /\ slots' \in [Slots -> SlotRecords]
           /\ \A s \in Slots :
                 /\ slots[s] \in SlotRecords /\ slots'[s] \in SlotEdges(slots[s])
                 /\ SlotRules(slots[s], slots'[s], lifecycle, lifecycle')
<1> DEFINE edges == [s \in Slots |-> SlotEdges(slots[s])]
<1>1. slots' \in EachFrom(edges)
    BY DEF Next
<1>2. /\ slots' \in [Slots -> UNION {edges[x] : x \in Slots}]
      /\ \A s \in Slots : slots'[s] \in edges[s]
    BY <1>1, OneOfEachEdge
<1>3. \A s \in Slots : slots[s] \in SlotRecords /\ slots'[s] \in SlotEdges(slots[s])
    BY <1>2, TableTypes
<1>4. \A s \in Slots : slots'[s] \in SlotRecords
    BY <1>3, SlotEdgeKinds
<1>5. slots' \in [Slots -> SlotRecords]
    BY <1>2, <1>4
<1>6. \A s \in Slots : SlotRules(slots[s], slots'[s], lifecycle, lifecycle')
    BY DEF Next
<1> QED BY <1>3, <1>5, <1>6

LEMMA TaskStep ==
    ASSUME TypeOK, Next
    PROVE  /\ tasks' \in [Tasks -> TaskRecords]
           /\ \A t \in Tasks : tasks[t] \in TaskRecords /\ tasks'[t] \in TaskEdges(tasks[t])
<1> DEFINE edges == [t \in Tasks |-> TaskEdges(tasks[t])]
<1>1. tasks' \in EachFrom(edges)
    BY DEF Next
<1>2. /\ tasks' \in [Tasks -> UNION {edges[x] : x \in Tasks}]
      /\ \A t \in Tasks : tasks'[t] \in edges[t]
    BY <1>1, OneOfEachEdge
<1>3. \A t \in Tasks : tasks[t] \in TaskRecords /\ tasks'[t] \in TaskEdges(tasks[t])
    BY <1>2, TableTypes
<1>4. \A t \in Tasks : tasks'[t] \in TaskRecords
    BY <1>3, TaskEdgeKinds
<1> QED BY <1>2, <1>3, <1>4

LEMMA LeaseStep ==
    ASSUME TypeOK, Next
    PROVE  leases' \in [Leases -> LeaseRecords]
<1> DEFINE edges == [l \in Leases |-> LeaseEdges(leases[l])]
<1>1. leases' \in EachFrom(edges)
    BY DEF Next
<1>2. /\ leases' \in [Leases -> UNION {edges[x] : x \in Leases}]
      /\ \A l \in Leases : leases'[l] \in edges[l]
    BY <1>1, OneOfEachEdge
<1>3. \A l \in Leases : leases[l] \in LeaseRecords /\ leases'[l] \in LeaseEdges(leases[l])
    BY <1>2, TableTypes
<1>4. \A l \in Leases : leases'[l] \in LeaseRecords
    BY <1>3, LeaseEdgesTyped
<1> QED BY <1>2, <1>4

LEMMA WorkerStep ==
    ASSUME TypeOK, Next
    PROVE  /\ workers' \in [Workers -> WorkerRecords]
           /\ \A w \in Workers :
                 workers[w] \in WorkerRecords /\ workers'[w] \in WorkerEdges(workers[w])
<1> DEFINE edges == [w \in Workers |-> WorkerEdges(workers[w])]
<1>1. workers' \in EachFrom(edges)
    BY DEF Next
<1>2. /\ workers' \in [Workers -> UNION {edges[x] : x \in Workers}]
      /\ \A w \in Workers : workers'[w] \in edges[w]
    BY <1>1, OneOfEachEdge
<1>3. \A w \in Workers : workers[w] \in WorkerRecords /\ workers'[w] \in WorkerEdges(workers[w])
    BY <1>2, TableTypes
<1>4. \A w \in Workers : workers'[w] \in WorkerRecords
    BY <1>3, WorkerEdgeKinds
<1> QED BY <1>2, <1>3, <1>4

LEMMA DependencyStep ==
    ASSUME TypeOK, Next
    PROVE  dependencies' \in [Dependencies -> DependencyRecords]
<1> DEFINE edges == [d \in Dependencies |-> DependencyEdges(dependencies[d])]
<1>1. dependencies' \in EachFrom(edges)
    BY DEF Next
<1>2. /\ dependencies' \in [Dependencies -> UNION {edges[x] : x \in Dependencies}]
      /\ \A d \in Dependencies : dependencies'[d] \in edges[d]
    BY <1>1, OneOfEachEdge
<1>3. \A d \in Dependencies :
        dependencies[d] \in DependencyRecords /\ dependencies'[d] \in DependencyEdges(dependencies[d])
    BY <1>2, TableTypes
<1>4. \A d \in Dependencies : dependencies'[d] \in DependencyRecords
    BY <1>3, DependencyEdgesTyped
<1> QED BY <1>2, <1>4

LEMMA TaskShapes ==
    ASSUME TypeOK, Shapes, Next, NEW t \in Tasks
    PROVE  /\ tasks'[t].phase = "absent" => tasks'[t] = NoTask
           /\ tasks'[t].phase # "absent" => tasks'[t].slot \in Slots
           /\ tasks'[t].record # None => tasks'[t].phase \in Terminal
<1>1. /\ tasks[t].phase = "absent" => tasks[t] = NoTask
      /\ tasks[t].phase # "absent" => tasks[t].slot \in Slots
      /\ tasks[t].record # None => tasks[t].phase \in Terminal
    BY DEF Shapes
<1>2. \/ tasks'[t] = tasks[t]
      \/ /\ tasks[t].phase = "absent" /\ tasks'[t].phase = "Reserved"
         /\ tasks'[t].slot \in Slots /\ tasks'[t].record = tasks[t].record
      \/ /\ tasks[t].phase # "absent" /\ tasks'[t].phase # "absent"
         /\ tasks'[t].slot = tasks[t].slot
         /\ \/ tasks'[t].phase \in Terminal
            \/ tasks'[t].record = tasks[t].record /\ tasks[t].phase \notin Terminal
    BY TaskStep, TaskEdgeKinds
<1>3. NoTask.record = None
    BY DEF NoTask
<1> QED BY <1>1, <1>2, <1>3

LEMMA CompletionStep ==
    ASSUME TypeOK, Shapes, Next
    PROVE  completions' \in [Records -> CompletionRecords]
<1> DEFINE edges == [c \in Records |-> CompletionChoices(c)]
<1>1. completions' \in EachFrom(edges)
    BY DEF Next
<1>2. /\ completions' \in [Records -> UNION {edges[x] : x \in Records}]
      /\ \A c \in Records : completions'[c] \in edges[c]
    BY <1>1, OneOfEachEdge
<1>3. ASSUME NEW c \in Records, NEW r \in CompletionChoices(c)
      PROVE  r \in CompletionRecords
  <2>1. CASE r = NoCompletion
      BY <2>1, ServiceAssumption DEF NoCompletion, CompletionRecords
  <2>2. CASE \E t \in Tasks, v \in BOOLEAN :
               /\ tasks'[t].record = c
               /\ r = [task |-> t, slot |-> tasks'[t].slot,
                       generation |-> tasks'[t].generation,
                       outcome |-> IF tasks'[t].phase = "Completed" THEN "Succeeded"
                                   ELSE tasks'[t].phase,
                       visible |-> v]
    <3>1. PICK t \in Tasks, v \in BOOLEAN :
            /\ tasks'[t].record = c
            /\ r = [task |-> t, slot |-> tasks'[t].slot,
                    generation |-> tasks'[t].generation,
                    outcome |-> IF tasks'[t].phase = "Completed" THEN "Succeeded"
                                ELSE tasks'[t].phase,
                    visible |-> v]
        BY <2>2
    <3>2. c # None
        BY ServiceAssumption
    <3>3. tasks'[t].phase \in Terminal
        BY <3>1, <3>2, TaskShapes
    <3>4. (IF tasks'[t].phase = "Completed" THEN "Succeeded" ELSE tasks'[t].phase)
            \in Outcome
        BY <3>3 DEF Terminal, Outcome
    <3>5. tasks'[t] \in TaskRecords
        BY TaskStep
    <3>6. tasks'[t].slot \in Slots \cup {None} /\ tasks'[t].generation \in 0..MaxGeneration
        BY <3>5 DEF TaskRecords
    <3> QED BY <3>1, <3>4, <3>6 DEF CompletionRecords
  <2> QED BY <1>3, <2>1, <2>2 DEF CompletionChoices
<1>4. \A c \in Records : completions'[c] \in CompletionRecords
    BY <1>2, <1>3
<1> QED BY <1>2, <1>4

LEMMA TypeStep ==
    ASSUME TypeOK, Shapes, Next
    PROVE  TypeOK'
<1>1. lifecycle' \in Lifecycle
    BY TableTypes, LifecycleTyped DEF Next
<1> QED BY <1>1, SlotStep, TaskStep, LeaseStep, WorkerStep, DependencyStep, CompletionStep
        DEF TypeOK, SlotRecords, TaskRecords, LeaseRecords, WorkerRecords,
            DependencyRecords, CompletionRecords

LEMMA ShapeStep ==
    ASSUME TypeOK, Shapes, Next
    PROVE  Shapes'
<1>1. ASSUME NEW s \in Slots, slots'[s].phase = "Empty" PROVE slots'[s].task = None
  <2>1. \/ slots'[s] = slots[s]
        \/ slots'[s].phase # "Empty"
        \/ slots'[s].task = None
      BY SlotStep, SlotEdgeKinds
  <2> QED BY <1>1, <2>1 DEF Shapes
<1>2. ASSUME NEW w \in Workers, workers'[w].phase = "Running"
      PROVE  workers'[w].task \in Tasks /\ workers'[w].lease \in Leases
  <2>1. \/ workers'[w] = workers[w]
        \/ workers'[w].phase # "Running"
        \/ workers'[w].task \in Tasks /\ workers'[w].lease \in Leases
      BY WorkerStep, WorkerEdgeKinds
  <2> QED BY <1>2, <2>1 DEF Shapes
<1> QED BY <1>1, <1>2, TaskShapes DEF Shapes

(***************************************************************************)
(* A key is given once.                                                    *)
(***************************************************************************)
(* A task keeps its key, or is added as the occupant of its slot.          *)
LEMMA KeyKept ==
    ASSUME IInv, Next, NEW t \in Tasks, tasks'[t].phase # "absent"
    PROVE  /\ tasks'[t].slot \in Slots
           /\ \/ /\ tasks[t].phase # "absent" /\ tasks'[t].slot = tasks[t].slot
                 /\ tasks'[t].generation = tasks[t].generation
              \/ /\ tasks[t].phase = "absent" /\ tasks'[t].phase = "Reserved"
                 /\ slots'[tasks'[t].slot].task = t
                 /\ slots'[tasks'[t].slot].generation = tasks'[t].generation
<1>1. \/ tasks'[t] = tasks[t]
      \/ tasks[t].phase = "absent" /\ tasks'[t].phase = "Reserved"
      \/ /\ tasks[t].phase # "absent" /\ tasks'[t].slot = tasks[t].slot
         /\ tasks'[t].generation = tasks[t].generation
    BY TaskStep, TaskEdgeKinds DEF IInv
<1>2. ASSUME tasks'[t].phase = "Reserved"
      PROVE  /\ slots'[tasks'[t].slot].task = t
             /\ slots'[tasks'[t].slot].generation = tasks'[t].generation
  <2>1. tasks'[t].phase \notin Terminal \cup {"absent"}
      BY <1>2 DEF Terminal
  <2> QED BY <2>1 DEF Next, SlotsAgree
<1>3. tasks'[t].slot \in Slots
    BY TaskShapes DEF IInv
<1> QED BY <1>1, <1>2, <1>3

LEMMA CurrentStep ==
    ASSUME IInv, Next
    PROVE  Current'
<1> SUFFICES ASSUME NEW t \in Tasks, tasks'[t].phase # "absent"
             PROVE  /\ tasks'[t].generation <= slots'[tasks'[t].slot].generation
                    /\ tasks'[t].generation = slots'[tasks'[t].slot].generation =>
                          slots'[tasks'[t].slot].task = t
    BY DEF Current
<1>0. tasks'[t] \in TaskRecords /\ tasks[t] \in TaskRecords /\ t # None
    BY TaskStep, ServiceAssumption DEF IInv
<1>1. tasks'[t].slot \in Slots
    BY KeyKept
<1> DEFINE s == tasks'[t].slot
<1>2. slots[s] \in SlotRecords /\ slots'[s] \in SlotRecords
    BY <1>1, SlotStep DEF IInv
<1>3. /\ tasks'[t].generation \in Int /\ tasks[t].generation \in Int
      /\ slots[s].generation \in Int /\ slots'[s].generation \in Int
    BY <1>0, <1>2 DEF TaskRecords, SlotRecords
<1>4. CASE slots'[s].task = t /\ slots'[s].generation = tasks'[t].generation
    BY <1>3, <1>4
<1>5. CASE /\ tasks[t].phase # "absent" /\ tasks'[t].slot = tasks[t].slot
           /\ tasks'[t].generation = tasks[t].generation
  <2>1. /\ tasks'[t].generation <= slots[s].generation
        /\ tasks'[t].generation = slots[s].generation => slots[s].task = t
      BY <1>5 DEF IInv, Current
  <2>2. slots[s].task = t => slots[s].phase # "Empty"
      BY <1>0, <1>1 DEF IInv, Shapes
  <2>3. \/ slots'[s] = slots[s]
        \/ slots[s].phase = "Empty" /\ slots'[s].generation = slots[s].generation
        \/ slots'[s].task = slots[s].task /\ slots'[s].generation = slots[s].generation
        \/ slots'[s].generation = slots[s].generation + 1
      BY <1>1, SlotStep, SlotEdgeKinds DEF IInv
  <2> QED BY <1>3, <2>1, <2>2, <2>3
<1> QED BY <1>4, <1>5, KeyKept

LEMMA KeysStep ==
    ASSUME IInv, Next
    PROVE  OneTaskPerGeneration'
<1> SUFFICES ASSUME NEW t \in Tasks, NEW u \in Tasks, t # u, tasks'[t].slot # None,
                    tasks'[t].slot = tasks'[u].slot,
                    tasks'[t].generation = tasks'[u].generation
             PROVE  FALSE
    BY DEF OneTaskPerGeneration, Key
<1>1. tasks'[t].phase # "absent" /\ tasks'[u].phase # "absent"
    BY TaskShapes DEF IInv, NoTask
<1>2. ASSUME NEW x \in {t, u}, tasks[x].phase = "absent"
      PROVE  slots'[tasks'[t].slot].task = x
             /\ slots'[tasks'[t].slot].generation = tasks'[t].generation
    BY <1>1, <1>2, KeyKept
<1>3. CASE tasks[t].phase = "absent" \/ tasks[u].phase = "absent"
  <2>1. slots'[tasks'[t].slot].generation = tasks'[t].generation
      BY <1>2, <1>3
  <2>2. slots'[tasks'[t].slot].task = t /\ slots'[tasks'[t].slot].task = u
      BY <1>1, <2>1, CurrentStep DEF Current
  <2> QED BY <2>2
<1>4. CASE tasks[t].phase # "absent" /\ tasks[u].phase # "absent"
  <2>1. /\ tasks'[t].slot = tasks[t].slot /\ tasks'[t].generation = tasks[t].generation
        /\ tasks'[u].slot = tasks[u].slot /\ tasks'[u].generation = tasks[u].generation
      BY <1>1, <1>4, KeyKept
  <2> QED BY <2>1 DEF IInv, OneTaskPerGeneration, Key
<1> QED BY <1>3, <1>4

(***************************************************************************)
(* The invariant, and what it gives.                                       *)
(***************************************************************************)
LEMMA Initially ==
    ASSUME Init
    PROVE  IInv
<1>0. 0 \in 0..MaxGeneration
    BY ServiceAssumption
<1>1. /\ EmptySlot(0) \in SlotRecords /\ EmptySlot(0).task = None
      /\ EmptySlot(0).phase = "Empty" /\ EmptySlot(0).generation = 0
    BY <1>0, EmptyTyped
<1>2. /\ NoTask \in TaskRecords /\ NoTask.phase = "absent" /\ NoTask.record = None
      /\ NoTask.slot = None
    BY <1>0 DEF NoTask, TaskRecords, Phases
<1>3. NoLease \in LeaseRecords
    BY <1>0 DEF NoLease, LeaseRecords, Phases
<1>4. Parked("Starting") \in WorkerRecords /\ Parked("Starting").phase = "Starting"
    BY DEF Parked, WorkerRecords, Phases
<1>5. NoCompletion \in CompletionRecords
    BY <1>0 DEF NoCompletion, CompletionRecords
<1>6. [phase |-> "absent", producer |-> None] \in DependencyRecords
    BY DEF DependencyRecords, Phases
<1>7. /\ lifecycle = "Starting"
      /\ slots = [s \in Slots |-> EmptySlot(0)] /\ tasks = [t \in Tasks |-> NoTask]
      /\ leases = [l \in Leases |-> NoLease]
      /\ workers = [w \in Workers |-> Parked("Starting")]
      /\ dependencies = [d \in Dependencies |-> [phase |-> "absent", producer |-> None]]
      /\ completions = [c \in Records |-> NoCompletion]
    BY DEF Init
<1>8. TypeOK
    BY <1>1, <1>2, <1>3, <1>4, <1>5, <1>6, <1>7, TableTypes DEF Lifecycle
<1>9. Shapes /\ Current /\ OneTaskPerGeneration
    BY <1>1, <1>2, <1>4, <1>7 DEF Shapes, Current, OneTaskPerGeneration
<1>10. Validated
    BY <1>1, <1>2, <1>4, <1>7
       DEF Validated, OccupantsAgree, SlotsAgree, WorkersAgree
<1> QED BY <1>8, <1>9, <1>10 DEF IInv

LEMMA Inductive ==
    ASSUME IInv, [Next]_vars
    PROVE  IInv'
<1>1. CASE Next
  <2>1. TypeOK' /\ Shapes'
      BY <1>1, TypeStep, ShapeStep DEF IInv
  <2>2. Validated'
      BY <1>1 DEF Next, Validated
  <2> QED BY <1>1, <2>1, <2>2, CurrentStep, KeysStep DEF IInv
<1>2. CASE UNCHANGED vars
    BY <1>2 DEF vars, IInv, TypeOK, Validated, Shapes, Current, OneTaskPerGeneration,
                OccupantsAgree, SlotsAgree, WorkersAgree, HoldsLease, PhasesMatch, Key
<1> QED BY <1>1, <1>2

LEMMA InvariantHolds == Spec => []IInv
BY Initially, Inductive, PTL DEF Spec

(* The types of the records of state.rs.                                   *)
THEOREM TypeCorrect == Spec => []TypeOK
BY InvariantHolds, PTL DEF IInv

(* The reserve, reclaim and generation rules of validate_transition_to     *)
(* together: over the whole life of the service no slot key is given to    *)
(* two tasks, for any number of slots, tasks and generations.              *)
THEOREM KeysAreNeverReused == Spec => []OneTaskPerGeneration
BY InvariantHolds, PTL DEF IInv

(* The lease, worker and slot checks together: a task runs on one worker   *)
(* at a time, and only while it has its slot.                              *)
THEOREM OneWorkerPerTask == Spec => []RunsAlone
<1>1. ASSUME IInv PROVE RunsAlone
  <2> SUFFICES ASSUME NEW w \in Workers, workers[w].phase = "Running"
               PROVE  /\ \A v \in Workers \ {w} :
                            workers[v].phase = "Running" => workers[v].task # workers[w].task
                      /\ slots[tasks[workers[w].task].slot].task = workers[w].task
                      /\ slots[tasks[workers[w].task].slot].generation =
                            tasks[workers[w].task].generation
      BY DEF RunsAlone
  <2> DEFINE t == workers[w].task
  <2>1. /\ t \in Tasks /\ leases[workers[w].lease].worker = w
        /\ tasks[t].lease = workers[w].lease
        /\ tasks[t].phase \in {"Executing", "CompletionPending"}
      BY <1>1 DEF IInv, Shapes, Validated, WorkersAgree, HoldsLease
  <2>2. ASSUME NEW v \in Workers \ {w}, workers[v].phase = "Running", workers[v].task = t
        PROVE  FALSE
    <3>1. leases[workers[v].lease].worker = v /\ tasks[t].lease = workers[v].lease
        BY <1>1, <2>2 DEF IInv, Validated, WorkersAgree, HoldsLease
    <3> QED BY <2>1, <3>1
  <2>3. tasks[t].phase \notin Terminal \cup {"absent"}
      BY <2>1 DEF Terminal
  <2>4. slots[tasks[t].slot].task = t /\ slots[tasks[t].slot].generation = tasks[t].generation
      BY <1>1, <2>1, <2>3 DEF IInv, Validated, SlotsAgree
  <2> QED BY <2>2, <2>4
<1> QED BY <1>1, InvariantHolds, PTL

(* The reserve rule of validate_transition_to closes admission for good:   *)
(* no step taken outside Starting and Running adds a task.                 *)
THEOREM AdmissionCloses == Spec => AdmissionStaysClosed
<1>1. ASSUME IInv, Next, lifecycle \notin {"Starting", "Running"}, NEW t \in Tasks
      PROVE  tasks'[t].phase # "absent" <=> tasks[t].phase # "absent"
  <2>1. ASSUME tasks'[t].phase # "absent", tasks[t].phase = "absent" PROVE FALSE
    <3> DEFINE s == tasks'[t].slot
    <3>1. /\ s \in Slots /\ tasks'[t].phase = "Reserved" /\ slots'[s].task = t
        BY <1>1, <2>1, KeyKept
    <3>2. t # None
        BY ServiceAssumption
    <3>3. slots'[s].phase = "Reserved"
      <4>1. PhasesMatch(slots'[s], tasks'[t])
          BY <1>1, <3>1, <3>2 DEF Next, OccupantsAgree
      <4>2. slots'[s].outcome \in Outcome \cup {None}
          BY <1>1, <3>1, SlotStep DEF IInv, SlotRecords
      <4> QED BY <3>1, <4>1, <4>2 DEF PhasesMatch, Unfinished, Outcome, None
    <3>4. slots[s].phase # "Empty"
        BY <1>1, <3>1, <3>3, SlotStep DEF IInv, SlotRules
    <3>5. slots'[s] = slots[s]
        BY <1>1, <3>1, <3>3, <3>4, SlotStep, SlotEdgeKinds DEF IInv
    <3>6. PhasesMatch(slots[s], tasks[t])
        BY <1>1, <3>1, <3>2, <3>5 DEF IInv, Validated, OccupantsAgree
    <3> QED BY <2>1, <3>3, <3>5, <3>6 DEF PhasesMatch
  <2>2. tasks[t].phase # "absent" => tasks'[t].phase # "absent"
      BY <1>1, TaskStep, TaskEdgeKinds DEF IInv
  <2> QED BY <2>1, <2>2
<1>2. ASSUME IInv, [Next]_vars
      PROVE  [lifecycle \notin {"Starting", "Running"} =>
                {t \in Tasks : tasks'[t].phase # "absent"} =
                {t \in Tasks : tasks[t].phase # "absent"}]_vars
    BY <1>1, <1>2
<1> QED BY <1>2, InvariantHolds, PTL DEF Spec, AdmissionStaysClosed

=============================================================================
