# TLA+ specifications of fe2o3

fe2o3 compiles Rust kernels for AMD GPUs and runs them.  Two of its parts carry
protocols that are hard to test, and this project specifies both.

*The receipts of the compiler.*  The runtime does not trust the compiler: a
protected service *issues* a receipt for each compilation, a Worker ledger
*publishes* it, and a separate service, the external anchor, keeps a monotonic
hash chain that makes the published history impossible to roll back.  That chain
of three durable components is where the program has crashes, restarts, retries
and two processes on one directory.

*The execution of work on the GPU.*  Operations are submitted, cancelled,
observed and abandoned by several threads while the device may still access their
memory; graphs of operations run on one owner thread against a backend with a
time of its own; memory is charged to trees of accounts; and a persistent service
hands tasks from slot to worker.  Here nothing is persisted: the hazards are
interleavings, ordering, reuse of slots and limits.

## The system's parts

| Part | State it keeps | Operations | What makes it correct |
| --- | --- | --- | --- |
| External anchor store (`fe2o3-external-anchor-service`) | one state file (sequence, chain head), a cache, a poison flag, a directory lock | initialize, open, open_or_initialize, exchange(Advance or Recover) | one chain, never forked, never taken back while power holds, one writer, what an exchange wrote and signed is kept |
| Anchor protocol (`fe2o3-external-anchor-protocol`) | the client's prepared transaction | prepare, begin, verify, recover | a verified observation is for the transaction that was prepared |
| Retained journal (`retained_durable_directory.rs`) | the names canonical, redo, recovery of one record | stage, promote, recommit | a record that was returned is never lost, every crash position is recoverable |
| Journal recovery (`compiler_execution_journal_recovery.rs`) | a recovery plan | plan, validate, apply | refuses nothing a crash can leave, completes |
| Issuer ledger (`compiler_execution_issuer_durable.rs`) | Ready, Prepared or Issued | admit, prepare, issue, publish, acknowledge | one receipt per challenge, acknowledged only when published |
| Worker ledger and anchor journal (`compiler_execution_worker_ledger.rs`, `worker_anchor_journal.rs`) | published sequence; PreparedAnchor, AnchorCommitted, Published, Aborted | prepare, record observation, commit publication | the two journals can always be joined after a crash; one advance per publication |
| Anchor client (`compiler_execution_external_anchor.rs`) | a connection, a poison flag | exchange | no second use after an error |
| Operation lifecycle (`fe2o3-completion/lifecycle.rs`) | the state of a submitted operation, its retained resources, a mutex, a bounded quarantine | cancel, record a terminal observation, notify, reclaim, abandon, release, drop | nothing the GPU may touch is returned or freed, nothing quiescent is leaked, callbacks run once |
| Completion graph (`fe2o3-completion/graph.rs`) | nodes, dependency counters, a queue of notifications | validate, pop, cancel, mark succeeded, failed or cancelled, report | a node is ready after everything it waits for, and nobody waits for a failure |
| Asynchronous graphs (`fe2o3-runtime/async_engine/graph*`) | the admitted graph, the ledger of data versions, the active submissions, the context's reservation | admit, advance (poll, issue, retire), cancel, finish, stop | conflicting work never overlaps, a report means nothing is left, the reply comes |
| Resource accounting (`fe2o3-resource-accounting`) | credit accounts, trees of domains, tokens and handles | reserve, retain, release, cancel, quarantine, create, clone and drop a domain | no credit is lost or made at any level, no handle dangles |
| Persistent services (`fe2o3-service-model`) | lifecycle, slots with generations, tasks, leases, workers, dependencies, completions | the accepted transitions between two states | one task per slot generation, one worker per task, closed admission stays closed |
| Service host (`fe2o3-service-host`) | borrows of caller storage | typestates | not modelled, see the end |
| Artifact transactions (`fe2o3-artifact-transaction`) | attempts, intents, published links | stage, publish, recover | a publication is whole or absent |
| Supervisor, coordinator, lifecycle | processes, leases, pidfds | spawn, watch, restart, reclaim | an ended service is started again, never twice |
| Compiler pipeline, code objects, KFD runtime, simulator, debugger | syntax trees, binary formats, kernel handles | - | not modelled, see the end |

**How they interact.**  The issuer service holds the issuer ledger, the Worker
ledger and a connection to the anchor service.  A publication prepares an
anchor transaction in the Worker's anchor journal, asks the anchor for an
advance, records the signed observation, commits the publication and only then
acknowledges the receipt in the issuer ledger.  Every ledger commit is one
commit of a retained journal.  The anchor is another process with its own
directory.  Each service handles one session and exits on any error; its
supervisor starts it again, and recovery decides from the files alone how far
the last session came.

The runtime's owner thread drives a graph through the completion authority, which
says which node may run, and through a context, which submits to the backend and
retains what it submitted; other threads only raise the cancel flag.  Operations
outside graphs have a lifecycle of their own, shared between threads behind a
mutex.  Charges are taken from an account before memory is allocated and given
back when it was disposed of.  The service model is a checker: it accepts or
refuses a pair of states that a service proposes.

**What is hard.**  A crash between two system calls, or inside recovery; a
failed `fsync` whose pending writes are gone although the directory still shows
them; a cache that is older than the file; an answer that is lost and asked for
again; two processes on one directory; a loss of power that takes back what was
visible.  In the runtime: a cancellation that races a completion; a callback that
panics under a mutex; a quarantine or a counter at its limit; a notification that
is stale when it is read; a release that is rejected and retried; an engine that
is stopped with work at the backend; slots, tickets and generations that are used
again.  PROJECT.json lists these under "hazards", each at its line.

## Modules

| Module | What it is |
| --- | --- |
| `AnchorStore` | the anchor's durable core, one action per system call |
| `MonotonicAnchor` | what the anchor promises to clients; `AnchorStore` implements it |
| `AnchorStoreProofs` | theorems about `AnchorStore` |
| `MCAnchorStore` | the challenges and the symmetry TLC uses |
| `RetainedJournal` | a record journal and its recovery, one action per system call |
| `DurableRecord` | what a journal promises to its ledger; `RetainedJournal` implements it |
| `RetainedJournalProofs` | theorems about `RetainedJournal` |
| `MCRetainedJournal` | the instance TLC checks |
| `ReceiptPublication` | the issuer ledger, the Worker ledger, the anchor journal, the anchor and its client, composed |
| `MCReceiptPublication` | the instance TLC checks |
| `ReceiptPublicationProofs` | theorems about `ReceiptPublication` |
| `OperationLifecycle` | the lifecycle of submitted operations and the quarantine |
| `QuiescentRetention` | what the lifecycle promises its callers; `OperationLifecycle` implements it |
| `OperationLifecycleProofs` | theorems about `OperationLifecycle` |
| `CompletionGraph` | validation, order and transitions of completion graphs, as operators |
| `CompletionAuthority` | the authority over such a graph, driven by any caller |
| `CompletionAuthorityProofs` | what the operators of `CompletionGraph` compute, for every graph, and theorems about `CompletionAuthority` |
| `GraphExecution` | the runtime's driver of an admitted graph, on top of `CompletionGraph` |
| `GraphExecutionProofs` | theorems about `GraphExecution` |
| `ResourceCredits` | resource vectors and the phases of a credit |
| `CreditAccount` | one independent account with batches |
| `ResourceDomain` | trees of accounts; implements `CreditAccount` at its root |
| `ResourceDomainProofs` | theorems about `ResourceDomain` |
| `ServiceState` | the transitions that the persistent service model accepts |
| `ServiceStateProofs` | theorems about `ServiceState` |
| `MCOperationLifecycle`, `MCCompletionAuthority`, `MCGraphExecution`, `MCResourceDomain`, `MCServiceState` | the instances TLC checks |

A definition whose comment or name marks it as a variant (`CommitUnsynced`,
`RecoverWorkerVisible`, ...) is not part of the specification.  It stands before
the definition it varies, describes a plausible mistake in that code, and some
property is violated when it takes the definition's place; PROJECT.json pairs
them under "mutants".

### AnchorStore

`disk` is the visible directory: the bytes of the state file, and whether the
next file exists.  `images` is the set of directories a loss of power may
leave.  A metadata operation changes `disk` and adds to `images`; `fsync` of the
directory makes `images` the visible directory alone; `fsync` of a file removes
the partial contents from what may be kept of it (`temp.kept`).  Unsynced
operations may survive in any combination that keeps each file's own order; a
rename of a file that was not synced may survive with partial bytes.

Per instance, `pc` is the next system call, `mode` the constructor, `cache` and
`poisoned` the fields of `DurableAnchorCoreV1`, and `request`, `position` and
`wrote` the exchange in progress.  `lock` is the `flock`.  `signed` remembers
every `Proposed` observation and whether the exchange that signed it had
replaced the file itself.

The constructors are `AdmitAndLockRoot`, `RemoveLeftoverNext`, `SyncCleanup`,
`ReadState`, `CreateInitial`, `WriteInitial`, `SyncInitial`, `SyncInitialRoot`.
An exchange is `BeginAdvance` (the Advance arm of `observe_with_hooks`, which
poisons first), `RemoveLeftoverNext` and `SyncCleanup` again, `CreateNext`,
`WriteNext`, `SyncNext`, `RenameNext`, `SyncRoot`, `Sign`; or `ObserveInPlace`
(the arms that only look at the cache) and `Sign`.  A failed call is
`FailConstructor` or `FailExchange`, the end of a process `Stop`, of all of them
`PowerLoss`.

A chain head is the sequence of links hashed into it, which is SHA-256 without
collisions.  A challenge's proposed head is derived from its other fields, since
decoding accepts no other.

### RetainedJournal

The visible directory maps the three names to a record, to `Torn` (bytes that do
not decode) or to `Absent`.  A record is the history of committed values, so that
succession can be told from the record alone.  Here mutations reach the disk in
order, and `dirty` says whether the last one is still queued: after a failed
`fsync` the queue may be gone, and then a later `fsync` succeeds and makes nothing
durable until the directory is changed again.  That is the reason
`establish_recovered_record_durability` renames the record away and back instead
of syncing what it sees, and the model tells the two apart.

`PlanRecovery` is `plan_using` and the decision in `apply_using`;
`RenameCanonicalToRecovery`, `SyncRecoveryName`, `PromoteStaged`,
`SyncCanonicalName`, `SyncRecovered` are the recommit of a visible record;
`BeginCommit` to `SyncRedoName`, then `PromoteStaged` and `SyncCanonicalName`, are
`commit_record`; `Finish` is the ledger adopting the record.  `Fail`, `Crash`,
`Exit` and `PowerLoss` are the faults.  Reads that follow each other are one
action: `compiler_execution_singleton.rs` lets one process at a time hold the
journals.

The two modules describe the file system differently because the code does: the
anchor never promises anything about a directory whose sync failed (it stays
poisoned and a restart reads what is visible), the journal does.

### ReceiptPublication

The three journals of the issuer service and the anchor, put together.  `disk` is,
per journal, the record recovery would find, and `kept` the one a loss of power
cannot take; a step of the ledger proposes and keeps a record, a crash may leave
either side of it, which is `DurableRecord`.  `chain` is the anchor's state file, and
`settled` the part of it that a loss of power cannot take.  The anchor is that of
`AnchorStore`, not of `MonotonicAnchor`: the store implements the latter only while
power holds, because a rename whose directory sync did not happen is visible and is
signed for on an exact retry (`ProposedOnlyAfterSync` is false).  So an advance that is
answered settles the chain, `AnchorInterrupted` extends it without settling it, and
`PowerLoss` takes it back to any state the directory had since its last sync.
`observed` are the chains signed as `Proposed`; `forgot` says that a loss of power took
one of them back.  (A leftover next file makes a reopened anchor sync its directory,
which narrows what can be lost; the model allows the loss all the same.)  `requests`
and `answers` are the endpoint between them: they survive a restart of the service,
since the supervisor passes the same endpoint on, so an answer may arrive in a session that did not ask for it.
`occurrence` is the compiler process the service was admitted for; `released`,
`acknowledged` and `attested` are what clients were told; `copy` is an earlier
copy of the directory.

A receipt is the number drawn for its challenge, a rollback anchor and an anchor
head are the receipts hashed into them, and the sequence of a record is the length
of its chain.

| Actions | Code |
| --- | --- |
| `RecoverIssuer`, `RecoverWorker`, `RecoverJournal` | opening the three journals, in this order, and joining them |
| `NewOccurrence`, `PrepareChallenge`, `IssueReceipt`, `ReleaseReceipt` | the issuer ledger up to the receipt a client holds |
| `BeginPublish`, `BeginVerify` | a request for publication (new, resumed or replayed) and for VerifyCurrent |
| `SendChallenge`, `ReceiveObservation`, `LoseAnchor` | the exchange client, its timeout and its poison |
| `RecordObservation`, `CommitWorker`, `PublishJournal`, `AcknowledgePublished` | the four commits of a publication, in this order |
| `RespondPublished`, `Attest`, `RefuseAttestation`, `EndSession` | the answers, and the end of a session |
| `AnchorExchange`, `AnchorRefuses`, `AnchorCrash`, `AnchorInterrupted` | the anchor and the end of its process, in the last between the rename of its state file and the sync of its directory |
| `Crash`, `PowerLoss`, `Backup`, `Restore` | faults, and a directory replaced by an earlier copy |

Four things the model shows that a reader of the code may not expect.  An anchor that a
loss of power took back behind what it signed does not endanger the records of the
service, which stay joined and keep what was acknowledged, and in a directory that was
not replaced it grows no other chain; but it answers a VerifyCurrent with `Prior`, which
is not attested, or refuses it, it refuses every Advance that starts from the head it
lost, and no retry brings it forward again.  The properties that relate records to the anchor therefore say what holds always (the
records were signed for, the anchor has nothing that is not journalled) and, apart from
that, what holds until `forgot`.  A VerifyCurrent of the published record, asked while
its successor is anchored and not yet published, is refused, and the refusal ends the anchor's process.  A
challenge that was prepared for a compiler process that then ended can never be
issued, and the issuer stays `Prepared`: the code wants it so, and
`PublicationCompletes` therefore speaks of issued receipts.  An `Aborted` journal
would stop all publication; it is in the successor relation, and
`PublicationCompletes` shows that no exchange leads there.

### OperationLifecycle

`busy` is what only the backend knows: the operations whose resources it may still
access.  The code never reads it; the `unsafe` functions ask their callers to know
it, and the model lets them be called exactly then (`Contract`).  `state`, `ticket`
and `place` are the lifecycle and where its resources are; `lock` and `poisoned`
the mutex of a `ConcurrentOperationLifecycle`, `holders` the threads with a clone;
`call` is the callback a thread is in: a cancellation runs under the mutex
(`RequestCancel`, then `CancelAccepted`, `CancelRejected` or `CancelPanics`), a
terminal notification outside it (`RecordAndNotify`, then `Notified`).  `entries`,
`open` and `nextTicket` are the `BoundedQuarantine`.  An exclusive operation is the
plain `OperationLifecycle`: one owner and no mutex.  `AbandonToQuarantine` has both
outcomes of `try_reserve`, a full quarantine and an exhausted ticket counter; the
resources then stay in the lifecycle, to be leaked by its drop.  `DropClone` of the
last clone drops lifecycle and resources, poisoned or not.

`QuiescentRetention` knows only `busy` and whether resources are held, returned or
lost; `ImplementsRetention` is the promise of the crate.

### CompletionGraph and CompletionAuthority

`CompletionGraph` has no state: `Accepted` is what `CompletionGraphV1::new` checks,
`NewGraph` the indices it keeps, `TopologicalOrder` its deterministic order, and
`release_successors`, `propagate_terminal_cause_from` and the functions named like
the methods are the authority's transitions.  The code keeps its two indices sorted;
a set stands for such a sequence and `Ascending` is that sequence.  Loops of the code
are `Fold`s, a recursive function of the number of elements taken.  `Ancestors` is the
reference definition the properties use: the smallest set with the dependencies of a
node and of its own members.  `CompletionAuthority` drives it with every caller
the contracts allow; `GraphExecution` uses the same operators for the authority
inside the runtime.

### GraphExecution

`request` is the admitted request with its planned lineage of versions, `run` the
driver (`AdmittedGraphV1`: authority, version ledger, issued nodes, parked owners,
active submissions, cancellation and cleanup flags, reply), `native` what the
backend does, `cancel` the flag of `RuntimeGraphControlV1`, `context` the
reservation and the submissions of the context, `engine` the position of the owner
thread in `advance`.  A round is `Advance` (the first `apply_cancel`), up to
`Budget` turns (`Issue`, `SkipNotification`, `IssueNothing`, `Poll`, `Retire`,
`PollGenerated`), `EndRound` and `Conclude` (the last `apply_cancel`, `finish`, the
flush).  `apply_cancel` is a `Sweep` of `Discard` over the nodes in their order, and
`Stop`, the end of the scheduler, takes the active roster entry by entry (`Take`);
`lost` are the generated operations whose result is an engine error, which says
nothing about the native side.  Effects are cut into segments of
memory; a version is named by the node that writes it.  An assertion or unwrap that
would fail sets `broken`, and `fault` records that a sealed context has a reason
outside the graph.

### ResourceCredits, CreditAccount and ResourceDomain

An account is a ledger of records (owner, charge, phase), a free list, counters, a
poison flag and a flag that it keeps itself alive for a quarantined charge; clients
hold move-only `tokens`.  Each operation runs under one lock and is one action.
A refused reservation changes nothing and is no step; a check that finds the ledger
corrupt poisons it, and `Conserved` shows that this never happens.

`ResourceDomain` is the tree: `state` is the arena behind the root's lock, `held`
the bag of handles, `tokens` the credits.  A charge is taken along the whole path
(`Admit`, `transition`), and `plan_reap`/`commit_reap` retire the domains that a
dropped handle or a released record leaves empty.  `ImplementsAccount` maps the
root to one `CreditAccount` whose capacity is what the arenas leave: batches are
whole or absent, owner numbers and record slots are handed out as in an account,
and a quarantined charge is never refunded.

### ServiceState

`fe2o3-service-model` has no operations of its own: `validate_transition_to` accepts
a pair of states when both satisfy `validate_global_invariants` and every record
took an edge of its state machine.  `Next` is that acceptance: each record picks an
edge (`LifecycleEdges`, `SlotEdges`, `TaskEdges`, `LeaseEdges`, `WorkerEdges`,
`DependencyEdges`, `CompletionChoices`), all in one step, and the invariants
(`OccupantsAgree`, `SlotsAgree`, `CompletionsAgree`, `DependenciesAgree`,
`LeasesAgree`, `ConsumedAgree`, `WorkersAgree`, `LifecycleAgrees`) are conjuncts on
the next state, where the code puts them.  The properties are therefore not these
invariants again but what follows from them over a history of steps.

## Runs

| Run | Configuration | Bounds | Shows |
| --- | --- | --- | --- |
| `anchor_crash` | `AnchorStoreCrash.cfg` | 2 instances, 2 transactions, `MaxSequence` 3, no loss of power | nothing signed is taken back, no contradiction of Prior, an invalid file is never reset, refinement |
| `anchor_power` | `AnchorStorePower.cfg` | `MaxSequence` 2, 2 losses of power, symmetry | durability of what an exchange wrote |
| `anchor_sync_claim` | `AnchorStoreSync.cfg` | `MaxSequence` 2, no loss of power | the sentence of `lib.rs` about syncing does not hold |
| `journal` | `RetainedJournal.cfg` | 2 values, `MaxVersion` 3, `MaxFaults` 5 | recovery, durability, refinement, completion |
| `publication` | `ReceiptPublication.cfg` | 2 receipts, 5 nonces, 2 compiler processes, 3 faults | every crash position joins, nothing is anchored that is not journalled, no advance is refused by an anchor that kept what it signed, nothing acknowledged is lost, one receipt per sequence, refinement, completion unless power took the anchor behind the journal |
| `publication_restored` | `ReceiptPublicationRestored.cfg` | 2 receipts, 5 nonces, 1 compiler process, 2 faults, 1 restored directory | a restored directory can neither publish nor acknowledge what the anchor did not sign, nor attest what was superseded, and forks nothing while the anchor keeps what it signed |
| `lifecycle` | `OperationLifecycle.cfg` | 2 threads, a shared and an owned operation, a quarantine of 1, 1 ticket | quiescent operations are not leaked, callbacks run once, refinement of `QuiescentRetention`, everything settles |
| `authority` | `CompletionAuthority.cfg` | every accepted graph of 3 nodes on 2 streams, 2 of 5 nodes, 2 codes | readiness, propagation, true causes, single notifications, the report comes |
| `graph_execution` | `GraphExecution.cfg` | 4 requests (one refused) of 3 to 5 nodes on 2 streams and 2 segments, 2 turns a round, 1 rejection | no overlap of conflicting work, no self-inflicted quarantine, success only after release, no free slot with a reserved context, cancellation, the reply comes |
| `domain` | `ResourceDomain.cfg` | 3 domains, 2 records, 2 kinds, 2 clones, batches of up to 2 | conservation at every level, nothing dangles, exact retirement, refinement of `CreditAccount` |
| `service` | `ServiceState.cfg` | 1 slot of 2 generations, 2 tasks, 1 lease, 2 workers, 1 record, symmetry | one task per slot generation, one worker per task, admission stays closed |
| `service_reuse` | `ServiceStateReuse.cfg` | the same with 1 worker, 2 records, 1 dependency | the sentence of the semantics about reuse does not hold |

**Bounds.**  Two instances and two transactions are enough for contention and for
a fork; a sequence of three lets an advance follow a recovered advance and then
reach the counter's limit; two losses of power allow one to fall into the
recovery from another.  Each challenge TLC tries may have a wrong sequence, a
stale prior head or a foreign transaction.  In the journal five faults allow a
fault in a commit, two in the recovery, and two in the recovery of that.  In the
composition two receipts let a publication follow a publication (the second has a
predecessor in all four components), five nonces leave verifications between them,
and three faults allow a crash of the service, a crash of the anchor and a loss of
power in one publication; two of them, an interrupted anchor and a loss of power, take
the anchor back behind what it signed, and the third falls before, between or after
them.  A restored directory is a run of its own because most of
the first run's properties are about a directory that is not replaced.

In the lifecycle two threads are enough for every race of two calls, and the second
abandoned operation finds the quarantine full and the tickets used up.  The graphs of
three nodes are all there are up to renaming of streams, with refused ones left out by
`Accepted`; the five-node ones add a join that is released in two steps and an event
from the side.  The requests of `graph_execution` have a reader and writers of one
segment ordered through an event, two readers before a writer, two writers in turn
beside a generated operation, and a race that admission must refuse.  In `domain` a
chain of three levels and two siblings both fit, slots of domains and records are used
again, children promise more than their parent has, and a batch fails for owner
numbers.  In `service` one slot is reused once, which is where a stale key could name
the wrong task; no passing instance has dependencies, on which its properties do not
bear.

**Deadlock** is checked in every run but `domain`, whose ledger comes to rest when
every handle and token is gone.  In the others a step is always possible: an instance
can be started again, and a settled lifecycle, a report, a reply and a service state
may stutter as steps of their own.

**Fairness.**  `journal` assumes weak fairness of the process's own steps
(`Proceed`: it runs when it can, and a supervisor starts it again after it ended)
and of the exit of a service whose ledger is poisoned (its session ends with that
error).  `publication` assumes weak fairness of the service's own steps, which
include its restart and its noticing a dead anchor (the exchange has a deadline),
weak fairness of the anchor, which answers what is in its queue and is started
again, and strong fairness of `BeginPublish`: the client of an issued receipt asks
again and again, but each session may be ended first, so being served is not
continuously possible.  No fairness is assumed for commits nobody asked for, for the
exit of a healthy service or for faults; faults are finitely many, since liveness
under endless crashes is not something the code promises.

`lifecycle` assumes that callbacks return (weak fairness of `Answers`), that every
clone is dropped in the end (strong fairness of `DropClone`, since a thread that
retries calls holds the handle again and again) and that the quarantine is dropped.
`authority` assumes that the backend observes what it was given and that the caller
asks for the report.  `graph_execution` assumes that the owner thread keeps advancing
and that the backend ends each operation it started; nothing is assumed of
cancellation or of the stop.

**Symmetry** permutes instances and transactions and is used only where no
liveness property is checked: in `anchor_power` and `anchor_sync_claim`; in
`service_reuse`, which permutes tasks, records and leases and checks one invariant; and
in `service`, whose one temporal property is an action property that treats the
identifiers alike.

### Sentences in the documentation the code does not keep

`lib.rs` of the anchor service says that an advance is signed as `Proposed` only
after its file and its rename have both been synced.  The run `anchor_sync_claim`
shows a signature without the second: the process ends after the rename and before
the directory `fsync`; the next instance finds no leftover, so it syncs nothing,
reads the new state and answers the client's exact retry with `Proposed` from the
cache.  Power lost then can take the rename back.  `WrittenIsDurable` is the
strongest statement of this kind that does hold, and is proved.

The same gap reaches the publication.  The issuer's native service
(`compiler_execution_issuer_native_service_body.rs`) speaks of a durable, independently
signed anchor transition before an acknowledgment.  It is signed and need not be
durable: with the bounds of `publication_restored`, TLC takes the invariant
`IsPrefix(acknowledged, chain)`, which is `AcknowledgedIsAnchored` without its `~forgot`,
to a counterexample of two faults.  The anchor ends between rename and directory sync, the restarted service
resumes its journalled challenge, the restarted anchor signs it in place, the receipt is
published and acknowledged, and power lost then leaves the anchor one advance behind it.

`docs/persistent-gpu-execution-semantics-v1.md` says that completion consumes the
live lease and publishes a completion record before the slot becomes reusable.  The
run `service_reuse` shows accepted steps to a slot that is reusable under a live lease:
a task is cancelled without ever having been acquired, and a lease issued for it is live
when its slot becomes `Reclaimable`, since no check of a live lease looks at the phase of
its task.  Two more ways to the same are in the code and not in that trace: a task that
ends while a worker holds it drops the id of its lease; and the check of a `Reclaimable`
slot looks for a visible record under the id the slot names, which nothing compares with
the slot's task, so the record may be another task's.  `OneTaskPerGeneration` and `RunsAlone` hold nevertheless: the
generation keeps stale keys apart.  The same document says that a task is eligible
only when each dependency has a visible satisfying completion; the edges of a
dependency name any producer, and no check looks for its completion.

## Proofs

TLAPS checks the theorems below for any sets of instances, transactions, values,
threads, operations, graphs, requests and rosters of charges and for any bounds.  Every
safety property, action property and refinement of a passing run is among them; what
stays with TLC is liveness.  All they assume of the
constants is named beside their declaration: `ConstantsAssumption`,
`JournalAssumption` and `PublicationAssumption` (bounds are naturals, markers differ
from the values they stand beside, requests are challenges), `LifecycleAssumption`
(finitely many operations, the owner is a thread and `Nobody` is none),
`ServiceAssumption` (`None` is no identifier), `AuthorityAssumption` (codes are
positive, graphs are sequences), `BoundsAssumption` and `RequestAssumption` (the parts
of a request go together, and a join uses no memory), `CreditsAssumption` and
`DomainAssumption` (bounds are positive, the depth is that of one of the two profiles,
charges and capacities are vectors, the arenas fit into the root).  TLC evaluates each on the
instances of the runs.

`AnchorStoreProofs`.  `TypeCorrect`, `SingleWriterHolds`, `CacheCurrentHolds`,
`SignedStaysVisibleHolds`, `NoForkHolds`, `PriorUncontradictedHolds`,
`WrittenIsDurableHolds`, `NoForkAmongWrittenHolds`, `MonotonicVisibleHolds`,
`InvalidStateNeverResetHolds`, and `Refinement` for an environment without loss of power.  (`SingleWriter`,
`CacheCurrent`, `NoFork`, `MonotonicVisible` and `NoForkAmongWritten` are proved and
no longer part of a run: the refinement implies what clients see of them.)  The
invariants are not
inductive alone.  `IInv` adds, per instance, what is true between two system calls
of a replace, of an initialization and of a signature (for instance: while the
next file is written the cache is still the visible state, and the prior head of
the request is the cache's head), that `disk` is one of `images`, and that every
content of the state file is a chain whose length is its sequence.  The step is
split by effect: an action keeps the state file, or moves the cache onto it, or
signs it, or extends it by one link (`StepEffects`), and each part of the
invariant is proved from the effects and not from seventeen actions.
`InvalidStateNeverReset` speaks of everything that follows an invalid state file, so it
needs an invariant of that suffix: `Stuck`, unless power was lost the file is still invalid
and every instance is down or has cleaned up and read at most (`StuckStarts`,
`StuckStays`).

`RetainedJournalProofs`.  `TypeCorrect`, `EveryCrashIsAdmissibleHolds`,
`AcknowledgedIsDurableHolds`, `LedgerIsCurrentHolds` and `Refinement`.  `IInv` says
that the directory and each of its images has one of five shapes (nothing, one
record under one of two names, a record with its staged successor, a successor of
nothing), that at most one mutation is not durable, and which shapes belong to
which step of a commit, of a recommit and of a promotion.  Refinement follows from
the invariant and four kinds of step: nothing changes, a record is proposed, is
acknowledged, or is lost.

`ReceiptPublicationProofs`.  `TypeCorrect`, `AdmissionAccepts` (`EveryCrashJoins`),
`AnchoredFirst` (`AcknowledgedIsAnchored`), `AttestsTheCurrent` (`AttestedIsCurrent`)
hold of every behaviour, restored directories and an anchor that was taken back
included.  `IInv` says that each
directory a fault can leave joins (`DirectoriesSound`) and that the kept one differs
from the visible one in at most one record (`OneRecordLags`); that the process, the
requests, the answers and the client's transaction agree with the records they were
made from; that every head a record rests on was signed (`Anchored`), which no loss of
power changes, and that until `forgot` all that was signed is on the chain
(`AnchorAgrees`); and what clients were told.  `JournalledFirst` (`AnchoredIsJournalled`),
`StaysAcknowledged` (`AcknowledgedStays`) and `NeverTwoReceipts`
(`OneReceiptPerSequence`) need the second invariant `Exact`, which speaks of a
directory that was never replaced: the chain lies within the reach of each journal record
a fault can leave (`Within`); every queued Advance is on the chain of the durable journal
(`OnTrack`), which is what keeps a late or repeated one from taking the anchor elsewhere
after power took it back; until `forgot` each of them was performed or is the one that is
journalled (`InOrder`); and every receipt that left is issued or behind the issuer.  That
the anchor is not behind the journal before `forgot` follows (`NotBehind`): the journal's
head was signed, and what was signed is on the chain.  `Refinement` (the three
journals and the anchor together are one `DurableRecord`) assumes `MaxRestores = 0`, since a restored directory does lose records.

`OperationLifecycleProofs`.  `TypeCorrect`, `NeverLeaked` (`QuiescentIsNeverLeaked`),
`OneOfEach` (`CallbacksRunOnce`) and `Refinement` of `QuiescentRetention`.  `IInv` adds
which call holds which guard and what it has observed (`CallsAgree`), where resources
are in each state of a lifecycle (`PlacesAgree`), and that the callbacks counted are
those its state allows (`CountsAgree`).

`ServiceStateProofs`.  `TypeCorrect`, `KeysAreNeverReused` (`OneTaskPerGeneration`),
`OneWorkerPerTask` (`RunsAlone`) and `AdmissionCloses` (`AdmissionStaysClosed`).
`IInv` adds that the state passed the checks of the code (`Validated`), the fields each
phase requires (`Shapes`), and that no task's generation is ahead of its slot's and
only the occupant's equals it (`Current`).

`CompletionAuthorityProofs`.  First, what the operators of `CompletionGraph` compute,
for graphs of any size.
`AcceptedIsWellFormed`: a graph that passes the validation has indices that are
inverse to each other and a topological order that has every node once, after its
dependencies.  `ReadyMeansAllSucceeded` and `CausesReachEveryDescendant` lift what
holds along an edge to all ancestors.  The lemmas beside them say what
`release_successors` and `propagate_terminal_cause_from` do to the states, the
counters and the queue.  The library's induction theorems take an operator, which the
provers cannot instantiate; here each induction is over a *set* of naturals,
S = {i \in Nat : ...}, with `NatInductionSet` (a set with 0 that is closed under
successor has all naturals), and the recursive function inside `Fold` is unfolded once
at each index.

Then the authority: `AuthorityTypeCorrect`, `ReadyOnlyAfterDependencies`
(`ReadyAfterDependencies`), `FailuresReachEverybody` (`NobodyWaitsForAFailure`),
`InheritedCausesAreTrue` (`CausesAreTrue`), `EveryNodeIsNotifiedOnce`
(`NotifiedOnce`).  `AuthorityIInv`: the graph is `WellFormed`; counters, states and
causes are `Consistent` (a counter is the number of dependencies that have not
succeeded, a terminal cause has reached every successor); the notifications given out
and those in the queue are together the nodes that became ready, once each (`Notices`).
The definitions of `CompletionAuthority` that every specification has carry its name
(`AuthorityInit`, `AuthorityNext`, ...), so that `GraphExecutionProofs` can extend both.

`GraphExecutionProofs`.  `TypeCorrect`, `ConflictsNeverOverlapHolds`,
`NoSelfInflictedQuarantineHolds`, `SucceededIsRetiredHolds`,
`FreeSlotFreeContextHolds` and `CancellationStopsIssueHolds`.  `IInv` has three parts.
`RequestIsSound` is what admission established: the planned lineage names, per node
and segment, the last writer before it in the topological order, and every conflict is
ordered by the graph.
`Sound` relates the driver to the plan: a node was issued only after all its ancestors
succeeded, the states of the versions follow the states of the issued nodes and the
current version of a segment is that of its last writer, and an owner is parked until
its node is issued or discarded.  `Outside` relates it to the backend and the context:
what is active was issued and is there once, the roster knows no more than the backend
did, and without a fault the context holds nothing but the roster.  Then the ledger can never
refuse a version, which is why no quarantine is self-inflicted, and two conflicting
operations at the backend would make one a succeeded ancestor of the other.  The loops
of `apply_cancel` and of `stop` are proved with the induction above: each iteration
keeps the three parts.

`ResourceDomainProofs`.  `Invariance`, `ConservedHolds` (`Conserved`),
`NothingDanglesHolds` (`NothingDangles`), `RetiredExactlyHolds` (`RetiredExactly`) and
`ImplementsAccountHolds` (`ImplementsAccount`), for any number of dimensions, domains,
records and handles.  None of the properties is inductive: whether a release may
subtract a charge depends on the books of every level above it, and which domains go
with it on handles, children and records of each.  `IInv` is `Sound`, the conjunction of
named parts, and `AllNeeded`.  `Tree`: the domains in use hold their own key and form
chains to the root in which a parent has a smaller generation than its child, so no
slot is on a path twice and a new domain changes no path.  `FreeNodes` and `FreeRecords`:
the free lists are exact and without repetition.  `Family`, `Handles`, `Books`: children,
handles, counts and charges are what can be counted in the arenas and in `held`.
`Limits`: no level is over its capacity or record limit.  `Owned` and `Tokens`: owners
differ, and a record that is not quarantined has its token.  `AllNeeded`: a domain below
the root has a handle, a child or a record.

The sums are the difficult part.  `Total` and `ChargeOf` are recursive functions of the
number of charges taken, and what they become when a record is added or removed, or when
a roster is admitted, is shown with `NatInductionSet`.  Retirement is one step for the
whole chain of domains that goes: `plan_reap` takes the longest prefix of a path that is
empty but for the domain below (`GoingFacts`), so what remains is needed, and
`commit_reap` changes neither paths nor books of what remains (`Pruned`).  None of the
checks that would poison the ledger can fail in a sound state, so `IInv` has
`~ poisoned`.  For the refinement `RootOf` is the account a ledger shows at its root; a
batch, which the hierarchy admits at once and the account member by member
(`PlaceAll`), is compared by induction over its members (`Mid`).

**Only model-checked.**  `RecoveryCompletes`, `PublicationCompletes`,
`EverythingSettles`, `ReportComes` and `ReplyComes`: liveness under fairness, which the
prover does not handle.  `ProposedOnlyAfterSync` and `ReusableAfterCompletion` are false.

## Plan

1. `AnchorStore`, `MonotonicAnchor`, `RetainedJournal`, `DurableRecord` - done,
   checked and proved.
2. `ReceiptPublication`, `OperationLifecycle`, `CompletionGraph`,
   `CompletionAuthority`, `GraphExecution`, `ServiceState`, `ResourceDomain`,
   `CreditAccount` - done, checked and, for their safety properties and refinements,
   proved.
3. Components next: the durable link publication of `fe2o3-artifact-transaction`
   (stages, redo records and their recovery), then supervisor and lifecycle leases.

## Not modelled, and why

- The compiler pipeline (lowering, Kernel IR, optimizer, verifier, backend) is a
  set of functions over large syntax trees, out of TLC's reach.
- Code objects, artifact manifests, wire encodings: parsers and encoders of
  binary formats.  Where a property depends on one (a chain head, a record that
  does not decode) its effect is in the model.
  These parts are most of the repository's lines, so the share of the code that
  the modules cover is small: they cover the protocols, not the compiler.
- The KFD runtime and its adapters need the kernel driver; their policy is in
  `fe2o3-completion` and `fe2o3-runtime-model`.  Of the latter the relations that
  the runtime uses are modelled where it uses them.
- The runtime beside graphs: host staging, peer and replica copies, several graphs
  in one engine.  The context of `GraphExecution` is its interface to them.
- The service host and the typestate wrappers of `fe2o3-completion`: an order of
  calls that the Rust type checker enforces.
- Artifact transactions, and the supervisor's process custody: protocols worth a
  module, listed in the plan.
- The phase regions and the oldest live generation in `ServiceState`: each may
  always follow the other records and holds none of them back.
- The simulator, debugger and profiler are deterministic and single-threaded.
- Cryptography: signatures, keys and nonces.  Hashes do not collide.
- Permissions, link counts and file types checked when a directory is admitted.
- Orphaned temporaries of a journal: `create_temp` gives up after 64 occupied
  names; the names hold process ids, which the model does not have.
