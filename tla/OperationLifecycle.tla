-------------------------- MODULE OperationLifecycle --------------------------
(***************************************************************************)
(* The lifecycle of submitted operations (fe2o3-completion, lifecycle.rs): *)
(* OperationLifecycle, its shared form ConcurrentOperationLifecycle and    *)
(* the BoundedQuarantine that takes the resources of abandoned operations. *)
(*                                                                         *)
(* The operations share one stream and one quarantine.  Several threads    *)
(* hold clones of a shared lifecycle; an exclusive one has a single owner  *)
(* and no mutex.  The backend finishes with an operation at a moment of    *)
(* its own; the unsafe calls are made when their contracts hold.  A call   *)
(* that is refused changes nothing and is not a step.                      *)
(***************************************************************************)
EXTENDS Naturals, FiniteSets

CONSTANTS
    Operation,
    Thread,
    Exclusive,  \* operations behind a plain OperationLifecycle
    Owner,      \* the thread that owns them
    Capacity,   \* of the quarantine
    MaxTicket,  \* the largest ticket number (u64::MAX)
    Nobody

ASSUME LifecycleAssumption ==
    /\ Exclusive \subseteq Operation
    /\ Owner \in Thread
    /\ Capacity \in Nat /\ MaxTicket \in Nat
    /\ Nobody \notin Thread
    /\ IsFiniteSet(Operation)

VARIABLES
    busy,        \* operations whose resources the backend may still access
    state,       \* OperationState, without its payload
    ticket,      \* the ticket of a quarantined operation
    place,       \* where the resources are
    lock,        \* the thread inside the mutex of an operation
    poisoned,    \* operations whose mutex is poisoned
    holders,     \* the threads holding a clone
    call,        \* the callback a thread is in
    entries,     \* operations whose resources are in the quarantine
    open,        \* the quarantine has not been dropped
    nextTicket,
    accepted,    \* cancellation requests the backend accepted
    notices      \* terminal notifications run, and the states they were given

lifecycle == <<state, ticket, place>>
guards == <<lock, poisoned>>
quarantine == <<entries, open, nextTicket>>
observed == <<accepted, notices>>
vars == <<busy, lifecycle, guards, holders, call, quarantine, observed>>

Quiescent == {"Completed", "Failed", "StreamQuiesced"}
Terminal == Quiescent \cup {"Quarantined", "Leaked"}
State == {"Submitted", "CancelRequested"} \cup Terminal
Place == {"lifecycle", "quarantine", "caller", "freed", "leaked"}

NoCall == [at |-> "none", operation |-> Nobody, given |-> "Submitted"]

Init ==
    /\ busy = Operation
    /\ state = [o \in Operation |-> "Submitted"]
    /\ ticket = [o \in Operation |-> 0]
    /\ place = [o \in Operation |-> "lifecycle"]
    /\ lock = [o \in Operation |-> Nobody]
    /\ poisoned = {}
    /\ holders = [o \in Operation |-> IF o \in Exclusive THEN {Owner} ELSE Thread]
    /\ call = [t \in Thread |-> NoCall]
    /\ entries = {}
    /\ open = TRUE
    /\ nextTicket = 0
    /\ accepted = [o \in Operation |-> 0]
    /\ notices = [o \in Operation |-> 0]

(* External: the GPU finishes with an operation. *)
BackendFinishes(o) ==
    /\ o \in busy
    /\ busy' = busy \ {o}
    /\ UNCHANGED <<lifecycle, guards, holders, call, quarantine, observed>>

(* self.lock(): the thread waits for the mutex and fails when it is poisoned. *)
Enters(t, o) ==
    /\ call[t] = NoCall
    /\ t \in holders[o]
    /\ lock[o] = Nobody
    /\ o \notin poisoned

(***************************************************************************)
(* Cancellation: the backend is asked under the mutex.                     *)
(***************************************************************************)
RequestCancelForgets(t, o) ==
    /\ Enters(t, o)
    /\ state[o] \notin Terminal
    /\ lock' = [lock EXCEPT ![o] = t]
    /\ call' = [call EXCEPT ![t] =
                  [at |-> "cancel", operation |-> o, given |-> "Submitted"]]
    /\ UNCHANGED <<busy, lifecycle, poisoned, holders, quarantine, observed>>

RequestCancel(t, o) ==
    /\ Enters(t, o)
    /\ state[o] = "Submitted"
    /\ lock' = [lock EXCEPT ![o] = t]
    /\ call' = [call EXCEPT ![t] =
                  [at |-> "cancel", operation |-> o, given |-> "Submitted"]]
    /\ UNCHANGED <<busy, lifecycle, poisoned, holders, quarantine, observed>>

LeavesCancel(t) ==
    /\ call[t].at = "cancel"
    /\ lock' = [lock EXCEPT ![call[t].operation] = Nobody]
    /\ call' = [call EXCEPT ![t] = NoCall]
    /\ UNCHANGED <<busy, ticket, place, holders, quarantine, notices>>

CancelAccepted(t) ==
    /\ LeavesCancel(t)
    /\ state' = [state EXCEPT ![call[t].operation] = "CancelRequested"]
    /\ accepted' = [accepted EXCEPT ![call[t].operation] = @ + 1]
    /\ UNCHANGED poisoned

CancelRejected(t) ==
    /\ LeavesCancel(t)
    /\ UNCHANGED <<state, accepted, poisoned>>

CancelPanics(t) ==
    /\ LeavesCancel(t)
    /\ poisoned' = poisoned \cup ({call[t].operation} \ Exclusive)
    /\ UNCHANGED <<state, accepted>>

(* inspect runs its callback under the mutex too. *)
InspectPanics(t, o) ==
    /\ Enters(t, o)
    /\ o \notin Exclusive
    /\ poisoned' = poisoned \cup {o}
    /\ UNCHANGED <<busy, lifecycle, lock, holders, call, quarantine, observed>>

(***************************************************************************)
(* Terminal observations.                                                  *)
(***************************************************************************)
(* The Safety sections of complete, fail and mark_stream_quiesced. *)
Contract(o, next) ==
    IF next = "StreamQuiesced" THEN busy = {} ELSE o \notin busy

transition_to(o, next) ==
    /\ state[o] \notin Terminal
    /\ state' = [state EXCEPT ![o] = next]
    /\ UNCHANGED <<ticket, place>>

Record(t, o, next) ==
    /\ Enters(t, o)
    /\ Contract(o, next)
    /\ transition_to(o, next)
    /\ UNCHANGED <<busy, guards, holders, call, quarantine, observed>>

(* The state is copied under the mutex, the callback runs outside it. *)
RecordAndNotify(t, o, next) ==
    /\ Enters(t, o)
    /\ Contract(o, next)
    /\ transition_to(o, next)
    /\ call' = [call EXCEPT ![t] =
                  [at |-> "notify", operation |-> o, given |-> next]]
    /\ notices' = [notices EXCEPT ![o] = @ + 1]
    /\ UNCHANGED <<busy, guards, holders, quarantine, accepted>>

(* The callback returns, reports an error or panics: all the same here. *)
Notified(t) ==
    /\ call[t].at = "notify"
    /\ call' = [call EXCEPT ![t] = NoCall]
    /\ UNCHANGED <<busy, lifecycle, guards, holders, quarantine, observed>>

(***************************************************************************)
(* Retention without quiescence.                                           *)
(***************************************************************************)
(* reserve_ticket succeeds; available is the outcome of try_reserve. *)
reserve_ticket(available) ==
    /\ Cardinality(entries) < Capacity
    /\ nextTicket + 1 <= MaxTicket
    /\ available

AbandonToQuarantine(t, o) ==
    /\ Enters(t, o)
    /\ open
    /\ state[o] \notin Terminal
    /\ \E available \in BOOLEAN :
          \/ /\ reserve_ticket(available)
             /\ state' = [state EXCEPT ![o] = "Quarantined"]
             /\ ticket' = [ticket EXCEPT ![o] = nextTicket]
             /\ place' = [place EXCEPT ![o] = "quarantine"]
             /\ entries' = entries \cup {o}
             /\ nextTicket' = nextTicket + 1
          \/ /\ ~ reserve_ticket(available)
             /\ state' = [state EXCEPT ![o] = "Leaked"]
             /\ UNCHANGED <<ticket, place, entries, nextTicket>>
    /\ UNCHANGED <<busy, guards, holders, call, open, observed>>

(* Its Safety section: the backend accesses no resource of the quarantine. *)
ReleaseAfterStreamQuiescence ==
    /\ open
    /\ entries # {}
    /\ entries \cap busy = {}
    /\ place' = [o \in Operation |-> IF o \in entries THEN "caller" ELSE place[o]]
    /\ entries' = {}
    /\ UNCHANGED <<busy, state, ticket, guards, holders, call, open, nextTicket,
                   observed>>

DropQuarantine ==
    /\ open
    /\ open' = FALSE
    /\ place' = [o \in Operation |-> IF o \in entries THEN "leaked" ELSE place[o]]
    /\ entries' = {}
    /\ UNCHANGED <<busy, state, ticket, guards, holders, call, nextTicket, observed>>

(***************************************************************************)
(* The way out of the lifecycle.                                           *)
(***************************************************************************)
ReclaimableEarly(o) == state[o] \in Quiescent \cup {"CancelRequested"}

Reclaimable(o) == state[o] \in Quiescent

Reclaim(t, o) ==
    /\ Enters(t, o)
    /\ Reclaimable(o)
    /\ place[o] = "lifecycle"
    /\ place' = [place EXCEPT ![o] = "caller"]
    /\ UNCHANGED <<busy, state, ticket, guards, holders, call, quarantine, observed>>

AfterDropForgets(o) == IF place[o] = "lifecycle" THEN "leaked" ELSE place[o]

(* Drop of the lifecycle, then of its Retained: frees or forgets the rest. *)
AfterDrop(o) ==
    IF place[o] # "lifecycle" THEN place[o]
    ELSE IF state[o] \in Quiescent THEN "freed" ELSE "leaked"

DropCloneMiscounts(t, o) ==
    /\ t \in holders[o]
    /\ call[t].operation # o
    /\ holders' = [holders EXCEPT ![o] = @ \ {t}]
    /\ place' = IF holders[o] = Thread THEN [place EXCEPT ![o] = AfterDrop(o)] ELSE place
    /\ UNCHANGED <<busy, state, ticket, guards, call, quarantine, observed>>

(* A clone is dropped; the last one drops the lifecycle, poisoned or not. *)
DropClone(t, o) ==
    /\ t \in holders[o]
    /\ call[t].operation # o
    /\ holders' = [holders EXCEPT ![o] = @ \ {t}]
    /\ place' = IF holders[o] = {t} THEN [place EXCEPT ![o] = AfterDrop(o)] ELSE place
    /\ UNCHANGED <<busy, state, ticket, guards, call, quarantine, observed>>

(* Every clone and the quarantine are gone. *)
Finished ==
    /\ \A o \in Operation : holders[o] = {}
    /\ ~ open /\ busy = {}
    /\ UNCHANGED vars

Answers(t) == CancelAccepted(t) \/ CancelRejected(t) \/ CancelPanics(t) \/ Notified(t)

Next ==
    \/ \E o \in Operation : BackendFinishes(o)
    \/ \E t \in Thread : Answers(t)
    \/ \E t \in Thread, o \in Operation :
          \/ RequestCancel(t, o)
          \/ InspectPanics(t, o)
          \/ \E next \in Quiescent : Record(t, o, next) \/ RecordAndNotify(t, o, next)
          \/ AbandonToQuarantine(t, o)
          \/ Reclaim(t, o)
          \/ DropClone(t, o)
    \/ ReleaseAfterStreamQuiescence
    \/ DropQuarantine
    \/ Finished

Spec == Init /\ [][Next]_vars

(* Callbacks return, and no handle is kept for ever, whatever a thread     *)
(* retries between the calls: strong fairness, as a call holds the handle. *)
Fairness ==
    /\ \A t \in Thread : WF_vars(Answers(t))
    /\ \A t \in Thread, o \in Operation : SF_vars(DropClone(t, o))
    /\ WF_vars(DropQuarantine)

FairSpec == Spec /\ Fairness

-----------------------------------------------------------------------------
TypeOK ==
    /\ busy \subseteq Operation
    /\ state \in [Operation -> State]
    /\ ticket \in [Operation -> Nat]
    /\ place \in [Operation -> Place]
    /\ lock \in [Operation -> Thread \cup {Nobody}]
    /\ poisoned \subseteq Operation
    /\ holders \in [Operation -> SUBSET Thread]
    /\ call \in [Thread -> [at : {"none", "cancel", "notify"},
                            operation : Operation \cup {Nobody}, given : State]]
    /\ entries \subseteq Operation
    /\ open \in BOOLEAN
    /\ nextTicket \in 0..MaxTicket
    /\ accepted \in [Operation -> Nat]
    /\ notices \in [Operation -> Nat]

(* An operation whose quiescence was recorded is never leaked: leaking is *)
(* for operations that were abandoned, or dropped with no observation.    *)
QuiescentIsNeverLeaked ==
    \A o \in Operation : place[o] = "leaked" => state[o] \notin Quiescent

OneTrueNotification ==
    /\ \A o \in Operation : notices[o] <= 1
    /\ \A t \in Thread : call[t].at = "notify" =>
          call[t].given = state[call[t].operation]

OneCancellation ==
    /\ \A o \in Operation : accepted[o] <= 1
    /\ \A t \in Thread : call[t].at = "cancel" =>
          state[call[t].operation] = "Submitted"

(* However many threads observe, cancel and abandon one operation: at most *)
(* one terminal notification is run for it, what it is given is still the  *)
(* state while it runs, outside the mutex; the backend accepts at most one *)
(* cancellation and is never asked to cancel a terminal operation.         *)
CallbacksRunOnce == OneTrueNotification /\ OneCancellation

(* Once every handle is dropped the resources of every operation have     *)
(* been returned, freed or leaked; a poisoned mutex holds nothing up.     *)
EverythingSettles ==
    \A o \in Operation : <>(place[o] \notin {"lifecycle", "quarantine"})

(* What became of the resources of o, in the words of QuiescentRetention. *)
Fate(o) ==
    CASE place[o] \in {"lifecycle", "quarantine"} -> "held"
      [] place[o] \in {"caller", "freed"} -> "returned"
      [] OTHER -> "lost"

Retention == INSTANCE QuiescentRetention WITH fate <- [o \in Operation |-> Fate(o)]

(* While the backend may access the resources of an operation, no caller   *)
(* gets them and no destructor runs on them: not after a cancellation, not *)
(* through the quarantine, not through the last clone of a poisoned one;   *)
(* and they are returned or lost once (reclaim, release_after_stream_      *)
(* quiescence, the Drop implementations).                                  *)
ImplementsRetention == Retention!Spec

=============================================================================
