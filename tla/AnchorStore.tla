----------------------------- MODULE AnchorStore -----------------------------
(***************************************************************************)
(* The durable core of the external monotonic anchor                       *)
(* (fe2o3-external-anchor-service: durable_core.rs and lib.rs).            *)
(*                                                                         *)
(* A service instance locks one private directory, recovers the file       *)
(* STATE_FILE into a cache and then answers challenges: an Advance from    *)
(* the prior position replaces the file (cleanup, create, write, file      *)
(* sync, rename, directory sync) before the observation is signed.  One    *)
(* action is one system call, so that a crash, an I/O error or a loss of   *)
(* power can fall between any two of them.                                 *)
(*                                                                         *)
(* The directory has two entries, STATE_FILE and NEXT_STATE_FILE.  `disk'  *)
(* is what the file system shows; `images' is the set of directories a     *)
(* loss of power may leave behind.  A directory records the bytes of the   *)
(* state file but of the next file only whether it exists: no code reads   *)
(* it, its bytes matter to the instance that renames it (`temp').          *)
(***************************************************************************)
EXTENDS Naturals, Sequences

CONSTANTS
    Instances,       \* processes that try to serve the directory
    Nobody,          \* the directory lock is free
    Transactions,    \* transaction digests a client may anchor
    Requests,        \* the challenges that reach an instance
    NoRequest,       \* no challenge is being processed
    Absent,          \* a directory entry that does not exist
    Partial,         \* a file whose bytes are not a canonical record
    MaxSequence,     \* largest sequence the counter can hold (u64::MAX)
    MaxPowerLosses   \* bound on losses of power

(* A hash-chain head is represented by its preimage: the links hashed into *)
(* it.  Distinct preimages are distinct heads (SHA-256 does not collide);  *)
(* the zero head of genesis is the empty sequence.                         *)
Link == [sequence : 1..MaxSequence, transaction : Transactions]
ChainHead == Seq(Link)
DeriveProposedHead(sequence, prior, transaction) ==
    Append(prior, [sequence |-> sequence, transaction |-> transaction])

State == [sequence : 0..MaxSequence, head : ChainHead]
Genesis == [sequence |-> 0, head |-> <<>>]

(* A decoded challenge: its proposed head is derived, so decode accepts no *)
(* other.  The nonce and the key only matter to the client.                *)
Challenge == [kind : {"Advance", "Recover"}, sequence : 1..MaxSequence,
              prior : ChainHead, transaction : Transactions]
ProposedStateOffByOne(c) ==
    [sequence |-> c.sequence + 1,
     head |-> DeriveProposedHead(c.sequence, c.prior, c.transaction)]
ProposedState(c) ==
    [sequence |-> c.sequence,
     head |-> DeriveProposedHead(c.sequence, c.prior, c.transaction)]

ASSUME ConstantsAssumption ==
    /\ MaxSequence \in Nat /\ MaxPowerLosses \in Nat
    /\ Requests \subseteq Challenge
    /\ NoRequest \notin Requests
    /\ Nobody \notin Instances
    /\ Absent # Partial /\ Absent \notin State /\ Partial \notin State

VARIABLES
    disk,       \* visible directory
    images,     \* directories a loss of power may leave
    temp,       \* bytes of the next file: visible, and what may be kept
    lock,       \* holder of the exclusive flock on the directory
    pc,         \* next system call of each instance
    mode,       \* constructor an instance was started with
    cache,      \* DurableAnchorCoreV1.state
    poisoned,   \* DurableAnchorCoreV1.poisoned
    request,    \* challenge being processed
    position,   \* position resolved for it
    wrote,      \* whether this exchange itself replaced the state file
    signed,     \* every Proposed observation ever signed
    losses      \* losses of power so far

files == <<disk, images, temp>>
exchange == <<request, position, wrote>>
vars == <<files, lock, pc, mode, cache, poisoned, exchange, signed, losses>>

Content == State \cup {Absent, Partial}
Directory == [state : Content, next : BOOLEAN]
OpenFile == [visible : Content, kept : SUBSET Content]
Modes == {"initialize", "open", "open_or_initialize"}
ConstructorSteps ==
    {"cleanup", "cleanup_sync", "read", "create_initial", "write_initial",
     "sync_initial", "sync_initial_root"}
ReplaceSteps ==
    {"replace_cleanup", "replace_cleanup_sync", "create_next", "write_next",
     "sync_next", "rename_next", "sync_root"}
Steps == {"down", "idle", "sign"} \cup ConstructorSteps \cup ReplaceSteps
Observation == [state : State, wrote : BOOLEAN]

(***************************************************************************)
(* The directory.                                                          *)
(***************************************************************************)
(* A metadata operation changes the visible directory at once and reaches  *)
(* the disk at any time, whatever became of the earlier unsynced ones.     *)
Metadata(new, reached) == disk' = new /\ images' = images \cup reached

(* fsync of the directory: only what is visible can survive.               *)
SyncDirectory == images' = {disk} /\ UNCHANGED disk

WithState(d, content) == [d EXCEPT !.state = content]
WithNext(d, exists) == [d EXCEPT !.next = exists]
Published(content) == [state |-> content, next |-> FALSE]

(* The file behind NEXT_STATE_FILE while an instance has it open.          *)
NoFile == [visible |-> Absent, kept |-> {}]
File(visible, kept) == [visible |-> visible, kept |-> kept]
UnsyncedFile == temp
SyncedFile == File(temp.visible, {temp.visible})

(***************************************************************************)
(* Instances.                                                              *)
(***************************************************************************)
Init ==
    /\ disk = [state |-> Absent, next |-> FALSE]
    /\ images = {disk}
    /\ temp = NoFile
    /\ lock = Nobody
    /\ pc = [i \in Instances |-> "down"]
    /\ mode = [i \in Instances |-> "open"]
    /\ cache = [i \in Instances |-> Genesis]
    /\ poisoned = [i \in Instances |-> FALSE]
    /\ request = [i \in Instances |-> NoRequest]
    /\ position = [i \in Instances |-> "Prior"]
    /\ wrote = [i \in Instances |-> FALSE]
    /\ signed = {}
    /\ losses = 0

GoTo(i, step) == pc' = [pc EXCEPT ![i] = step]

(* The instance and its descriptor are gone, and with it the flock.        *)
Dropped(i) ==
    /\ GoTo(i, "down")
    /\ lock' = Nobody
    /\ temp' = NoFile
    /\ mode' = [mode EXCEPT ![i] = "open"]
    /\ cache' = [cache EXCEPT ![i] = Genesis]
    /\ poisoned' = [poisoned EXCEPT ![i] = FALSE]
    /\ request' = [request EXCEPT ![i] = NoRequest]
    /\ position' = [position EXCEPT ![i] = "Prior"]
    /\ wrote' = [wrote EXCEPT ![i] = FALSE]

(* flock(LOCK_EX | LOCK_NB) on the directory descriptor.                   *)
LockAvailable == lock = Nobody

(* admit_and_lock_root: a lock held elsewhere is StoreBusy, no retry.      *)
AdmitAndLockRoot(i, m) ==
    /\ pc[i] = "down"
    /\ LockAvailable
    /\ lock' = i
    /\ mode' = [mode EXCEPT ![i] = m]
    /\ GoTo(i, "cleanup")
    /\ UNCHANGED <<files, cache, poisoned, exchange, signed, losses>>

AfterCleanup(i) ==
    IF pc[i] \in ReplaceSteps THEN "create_next"
    ELSE IF mode[i] = "initialize" THEN "create_initial" ELSE "read"

(* remove_leftover_next: ENOENT returns without touching the disk.         *)
RemoveLeftoverNext(i) ==
    /\ pc[i] \in {"cleanup", "replace_cleanup"}
    /\ \/ /\ disk.next
          /\ Metadata(WithNext(disk, FALSE), {WithNext(d, FALSE) : d \in images})
          /\ GoTo(i, IF pc[i] = "cleanup" THEN "cleanup_sync"
                     ELSE "replace_cleanup_sync")
       \/ /\ ~disk.next
          /\ GoTo(i, AfterCleanup(i))
          /\ UNCHANGED <<disk, images>>
    /\ UNCHANGED <<temp, lock, mode, cache, poisoned, exchange, signed, losses>>

SyncCleanup(i) ==
    /\ pc[i] \in {"cleanup_sync", "replace_cleanup_sync"}
    /\ SyncDirectory
    /\ GoTo(i, AfterCleanup(i))
    /\ UNCHANGED <<temp, lock, mode, cache, poisoned, exchange, signed, losses>>

(* read_state: only a missing file lets open_or_initialize create genesis; *)
(* every other refusal ends the constructor.                               *)
ReadState(i) ==
    /\ pc[i] = "read"
    /\ \/ /\ disk.state \in State
          /\ cache' = [cache EXCEPT ![i] = disk.state]
          /\ GoTo(i, "idle")
          /\ UNCHANGED <<temp, lock, mode, poisoned, exchange>>
       \/ /\ disk.state = Absent
          /\ mode[i] = "open_or_initialize"
          /\ GoTo(i, "create_initial")
          /\ UNCHANGED <<temp, lock, mode, cache, poisoned, exchange>>
       \/ /\ disk.state = Partial \/ (disk.state = Absent /\ mode[i] = "open")
          /\ Dropped(i)
    /\ UNCHANGED <<disk, images, signed, losses>>

(* create_initial_state: O_CREAT | O_EXCL, one write, two syncs.           *)
CreateOverwrites == TRUE
CreateExclusive == disk.state = Absent

CreateInitial(i) ==
    /\ pc[i] = "create_initial"
    /\ \/ /\ CreateExclusive
          /\ Metadata(WithState(disk, Partial),
                {WithState(d, Partial) : d \in {e \in images : e.state = Absent}})
          /\ GoTo(i, "write_initial")
          /\ UNCHANGED <<temp, lock, mode, cache, poisoned, exchange>>
       \/ /\ ~CreateExclusive
          /\ Dropped(i)
          /\ UNCHANGED <<disk, images>>
    /\ UNCHANGED <<signed, losses>>

WriteInitial(i) ==
    /\ pc[i] = "write_initial"
    /\ Metadata(WithState(disk, Genesis),
          {WithState(d, Genesis) : d \in {e \in images : e.state = Partial}})
    /\ GoTo(i, "sync_initial")
    /\ UNCHANGED <<temp, lock, mode, cache, poisoned, exchange, signed, losses>>

SyncInitial(i) ==
    /\ pc[i] = "sync_initial"
    /\ images' = {IF d.state = Partial THEN WithState(d, disk.state) ELSE d :
                     d \in images}
    /\ UNCHANGED disk
    /\ GoTo(i, "sync_initial_root")
    /\ UNCHANGED <<temp, lock, mode, cache, poisoned, exchange, signed, losses>>

SyncInitialRoot(i) ==
    /\ pc[i] = "sync_initial_root"
    /\ SyncDirectory
    /\ cache' = [cache EXCEPT ![i] = Genesis]
    /\ GoTo(i, "idle")
    /\ UNCHANGED <<temp, lock, mode, poisoned, exchange, signed, losses>>

(* observe_with_hooks resolves where the cached state is on the challenge. *)
AtPriorBySequence(i, c) ==
    cache[i].sequence < MaxSequence /\ cache[i].sequence + 1 = c.sequence
AtPrior(i, c) ==
    /\ cache[i].sequence < MaxSequence
    /\ cache[i].sequence + 1 = c.sequence
    /\ cache[i].head = c.prior
AtProposed(i, c) == cache[i] = ProposedState(c)

(* The Advance arm poisons the instance before the first system call.      *)
Poison(i) == poisoned' = [poisoned EXCEPT ![i] = TRUE]

BeginAdvance(i, c) ==
    /\ pc[i] = "idle" /\ ~poisoned[i]
    /\ c.kind = "Advance" /\ AtPrior(i, c) /\ ~AtProposed(i, c)
    /\ Poison(i)
    /\ request' = [request EXCEPT ![i] = c]
    /\ GoTo(i, "replace_cleanup")
    /\ UNCHANGED <<files, lock, mode, cache, position, wrote, signed, losses>>

(* The other two arms only look at the cache; anything else is refused     *)
(* with ChallengeStateMismatch and changes nothing.                        *)
ObserveInPlace(i, c) ==
    /\ pc[i] = "idle" /\ ~poisoned[i]
    /\ \/ /\ AtProposed(i, c) /\ ~AtPrior(i, c)
          /\ position' = [position EXCEPT ![i] = "Proposed"]
       \/ /\ c.kind = "Recover" /\ AtPrior(i, c) /\ ~AtProposed(i, c)
          /\ position' = [position EXCEPT ![i] = "Prior"]
    /\ request' = [request EXCEPT ![i] = c]
    /\ wrote' = [wrote EXCEPT ![i] = FALSE]
    /\ GoTo(i, "sign")
    /\ UNCHANGED <<files, lock, mode, cache, poisoned, signed, losses>>

(* replace_state_with_hooks, one action per system call.                   *)
CreateNext(i) ==
    /\ pc[i] = "create_next"
    /\ ~disk.next
    /\ Metadata(WithNext(disk, TRUE), {WithNext(d, TRUE) : d \in images})
    /\ temp' = File(Partial, {Partial})
    /\ GoTo(i, "write_next")
    /\ UNCHANGED <<lock, mode, cache, poisoned, exchange, signed, losses>>

WriteNext(i) ==
    /\ pc[i] = "write_next"
    /\ temp' = File(ProposedState(request[i]),
                    {Partial, ProposedState(request[i])})
    /\ GoTo(i, "sync_next")
    /\ UNCHANGED <<disk, images, lock, mode, cache, poisoned, exchange, signed,
                   losses>>

SyncNext(i) ==
    /\ pc[i] = "sync_next"
    /\ temp' = SyncedFile
    /\ GoTo(i, "rename_next")
    /\ UNCHANGED <<disk, images, lock, mode, cache, poisoned, exchange, signed,
                   losses>>

RenameNext(i) ==
    /\ pc[i] = "rename_next"
    /\ Metadata(Published(temp.visible), {Published(c) : c \in temp.kept})
    /\ temp' = NoFile
    /\ GoTo(i, "sync_root")
    /\ UNCHANGED <<lock, mode, cache, poisoned, exchange, signed, losses>>

(* The directory sync returns; only now does the cache move and the poison *)
(* clear.                                                                  *)
SyncRoot(i) ==
    /\ pc[i] = "sync_root"
    /\ SyncDirectory
    /\ cache' = [cache EXCEPT ![i] = ProposedState(request[i])]
    /\ poisoned' = [poisoned EXCEPT ![i] = FALSE]
    /\ position' = [position EXCEPT ![i] = "Proposed"]
    /\ wrote' = [wrote EXCEPT ![i] = TRUE]
    /\ GoTo(i, "sign")
    /\ UNCHANGED <<temp, lock, mode, request, signed, losses>>

(* exchange signs the resolved position; a signing refusal (the native     *)
(* adapter's resource budget) leaves the committed state in place.         *)
Sign(i) ==
    /\ pc[i] = "sign"
    /\ \/ /\ position[i] = "Proposed"
          /\ signed' = signed \cup
                {[state |-> ProposedState(request[i]), wrote |-> wrote[i]]}
       \/ UNCHANGED signed
    /\ GoTo(i, "idle")
    /\ request' = [request EXCEPT ![i] = NoRequest]
    /\ position' = [position EXCEPT ![i] = "Prior"]
    /\ wrote' = [wrote EXCEPT ![i] = FALSE]
    /\ UNCHANGED <<files, lock, mode, cache, poisoned, losses>>

(* A system call fails (a short write and an interrupted transfer too).    *)
(* In a constructor the instance is dropped, in an exchange it survives    *)
(* poisoned.                                                               *)
FailConstructor(i) ==
    /\ pc[i] \in ConstructorSteps
    /\ Dropped(i)
    /\ UNCHANGED <<disk, images, signed, losses>>

FailExchange(i) ==
    /\ pc[i] \in ReplaceSteps
    /\ GoTo(i, "idle")
    /\ temp' = NoFile
    /\ request' = [request EXCEPT ![i] = NoRequest]
    /\ UNCHANGED <<disk, images, lock, mode, cache, poisoned, position, wrote,
                   signed, losses>>

(* The process exits, is killed or panics; the file system is unaffected.  *)
Stop(i) ==
    /\ pc[i] # "down"
    /\ Dropped(i)
    /\ UNCHANGED <<disk, images, signed, losses>>

(* The machine loses power: every process ends and the directory is one of *)
(* the images that may have reached the disk.                              *)
PowerLoss ==
    /\ losses < MaxPowerLosses
    /\ losses' = losses + 1
    /\ \E d \in images : disk' = d /\ images' = {d}
    /\ temp' = NoFile
    /\ lock' = Nobody
    /\ pc' = [i \in Instances |-> "down"]
    /\ mode' = [i \in Instances |-> "open"]
    /\ cache' = [i \in Instances |-> Genesis]
    /\ poisoned' = [i \in Instances |-> FALSE]
    /\ request' = [i \in Instances |-> NoRequest]
    /\ position' = [i \in Instances |-> "Prior"]
    /\ wrote' = [i \in Instances |-> FALSE]
    /\ UNCHANGED signed

Construct(i) ==
    \/ \E m \in Modes : AdmitAndLockRoot(i, m)
    \/ RemoveLeftoverNext(i) \/ SyncCleanup(i) \/ ReadState(i)
    \/ CreateInitial(i) \/ WriteInitial(i) \/ SyncInitial(i)
    \/ SyncInitialRoot(i)
    \/ FailConstructor(i)

Exchange(i) ==
    \/ \E c \in Requests : BeginAdvance(i, c) \/ ObserveInPlace(i, c)
    \/ CreateNext(i) \/ WriteNext(i) \/ SyncNext(i) \/ RenameNext(i)
    \/ SyncRoot(i) \/ Sign(i) \/ FailExchange(i)

Next ==
    \/ \E i \in Instances : Construct(i) \/ Exchange(i) \/ Stop(i)
    \/ PowerLoss

Spec == Init /\ [][Next]_vars

(***************************************************************************)
(* Properties.                                                             *)
(***************************************************************************)
(* Every variable has its type.                                            *)
TypeOK ==
    /\ disk \in Directory
    /\ images \subseteq Directory
    /\ temp \in OpenFile
    /\ lock \in Instances \cup {Nobody}
    /\ pc \in [Instances -> Steps]
    /\ mode \in [Instances -> Modes]
    /\ cache \in [Instances -> State]
    /\ poisoned \in [Instances -> BOOLEAN]
    /\ request \in [Instances -> Requests \cup {NoRequest}]
    /\ position \in [Instances -> {"Prior", "Proposed"}]
    /\ wrote \in [Instances -> BOOLEAN]
    /\ signed \subseteq Observation
    /\ losses \in 0..MaxPowerLosses

(* State t lies on the chain of state s, at s or beyond it.                *)
Extends(s, t) ==
    /\ s.sequence <= t.sequence
    /\ Len(s.head) <= Len(t.head)
    /\ \A k \in 1..Len(s.head) : t.head[k] = s.head[k]

Preserved(s, d) == d.state \in State /\ Extends(s, d.state)

(* The flock taken by admit_and_lock_root makes the directory single       *)
(* writer: an instance past admission is the one holder of the lock.       *)
SingleWriter == \A i \in Instances : pc[i] # "down" => lock = i

(* A usable instance answers from a cache that equals the visible state    *)
(* file.  This is what poisoning before the first system call is for: a    *)
(* failure after the rename leaves a stale cache that is never used.       *)
CacheCurrent ==
    \A i \in Instances :
        pc[i] \in {"idle", "sign"} /\ ~poisoned[i] => cache[i] = disk.state

(* While power holds, every position the service ever signed as Proposed   *)
(* is still on the chain of the visible state file, across any crashes,    *)
(* I/O errors, restarts and retries.                                       *)
SignedStaysVisible == losses = 0 => \A o \in signed : Preserved(o.state, disk)

(* The anchor never signs two different states for one sequence while      *)
(* power holds: exact retries are idempotent, and no second transaction    *)
(* takes a sequence that was observed as Proposed.                         *)
NoFork ==
    losses = 0 => \A o, p \in signed :
        o.state.sequence = p.state.sequence => o.state = p.state

(* A Prior observation (the client's abort decision) is about to be signed *)
(* only when that sequence was never signed as Proposed.                   *)
PriorUncontradicted ==
    losses = 0 => \A i \in Instances :
        pc[i] = "sign" /\ position[i] = "Prior" =>
            \A o \in signed : o.state.sequence < request[i].sequence

(* A state signed by the very exchange that wrote it survives any loss of  *)
(* power from then on: its file and the rename were synced first.          *)
WrittenIsDurable ==
    \A o \in signed : o.wrote => \A d \in images : Preserved(o.state, d)

(* Two exchanges that each wrote what they signed never fork the chain,    *)
(* loss of power included.                                                 *)
NoForkAmongWritten ==
    \A o, p \in signed :
        o.wrote /\ p.wrote /\ o.state.sequence = p.state.sequence
            => o.state = p.state

(* Without a loss of power the visible state only moves forward along its  *)
(* chain: no crash, error, restart or leftover cleanup takes it back.      *)
MonotonicVisible ==
    [][losses' = losses /\ disk.state \in State
          => Preserved(disk.state, disk')]_vars

(* A state file that a dead constructor left without a canonical record is *)
(* never reset to genesis, by whatever constructor comes next, as long as  *)
(* power holds.                                                            *)
Unusable == lock = Nobody /\ disk.state = Partial
InvalidStateNeverReset ==
    [](Unusable => [](losses = 0 => disk.state = Partial))

(* As long as power holds the store is a monotonic anchor: the chain is    *)
(* the one the visible state file stands for, a leftover, a failed replace *)
(* or a restart is no step of it at all, and every signature is for the    *)
(* chain's current end.                                                    *)
ChainOf(head) == [k \in 1..Len(head) |-> head[k].transaction]
Anchor == INSTANCE MonotonicAnchor WITH
    chain <- IF disk.state \in State THEN ChainOf(disk.state.head) ELSE <<>>,
    observed <- {ChainOf(o.state.head) : o \in signed}
ImplementsMonotonicAnchor == Anchor!Spec

(* What lib.rs says of every signed Proposed observation: the state file   *)
(* and its rename have both been synced, so no loss of power can take the  *)
(* directory behind it.                                                    *)
ProposedOnlyAfterSync ==
    \A o \in signed : \A d \in images : Preserved(o.state, d)

=============================================================================
