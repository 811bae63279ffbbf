--------------------------- MODULE RetainedJournal ---------------------------
(***************************************************************************)
(* One record journal in a retained directory                              *)
(* (fe2o3-artifact-transaction: retained_durable_directory.rs) and its     *)
(* recovery (fe2o3-broker-authority-service:                               *)
(* compiler_execution_journal_recovery.rs).  The issuer, Worker and anchor *)
(* journals all are instances of it.                                       *)
(*                                                                         *)
(* Three names: canonical, redo (a proposed successor) and recovery (an    *)
(* already canonical record being recommitted).  One action is one system  *)
(* call; reads that follow each other are one action, since the singleton  *)
(* lock leaves one process at a time.  A record is the history of the      *)
(* values committed into it, so that being a successor, and descending     *)
(* from an acknowledged record, can be told.                               *)
(***************************************************************************)
EXTENDS Naturals, Sequences

CONSTANTS
    Values,       \* what a commit may append to the history
    Absent,       \* a name that does not exist
    Torn,         \* a file whose bytes do not decode
    MaxVersion,   \* bound on the length of the history
    MaxFaults     \* bound on failed calls, exits and losses of power

Record == Seq(Values) \ {<<>>}

ASSUME JournalAssumption ==
    /\ MaxVersion \in Nat /\ MaxFaults \in Nat
    /\ Absent # Torn /\ Absent \notin Record /\ Torn \notin Record

VARIABLES
    disk,          \* visible directory
    images,        \* directories a loss of power may leave
    dirty,         \* the last mutation is still queued for writeback
    temp,          \* bytes of the temporary that a loss of power may keep
    pc,            \* next system call of the process
    task,          \* "commit", "promote" or "stabilize"
    staged,        \* the name being promoted to canonical
    expected,      \* canonical bytes expected before the promotion
    bytes,         \* record being committed or recovered
    record,        \* the ledger's record
    poisoned,      \* the ledger refuses every operation
    acknowledged,  \* last record returned to a caller
    faults

files == <<disk, images, dirty, temp>>
plan == <<task, staged, expected, bytes>>
ledger == <<record, poisoned>>
vars == <<files, pc, plan, ledger, acknowledged, faults>>

Content == Record \cup {Absent, Torn}
Names == {"canonical", "redo", "recovery"}
Directory == [Names -> Content]
CommitSteps == {"create_temp", "write_temp", "sync_temp", "rename_redo",
                "sync_redo"}
StabilizeSteps == {"rename_recovery", "sync_recovery", "sync_recovered"}
PromoteSteps == {"promote", "sync_canonical", "finish"}
Busy == CommitSteps \cup StabilizeSteps \cup PromoteSteps

(* The legal successor relation of the nominal journal.                    *)
History(content) == IF content = Absent THEN <<>> ELSE content
Successor(prior, next) ==
    \E v \in Values : next = Append(History(prior), v)

(***************************************************************************)
(* The directory.  Mutations reach the disk in order; after a failed sync  *)
(* the pending ones may have been dropped from writeback, and then a later *)
(* sync succeeds without writing them, until the directory changes again.  *)
(***************************************************************************)
Mutate(new, alternatives) ==
    /\ disk' = new
    /\ images' = images \cup alternatives
    /\ dirty' = TRUE

SyncSkipped == UNCHANGED <<disk, images, dirty>>
Sync ==
    /\ images' = IF dirty THEN {disk} ELSE images
    /\ dirty' = FALSE
    /\ UNCHANGED disk

Rename(from, to) ==
    LET new == [disk EXCEPT ![to] = disk[from], ![from] = Absent]
    IN  Mutate(new, {new})

(***************************************************************************)
(* The process.                                                            *)
(***************************************************************************)
Init ==
    /\ disk = [n \in Names |-> Absent]
    /\ images = {disk}
    /\ dirty = FALSE
    /\ temp = {}
    /\ pc = "down"
    /\ task = "commit" /\ staged = "redo" /\ expected = Absent /\ bytes = Absent
    /\ record = Absent
    /\ poisoned = FALSE
    /\ acknowledged = Absent
    /\ faults = 0

GoTo(step) == pc' = step

(* What plan_using makes of the three names.                               *)
Admissible(d) ==
    /\ \A n \in Names : d[n] # Torn
    /\ d["recovery"] # Absent => d["canonical"] = Absent /\ d["redo"] = Absent
    /\ d["redo"] # Absent => Successor(d["canonical"], d["redo"])
Planned(d) ==
    IF d["recovery"] # Absent THEN d["recovery"]
    ELSE IF d["redo"] # Absent THEN d["redo"] ELSE d["canonical"]

(* The canonical bytes a promotion must find: none once the record was     *)
(* moved to the recovery name.                                             *)
ExpectedCanonical(d) ==
    IF d["redo"] # Absent THEN d["canonical"] ELSE Absent

(* A visible canonical record is recommitted under a name of its own.      *)
RecoveryAsRedo == "redo"
RecoveryName == "recovery"
StabilizeBySync == "sync_recovered"
StabilizeStart == "rename_recovery"

(* The ledger that recovery constructs is usable.                          *)
BornPoisoned == poisoned' = TRUE
FreshLedger == poisoned' = FALSE

(* recover_using: plan_using decides, apply_using starts.  With no file at *)
(* all there is nothing to make durable and the ledger starts empty.       *)
PlanRecovery ==
    /\ pc = "down"
    /\ Admissible(disk)
    /\ bytes' = Planned(disk)
    /\ expected' = ExpectedCanonical(disk)
    /\ FreshLedger
    /\ \/ /\ Planned(disk) = Absent
          /\ record' = Absent
          /\ GoTo("idle")
          /\ UNCHANGED <<task, staged>>
       \/ /\ disk["recovery"] # Absent
          /\ task' = "promote" /\ staged' = "recovery"
          /\ GoTo("promote")
          /\ UNCHANGED record
       \/ /\ disk["recovery"] = Absent /\ disk["redo"] # Absent
          /\ task' = "promote" /\ staged' = "redo"
          /\ GoTo("promote")
          /\ UNCHANGED record
       \/ /\ disk["recovery"] = Absent /\ disk["redo"] = Absent
          /\ disk["canonical"] # Absent
          /\ task' = "stabilize" /\ staged' = RecoveryName
          /\ GoTo(StabilizeStart)
          /\ UNCHANGED record
    /\ UNCHANGED <<files, acknowledged, faults>>

(* establish_recovered_record_durability: canonical to recovery and back,  *)
(* with a sync after each rename and one more at the end.                  *)
RenameCanonicalToRecovery ==
    /\ pc = "rename_recovery"
    /\ disk["canonical"] = bytes /\ disk[RecoveryName] = Absent
    /\ Rename("canonical", RecoveryName)
    /\ GoTo("sync_recovery")
    /\ UNCHANGED <<temp, plan, ledger, acknowledged, faults>>

SyncRecoveryName ==
    /\ pc = "sync_recovery"
    /\ Sync
    /\ disk["canonical"] = Absent /\ disk[RecoveryName] = bytes
    /\ GoTo("promote")
    /\ UNCHANGED <<temp, plan, ledger, acknowledged, faults>>

SyncRecovered ==
    /\ pc = "sync_recovered"
    /\ Sync
    /\ disk["canonical"] = bytes /\ disk[RecoveryName] = Absent
    /\ GoTo("finish")
    /\ UNCHANGED <<temp, plan, ledger, acknowledged, faults>>

(* commit_with_hooks and commit_record: only a legal successor, and only   *)
(* while no redo exists.                                                   *)
BeginCommit(value) ==
    /\ pc = "idle" /\ ~poisoned
    /\ Len(History(record)) < MaxVersion
    /\ disk["redo"] = Absent
    /\ bytes' = Append(History(record), value)
    /\ expected' = disk["canonical"]
    /\ task' = "commit" /\ staged' = "redo"
    /\ GoTo("create_temp")
    /\ UNCHANGED <<files, ledger, acknowledged, faults>>

CreateTemp ==
    /\ pc = "create_temp"
    /\ temp' = {Torn}
    /\ GoTo("write_temp")
    /\ UNCHANGED <<disk, images, dirty, plan, ledger, acknowledged, faults>>

WriteTemp ==
    /\ pc = "write_temp"
    /\ temp' = {Torn, bytes}
    /\ GoTo("sync_temp")
    /\ UNCHANGED <<disk, images, dirty, plan, ledger, acknowledged, faults>>

SyncTemp ==
    /\ pc = "sync_temp"
    /\ temp' = {bytes}
    /\ GoTo("rename_redo")
    /\ UNCHANGED <<disk, images, dirty, plan, ledger, acknowledged, faults>>

RenameTempToRedo ==
    /\ pc = "rename_redo"
    /\ disk["redo"] = Absent
    /\ Mutate([disk EXCEPT !["redo"] = bytes],
              {[disk EXCEPT !["redo"] = kept] : kept \in temp})
    /\ temp' = {}
    /\ GoTo("sync_redo")
    /\ UNCHANGED <<plan, ledger, acknowledged, faults>>

SyncRedoName ==
    /\ pc = "sync_redo"
    /\ Sync
    /\ GoTo("promote")
    /\ UNCHANGED <<temp, plan, ledger, acknowledged, faults>>

(* promote_validated_redo: both byte strings are read again first.         *)
PromoteStaged ==
    /\ pc = "promote"
    /\ disk["canonical"] = expected /\ disk[staged] = bytes
    /\ Rename(staged, "canonical")
    /\ GoTo("sync_canonical")
    /\ UNCHANGED <<temp, plan, ledger, acknowledged, faults>>

SyncCanonicalName ==
    /\ pc = "sync_canonical"
    /\ Sync
    /\ GoTo(IF task = "stabilize" THEN "sync_recovered" ELSE "finish")
    /\ UNCHANGED <<temp, plan, ledger, acknowledged, faults>>

(* The ledger adopts the record: the end of commit_with_hooks, or of       *)
(* apply_using after it checked the three names once more.                 *)
Finish ==
    /\ pc = "finish"
    /\ task # "commit" => /\ disk["canonical"] = bytes
                          /\ disk["redo"] = Absent /\ disk["recovery"] = Absent
    /\ record' = bytes
    /\ acknowledged' = bytes
    /\ GoTo("idle")
    /\ UNCHANGED <<files, plan, poisoned, faults>>

(***************************************************************************)
(* Faults.                                                                 *)
(***************************************************************************)
Fault == faults < MaxFaults /\ faults' = faults + 1

Gone ==
    /\ GoTo("down")
    /\ temp' = {}
    /\ record' = Absent /\ poisoned' = FALSE
    /\ task' = "commit" /\ staged' = "redo" /\ expected' = Absent
    /\ bytes' = Absent

PoisonLedger == poisoned' = TRUE

(* A system call or a check fails.  A failed sync may drop what was queued *)
(* for writeback.  A commit poisons its ledger, a recovery returns none.   *)
Fail ==
    /\ pc \in Busy
    /\ Fault
    /\ \/ UNCHANGED dirty
       \/ /\ pc \in {"sync_redo", "sync_recovery", "sync_canonical",
                     "sync_recovered"}
          /\ dirty' = FALSE
    /\ \/ /\ task = "commit"
          /\ PoisonLedger
          /\ temp' = {}
          /\ GoTo("idle")
          /\ UNCHANGED <<plan, record>>
       \/ task # "commit" /\ Gone
    /\ UNCHANGED <<disk, images, acknowledged>>

(* The process is killed.                                                  *)
Crash ==
    /\ pc # "down"
    /\ Fault
    /\ Gone
    /\ UNCHANGED <<disk, images, dirty, acknowledged>>

(* A service serves one session and exits, a poisoned one with an error.   *)
Exit ==
    /\ pc = "idle"
    /\ Gone
    /\ UNCHANGED <<disk, images, dirty, acknowledged, faults>>

PowerLoss ==
    /\ Fault
    /\ \E d \in images : disk' = d /\ images' = {d}
    /\ dirty' = FALSE
    /\ Gone
    /\ UNCHANGED acknowledged

Recover ==
    \/ PlanRecovery
    \/ RenameCanonicalToRecovery \/ SyncRecoveryName \/ SyncRecovered

Commit ==
    \/ CreateTemp \/ WriteTemp \/ SyncTemp \/ RenameTempToRedo \/ SyncRedoName

Proceed ==
    \/ Recover \/ Commit
    \/ PromoteStaged \/ SyncCanonicalName \/ Finish

Next ==
    \/ Proceed
    \/ \E v \in Values : BeginCommit(v)
    \/ Exit
    \/ Fail \/ Crash \/ PowerLoss

Spec == Init /\ [][Next]_vars

(* A process that can run does run, a supervisor restarts one that ended,  *)
(* and one with a poisoned ledger ends.  Starting a commit, ending a       *)
(* healthy process and failing are never owed to anyone.                   *)
FairSpec == Spec /\ WF_vars(Proceed) /\ WF_vars(poisoned /\ Exit)

(***************************************************************************)
(* Properties.                                                             *)
(***************************************************************************)
(* Every variable has its type; whoever works on a record has one.         *)
TypeOK ==
    /\ disk \in Directory
    /\ images \subseteq Directory
    /\ dirty \in BOOLEAN
    /\ temp \subseteq Content
    /\ pc \in {"down", "idle"} \cup Busy
    /\ task \in {"commit", "promote", "stabilize"}
    /\ staged \in {"redo", "recovery"}
    /\ expected \in Content
    /\ bytes \in Record \cup {Absent}
    /\ pc \in Busy => bytes \in Record
    /\ record \in Record \cup {Absent}
    /\ poisoned \in BOOLEAN
    /\ acknowledged \in Record \cup {Absent}
    /\ faults \in 0..MaxFaults

(* The comment of plan_using: a directory that recovery refuses is not a   *)
(* reachable crash position, before or after a loss of power.              *)
EveryCrashIsAdmissible == \A d \in images \cup {disk} : Admissible(d)

(* A record returned by a commit or by a recovery is found again, or has a *)
(* successor, whatever directory a loss of power leaves.  A record that is *)
(* merely visible is not returned before it was recommitted.               *)
AcknowledgedIsDurable ==
    \A d \in images \cup {disk} :
        Planned(d) = acknowledged \/ Successor(acknowledged, Planned(d))

(* A usable ledger agrees with the directory it will be recovered from.    *)
LedgerIsCurrent ==
    pc = "idle" /\ ~poisoned => record = Planned(disk) /\ record = acknowledged

(* The journal is a durable record: one commit at a time, kept or lost as  *)
(* a whole, and lost only if it was never acknowledged.                    *)
Durable == INSTANCE DurableRecord WITH
    record <- History(Planned(disk)),
    acknowledged <- History(acknowledged)
ImplementsDurableRecord == Durable!Spec

(* Once faults stop, recovery ends with a usable ledger.                   *)
RecoveryCompletes == []<>(pc = "idle" /\ ~poisoned)

=============================================================================
