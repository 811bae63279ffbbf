-------------------------- MODULE ReceiptPublication --------------------------
(***************************************************************************)
(* The publication of attestation receipts                                 *)
(* (fe2o3-broker-authority-service): the issuer ledger, the Worker ledger, *)
(* the anchor journal, the client of the external anchor, and the anchor.  *)
(* The three journals lie in one directory and are written one at a time;  *)
(* each keeps the promise of DurableRecord.  The anchor lies in a directory *)
(* of its own on the same host and is the one of AnchorStore: monotonic as *)
(* long as power holds, and taken back by a loss of power as far as its    *)
(* directory was not synced.                                               *)
(*                                                                         *)
(* A receipt is the number drawn for its challenge.  A rollback anchor and *)
(* an anchor head are the receipts hashed into them; the sequence of a     *)
(* record is the length of its chain.  A service process ends its session  *)
(* with the first error, with a publication and with an attestation, and   *)
(* is then started again on the same endpoint of the anchor.               *)
(***************************************************************************)
EXTENDS Naturals, Sequences, SequencesExt

CONSTANTS
    MaxSequence,   \* bound on the receipts published
    MaxFresh,      \* bound on the nonces drawn when a verification starts
    MaxOccurrence, \* bound on the compiler processes attested
    MaxFaults,     \* bound on crashes, timeouts and losses of power
    MaxRestores    \* bound on restored copies of the service directory

ASSUME PublicationAssumption ==
    /\ MaxSequence \in Nat /\ MaxFresh \in Nat /\ MaxOccurrence \in Nat
    /\ MaxFaults \in Nat /\ MaxRestores \in Nat

VARIABLES
    disk,          \* per journal, the record recovery would find
    kept,          \* per journal, the record a loss of power cannot take
    pc,            \* next step of the service process
    audit,         \* the verification being served: nonce, anchor when asked
    position,      \* the position of the verified observation
    connected,     \* the process holds an endpoint of the living anchor
    chain,         \* the receipts anchored
    settled,       \* the part of chain that a loss of power cannot take
    observed,      \* every chain that was signed as Proposed
    forgot,        \* a loss of power took back a chain that was signed
    requests,      \* challenges sent to the anchor
    answers,       \* observations sent to the service
    fresh,         \* the last nonce drawn
    occurrence,    \* the compiler process the service was admitted for
    released,      \* receipts returned to a client
    acknowledged,  \* the chain of the last acknowledgment returned
    attested,      \* the last attestation returned: chain, anchor when asked
    copy,          \* a copy of the directory
    restores,
    faults

session == <<pc, audit, position, connected>>
channel == <<requests, answers>>
anchor == <<chain, settled, observed, forgot>>
client == <<released, acknowledged, attested>>
snapshots == <<copy, restores>>
elsewhere == <<anchor, channel, occurrence, client, snapshots>>
vars == <<disk, kept, session, fresh, elsewhere, faults>>

(***************************************************************************)
(* Records.                                                                *)
(***************************************************************************)
NoIssuer == [stage |-> "None", prior |-> <<>>, receipt |-> 0, occurrence |-> 0,
             ack |-> 0]
NoWorker == [chain |-> <<>>, head |-> <<>>, nonce |-> 0]
NoJournal ==
    [stage |-> "None", prior |-> <<>>, receipt |-> 0, head |-> <<>>,
     nonce |-> 0]

Genesis == [NoIssuer EXCEPT !.stage = "Ready"]

Issuer == disk.issuer
Worker == disk.worker
Journal == disk.journal

(* The records a step may commit.  A receipt and the external transaction  *)
(* made of it extend their own chains.                                     *)
Prepared(i, nonce, compiler) ==
    [i EXCEPT !.stage = "Prepared", !.receipt = nonce, !.occurrence = compiler]
Issued(i) == [i EXCEPT !.stage = "Issued"]
Acknowledged(i, w) ==
    [stage |-> "Ready", prior |-> Append(i.prior, i.receipt), receipt |-> 0,
     occurrence |-> 0, ack |-> w.nonce]
PreparedAnchor(transaction, head, nonce) ==
    [stage |-> "PreparedAnchor", prior |-> transaction.prior,
     receipt |-> transaction.receipt, head |-> head, nonce |-> nonce]
Observed(j, where) ==
    [j EXCEPT !.stage =
        IF where = "Proposed" THEN "AnchorCommitted" ELSE "Aborted"]
Published(j) == [j EXCEPT !.stage = "Published"]
WorkerRecord(j) ==
    [chain |-> Append(j.prior, j.receipt), head |-> Append(j.head, j.receipt),
     nonce |-> j.nonce]

(* The external position a new transaction starts from.                    *)
Stable(j) == j.stage \in {"None", "Published", "Aborted"}
StableHead(j) ==
    IF j.stage = "Published" THEN Append(j.head, j.receipt) ELSE j.head

(* Which transaction a publication request must carry: the issued receipt, *)
(* or the published one if the request is a replay.                        *)
Transaction ==
    IF Issuer.stage = "Issued"
    THEN [prior |-> Issuer.prior, receipt |-> Issuer.receipt]
    ELSE [prior |-> Front(Worker.chain), receipt |-> Last(Worker.chain)]
PublicationInput ==
    \/ Issuer.stage = "Issued"
    \/ /\ Issuer.stage = "Ready" /\ Issuer.prior # <<>>
       /\ Worker # NoWorker /\ Issuer.ack = Worker.nonce
SameTransaction(j, t) ==
    j.stage # "None" /\ j.prior = t.prior /\ j.receipt = t.receipt

(* Which Worker record and anchor journal form one crash position.         *)
WorkerJoin(w, j) ==
    CASE j.stage = "None" -> w = NoWorker
      [] j.stage = "Published" -> w = WorkerRecord(j)
      [] OTHER -> \/ j.stage = "AnchorCommitted" /\ w = WorkerRecord(j)
                  \/ j.prior = w.chain /\ j.head = w.head

(* Which issuer and Worker records form one crash position.                *)
IssuerJoin(i, w) ==
    \/ w = NoWorker /\ i.prior = <<>> /\ i.ack = 0
    \/ w # NoWorker /\ w.chain = i.prior /\ i.ack = w.nonce
    \/ /\ w # NoWorker /\ i.stage = "Issued"
       /\ w.chain = Append(i.prior, i.receipt)

(* The legal successors in the issuer's and in the anchor journal.         *)
IssuerSuccessor(i, next) ==
    CASE i.stage = "Ready" -> next = Prepared(i, next.receipt, next.occurrence)
      [] i.stage = "Prepared" -> next = Issued(i)
      [] i.stage = "Issued" ->
            next.stage = "Ready" /\ next.prior = Append(i.prior, i.receipt)
JournalSuccessor(j, next) ==
    LET same == [next EXCEPT !.stage = j.stage] = j
    IN  CASE j.stage = "None" ->
                /\ next.stage = "PreparedAnchor"
                /\ next.prior = <<>> /\ next.head = <<>>
          [] j.stage = "PreparedAnchor" ->
                same /\ next.stage \in {"AnchorCommitted", "Aborted"}
          [] j.stage = "AnchorCommitted" -> same /\ next.stage = "Published"
          [] j.stage = "Published" ->
                /\ next.stage = "PreparedAnchor"
                /\ next.prior = Append(j.prior, j.receipt)
                /\ next.head = Append(j.head, j.receipt)
          [] OTHER ->
                /\ next.stage = "PreparedAnchor" /\ next.receipt # j.receipt
                /\ next.prior = j.prior /\ next.head = j.head

(***************************************************************************)
(* The process.                                                            *)
(***************************************************************************)
NoAudit == [nonce |-> 0, since |-> <<>>]

Init ==
    /\ disk = [issuer |-> NoIssuer, worker |-> NoWorker, journal |-> NoJournal]
    /\ kept = disk
    /\ pc = "down" /\ audit = NoAudit /\ position = "None" /\ connected = TRUE
    /\ chain = <<>> /\ settled = <<>> /\ observed = {} /\ forgot = FALSE
    /\ requests = <<>> /\ answers = <<>>
    /\ fresh = 0 /\ occurrence = 1
    /\ released = {} /\ acknowledged = <<>>
    /\ attested = [chain |-> <<>>, since |-> <<>>]
    /\ copy = disk
    /\ restores = 0 /\ faults = 0

GoTo(step) == pc' = step /\ UNCHANGED <<audit, position, connected>>
Gone ==
    pc' = "down" /\ audit' = NoAudit /\ position' = "None" /\ connected' = TRUE

Fault == faults < MaxFaults /\ faults' = faults + 1

(* What the next recovery may find.                                        *)
Positions ==
    {[j \in DOMAIN disk |-> IF j \in lost THEN kept[j] ELSE disk[j]] :
        lost \in SUBSET DOMAIN disk}

CommitUnsynced(journal, record, step) ==
    /\ disk' = [disk EXCEPT ![journal] = record]
    /\ GoTo(step)
    /\ UNCHANGED <<kept, faults>>
(* A record is committed, or the process ends in the middle of that with a *)
(* record that recovery finds and a loss of power may still take.          *)
CommitRecord(journal, record, step) ==
    /\ disk' = [disk EXCEPT ![journal] = record]
    /\ \/ /\ kept' = [kept EXCEPT ![journal] = record]
          /\ GoTo(step)
          /\ UNCHANGED faults
       \/ /\ Fault
          /\ Gone
          /\ UNCHANGED kept

CommitIssuer(record, step) ==
    /\ IssuerSuccessor(Issuer, record)
    /\ CommitRecord("issuer", record, step)

CommitJournal(record, step) ==
    /\ JournalSuccessor(Journal, record)
    /\ WorkerJoin(Worker, record)
    /\ CommitRecord("journal", record, step)

NoCommit == UNCHANGED <<disk, kept, faults>>
Draw == fresh' = fresh + 1

(* admit: each journal is recovered and thereby recommitted, in this       *)
(* order; then they must join.                                             *)
RecoverIssuer ==
    /\ pc = "down"
    /\ CommitRecord("issuer", IF Issuer = NoIssuer THEN Genesis ELSE Issuer,
                    "recover_worker")
    /\ UNCHANGED <<fresh, elsewhere>>

RecoverWorkerVisible ==
    /\ pc = "recover_worker"
    /\ GoTo("recover_journal")
    /\ NoCommit
    /\ UNCHANGED <<fresh, elsewhere>>
RecoverWorker ==
    /\ pc = "recover_worker"
    /\ CommitRecord("worker", Worker, "recover_journal")
    /\ UNCHANGED <<fresh, elsewhere>>

RecoverJournal ==
    /\ pc = "recover_journal"
    /\ WorkerJoin(Worker, Journal) /\ IssuerJoin(Issuer, Worker)
    /\ CommitRecord("journal", Journal, "idle")
    /\ UNCHANGED <<fresh, elsewhere>>

(* The next process is admitted for another compiler process.              *)
NewOccurrence ==
    /\ pc = "down"
    /\ occurrence < MaxOccurrence
    /\ occurrence' = occurrence + 1
    /\ NoCommit
    /\ UNCHANGED <<session, anchor, channel, fresh, client, snapshots>>

(* Prepare and Issue, one commit each; their replays write nothing.  Only  *)
(* the compiler process that was challenged can be issued a receipt.       *)
PrepareChallenge ==
    /\ pc = "idle"
    /\ Issuer.stage = "Ready" /\ Len(Issuer.prior) < MaxSequence
    /\ Draw
    /\ CommitIssuer(Prepared(Issuer, fresh', occurrence), "idle")
    /\ UNCHANGED elsewhere

IssueReceipt ==
    /\ pc = "idle"
    /\ Issuer.stage = "Prepared" /\ Issuer.occurrence = occurrence
    /\ CommitIssuer(Issued(Issuer), "idle")
    /\ UNCHANGED <<fresh, elsewhere>>

(* The receipt leaves with the answer to Issue, to its replay or to        *)
(* Inspect.                                                                *)
ReleaseReceipt ==
    /\ pc = "idle"
    /\ Issuer.stage = "Issued"
    /\ released' = released
           \cup {[prior |-> Issuer.prior, receipt |-> Issuer.receipt]}
    /\ UNCHANGED <<disk, kept, session, anchor, channel, fresh, occurrence,
                   acknowledged, attested, snapshots, faults>>

(* publish_receipt_to_worker up to the exchange: a new transaction is made *)
(* durable with its challenge, a known one goes on from its stage.         *)
BeginPublishForgetful ==
    /\ pc = "idle"
    /\ IssuerJoin(Issuer, Worker) /\ PublicationInput
    /\ \/ /\ ~SameTransaction(Journal, Transaction) /\ Stable(Journal)
          /\ Draw
          /\ CommitJournal(
                 PreparedAnchor(Transaction, StableHead(Journal), fresh'),
                 "exchange")
       \/ /\ SameTransaction(Journal, Transaction)
          /\ Journal.stage = "PreparedAnchor"
          /\ GoTo("exchange")
          /\ NoCommit /\ UNCHANGED fresh
    /\ UNCHANGED elsewhere
BeginPublish ==
    /\ pc = "idle"
    /\ IssuerJoin(Issuer, Worker) /\ PublicationInput
    /\ \/ /\ ~SameTransaction(Journal, Transaction) /\ Stable(Journal)
          /\ Draw
          /\ CommitJournal(
                 PreparedAnchor(Transaction, StableHead(Journal), fresh'),
                 "exchange")
       \/ /\ SameTransaction(Journal, Transaction)
          /\ Journal.stage # "Aborted"
          /\ GoTo(IF Journal.stage = "PreparedAnchor"
                  THEN "exchange" ELSE "commit_worker")
          /\ NoCommit /\ UNCHANGED fresh
    /\ UNCHANGED elsewhere

(* VerifyCurrent: the challenge asks for the position of the retained      *)
(* record under a nonce derived from the client's.                         *)
VerifyFromCommitReceipt ==
    /\ pc = "idle"
    /\ Worker # NoWorker /\ fresh < MaxFresh
    /\ Draw
    /\ pc' = "attest" /\ position' = "Proposed"
    /\ audit' = [nonce |-> fresh', since |-> chain]
    /\ NoCommit
    /\ UNCHANGED <<connected, elsewhere>>
BeginVerify ==
    /\ pc = "idle"
    /\ IssuerJoin(Issuer, Worker) /\ Worker # NoWorker
    /\ fresh < MaxFresh
    /\ Draw
    /\ pc' = "exchange"
    /\ audit' = [nonce |-> fresh', since |-> chain]
    /\ NoCommit
    /\ UNCHANGED <<position, connected, elsewhere>>

Challenge ==
    IF audit = NoAudit
    THEN [kind |-> "Advance", head |-> Journal.head,
          receipt |-> Journal.receipt, nonce |-> Journal.nonce]
    ELSE [kind |-> "Recover", head |-> Front(Worker.head),
          receipt |-> Last(Worker.head), nonce |-> audit.nonce]

(* exchange_once: an answer found in the queue is taken for this exchange, *)
(* so the challenge is sent only if there is none.                         *)
SendChallenge ==
    /\ pc = "exchange" /\ connected
    /\ answers = <<>>
    /\ requests' = Append(requests, Challenge)
    /\ GoTo("await")
    /\ UNCHANGED answers
    /\ NoCommit
    /\ UNCHANGED <<anchor, fresh, occurrence, client, snapshots>>

AnswersAnything(observation) == TRUE
Answers(observation) == observation.challenge = Challenge

(* The next answer is verified against the challenge, and one more in the  *)
(* queue fails the exchange.  Both are gone from the queue.                *)
ReceiveObservation ==
    /\ pc \in {"exchange", "await"} /\ connected
    /\ answers # <<>>
    /\ LET observation == Head(answers)
       IN  \/ /\ Answers(observation) /\ Len(answers) = 1
              /\ answers' = <<>>
              /\ position' = observation.position
              /\ pc' = IF audit = NoAudit THEN "record" ELSE "attest"
              /\ UNCHANGED <<audit, connected>>
           \/ /\ Answers(observation) /\ Len(answers) > 1
              /\ answers' = Tail(Tail(answers))
              /\ Gone
           \/ /\ ~Answers(observation)
              /\ answers' = Tail(answers)
              /\ Gone
    /\ NoCommit
    /\ UNCHANGED <<requests, anchor, fresh, occurrence, client, snapshots>>

(* The journal keeps the observation before the Worker record moves.       *)
RecordObservation ==
    /\ pc = "record"
    /\ CommitJournal(Observed(Journal, position), "commit_worker")
    /\ UNCHANGED <<fresh, elsewhere>>

(* The attestation is signed and returned, and the session ends.           *)
Attest ==
    /\ pc = "attest"
    /\ position = "Proposed"
    /\ IssuerJoin(Issuer, Worker)
    /\ attested' = [chain |-> Worker.chain, since |-> audit.since]
    /\ Gone
    /\ NoCommit
    /\ UNCHANGED <<anchor, channel, fresh, occurrence, released, acknowledged,
                   snapshots>>

(* An anchor that was taken back answers a Recover with Prior; there is no *)
(* attestation then.                                                       *)
RefuseAttestation ==
    /\ pc = "attest"
    /\ position = "Prior"
    /\ Gone
    /\ NoCommit
    /\ UNCHANGED <<fresh, elsewhere>>

(* commit_anchored_publication: the Worker record, then the journal.       *)
CommitWorker ==
    /\ pc = "commit_worker"
    /\ \/ /\ Journal.stage = "Published"
          /\ WorkerJoin(Worker, Journal)
          /\ GoTo("acknowledge") /\ NoCommit
       \/ /\ Journal.stage = "AnchorCommitted" /\ Worker = WorkerRecord(Journal)
          /\ GoTo("publish_journal") /\ NoCommit
       \/ /\ Journal.stage = "AnchorCommitted" /\ Worker # WorkerRecord(Journal)
          /\ Journal.prior = Worker.chain
          /\ CommitRecord("worker", WorkerRecord(Journal), "publish_journal")
    /\ UNCHANGED <<fresh, elsewhere>>

PublishJournal ==
    /\ pc = "publish_journal"
    /\ CommitJournal(Published(Journal), "acknowledge")
    /\ UNCHANGED <<fresh, elsewhere>>

AcknowledgeLater ==
    /\ pc = "acknowledge"
    /\ GoTo("respond")
    /\ NoCommit
    /\ UNCHANGED <<fresh, elsewhere>>
AcknowledgePublished ==
    /\ pc = "acknowledge"
    /\ IssuerJoin(Issuer, Worker)
    /\ \/ /\ Issuer.stage = "Issued"
          /\ CommitIssuer(Acknowledged(Issuer, Worker), "respond")
       \/ /\ Issuer.stage = "Ready" /\ Issuer.ack = Worker.nonce
          /\ GoTo("respond") /\ NoCommit
    /\ UNCHANGED <<fresh, elsewhere>>

RespondPublished ==
    /\ pc = "respond"
    /\ IssuerJoin(Issuer, Worker)
    /\ acknowledged' = Worker.chain
    /\ Gone
    /\ NoCommit
    /\ UNCHANGED <<anchor, channel, fresh, occurrence, released, attested,
                   snapshots>>

(* A session ends without an operation: Cancel, Recover, a refused request *)
(* or none in time.                                                        *)
EndSession ==
    /\ pc = "idle"
    /\ Gone
    /\ NoCommit
    /\ UNCHANGED <<fresh, elsewhere>>

(* The endpoint belongs to an anchor that ended.                           *)
LoseAnchor ==
    /\ pc # "down" /\ ~connected
    /\ Gone
    /\ NoCommit
    /\ UNCHANGED <<fresh, elsewhere>>

(***************************************************************************)
(* The anchor: one challenge at a time, in order.                          *)
(***************************************************************************)
AtPrior(c) == chain = c.head
AtProposed(c) == chain = Append(c.head, c.receipt)

(* An advance is signed once its file and its rename are synced; an exact  *)
(* retry and a Recover are answered from the state file as it is.          *)
AnchorExchange ==
    /\ requests # <<>>
    /\ LET c == Head(requests)
           advances == c.kind = "Advance" /\ AtPrior(c)
           where == IF c.kind = "Recover" /\ AtPrior(c)
                    THEN "Prior" ELSE "Proposed"
       IN  /\ AtPrior(c) \/ AtProposed(c)
           /\ chain' = IF advances THEN Append(chain, c.receipt) ELSE chain
           /\ settled' = IF advances THEN chain' ELSE settled
           /\ observed' = IF where = "Proposed"
                          THEN observed \cup {chain'} ELSE observed
           /\ answers' = Append(answers, [challenge |-> c, position |-> where])
    /\ requests' = Tail(requests)
    /\ NoCommit
    /\ UNCHANGED <<session, forgot, fresh, occurrence, client, snapshots>>

(* The anchor's process ends, after an answer that may be lost with it or  *)
(* with an error.                                                          *)
AnchorGone ==
    /\ requests' = <<>> /\ answers' = <<>>
    /\ connected' = (pc = "down")
    /\ UNCHANGED <<disk, kept, pc, audit, position, settled, observed, forgot,
                   fresh, occurrence, client, snapshots>>

AnchorRefuses ==
    /\ requests # <<>>
    /\ ~AtPrior(Head(requests)) /\ ~AtProposed(Head(requests))
    /\ AnchorGone
    /\ UNCHANGED <<chain, faults>>

AnchorCrash == Fault /\ AnchorGone /\ UNCHANGED chain

(* The process ends, or its directory sync fails and it ends with that,    *)
(* when the new state file has its name and the name is not yet synced.    *)
AnchorInterrupted ==
    /\ requests # <<>>
    /\ Head(requests).kind = "Advance" /\ AtPrior(Head(requests))
    /\ Fault
    /\ AnchorGone
    /\ chain' = Append(chain, Head(requests).receipt)

(***************************************************************************)
(* Faults of the service.                                                  *)
(***************************************************************************)
(* The process is killed, or waited too long for an answer that may still  *)
(* arrive.                                                                 *)
Crash ==
    /\ pc # "down"
    /\ Fault
    /\ Gone
    /\ UNCHANGED <<disk, kept, fresh, elsewhere>>

(* The endpoints are sockets of the same host.  The anchor is back at one  *)
(* of the states its directory had since it was last synced.               *)
PowerLoss ==
    /\ Fault
    /\ disk' \in Positions
    /\ kept' = disk'
    /\ Gone
    /\ chain' \in {c \in Prefixes(chain) : IsPrefix(settled, c)}
    /\ settled' = chain'
    /\ forgot' = (forgot \/ \E o \in observed : ~IsPrefix(o, chain'))
    /\ requests' = <<>> /\ answers' = <<>>
    /\ UNCHANGED <<observed, fresh, occurrence, client, snapshots>>

(* The directory is copied, and replaced by the copy later.                *)
Backup ==
    /\ pc = "down"
    /\ restores < MaxRestores
    /\ copy' = disk
    /\ NoCommit
    /\ UNCHANGED <<session, anchor, channel, fresh, occurrence, client,
                   restores>>

Restore ==
    /\ pc = "down"
    /\ restores < MaxRestores
    /\ restores' = restores + 1
    /\ disk' = copy /\ kept' = copy
    /\ UNCHANGED <<session, anchor, channel, fresh, occurrence, client, copy,
                   faults>>

Recover == RecoverIssuer \/ RecoverWorker \/ RecoverJournal
Exchange == SendChallenge \/ ReceiveObservation
Publish ==
    \/ Exchange \/ RecordObservation \/ Attest \/ RefuseAttestation
    \/ CommitWorker \/ PublishJournal
    \/ AcknowledgePublished \/ RespondPublished

Next ==
    \/ Recover \/ Publish
    \/ NewOccurrence \/ PrepareChallenge \/ IssueReceipt \/ ReleaseReceipt
    \/ BeginPublish \/ BeginVerify
    \/ EndSession \/ LoseAnchor
    \/ AnchorExchange \/ AnchorRefuses \/ AnchorCrash \/ AnchorInterrupted
    \/ Crash \/ PowerLoss
    \/ Backup \/ Restore

Spec == Init /\ [][Next]_vars

(* A process and the anchor run when they can, an ended process is started *)
(* again, and a client that is served again and again asks for the         *)
(* publication of an issued receipt in one of its sessions.                *)
FairSpec ==
    /\ Spec
    /\ WF_vars(Recover \/ Publish \/ LoseAnchor)
    /\ WF_vars(AnchorExchange \/ AnchorRefuses)
    /\ SF_vars(BeginPublish)

(***************************************************************************)
(* Properties.                                                             *)
(***************************************************************************)
Chains == Seq(Nat)
Steps == {"down", "recover_worker", "recover_journal", "idle", "exchange",
          "await", "record", "attest", "commit_worker", "publish_journal",
          "acknowledge", "respond"}
Journals ==
    [issuer: [stage: {"None", "Ready", "Prepared", "Issued"}, prior: Chains,
              receipt: Nat, occurrence: Nat, ack: Nat],
     worker: [chain: Chains, head: Chains, nonce: Nat],
     journal: [stage: {"None", "PreparedAnchor", "AnchorCommitted",
                       "Published"},
               prior: Chains, receipt: Nat, head: Chains, nonce: Nat]]
Challenges ==
    [kind: {"Advance", "Recover"}, head: Chains, receipt: Nat, nonce: Nat]

(* Every variable has its type.  No journal is Aborted, from which the     *)
(* issuer could not go on: an Advance is never answered with Prior.  Only  *)
(* an issuer that prepared or issued one has a receipt.                    *)
TypeOK ==
    /\ disk \in Journals /\ kept \in Journals /\ copy \in Journals
    /\ \A d \in {disk, kept} :
           d.issuer.stage \in {"Prepared", "Issued"} <=> d.issuer.receipt # 0
    /\ pc \in Steps
    /\ audit \in [nonce: Nat, since: Chains]
    /\ position \in {"None", "Prior", "Proposed"}
    /\ connected \in BOOLEAN
    /\ chain \in Chains /\ settled \in Chains
    /\ observed \subseteq Chains /\ forgot \in BOOLEAN
    /\ requests \in Seq(Challenges)
    /\ answers \in Seq([challenge: Challenges, position: {"Prior", "Proposed"}])
    /\ fresh \in Nat /\ occurrence \in Nat
    /\ released \subseteq [prior: Chains, receipt: Nat]
    /\ acknowledged \in Chains
    /\ attested \in [chain: Chains, since: Chains]
    /\ restores \in 0..MaxRestores /\ faults \in 0..MaxFaults

(* The comment in validate_worker_ledger_join: the records form one crash  *)
(* position.  Wherever a process ended and whatever a loss of power took,  *)
(* the next admission accepts what it finds.                               *)
EveryCrashJoins ==
    \A d \in Positions :
        WorkerJoin(d.worker, d.journal) /\ IssuerJoin(d.issuer, d.worker)

(* What the anchor has signed, or had from the start.                      *)
Vouched(c) == c = <<>> \/ c \in observed

(* The anchor head that a journal has an observation of.                   *)
AnchoredHead(j) ==
    IF j.stage \in {"AnchorCommitted", "Published"}
    THEN Append(j.head, j.receipt) ELSE j.head

(* The anchor has nothing the durable journal does not account for: the    *)
(* challenge is durable before it leaves, and retries advance only once,   *)
(* also an anchor that a loss of power took back.  As long as no loss of   *)
(* power took back what the anchor signed, it is never behind the journal  *)
(* either, and an Advance, first or repeated, early or late, finds it at   *)
(* its prior or its proposed head.  (A Recover of the published record may *)
(* be refused: its successor can be anchored and not yet published.)       *)
AnchoredIsJournalled ==
    restores = 0 =>
        LET j == kept.journal
        IN  /\ IsPrefix(chain, Append(j.head, j.receipt))
            /\ ~forgot => chain \in {j.head, Append(j.head, j.receipt)}
            /\ ~forgot /\ requests # <<>> /\ Head(requests).kind = "Advance" =>
                  AtPrior(Head(requests)) \/ AtProposed(Head(requests))

(* An acknowledged receipt stays published, and its position is behind the *)
(* issuer after every crash and loss of power.                             *)
AcknowledgedStays ==
    restores = 0 =>
        \A d \in Positions : /\ IsPrefix(acknowledged, d.issuer.prior)
                              /\ IsPrefix(acknowledged, d.worker.chain)

(* publish_receipt_to_worker: a receipt is in the Worker ledger, and is    *)
(* acknowledged, only after the anchor signed for it, in a directory       *)
(* restored from a copy too and whatever a loss of power took.  All of     *)
(* that lies on the anchor's one chain and never forks, unless a loss of   *)
(* power took back what the anchor had signed.                             *)
AcknowledgedIsAnchored ==
    LET published == {acknowledged}
            \cup UNION {{d.worker.head, AnchoredHead(d.journal)} :
                           d \in Positions}
    IN  \A c \in published : Vouched(c) /\ (~forgot => IsPrefix(c, chain))

(* No two different receipts leave for one sequence.                       *)
OneReceiptPerSequence ==
    restores = 0 =>
        \A r, s \in released : Len(r.prior) = Len(s.prior) => r = s

(* attest_current_carriage: an attestation is never about a record that    *)
(* was superseded when the client asked, whatever answers were late,       *)
(* whichever copy the service runs on and whatever a loss of power took    *)
(* before.  The anchor signed for it, and has it still unless a loss of    *)
(* power took back what the anchor had signed.                             *)
AttestedIsCurrent ==
    /\ IsPrefix(attested.since, attested.chain)
    /\ Vouched(attested.chain)
    /\ ~forgot => IsPrefix(attested.chain, chain)

(* The three journals and the anchor together are one durable record: one  *)
(* publication at a time, lost only before the issuer moved past it.  For  *)
(* a directory that is never replaced.                                     *)
Durable == INSTANCE DurableRecord WITH
    Values <- 1..(MaxFresh + 2 * (MaxSequence + MaxFaults)),
    MaxVersion <- MaxSequence,
    record <- Worker.chain,
    acknowledged <- kept.issuer.prior
ImplementsDurableRecord == Durable!Spec

(* An issued receipt is published once crashes and timeouts stop, whatever *)
(* answers are still queued.  Only an anchor that a loss of power took     *)
(* behind the head its next Advance starts from keeps it back.             *)
PublicationCompletes ==
    kept.issuer.stage = "Issued" ~>
        \/ kept.issuer.stage = "Ready"
        \/ Journal.stage = "PreparedAnchor" /\ ~IsPrefix(Journal.head, chain)

=============================================================================
