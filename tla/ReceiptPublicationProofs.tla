----------------------- MODULE ReceiptPublicationProofs -----------------------
(***************************************************************************)
(* Proofs about ReceiptPublication, for every bound on the receipts, the   *)
(* nonces, the processes, the faults and the restored copies.              *)
(***************************************************************************)
EXTENDS ReceiptPublication, SequenceTheorems, TLAPS

(***************************************************************************)
(* The inductive invariant.                                                *)
(***************************************************************************)
(* The journal carries the transaction of the issued receipt. *)
SameReceipt(i, j) ==
    i.stage = "Issued" /\ i.prior = j.prior /\ i.receipt = j.receipt
(* The issuer stands at the record of the Worker and names it. *)
Behind(i, w) == i.prior = w.chain /\ i.ack = w.nonce

(* The six crash positions of one publication: before it, prepared,        *)
(* anchored, in the Worker ledger, published, and acknowledged.            *)
Joined(d) ==
    LET i == d.issuer
        w == d.worker
        j == d.journal
    IN  /\ w.head = w.chain /\ j.head = j.prior
        /\ w.chain = <<>> => w = NoWorker
        /\ i.stage = "None" => i = NoIssuer /\ j = NoJournal
        /\ \/ j = NoJournal /\ w = NoWorker /\ Behind(i, w)
           \/ /\ j.stage = "PreparedAnchor"
              /\ w.chain = j.prior /\ SameReceipt(i, j) /\ Behind(i, w)
           \/ /\ j.stage = "AnchorCommitted" /\ SameReceipt(i, j)
              /\ \/ w.chain = j.prior /\ Behind(i, w)
                 \/ w = WorkerRecord(j)
           \/ /\ j.stage = "Published" /\ w = WorkerRecord(j)
              /\ SameReceipt(i, j) \/ Behind(i, w)

(* The anchor signed for what the Worker ledger holds, and for what the    *)
(* journal says was anchored.                                              *)
Signed(c, o) == c = <<>> \/ c \in o
Anchored(d, o) ==
    /\ Signed(d.worker.head, o)
    /\ d.journal.stage \in {"AnchorCommitted", "Published"} =>
          WorkerRecord(d.journal).head \in o

(* The numbers of a directory are nonces that were drawn. *)
Drawn(d, last) == d.issuer.receipt <= last /\ d.journal.nonce <= last

(* Only an issuer that prepared or issued a receipt has one. *)
HasReceipt(i) == i.stage \in {"Prepared", "Issued"} <=> i.receipt # 0

Directories == {disk, kept, copy}

(* Every directory, the copy too, is a crash position that the anchor      *)
(* signed for, under nonces already drawn.                                 *)
DirectoriesSound ==
    \A d \in Directories :
        /\ Joined(d) /\ HasReceipt(d.issuer)
        /\ Anchored(d, observed) /\ Drawn(d, fresh)

(* The ways from one crash position to the next, one record each.          *)
Creates(d, e) ==
    d.issuer = NoIssuer /\ e = [d EXCEPT !.issuer = Genesis]
Prepares(d, e) ==
    /\ d.issuer.stage = "Ready" /\ Len(d.issuer.prior) < MaxSequence
    /\ \E nonce \in Nat \ {0}, compiler \in Nat :
          e = [d EXCEPT !.issuer = Prepared(d.issuer, nonce, compiler)]
Issues(d, e) ==
    d.issuer.stage = "Prepared" /\ e = [d EXCEPT !.issuer = Issued(d.issuer)]
Begins(d, e) ==
    /\ d.issuer.stage = "Issued" /\ Behind(d.issuer, d.worker)
    /\ d.journal.stage \in {"None", "Published"}
    /\ \E nonce \in Nat :
          e = [d EXCEPT !.journal =
                  PreparedAnchor([prior |-> d.issuer.prior,
                                  receipt |-> d.issuer.receipt],
                                 StableHead(d.journal), nonce)]
Observes(d, e) ==
    /\ d.journal.stage = "PreparedAnchor"
    /\ e = [d EXCEPT !.journal = Observed(d.journal, "Proposed")]
Carries(d, e) ==
    /\ d.journal.stage = "AnchorCommitted" /\ d.worker.chain = d.journal.prior
    /\ e = [d EXCEPT !.worker = WorkerRecord(d.journal)]
Publishes(d, e) ==
    /\ d.journal.stage = "AnchorCommitted" /\ d.worker = WorkerRecord(d.journal)
    /\ e = [d EXCEPT !.journal = Published(d.journal)]
Acknowledges(d, e) ==
    /\ d.journal.stage = "Published" /\ SameReceipt(d.issuer, d.journal)
    /\ e = [d EXCEPT !.issuer = Acknowledged(d.issuer, d.worker)]

Moves(d, e) ==
    \/ Creates(d, e) \/ Prepares(d, e) \/ Issues(d, e) \/ Begins(d, e)
    \/ Observes(d, e) \/ Carries(d, e) \/ Publishes(d, e) \/ Acknowledges(d, e)

(* A loss of power can take one record, the last one committed.            *)
OneRecordLags == kept = disk \/ Moves(kept, disk)

Recovering == {"down", "recover_worker", "recover_journal"}
Exchanging == {"exchange", "await"}

(* What each step of the process may rely on: what it read before.         *)
ProcessAgrees ==
    /\ pc \notin Recovering => kept = disk
    /\ pc \in {"recover_worker", "recover_journal"} => kept.issuer = disk.issuer
    /\ pc = "recover_journal" => kept.worker = disk.worker
    /\ pc # "down" => Issuer.stage # "None"
    /\ pc \notin Exchanging \cup {"attest"} => audit = NoAudit
    /\ pc \in Exchanging /\ audit = NoAudit => Journal.stage = "PreparedAnchor"
    /\ pc = "record" =>
          /\ Journal.stage = "PreparedAnchor" /\ position = "Proposed"
          /\ Append(Journal.head, Journal.receipt) \in observed
    /\ pc = "attest" =>
          /\ audit # NoAudit
          /\ position = "Proposed" => IsPrefix(audit.since, Worker.head)
    /\ pc = "commit_worker" => Journal.stage \in {"AnchorCommitted", "Published"}
    /\ pc = "publish_journal" =>
          Journal.stage = "AnchorCommitted" /\ Worker = WorkerRecord(Journal)
    /\ pc \in {"acknowledge", "respond"} => Journal.stage = "Published"
    /\ /\ pc \in {"commit_worker", "publish_journal", "acknowledge"}
       /\ Issuer.stage = "Issued"
       => SameReceipt(Issuer, Journal)
    /\ pc = "respond" => Behind(Issuer, Worker)
AuditAgrees ==
    /\ audit # NoAudit => Worker # NoWorker /\ audit.nonce # 0
    /\ audit.nonce <= fresh /\ IsPrefix(audit.since, chain)

(* What is under way between the service and the anchor.  Only a challenge *)
(* sent since the client asked can have the nonce of its verification.     *)
RequestsAgree == \A k \in 1..Len(requests) : requests[k].nonce <= fresh
Agrees(a, last, signed, verification) ==
    LET c == a.challenge
    IN  /\ c.nonce <= last
        /\ c.kind = "Advance" => a.position = "Proposed"
        /\ a.position = "Proposed" => Append(c.head, c.receipt) \in signed
        /\ /\ a.position = "Proposed" /\ c.kind = "Recover"
           /\ c.nonce = verification.nonce
           => IsPrefix(verification.since, Append(c.head, c.receipt))
AnswersAgree ==
    \A k \in 1..Len(answers) : Agrees(answers[k], fresh, observed, audit)

ClientAgrees ==
    /\ Vouched(acknowledged) /\ Vouched(attested.chain)
    /\ IsPrefix(attested.since, attested.chain)

(* What the anchor signed lies on its chain, until a loss of power takes   *)
(* some of it back.                                                        *)
AnchorAgrees == ~forgot => \A o \in observed : IsPrefix(o, chain)

IInv ==
    /\ TypeOK /\ DirectoriesSound /\ OneRecordLags
    /\ ProcessAgrees /\ AuditAgrees
    /\ RequestsAgree /\ AnswersAgree /\ ClientAgrees /\ AnchorAgrees

(***************************************************************************)
(* What holds besides while the directory was never replaced.              *)
(***************************************************************************)
(* The receipts anchored once a journal record or a challenge is.          *)
Reach(r) == Append(r.head, r.receipt)

(* The anchor has nothing but what the journal record accounts for.        *)
Within(j, c) == IF j.stage = "None" THEN c = <<>> ELSE IsPrefix(c, Reach(j))

(* So has every queued Advance, which may be one of an earlier record.     *)
OnTrack(queue, j) ==
    \A k \in 1..Len(queue) : queue[k].kind = "Advance" =>
        j.stage # "None" /\ IsPrefix(Reach(queue[k]), Reach(j))

(* The anchor is where a journal record says, or one advance behind, as    *)
(* long as nothing it signed is lost.                                      *)
AnchorAt(j, c) ==
    CASE j.stage = "None" -> c = <<>>
      [] j.stage = "PreparedAnchor" -> c \in {j.head, Append(j.head, j.receipt)}
      [] OTHER -> c = Append(j.head, j.receipt)

(* A queued Advance was performed, or is the one of the durable journal;   *)
(* and none that was performed waits behind one that was not.              *)
Performed(c, anchored) == anchored = Append(c.head, c.receipt)
Pending(c, anchored, j) ==
    /\ anchored = c.head
    /\ j.stage = "PreparedAnchor" /\ j.head = c.head /\ j.receipt = c.receipt
InOrder(queue, anchored, j) ==
    \A k \in 1..Len(queue) : queue[k].kind = "Advance" =>
        /\ Performed(queue[k], anchored) \/ Pending(queue[k], anchored, j)
        /\ \A m \in 1..k :
              queue[m].kind = "Advance" /\ Pending(queue[m], anchored, j) =>
                  Pending(queue[k], anchored, j)

(* A receipt that left is the issued one or behind the issuer.             *)
Accounted(receipts, i) ==
    \A r \in receipts : \/ SameReceipt(i, r)
                        \/ IsPrefix(Append(r.prior, r.receipt), i.prior)

(* The anchor, the issuer and the queue account for each other.            *)
Exact ==
    /\ \A d \in {disk, kept} :
          /\ Within(d.journal, chain)
          /\ Accounted(released, d.issuer)
          /\ IsPrefix(acknowledged, d.issuer.prior)
    /\ OnTrack(requests, kept.journal)
    /\ ~forgot => InOrder(requests, chain, kept.journal)

NeverReplaced == restores = 0 => Exact

(***************************************************************************)
(* Chains.                                                                 *)
(***************************************************************************)
LEMMA AppendChain ==
    ASSUME NEW s \in Chains, NEW x \in Nat
    PROVE  /\ Append(s, x) \in Chains /\ Append(s, x) # <<>>
           /\ Len(Append(s, x)) = Len(s) + 1 /\ Len(s) \in Nat
           /\ \A k \in 1..Len(s) : Append(s, x)[k] = s[k]
           /\ Append(s, x)[Len(s) + 1] = x
BY AppendProperties, LenProperties DEF Chains

LEMMA SameAppend ==
    ASSUME NEW s \in Chains, NEW x \in Nat, NEW t \in Chains, NEW y \in Nat
    PROVE  Append(s, x) = Append(t, y) <=> s = t /\ x = y
BY AppendInjective DEF Chains

LEMMA PrefixPointwise ==
    ASSUME NEW s \in Chains, NEW t \in Chains
    PROVE  IsPrefix(s, t) <=> /\ Len(s) <= Len(t)
                              /\ \A k \in 1..Len(s) : s[k] = t[k]
<1>1. /\ Len(s) \in Nat /\ Len(t) \in Nat
      /\ \A k \in 1..Len(s) : s[k] \in Nat
      /\ \A k \in 1..Len(t) : t[k] \in Nat
    BY LenProperties, ElementOfSeq DEF Chains
<1>2. SubSeq(s, 1, Len(s)) = s
    BY SubSeqFull DEF Chains
<1>3. ASSUME Len(s) <= Len(t)
      PROVE  /\ SubSeq(t, 1, Len(s)) \in Seq(Nat)
             /\ Len(SubSeq(t, 1, Len(s))) = Len(s)
             /\ \A k \in 1..Len(s) : SubSeq(t, 1, Len(s))[k] = t[k]
  <2>1. \A k \in 1..Len(s) : t[k] \in Nat
      BY <1>1, <1>3
  <2>2. /\ SubSeq(t, 1, Len(s)) \in Seq(Nat)
        /\ Len(SubSeq(t, 1, Len(s))) =
              IF 1 <= Len(s) THEN Len(s) - 1 + 1 ELSE 0
        /\ \A k \in 1..(Len(s) - 1 + 1) : SubSeq(t, 1, Len(s))[k] = t[1 + k - 1]
      BY <1>1, <2>1, SubSeqProperties
  <2>3. \A k \in 1..Len(s) : 1 + k - 1 = k /\ k \in 1..(Len(s) - 1 + 1)
      BY <1>1
  <2> QED BY <1>1, <2>2, <2>3
<1>4. ASSUME Len(s) <= Len(t), \A k \in 1..Len(s) : s[k] = t[k]
      PROVE  s = SubSeq(t, 1, Len(s))
    BY <1>3, <1>4, SeqEqual DEF Chains
<1> QED BY <1>2, <1>3, <1>4 DEF IsPrefix

LEMMA PrefixOfAppend ==
    ASSUME NEW s \in Chains, NEW t \in Chains, NEW x \in Nat
    PROVE  /\ IsPrefix(s, s) /\ IsPrefix(<<>>, s)
           /\ IsPrefix(s, t) => IsPrefix(s, Append(t, x))
           /\ IsPrefix(Append(s, x), t) => IsPrefix(s, t)
<1>1. <<>> \in Chains /\ Len(<<>>) = 0 /\ Len(s) \in Nat /\ Len(t) \in Nat
    BY LenProperties, EmptySeq DEF Chains
<1>2. IsPrefix(s, s) /\ IsPrefix(<<>>, s)
    BY <1>1, PrefixPointwise
<1>3. ASSUME IsPrefix(s, t) PROVE IsPrefix(s, Append(t, x))
  <2>1. Len(s) <= Len(t) /\ \A k \in 1..Len(s) : s[k] = t[k]
      BY <1>3, PrefixPointwise
  <2>2. /\ Append(t, x) \in Chains /\ Len(Append(t, x)) = Len(t) + 1
        /\ \A k \in 1..Len(t) : Append(t, x)[k] = t[k]
      BY AppendChain
  <2>3. Len(s) <= Len(Append(t, x)) /\ \A k \in 1..Len(s) : s[k] = Append(t, x)[k]
      BY <1>1, <2>1, <2>2
  <2> QED BY <2>2, <2>3, PrefixPointwise
<1>4. ASSUME IsPrefix(Append(s, x), t) PROVE IsPrefix(s, t)
  <2>1. /\ Append(s, x) \in Chains /\ Len(Append(s, x)) = Len(s) + 1
        /\ \A k \in 1..Len(s) : Append(s, x)[k] = s[k]
      BY AppendChain
  <2>2. /\ Len(Append(s, x)) <= Len(t)
        /\ \A k \in 1..Len(Append(s, x)) : Append(s, x)[k] = t[k]
      BY <1>4, <2>1, PrefixPointwise
  <2>3. Len(s) <= Len(t) /\ \A k \in 1..Len(s) : s[k] = t[k]
      BY <1>1, <2>1, <2>2
  <2> QED BY <2>3, PrefixPointwise
<1> QED BY <1>2, <1>3, <1>4

LEMMA PrefixTransitive ==
    ASSUME NEW r \in Chains, NEW s \in Chains, NEW t \in Chains,
           IsPrefix(r, s), IsPrefix(s, t)
    PROVE  IsPrefix(r, t)
<1>1. Len(r) \in Nat /\ Len(s) \in Nat /\ Len(t) \in Nat
    BY LenProperties DEF Chains
<1> QED BY <1>1, PrefixPointwise

LEMMA SameLengthPrefix ==
    ASSUME NEW r \in Chains, NEW s \in Chains, NEW t \in Chains,
           IsPrefix(r, t), IsPrefix(s, t), Len(r) = Len(s)
    PROVE  r = s
<1>1. Len(r) \in Nat /\ \A k \in 1..Len(r) : r[k] = s[k]
    BY PrefixPointwise, LenProperties DEF Chains
<1> QED BY <1>1, SeqEqual DEF Chains

LEMMA FrontAndLast ==
    ASSUME NEW s \in Chains, s # <<>>
    PROVE  /\ Front(s) \in Chains /\ Last(s) \in Nat
           /\ Append(Front(s), Last(s)) = s /\ Len(Front(s)) + 1 = Len(s)
<1>1. PICK t \in Chains, x \in Nat : s = Append(t, x)
    BY SequenceEmptyOrAppend DEF Chains
<1>2. Len(s) = Len(t) + 1 /\ Len(t) \in Nat /\ s[Len(s)] = x
    BY <1>1, AppendChain
<1>3. SubSeq(s, 1, Len(t)) = t
    BY <1>1, <1>2, PrefixPointwise, AppendChain, SubSeqFull, PrefixOfAppend
       DEF IsPrefix, Chains
<1>4. Front(s) = t /\ Last(s) = x
    BY <1>2, <1>3 DEF Front, Last
<1> QED BY <1>1, <1>2, <1>4

LEMMA FrontOfAppend ==
    ASSUME NEW s \in Chains, NEW x \in Nat
    PROVE  Front(Append(s, x)) = s /\ Last(Append(s, x)) = x
<1>1. Append(s, x) \in Chains /\ Append(s, x) # <<>>
    BY AppendChain
<1>2. /\ Front(Append(s, x)) \in Chains /\ Last(Append(s, x)) \in Nat
      /\ Append(Front(Append(s, x)), Last(Append(s, x))) = Append(s, x)
    BY <1>1, FrontAndLast
<1> QED BY <1>2, SameAppend

LEMMA SamePrefixes ==
    ASSUME NEW s \in Chains, NEW t \in Chains, IsPrefix(s, t), IsPrefix(t, s)
    PROVE  s = t
<1>1. Len(s) = Len(t) /\ IsPrefix(t, t)
    BY PrefixPointwise, PrefixOfAppend, LenProperties DEF Chains
<1> QED BY <1>1, SameLengthPrefix

(* Between a chain and its next receipt there is nothing. *)
LEMMA PrefixBetween ==
    ASSUME NEW s \in Chains, NEW t \in Chains, NEW x \in Nat,
           IsPrefix(t, s), IsPrefix(s, Append(t, x))
    PROVE  s \in {t, Append(t, x)}
<1>1. /\ Append(t, x) \in Chains /\ Len(Append(t, x)) = Len(t) + 1
      /\ IsPrefix(Append(t, x), Append(t, x)) /\ IsPrefix(t, Append(t, x))
    BY AppendChain, PrefixOfAppend
<1>2. Len(s) \in Nat /\ Len(t) \in Nat /\ Len(t) <= Len(s) /\ Len(s) <= Len(t) + 1
    BY <1>1, PrefixPointwise, LenProperties DEF Chains
<1>3. CASE Len(s) = Len(t)
    BY <1>1, <1>3, SameLengthPrefix
<1>4. CASE Len(s) = Len(t) + 1
    BY <1>1, <1>4, SameLengthPrefix
<1> QED BY <1>2, <1>3, <1>4

LEMMA PrefixesOfChain ==
    ASSUME NEW s \in Chains, NEW t \in Prefixes(s)
    PROVE  t \in Chains /\ IsPrefix(t, s)
<1>1. PICK l \in 0..Len(s) : t = SubSeq(s, 1, l)
    BY DEF Prefixes
<1>2. Len(s) \in Nat /\ l \in Nat /\ l <= Len(s) /\ \A k \in 1..l : s[k] \in Nat
    BY LenProperties, ElementOfSeq DEF Chains
<1>3. /\ t \in Seq(Nat) /\ Len(t) = l
      /\ \A k \in 1..(l - 1 + 1) : t[k] = s[1 + k - 1]
    BY <1>1, <1>2, SubSeqProperties
<1>4. \A k \in 1..l : 1 + k - 1 = k /\ k \in 1..(l - 1 + 1)
    BY <1>2
<1>5. \A k \in 1..Len(t) : t[k] = s[k]
    BY <1>3, <1>4
<1> QED BY <1>2, <1>3, <1>5, PrefixPointwise DEF Chains

(***************************************************************************)
(* Directories.                                                            *)
(***************************************************************************)
IssuerRecords ==
    [stage: {"None", "Ready", "Prepared", "Issued"}, prior: Chains,
     receipt: Nat, occurrence: Nat, ack: Nat]
WorkerRecords == [chain: Chains, head: Chains, nonce: Nat]
JournalRecords ==
    [stage: {"None", "PreparedAnchor", "AnchorCommitted", "Published"},
     prior: Chains, receipt: Nat, head: Chains, nonce: Nat]

LEMMA DirectoryFields ==
    ASSUME NEW d \in Journals
    PROVE  /\ d.issuer \in IssuerRecords /\ d.worker \in WorkerRecords
           /\ d.journal \in JournalRecords
           /\ DOMAIN d = {"issuer", "worker", "journal"}
BY DEF Journals, IssuerRecords, WorkerRecords, JournalRecords

LEMMA SameDirectory ==
    ASSUME NEW d \in Journals, NEW e \in Journals,
           d.issuer = e.issuer, d.worker = e.worker, d.journal = e.journal
    PROVE  d = e
BY DEF Journals

LEMMA ReplaceRecord ==
    ASSUME NEW d \in Journals
    PROVE  /\ \A i \in IssuerRecords :
                 /\ [d EXCEPT !.issuer = i] \in Journals
                 /\ [d EXCEPT !.issuer = i].issuer = i
                 /\ [d EXCEPT !.issuer = i].worker = d.worker
                 /\ [d EXCEPT !.issuer = i].journal = d.journal
           /\ \A w \in WorkerRecords :
                 /\ [d EXCEPT !.worker = w] \in Journals
                 /\ [d EXCEPT !.worker = w].issuer = d.issuer
                 /\ [d EXCEPT !.worker = w].worker = w
                 /\ [d EXCEPT !.worker = w].journal = d.journal
           /\ \A j \in JournalRecords :
                 /\ [d EXCEPT !.journal = j] \in Journals
                 /\ [d EXCEPT !.journal = j].issuer = d.issuer
                 /\ [d EXCEPT !.journal = j].worker = d.worker
                 /\ [d EXCEPT !.journal = j].journal = j
BY DEF Journals, IssuerRecords, WorkerRecords, JournalRecords

LEMMA EmptyRecords ==
    /\ NoIssuer \in IssuerRecords /\ Genesis \in IssuerRecords
    /\ NoWorker \in WorkerRecords /\ NoJournal \in JournalRecords
    /\ HasReceipt(NoIssuer) /\ HasReceipt(Genesis)
BY EmptySeq DEF IssuerRecords, WorkerRecords, JournalRecords, NoIssuer, Genesis,
                NoWorker, NoJournal, HasReceipt, Chains

(* The records that a step commits. *)
LEMMA IssuerCommits ==
    ASSUME NEW i \in IssuerRecords
    PROVE  /\ \A nonce, compiler \in Nat :
                 /\ Prepared(i, nonce, compiler) \in IssuerRecords
                 /\ Prepared(i, nonce, compiler).stage = "Prepared"
                 /\ Prepared(i, nonce, compiler).prior = i.prior
                 /\ Prepared(i, nonce, compiler).receipt = nonce
                 /\ Prepared(i, nonce, compiler).ack = i.ack
           /\ Issued(i) \in IssuerRecords /\ Issued(i).stage = "Issued"
           /\ Issued(i).prior = i.prior /\ Issued(i).receipt = i.receipt
           /\ Issued(i).ack = i.ack
           /\ \A w \in WorkerRecords :
                 /\ Acknowledged(i, w) \in IssuerRecords
                 /\ Acknowledged(i, w).stage = "Ready"
                 /\ Acknowledged(i, w).prior = Append(i.prior, i.receipt)
                 /\ Acknowledged(i, w).receipt = 0
                 /\ Acknowledged(i, w).ack = w.nonce
BY AppendChain DEF IssuerRecords, WorkerRecords, Prepared, Issued, Acknowledged

LEMMA JournalCommits ==
    ASSUME NEW j \in JournalRecords
    PROVE  /\ StableHead(j) \in Chains
           /\ \A p, h \in Chains, r, nonce \in Nat :
                 LET k == PreparedAnchor([prior |-> p, receipt |-> r], h, nonce)
                 IN  /\ k \in JournalRecords /\ k.stage = "PreparedAnchor"
                     /\ k.prior = p /\ k.receipt = r /\ k.head = h /\ k.nonce = nonce
           /\ LET k == Observed(j, "Proposed")
              IN  /\ k \in JournalRecords /\ k.stage = "AnchorCommitted"
                  /\ k.prior = j.prior /\ k.receipt = j.receipt /\ k.head = j.head
                  /\ k.nonce = j.nonce
           /\ LET k == Published(j)
              IN  /\ k \in JournalRecords /\ k.stage = "Published"
                  /\ k.prior = j.prior /\ k.receipt = j.receipt /\ k.head = j.head
                  /\ k.nonce = j.nonce
           /\ WorkerRecord(j) \in WorkerRecords
           /\ WorkerRecord(j).chain = Append(j.prior, j.receipt)
           /\ WorkerRecord(j).head = Append(j.head, j.receipt)
           /\ WorkerRecord(j).nonce = j.nonce
           /\ WorkerRecord(j).chain # <<>>
<1>1. /\ Append(j.prior, j.receipt) \in Chains /\ Append(j.head, j.receipt) \in Chains
      /\ Append(j.prior, j.receipt) # <<>>
    BY AppendChain DEF JournalRecords
<1> QED BY <1>1 DEF JournalRecords, WorkerRecords, StableHead, PreparedAnchor,
                    Observed, Published, WorkerRecord

(* The fields after each move. *)
LEMMA MoveFields ==
    ASSUME NEW d \in Journals, NEW e
    PROVE  /\ Creates(d, e) =>
                 /\ e \in Journals /\ e.worker = d.worker /\ e.journal = d.journal
                 /\ e.issuer = Genesis
           /\ Prepares(d, e) =>
                 /\ e \in Journals /\ e.worker = d.worker /\ e.journal = d.journal
                 /\ e.issuer.stage = "Prepared" /\ e.issuer.prior = d.issuer.prior
                 /\ e.issuer.ack = d.issuer.ack /\ e.issuer.receipt # 0
           /\ Issues(d, e) =>
                 /\ e \in Journals /\ e.worker = d.worker /\ e.journal = d.journal
                 /\ e.issuer.stage = "Issued" /\ e.issuer.prior = d.issuer.prior
                 /\ e.issuer.ack = d.issuer.ack /\ e.issuer.receipt = d.issuer.receipt
           /\ Begins(d, e) =>
                 /\ e \in Journals /\ e.issuer = d.issuer /\ e.worker = d.worker
                 /\ e.journal.stage = "PreparedAnchor"
                 /\ e.journal.prior = d.issuer.prior
                 /\ e.journal.receipt = d.issuer.receipt
                 /\ e.journal.head = StableHead(d.journal)
           /\ Observes(d, e) =>
                 /\ e \in Journals /\ e.issuer = d.issuer /\ e.worker = d.worker
                 /\ e.journal.stage = "AnchorCommitted"
                 /\ e.journal.prior = d.journal.prior
                 /\ e.journal.receipt = d.journal.receipt
                 /\ e.journal.head = d.journal.head /\ e.journal.nonce = d.journal.nonce
           /\ Carries(d, e) =>
                 /\ e \in Journals /\ e.issuer = d.issuer /\ e.journal = d.journal
                 /\ e.worker = WorkerRecord(d.journal)
           /\ Publishes(d, e) =>
                 /\ e \in Journals /\ e.issuer = d.issuer /\ e.worker = d.worker
                 /\ e.journal.stage = "Published"
                 /\ e.journal.prior = d.journal.prior
                 /\ e.journal.receipt = d.journal.receipt
                 /\ e.journal.head = d.journal.head /\ e.journal.nonce = d.journal.nonce
           /\ Acknowledges(d, e) =>
                 /\ e \in Journals /\ e.worker = d.worker /\ e.journal = d.journal
                 /\ e.issuer.stage = "Ready" /\ e.issuer.receipt = 0
                 /\ e.issuer.prior = Append(d.issuer.prior, d.issuer.receipt)
                 /\ e.issuer.ack = d.worker.nonce
<1>0. /\ d.issuer \in IssuerRecords /\ d.worker \in WorkerRecords
      /\ d.journal \in JournalRecords
    BY DirectoryFields
<1>1. ASSUME Creates(d, e)
      PROVE  /\ e \in Journals /\ e.worker = d.worker /\ e.journal = d.journal
             /\ e.issuer = Genesis
    BY <1>1, ReplaceRecord, EmptyRecords DEF Creates
<1>2. ASSUME Prepares(d, e)
      PROVE  /\ e \in Journals /\ e.worker = d.worker /\ e.journal = d.journal
             /\ e.issuer.stage = "Prepared" /\ e.issuer.prior = d.issuer.prior
             /\ e.issuer.ack = d.issuer.ack /\ e.issuer.receipt # 0
  <2>1. PICK nonce \in Nat \ {0}, compiler \in Nat :
          e = [d EXCEPT !.issuer = Prepared(d.issuer, nonce, compiler)]
      BY <1>2 DEF Prepares
  <2> DEFINE next == Prepared(d.issuer, nonce, compiler)
  <2>2. /\ next \in IssuerRecords /\ next.stage = "Prepared"
        /\ next.prior = d.issuer.prior /\ next.ack = d.issuer.ack
        /\ next.receipt = nonce
      BY <1>0, IssuerCommits
  <2> HIDE DEF next
  <2>3. e = [d EXCEPT !.issuer = next]
      BY <2>1 DEF next
  <2> QED BY <2>2, <2>3, ReplaceRecord
<1>3. ASSUME Issues(d, e)
      PROVE  /\ e \in Journals /\ e.worker = d.worker /\ e.journal = d.journal
             /\ e.issuer.stage = "Issued" /\ e.issuer.prior = d.issuer.prior
             /\ e.issuer.ack = d.issuer.ack /\ e.issuer.receipt = d.issuer.receipt
    BY <1>0, <1>3, ReplaceRecord, IssuerCommits DEF Issues
<1>4. ASSUME Begins(d, e)
      PROVE  /\ e \in Journals /\ e.issuer = d.issuer /\ e.worker = d.worker
             /\ e.journal.stage = "PreparedAnchor"
             /\ e.journal.prior = d.issuer.prior
             /\ e.journal.receipt = d.issuer.receipt
             /\ e.journal.head = StableHead(d.journal)
  <2>1. PICK nonce \in Nat :
          e = [d EXCEPT !.journal =
                  PreparedAnchor([prior |-> d.issuer.prior,
                                  receipt |-> d.issuer.receipt],
                                 StableHead(d.journal), nonce)]
      BY <1>4 DEF Begins
  <2>2. /\ d.issuer.prior \in Chains /\ d.issuer.receipt \in Nat
        /\ StableHead(d.journal) \in Chains
      BY <1>0, JournalCommits DEF IssuerRecords
  <2> QED BY <1>0, <2>1, <2>2, ReplaceRecord, JournalCommits
<1>5. ASSUME Observes(d, e)
      PROVE  /\ e \in Journals /\ e.issuer = d.issuer /\ e.worker = d.worker
             /\ e.journal.stage = "AnchorCommitted"
             /\ e.journal.prior = d.journal.prior
             /\ e.journal.receipt = d.journal.receipt
             /\ e.journal.head = d.journal.head /\ e.journal.nonce = d.journal.nonce
    BY <1>0, <1>5, ReplaceRecord, JournalCommits DEF Observes
<1>6. ASSUME Carries(d, e)
      PROVE  /\ e \in Journals /\ e.issuer = d.issuer /\ e.journal = d.journal
             /\ e.worker = WorkerRecord(d.journal)
    BY <1>0, <1>6, ReplaceRecord, JournalCommits DEF Carries
<1>7. ASSUME Publishes(d, e)
      PROVE  /\ e \in Journals /\ e.issuer = d.issuer /\ e.worker = d.worker
             /\ e.journal.stage = "Published"
             /\ e.journal.prior = d.journal.prior
             /\ e.journal.receipt = d.journal.receipt
             /\ e.journal.head = d.journal.head /\ e.journal.nonce = d.journal.nonce
    BY <1>0, <1>7, ReplaceRecord, JournalCommits DEF Publishes
<1>8. ASSUME Acknowledges(d, e)
      PROVE  /\ e \in Journals /\ e.worker = d.worker /\ e.journal = d.journal
             /\ e.issuer.stage = "Ready" /\ e.issuer.receipt = 0
             /\ e.issuer.prior = Append(d.issuer.prior, d.issuer.receipt)
             /\ e.issuer.ack = d.worker.nonce
    BY <1>0, <1>8, ReplaceRecord, IssuerCommits DEF Acknowledges
<1> QED BY <1>1, <1>2, <1>3, <1>4, <1>5, <1>6, <1>7, <1>8

(* A move keeps the types and leads to a crash position again. *)
LEMMA MoveJoins ==
    ASSUME NEW d \in Journals, NEW e, Joined(d), HasReceipt(d.issuer), Moves(d, e)
    PROVE  e \in Journals /\ Joined(e) /\ HasReceipt(e.issuer)
<1>0. d.journal \in JournalRecords
    BY DirectoryFields
<1>1. CASE Creates(d, e)
  <2>1. Joined(e)
      BY <1>1, MoveFields
         DEF Joined, Creates, Genesis, NoIssuer, Behind, NoJournal
  <2> QED BY <1>1, <2>1, MoveFields, EmptyRecords
<1>2. CASE Prepares(d, e)
  <2>0. /\ e \in Journals /\ e.worker = d.worker /\ e.journal = d.journal
        /\ e.issuer.stage = "Prepared" /\ e.issuer.prior = d.issuer.prior
        /\ e.issuer.ack = d.issuer.ack /\ e.issuer.receipt # 0
      BY <1>2, MoveFields
  <2>1. Joined(e)
      BY <1>2, <2>0 DEF Joined, Prepares, Behind, SameReceipt
  <2> QED BY <1>2, <2>0, <2>1 DEF HasReceipt
<1>3. CASE Issues(d, e)
  <2>0. /\ e \in Journals /\ e.worker = d.worker /\ e.journal = d.journal
        /\ e.issuer.stage = "Issued" /\ e.issuer.prior = d.issuer.prior
        /\ e.issuer.ack = d.issuer.ack /\ e.issuer.receipt = d.issuer.receipt
      BY <1>3, MoveFields
  <2>1. Joined(e)
      BY <1>3, <2>0 DEF Joined, Issues, Behind, SameReceipt
  <2> QED BY <1>3, <2>0, <2>1 DEF HasReceipt, Issues
<1>4. CASE Begins(d, e)
  <2>0. /\ e \in Journals /\ e.issuer = d.issuer /\ e.worker = d.worker
        /\ e.journal.stage = "PreparedAnchor" /\ e.journal.prior = d.issuer.prior
        /\ e.journal.receipt = d.issuer.receipt
        /\ e.journal.head = StableHead(d.journal)
      BY <1>4, MoveFields
  <2>1. StableHead(d.journal) = d.worker.chain
    <3>1. CASE d.journal.stage = "None"
        BY <3>1 DEF Joined, StableHead, NoJournal, NoWorker
    <3>2. CASE d.journal.stage = "Published"
      <4>1. d.worker = WorkerRecord(d.journal)
          BY <3>2 DEF Joined, NoJournal
      <4>2. d.worker.head = Append(d.journal.head, d.journal.receipt)
          BY <1>0, <4>1, JournalCommits
      <4> QED BY <3>2, <4>2 DEF Joined, StableHead
    <3> QED BY <1>4, <3>1, <3>2 DEF Begins
  <2>2. Joined(e)
      BY <1>4, <2>1, <2>0 DEF Joined, Begins, Behind, SameReceipt
  <2> QED BY <1>4, <2>0, <2>2
<1>5. CASE Observes(d, e)
  <2>0. /\ e \in Journals /\ e.issuer = d.issuer /\ e.worker = d.worker
        /\ e.journal.stage = "AnchorCommitted" /\ e.journal.prior = d.journal.prior
        /\ e.journal.receipt = d.journal.receipt /\ e.journal.head = d.journal.head
      BY <1>5, MoveFields
  <2>1. Joined(e)
      BY <1>5, <2>0 DEF Joined, Observes, SameReceipt, NoJournal
  <2> QED BY <1>5, <2>0, <2>1
<1>6. CASE Carries(d, e)
  <2>1. /\ e.issuer = d.issuer /\ e.journal = d.journal
        /\ e.worker = WorkerRecord(d.journal)
      BY <1>6, MoveFields
  <2>2. /\ e.worker.chain = Append(d.journal.prior, d.journal.receipt)
        /\ e.worker.head = Append(d.journal.head, d.journal.receipt)
        /\ e.worker.chain # <<>>
      BY <1>0, <2>1, JournalCommits
  <2>3. d.journal.stage = "AnchorCommitted" /\ SameReceipt(d.issuer, d.journal)
      BY <1>6 DEF Joined, Carries, NoJournal
  <2>4. d.journal.head = d.journal.prior /\ d.issuer.stage # "None"
      BY <2>3 DEF Joined, SameReceipt
  <2>5. Joined(e)
      BY <2>1, <2>2, <2>3, <2>4 DEF Joined
  <2> QED BY <1>6, <2>5, MoveFields
<1>7. CASE Publishes(d, e)
  <2>0. /\ e \in Journals /\ e.issuer = d.issuer /\ e.worker = d.worker
        /\ e.journal.stage = "Published" /\ e.journal.prior = d.journal.prior
        /\ e.journal.receipt = d.journal.receipt /\ e.journal.head = d.journal.head
        /\ e.journal.nonce = d.journal.nonce
      BY <1>7, MoveFields
  <2>1. WorkerRecord(e.journal) = WorkerRecord(d.journal)
      BY <1>7, <2>0 DEF WorkerRecord
  <2>2. Joined(e)
      BY <1>7, <2>1, <2>0 DEF Joined, Publishes, SameReceipt, NoJournal
  <2> QED BY <1>7, <2>0, <2>2
<1>8. CASE Acknowledges(d, e)
  <2>0. /\ e \in Journals /\ e.worker = d.worker /\ e.journal = d.journal
        /\ e.issuer.stage = "Ready" /\ e.issuer.receipt = 0
        /\ e.issuer.prior = Append(d.issuer.prior, d.issuer.receipt)
        /\ e.issuer.ack = d.worker.nonce
      BY <1>8, MoveFields
  <2>1. d.worker.chain = Append(d.journal.prior, d.journal.receipt)
      BY <1>0, <1>8, JournalCommits DEF Joined, Acknowledges, NoJournal
  <2>2. Joined(e)
      BY <1>8, <2>1, <2>0
         DEF Joined, Acknowledges, SameReceipt, Behind, NoJournal
  <2> QED BY <1>8, <2>0, <2>2 DEF HasReceipt
<1> QED BY <1>1, <1>2, <1>3, <1>4, <1>5, <1>6, <1>7, <1>8 DEF Moves

(* A crash position is one that admission accepts. *)
LEMMA JoinedIsAdmitted ==
    ASSUME NEW d \in Journals, Joined(d)
    PROVE  WorkerJoin(d.worker, d.journal) /\ IssuerJoin(d.issuer, d.worker)
<1>0. /\ d.issuer \in IssuerRecords /\ d.worker \in WorkerRecords
      /\ d.journal \in JournalRecords
    BY DirectoryFields
<1>1. WorkerJoin(d.worker, d.journal)
    BY <1>0 DEF Joined, WorkerJoin, NoJournal, JournalRecords, WorkerRecords
<1>2. ASSUME Behind(d.issuer, d.worker) PROVE IssuerJoin(d.issuer, d.worker)
    BY <1>2, <1>0 DEF Joined, Behind, IssuerJoin, NoWorker
<1>3. ASSUME d.worker = WorkerRecord(d.journal), SameReceipt(d.issuer, d.journal)
      PROVE  IssuerJoin(d.issuer, d.worker)
  <2>1. d.worker.chain = Append(d.journal.prior, d.journal.receipt)
        /\ d.worker.chain # <<>>
      BY <1>0, <1>3, JournalCommits
  <2> QED BY <1>3, <2>1 DEF IssuerJoin, SameReceipt, NoWorker
<1> QED BY <1>1, <1>2, <1>3 DEF Joined

(* A move changes one record. *)
LEMMA OneRecord ==
    ASSUME NEW d \in Journals, NEW e \in Journals, Moves(d, e)
    PROVE  \/ e.worker = d.worker /\ e.journal = d.journal
           \/ e.issuer = d.issuer /\ e.journal = d.journal
           \/ e.issuer = d.issuer /\ e.worker = d.worker
BY DEF Moves, Creates, Prepares, Issues, Begins, Observes, Carries, Publishes,
       Acknowledges, Journals

(* Whatever a loss of power takes, it leaves one of two positions. *)
LEMMA TwoPositions ==
    ASSUME disk \in Journals, kept \in Journals, OneRecordLags
    PROVE  \A d \in Positions : d \in {disk, kept}
<1> SUFFICES ASSUME NEW lost \in SUBSET DOMAIN disk
             PROVE  [j \in DOMAIN disk |-> IF j \in lost THEN kept[j] ELSE disk[j]]
                       \in {disk, kept}
    BY DEF Positions
<1> DEFINE d == [j \in DOMAIN disk |-> IF j \in lost THEN kept[j] ELSE disk[j]]
<1>1. DOMAIN disk = {"issuer", "worker", "journal"}
    BY DirectoryFields
<1>2. d \in Journals
    BY <1>1 DEF Journals
<1>3. /\ d.issuer = IF "issuer" \in lost THEN kept.issuer ELSE disk.issuer
      /\ d.worker = IF "worker" \in lost THEN kept.worker ELSE disk.worker
      /\ d.journal = IF "journal" \in lost THEN kept.journal ELSE disk.journal
    BY <1>1
<1> HIDE DEF d
<1>4. ASSUME kept = disk PROVE d \in {disk, kept}
    BY <1>2, <1>3, <1>4, SameDirectory
<1>5. ASSUME Moves(kept, disk) PROVE d \in {disk, kept}
  <2>1. \/ d.issuer = disk.issuer /\ d.worker = disk.worker /\ d.journal = disk.journal
        \/ d.issuer = kept.issuer /\ d.worker = kept.worker /\ d.journal = kept.journal
      BY <1>3, <1>5, OneRecord
  <2> QED BY <1>2, <2>1, SameDirectory
<1>6. d \in {disk, kept}
    BY <1>4, <1>5 DEF OneRecordLags
<1> QED BY <1>6 DEF d

(* Committing again the visible record of one journal. *)
LEMMA Recommit ==
    ASSUME disk \in Journals, kept \in Journals, OneRecordLags,
           NEW name \in {"issuer", "worker", "journal"}
    PROVE  /\ [disk EXCEPT ![name] = disk[name]] = disk
           /\ [kept EXCEPT ![name] = disk[name]] \in {kept, disk}
           /\ [kept EXCEPT ![name] = disk[name]][name] = disk[name]
<1> DEFINE d == [kept EXCEPT ![name] = disk[name]]
<1>1. /\ DOMAIN disk = {"issuer", "worker", "journal"}
      /\ DOMAIN kept = {"issuer", "worker", "journal"}
    BY DirectoryFields
<1>2. [disk EXCEPT ![name] = disk[name]] = disk
    BY <1>1 DEF Journals
<1>3. d \in Journals
    BY <1>1 DEF Journals
<1>4. /\ d.issuer = IF name = "issuer" THEN disk.issuer ELSE kept.issuer
      /\ d.worker = IF name = "worker" THEN disk.worker ELSE kept.worker
      /\ d.journal = IF name = "journal" THEN disk.journal ELSE kept.journal
      /\ d[name] = disk[name]
    BY <1>1
<1> HIDE DEF d
<1>5. ASSUME kept = disk PROVE d \in {kept, disk}
    BY <1>3, <1>4, <1>5, SameDirectory
<1>6. ASSUME Moves(kept, disk) PROVE d \in {kept, disk}
  <2>1. \/ d.issuer = disk.issuer /\ d.worker = disk.worker /\ d.journal = disk.journal
        \/ d.issuer = kept.issuer /\ d.worker = kept.worker /\ d.journal = kept.journal
      BY <1>4, <1>6, OneRecord
  <2> QED BY <1>3, <2>1, SameDirectory
<1>7. d \in {kept, disk}
    BY <1>5, <1>6 DEF OneRecordLags
<1> QED BY <1>2, <1>4, <1>7 DEF d

(***************************************************************************)
(* Three kinds of step: the directory is left alone; one record moves it   *)
(* to the next position; or it settles on what recovery finds, on what a   *)
(* loss of power left, or on a copy.                                       *)
(***************************************************************************)
Stays == UNCHANGED <<disk, kept>>
Commits ==
    /\ kept = disk /\ Moves(disk, disk') /\ kept' \in {disk, disk'}
    /\ Drawn(disk', fresh') /\ Anchored(disk', observed)
    /\ fresh' \in {fresh, fresh + 1}
    /\ UNCHANGED elsewhere
Settles ==
    /\ kept' = disk'
    /\ disk' \in {disk, kept} \/ (disk' = copy /\ restores' = restores + 1)
    /\ UNCHANGED <<observed, fresh, copy>>

LEMMA Typed ==
    ASSUME IInv
    PROVE  /\ disk \in Journals /\ kept \in Journals /\ copy \in Journals
           /\ Joined(disk) /\ Joined(kept) /\ Joined(copy)
           /\ HasReceipt(disk.issuer)
           /\ Issuer \in IssuerRecords /\ Worker \in WorkerRecords
           /\ Journal \in JournalRecords /\ OneRecordLags
           /\ fresh \in Nat /\ chain \in Chains /\ occurrence \in Nat
BY DirectoryFields
   DEF IInv, TypeOK, DirectoriesSound, Directories, Issuer, Worker, Journal

(* The two outcomes of a commit, when nothing lagged before. *)
LEMMA CommitOutcomes ==
    ASSUME kept = disk, NEW name, NEW record, NEW step,
           CommitRecord(name, record, step)
    PROVE  /\ disk' = [disk EXCEPT ![name] = record]
           /\ kept' \in {disk, disk'}
BY DEF CommitRecord

LEMMA StepPrepares ==
    ASSUME IInv, PrepareChallenge
    PROVE  Prepares(disk, disk') /\ Commits
<1>1. /\ Issuer.stage = "Ready" /\ Len(Issuer.prior) < MaxSequence
      /\ fresh' = fresh + 1 /\ UNCHANGED elsewhere
      /\ CommitRecord("issuer", Prepared(Issuer, fresh', occurrence), "idle")
      /\ kept = disk
    BY DEF PrepareChallenge, Draw, CommitIssuer, IInv, ProcessAgrees, Recovering
<1>2. /\ disk' = [disk EXCEPT !.issuer = Prepared(Issuer, fresh', occurrence)]
      /\ kept' \in {disk, disk'}
    BY <1>1, CommitOutcomes
<1>3. fresh' \in Nat \ {0} /\ occurrence \in Nat
    BY <1>1, Typed
<1>4. Prepares(disk, disk')
    BY <1>1, <1>2, <1>3 DEF Prepares, Issuer
<1>5. /\ disk'.issuer.receipt = fresh'
      /\ disk'.worker = disk.worker /\ disk'.journal = disk.journal
  <2>1. /\ Prepared(Issuer, fresh', occurrence) \in IssuerRecords
        /\ Prepared(Issuer, fresh', occurrence).receipt = fresh'
    <3>1. Issuer \in IssuerRecords /\ fresh' \in Nat /\ occurrence \in Nat
        BY <1>3, Typed
    <3> QED BY <3>1, IssuerCommits
  <2> QED BY <1>2, <2>1, Typed, ReplaceRecord
<1>6. Drawn(disk', fresh') /\ Anchored(disk', observed)
  <2>1. Drawn(disk, fresh) /\ Anchored(disk, observed)
      BY DEF IInv, DirectoriesSound, Directories
  <2> QED BY <1>1, <1>3, <1>5, <2>1, Typed DEF Drawn, Anchored, JournalRecords, Journal
<1> QED BY <1>1, <1>2, <1>4, <1>6 DEF Commits, Moves

LEMMA StepIssues ==
    ASSUME IInv, IssueReceipt
    PROVE  Issues(disk, disk') /\ Commits
<1>1. /\ Issuer.stage = "Prepared" /\ fresh' = fresh /\ UNCHANGED elsewhere
      /\ CommitRecord("issuer", Issued(Issuer), "idle")
      /\ kept = disk
    BY DEF IssueReceipt, CommitIssuer, IInv, ProcessAgrees, Recovering
<1>2. /\ disk' = [disk EXCEPT !.issuer = Issued(Issuer)]
      /\ kept' \in {disk, disk'}
    BY <1>1, CommitOutcomes
<1>3. Issues(disk, disk')
    BY <1>1, <1>2 DEF Issues, Issuer
<1>4. /\ disk'.issuer.receipt = disk.issuer.receipt
      /\ disk'.worker = disk.worker /\ disk'.journal = disk.journal
  <2>1. Issued(Issuer) \in IssuerRecords /\ Issued(Issuer).receipt = Issuer.receipt
      BY Typed, IssuerCommits
  <2> QED BY <1>2, <2>1, Typed, ReplaceRecord DEF Issuer
<1>5. Drawn(disk', fresh') /\ Anchored(disk', observed)
    BY <1>1, <1>4 DEF IInv, DirectoriesSound, Directories, Drawn, Anchored
<1> QED BY <1>1, <1>2, <1>3, <1>5 DEF Commits, Moves

(* The two outcomes of publish_receipt_to_worker before the exchange.        *)
BeginsNew ==
    /\ ~SameTransaction(Journal, Transaction) /\ Stable(Journal)
    /\ Draw
    /\ CommitJournal(PreparedAnchor(Transaction, StableHead(Journal), fresh'),
                     "exchange")
GoesOn ==
    /\ SameTransaction(Journal, Transaction) /\ Journal.stage # "Aborted"
    /\ GoTo(IF Journal.stage = "PreparedAnchor" THEN "exchange" ELSE "commit_worker")
    /\ NoCommit /\ UNCHANGED fresh

LEMMA BeginCases ==
    ASSUME BeginPublish
    PROVE  /\ pc = "idle" /\ PublicationInput /\ UNCHANGED elsewhere
           /\ BeginsNew \/ GoesOn
BY DEF BeginPublish, BeginsNew, GoesOn

(* A replay finds its own transaction in the journal; so only an issued      *)
(* receipt that is behind the Worker ledger begins one.                      *)
LEMMA ReplayIsKnown ==
    ASSUME IInv, PublicationInput, Issuer.stage # "Issued"
    PROVE  /\ SameTransaction(Journal, Transaction)
           /\ Journal.stage = "Published"
<1>1. Issuer.stage = "Ready" /\ Worker # NoWorker
    BY DEF PublicationInput
<1>2. Journal.stage = "Published" /\ Worker = WorkerRecord(Journal)
    BY <1>1, Typed DEF Joined, SameReceipt, Issuer, Worker, Journal
<1>3. Worker.chain = Append(Journal.prior, Journal.receipt)
    BY <1>2, Typed, JournalCommits
<1>4. Front(Worker.chain) = Journal.prior /\ Last(Worker.chain) = Journal.receipt
    BY <1>3, Typed, FrontOfAppend DEF JournalRecords
<1> QED BY <1>1, <1>2, <1>4 DEF SameTransaction, Transaction

LEMMA StepBegins ==
    ASSUME IInv, BeginPublish, BeginsNew
    PROVE  /\ Begins(disk, disk') /\ Commits
           /\ disk'.journal.stage = "PreparedAnchor"
<1>1. /\ pc = "idle" /\ PublicationInput /\ UNCHANGED elsewhere /\ kept = disk
      /\ fresh' = fresh + 1
      /\ CommitRecord("journal",
             PreparedAnchor(Transaction, StableHead(Journal), fresh'), "exchange")
    BY BeginCases DEF BeginsNew, Draw, CommitJournal, IInv, ProcessAgrees, Recovering
<1>2. Issuer.stage = "Issued"
    BY <1>1, ReplayIsKnown DEF BeginsNew
<1>3. Transaction = [prior |-> Issuer.prior, receipt |-> Issuer.receipt]
    BY <1>2 DEF Transaction
<1>4. Journal.stage \in {"None", "Published"}
    BY Typed DEF BeginsNew, Stable, JournalRecords
<1>5. Behind(Issuer, Worker)
  <2>1. CASE Journal.stage = "None"
      BY <2>1, Typed DEF Joined, Issuer, Worker, Journal
  <2>2. CASE Journal.stage = "Published"
    <3>1. ~SameReceipt(Issuer, Journal)
        BY <1>3, <2>2 DEF BeginsNew, SameTransaction, SameReceipt
    <3> QED BY <2>2, <3>1, Typed DEF Joined, Issuer, Worker, Journal, NoJournal
  <2> QED BY <1>4, <2>1, <2>2
<1> DEFINE next == PreparedAnchor(Transaction, StableHead(Journal), fresh')
<1>6. disk' = [disk EXCEPT !.journal = next] /\ kept' \in {disk, disk'}
    BY <1>1, CommitOutcomes
<1>7. next \in JournalRecords /\ next.stage = "PreparedAnchor" /\ next.nonce = fresh'
  <2>1. /\ Issuer.prior \in Chains /\ Issuer.receipt \in Nat
        /\ StableHead(Journal) \in Chains /\ fresh' \in Nat
      BY <1>1, Typed, JournalCommits DEF IssuerRecords
  <2> QED BY <1>3, <2>1, Typed, JournalCommits
<1>8. Begins(disk, disk')
  <2>1. fresh' \in Nat
      BY <1>1, Typed
  <2> QED BY <1>2, <1>3, <1>4, <1>5, <1>6, <2>1
          DEF Begins, Issuer, Worker, Journal
<1> HIDE DEF next
<1>9. /\ disk'.journal = next /\ disk'.issuer = disk.issuer
      /\ disk'.worker = disk.worker
    BY <1>6, <1>7, Typed, ReplaceRecord
<1>10. Drawn(disk', fresh') /\ Anchored(disk', observed)
  <2>1. Drawn(disk, fresh) /\ Anchored(disk, observed)
      BY DEF IInv, DirectoriesSound, Directories
  <2> QED BY <1>1, <1>7, <1>9, <2>1, Typed DEF Drawn, Anchored, IssuerRecords, Issuer
<1> QED BY <1>1, <1>6, <1>7, <1>8, <1>9, <1>10 DEF Commits, Moves

LEMMA StepObserves ==
    ASSUME IInv, RecordObservation
    PROVE  /\ Observes(disk, disk') /\ Commits
           /\ disk'.journal.stage = "AnchorCommitted"
           /\ SameReceipt(disk'.issuer, disk'.journal)
<1>1. /\ Journal.stage = "PreparedAnchor" /\ UNCHANGED <<fresh, elsewhere>>
      /\ Append(Journal.head, Journal.receipt) \in observed
      /\ CommitRecord("journal", Observed(Journal, "Proposed"), "commit_worker")
      /\ kept = disk
    BY DEF RecordObservation, CommitJournal, IInv, ProcessAgrees, Recovering
<1>2. /\ disk' = [disk EXCEPT !.journal = Observed(Journal, "Proposed")]
      /\ kept' \in {disk, disk'}
    BY <1>1, CommitOutcomes
<1>3. Observes(disk, disk')
    BY <1>1, <1>2 DEF Observes, Journal
<1>4. /\ disk'.issuer = disk.issuer /\ disk'.worker = disk.worker
      /\ disk'.journal \in JournalRecords
      /\ disk'.journal.stage = "AnchorCommitted"
      /\ disk'.journal.prior = Journal.prior
      /\ disk'.journal.head = Journal.head /\ disk'.journal.receipt = Journal.receipt
      /\ disk'.journal.nonce = Journal.nonce
    BY <1>2, Typed, ReplaceRecord, JournalCommits
<1>5. WorkerRecord(disk'.journal).head \in observed
    BY <1>1, <1>4 DEF WorkerRecord
<1>6. SameReceipt(Issuer, Journal)
    BY <1>1, Typed DEF Joined, Issuer, Journal, NoJournal
<1>7. Drawn(disk', fresh') /\ Anchored(disk', observed)
    BY <1>1, <1>4, <1>5
       DEF IInv, DirectoriesSound, Directories, Drawn, Anchored, Journal
<1>8. SameReceipt(disk'.issuer, disk'.journal)
    BY <1>4, <1>6 DEF SameReceipt, Issuer, Journal
<1> QED BY <1>1, <1>2, <1>3, <1>4, <1>7, <1>8 DEF Commits, Moves

LEMMA StepCarries ==
    ASSUME IInv, CommitWorker, Journal.stage = "AnchorCommitted",
           Worker # WorkerRecord(Journal)
    PROVE  /\ Carries(disk, disk') /\ Commits
           /\ disk'.worker = WorkerRecord(Journal)
           /\ disk'.issuer = disk.issuer /\ disk'.journal = disk.journal
<1>1. /\ Journal.prior = Worker.chain /\ UNCHANGED <<fresh, elsewhere>>
      /\ CommitRecord("worker", WorkerRecord(Journal), "publish_journal")
      /\ kept = disk
    BY DEF CommitWorker, IInv, ProcessAgrees, Recovering
<1>2. /\ disk' = [disk EXCEPT !.worker = WorkerRecord(Journal)]
      /\ kept' \in {disk, disk'}
    BY <1>1, CommitOutcomes
<1>3. Carries(disk, disk')
    BY <1>1, <1>2 DEF Carries, Journal, Worker
<1>4. /\ disk'.worker = WorkerRecord(Journal)
      /\ disk'.issuer = disk.issuer /\ disk'.journal = disk.journal
    BY <1>2, Typed, ReplaceRecord, JournalCommits
<1>5. Drawn(disk', fresh') /\ Anchored(disk', observed)
    BY <1>1, <1>4
       DEF IInv, DirectoriesSound, Directories, Drawn, Anchored, Signed, Journal
<1> QED BY <1>1, <1>2, <1>3, <1>4, <1>5 DEF Commits, Moves

LEMMA StepPublishes ==
    ASSUME IInv, PublishJournal
    PROVE  /\ Publishes(disk, disk') /\ Commits
           /\ disk'.issuer = disk.issuer /\ disk'.worker = disk.worker
           /\ disk'.journal.stage = "Published"
           /\ disk'.journal.prior = Journal.prior
           /\ disk'.journal.receipt = Journal.receipt
<1>1. /\ Journal.stage = "AnchorCommitted" /\ Worker = WorkerRecord(Journal)
      /\ UNCHANGED <<fresh, elsewhere>>
      /\ CommitRecord("journal", Published(Journal), "acknowledge")
      /\ kept = disk
    BY DEF PublishJournal, CommitJournal, IInv, ProcessAgrees, Recovering
<1>2. /\ disk' = [disk EXCEPT !.journal = Published(Journal)]
      /\ kept' \in {disk, disk'}
    BY <1>1, CommitOutcomes
<1>3. Publishes(disk, disk')
    BY <1>1, <1>2 DEF Publishes, Journal, Worker
<1>4. /\ disk'.issuer = disk.issuer /\ disk'.worker = disk.worker
      /\ disk'.journal.stage = "Published" /\ disk'.journal.prior = Journal.prior
      /\ disk'.journal.head = Journal.head /\ disk'.journal.receipt = Journal.receipt
      /\ disk'.journal.nonce = Journal.nonce
    BY <1>2, Typed, ReplaceRecord, JournalCommits
<1>5. WorkerRecord(disk'.journal) = WorkerRecord(Journal)
    BY <1>4 DEF WorkerRecord
<1>6. Drawn(disk', fresh') /\ Anchored(disk', observed)
    BY <1>1, <1>4, <1>5
       DEF IInv, DirectoriesSound, Directories, Drawn, Anchored, Journal
<1> QED BY <1>1, <1>2, <1>3, <1>4, <1>6 DEF Commits, Moves

LEMMA StepAcknowledges ==
    ASSUME IInv, AcknowledgePublished, Issuer.stage = "Issued"
    PROVE  /\ Acknowledges(disk, disk') /\ Commits
           /\ disk'.worker = disk.worker /\ disk'.journal = disk.journal
           /\ disk'.issuer.stage = "Ready" /\ Behind(disk'.issuer, disk'.worker)
<1>1. /\ Journal.stage = "Published" /\ SameReceipt(Issuer, Journal)
      /\ UNCHANGED <<fresh, elsewhere>>
      /\ CommitRecord("issuer", Acknowledged(Issuer, Worker), "respond")
      /\ kept = disk
    BY DEF AcknowledgePublished, CommitIssuer, IInv, ProcessAgrees, Recovering
<1>2. /\ disk' = [disk EXCEPT !.issuer = Acknowledged(Issuer, Worker)]
      /\ kept' \in {disk, disk'}
    BY <1>1, CommitOutcomes
<1>3. Acknowledges(disk, disk')
    BY <1>1, <1>2 DEF Acknowledges, Issuer, Journal, Worker
<1>4. /\ disk'.worker = disk.worker /\ disk'.journal = disk.journal
      /\ disk'.issuer.stage = "Ready" /\ disk'.issuer.receipt = 0
      /\ disk'.issuer.prior = Append(Issuer.prior, Issuer.receipt)
      /\ disk'.issuer.ack = Worker.nonce
  <2> DEFINE next == Acknowledged(Issuer, Worker)
  <2>1. /\ next \in IssuerRecords /\ next.stage = "Ready" /\ next.receipt = 0
        /\ next.prior = Append(Issuer.prior, Issuer.receipt)
        /\ next.ack = Worker.nonce
    <3>1. Issuer \in IssuerRecords /\ Worker \in WorkerRecords
        BY Typed
    <3> QED BY <3>1, IssuerCommits
  <2>2. disk' = [disk EXCEPT !.issuer = next]
      BY <1>2
  <2> HIDE DEF next
  <2>3. /\ disk'.issuer = next
        /\ disk'.worker = disk.worker /\ disk'.journal = disk.journal
    <3>1. disk \in Journals
        BY Typed
    <3> QED BY <2>1, <2>2, <3>1, ReplaceRecord
  <2> QED BY <2>1, <2>3
<1>5. Worker.chain = Append(Journal.prior, Journal.receipt)
  <2>1. Worker = WorkerRecord(Journal)
      BY <1>1, Typed DEF Joined, Worker, Journal, NoJournal
  <2> QED BY <2>1, Typed, JournalCommits
<1>6. Behind(disk'.issuer, disk'.worker)
    BY <1>1, <1>4, <1>5 DEF Behind, SameReceipt, Worker
<1>7. Drawn(disk', fresh') /\ Anchored(disk', observed)
  <2>1. Drawn(disk, fresh) /\ Anchored(disk, observed)
      BY DEF IInv, DirectoriesSound, Directories
  <2> QED BY <1>1, <1>4, <2>1, Typed DEF Drawn, Anchored
<1> QED BY <1>1, <1>2, <1>3, <1>4, <1>6, <1>7 DEF Commits, Moves

LEMMA StepRecovers ==
    ASSUME IInv, Recover
    PROVE  /\ Stays \/ Commits \/ Settles
           /\ fresh' = fresh /\ UNCHANGED elsewhere
           /\ \/ pc' = "down" /\ audit' = NoAudit
              \/ /\ pc' = "recover_worker" /\ audit' = audit
                 /\ kept'.issuer = disk'.issuer /\ disk'.issuer.stage # "None"
              \/ /\ pc' = "recover_journal" /\ audit' = audit
                 /\ kept'.issuer = disk'.issuer /\ disk'.issuer.stage # "None"
                 /\ kept'.worker = disk'.worker
              \/ /\ pc' = "idle" /\ audit' = audit
                 /\ kept' = disk' /\ disk'.issuer.stage # "None"
<1>0. disk \in Journals /\ kept \in Journals /\ OneRecordLags
    BY Typed
<1>1. CASE RecoverIssuer /\ Issuer = NoIssuer
  <2>1. kept = disk
    <3>1. disk.issuer.stage = "None" /\ disk.journal.stage = "None"
        BY <1>1, Typed DEF Issuer, Joined, NoIssuer, NoJournal
    <3>2. ASSUME Moves(kept, disk) PROVE FALSE
      <4>1. kept.journal \in JournalRecords /\ Genesis.stage = "Ready"
          BY <1>0, DirectoryFields DEF Genesis
      <4>2. ~Creates(kept, disk) /\ ~Prepares(kept, disk) /\ ~Issues(kept, disk)
          BY <1>0, <3>1, <4>1, MoveFields
      <4>3. ~Begins(kept, disk) /\ ~Observes(kept, disk) /\ ~Publishes(kept, disk)
          BY <1>0, <3>1, MoveFields
      <4>4. ~Carries(kept, disk)
          BY <1>0, <3>1, MoveFields DEF Carries
      <4>5. ~Acknowledges(kept, disk)
          BY <1>0, <3>1, MoveFields
      <4> QED BY <3>2, <4>2, <4>3, <4>4, <4>5 DEF Moves
    <3> QED BY <1>0, <3>2 DEF OneRecordLags
  <2>2. CommitRecord("issuer", Genesis, "recover_worker")
        /\ UNCHANGED <<fresh, elsewhere>>
      BY <1>1 DEF RecoverIssuer
  <2>3. disk' = [disk EXCEPT !.issuer = Genesis] /\ kept' \in {disk, disk'}
      BY <2>1, <2>2, CommitOutcomes
  <2>4. /\ disk'.worker = disk.worker /\ disk'.journal = disk.journal
        /\ disk'.issuer = Genesis
      BY <1>0, <2>3, ReplaceRecord, EmptyRecords
  <2>5. Genesis.stage = "Ready" /\ Genesis.receipt = 0
      BY DEF Genesis, NoIssuer
  <2>6. Drawn(disk', fresh') /\ Anchored(disk', observed)
    <3>1. Drawn(disk, fresh) /\ Anchored(disk, observed)
        BY DEF IInv, DirectoriesSound, Directories
    <3> QED BY <2>2, <2>4, <2>5, <3>1, Typed DEF Drawn, Anchored
  <2>7. Commits
      BY <1>1, <2>1, <2>2, <2>3, <2>6 DEF Commits, Moves, Creates, Issuer
  <2> QED BY <2>1, <2>2, <2>4, <2>5, <2>7 DEF CommitRecord, GoTo, Gone
<1>2. ASSUME NEW name \in {"issuer", "worker", "journal"}, NEW step,
             CommitRecord(name, disk[name], step), UNCHANGED <<fresh, elsewhere>>
      PROVE  /\ Stays \/ Settles
             /\ disk' = disk
             /\ \/ pc' = "down" /\ audit' = NoAudit
                \/ /\ pc' = step /\ audit' = audit
                   /\ kept' = [kept EXCEPT ![name] = disk[name]]
                   /\ kept'[name] = disk[name]
  <2>1. /\ disk' = disk /\ kept' \in {kept, disk}
        /\ \/ pc' = "down" /\ audit' = NoAudit
           \/ /\ pc' = step /\ audit' = audit
              /\ kept' = [kept EXCEPT ![name] = disk[name]]
              /\ kept'[name] = disk[name]
      BY <1>0, <1>2, Recommit DEF CommitRecord, GoTo, Gone
  <2> QED BY <1>2, <2>1 DEF Stays, Settles, elsewhere, anchor, snapshots
<1>3. CASE RecoverIssuer /\ Issuer # NoIssuer
  <2>1. CommitRecord("issuer", disk["issuer"], "recover_worker")
        /\ UNCHANGED <<fresh, elsewhere>>
      BY <1>3 DEF RecoverIssuer, Issuer
  <2>2. disk.issuer.stage # "None"
      BY <1>3, Typed DEF Joined, Issuer
  <2> QED BY <1>2, <2>1, <2>2
<1>4. CASE RecoverWorker
  <2>1. CommitRecord("worker", disk["worker"], "recover_journal")
        /\ UNCHANGED <<fresh, elsewhere>>
      BY <1>4 DEF RecoverWorker, Worker
  <2>2. disk.issuer.stage # "None" /\ kept.issuer = disk.issuer
      BY <1>4 DEF RecoverWorker, IInv, ProcessAgrees, Issuer
  <2>3. kept' = [kept EXCEPT !.worker = disk["worker"]] => kept'.issuer = kept.issuer
      BY <1>0 DEF Journals
  <2> QED BY <1>2, <2>1, <2>2, <2>3
<1>5. CASE RecoverJournal
  <2>1. CommitRecord("journal", disk["journal"], "idle")
        /\ UNCHANGED <<fresh, elsewhere>>
      BY <1>5 DEF RecoverJournal, Journal
  <2>2. /\ disk.issuer.stage # "None" /\ kept.issuer = disk.issuer
        /\ kept.worker = disk.worker
      BY <1>5 DEF RecoverJournal, IInv, ProcessAgrees, Issuer
  <2>3. ASSUME kept' = [kept EXCEPT !.journal = disk.journal] PROVE kept' = disk
    <3>1. /\ kept' \in Journals /\ kept'.issuer = kept.issuer
          /\ kept'.worker = kept.worker /\ kept'.journal = disk.journal
        BY <1>0, <2>3, DirectoryFields, ReplaceRecord
    <3> QED BY <1>0, <2>2, <3>1, SameDirectory
  <2> QED BY <1>2, <2>1, <2>2, <2>3
<1> QED BY <1>1, <1>3, <1>4, <1>5 DEF Recover

LEMMA StepLosesPower ==
    ASSUME IInv, PowerLoss
    PROVE  Settles /\ pc' = "down" /\ audit' = NoAudit
<1>1. disk' \in {disk, kept}
    BY Typed, TwoPositions DEF PowerLoss
<1> QED BY <1>1 DEF PowerLoss, Settles, snapshots, Gone

LEMMA StepRestores ==
    ASSUME Restore
    PROVE  Settles
BY DEF Restore, Settles, anchor

(* The other steps of the process write no record. *)
Quiet ==
    \/ SendChallenge \/ ReceiveObservation \/ Attest \/ RefuseAttestation
    \/ RespondPublished
    \/ NewOccurrence \/ ReleaseReceipt \/ BeginVerify \/ EndSession \/ LoseAnchor
    \/ AnchorExchange \/ AnchorRefuses \/ AnchorCrash \/ AnchorInterrupted
    \/ Crash \/ Backup
    \/ BeginPublish /\ GoesOn
    \/ CommitWorker /\ ~(Journal.stage = "AnchorCommitted" /\ Worker # WorkerRecord(Journal))
    \/ AcknowledgePublished /\ Issuer.stage # "Issued"

Writing ==
    \/ PrepareChallenge \/ IssueReceipt
    \/ BeginPublish /\ BeginsNew
    \/ RecordObservation
    \/ CommitWorker /\ Journal.stage = "AnchorCommitted" /\ Worker # WorkerRecord(Journal)
    \/ PublishJournal
    \/ AcknowledgePublished /\ Issuer.stage = "Issued"

LEMMA StepKinds ==
    ASSUME Next
    PROVE  Recover \/ Quiet \/ Writing \/ PowerLoss \/ Restore
BY BeginCases DEF Next, Publish, Exchange, Quiet, Writing

LEMMA QuietStays ==
    ASSUME IInv, Quiet
    PROVE  /\ Stays
           /\ UNCHANGED anchor \/ AnchorExchange \/ AnchorInterrupted
           /\ fresh' \in {fresh, fresh + 1}
           /\ copy' \in {copy, disk}
<1> USE DEF elsewhere, channel, client, snapshots, session, NoCommit
<1>1. ASSUME SendChallenge \/ ReceiveObservation \/ Attest \/ RespondPublished
      PROVE  Stays /\ UNCHANGED <<anchor, fresh, copy>>
    BY <1>1 DEF SendChallenge, ReceiveObservation, Attest, RespondPublished, Stays
<1>2. ASSUME NewOccurrence \/ ReleaseReceipt \/ EndSession \/ LoseAnchor \/ Crash
             \/ RefuseAttestation
      PROVE  Stays /\ UNCHANGED <<anchor, fresh, copy>>
    BY <1>2 DEF NewOccurrence, ReleaseReceipt, EndSession, LoseAnchor, Crash,
                RefuseAttestation, Stays
<1>3. ASSUME BeginVerify
      PROVE  Stays /\ UNCHANGED <<anchor, copy>> /\ fresh' = fresh + 1
    BY <1>3 DEF BeginVerify, Stays, Draw
<1>4. ASSUME AnchorRefuses \/ AnchorCrash
      PROVE  Stays /\ UNCHANGED <<anchor, fresh, copy>>
    BY <1>4 DEF AnchorRefuses, AnchorCrash, AnchorGone, anchor, Stays
<1>5. ASSUME AnchorExchange \/ AnchorInterrupted
      PROVE  Stays /\ UNCHANGED <<fresh, copy>>
    BY <1>5 DEF AnchorExchange, AnchorInterrupted, AnchorGone, Stays
<1>6. ASSUME Backup
      PROVE  Stays /\ UNCHANGED <<anchor, fresh>> /\ copy' = disk
    BY <1>6 DEF Backup, Stays
<1>7. ASSUME BeginPublish /\ GoesOn
      PROVE  Stays /\ UNCHANGED <<anchor, fresh, copy>>
    BY <1>7, BeginCases DEF GoesOn, Stays
<1>8. ASSUME CommitWorker,
             ~(Journal.stage = "AnchorCommitted" /\ Worker # WorkerRecord(Journal))
      PROVE  Stays /\ UNCHANGED <<anchor, fresh, copy>>
    BY <1>8 DEF CommitWorker, Stays
<1>9. ASSUME AcknowledgePublished, Issuer.stage # "Issued"
      PROVE  Stays /\ UNCHANGED <<anchor, fresh, copy>>
    BY <1>9 DEF AcknowledgePublished, Stays
<1> QED BY <1>1, <1>2, <1>3, <1>4, <1>5, <1>6, <1>7, <1>8, <1>9 DEF Quiet

LEMMA WritingCommits ==
    ASSUME IInv, Writing
    PROVE  Commits
BY StepPrepares, StepIssues, StepBegins, StepObserves, StepCarries, StepPublishes,
   StepAcknowledges DEF Writing

(***************************************************************************)
(* Every step keeps the directories sound.                                 *)
(***************************************************************************)
LEMMA FirstRequest ==
    ASSUME IInv, requests # <<>>
    PROVE  /\ Head(requests) \in Challenges
           /\ Head(requests) = requests[1] /\ 1 \in 1..Len(requests)
           /\ Head(requests).receipt \in Nat /\ Head(requests).head \in Chains
           /\ Head(requests).nonce \in Nat
<1>1. requests \in Seq(Challenges)
    BY DEF IInv, TypeOK
<1>2. Len(requests) \in Nat \ {0}
    BY <1>1, EmptySeq
<1>3. Head(requests) = requests[1] /\ requests[1] \in Challenges
    BY <1>1, <1>2, ElementOfSeq
<1> QED BY <1>2, <1>3 DEF Challenges

(* What moves the anchor. *)
LEMMA AnchorKinds ==
    ASSUME IInv, [Next]_vars
    PROVE  \/ UNCHANGED anchor
           \/ AnchorExchange \/ AnchorInterrupted \/ PowerLoss
<1>1. CASE Recover
    BY <1>1, StepRecovers DEF elsewhere
<1>2. CASE Writing
    BY <1>2, WritingCommits DEF Commits, elsewhere
<1>3. CASE Restore
    BY <1>3 DEF Restore
<1>4. CASE UNCHANGED vars
    BY <1>4 DEF vars, elsewhere
<1> QED BY <1>1, <1>2, <1>3, <1>4, QuietStays, StepKinds

(* An exchange advances the anchor by the receipt of the first challenge,  *)
(* or answers from where it is, and signs for where it then is.            *)
LEMMA ExchangeMoves ==
    ASSUME IInv, AnchorExchange
    PROVE  /\ chain' \in {chain, Append(chain, Head(requests).receipt)}
           /\ chain' # chain =>
                 Head(requests).kind = "Advance" /\ chain = Head(requests).head
           /\ settled' \in {settled, chain'}
           /\ observed' \in {observed, observed \cup {chain'}}
           /\ forgot' = forgot
BY DEF AnchorExchange, AtPrior

LEMMA InterruptedMoves ==
    ASSUME IInv, AnchorInterrupted
    PROVE  /\ requests # <<>> /\ requests' = <<>>
           /\ Head(requests).kind = "Advance" /\ chain = Head(requests).head
           /\ chain' = Append(chain, Head(requests).receipt)
           /\ UNCHANGED <<settled, observed, forgot>>
BY DEF AnchorInterrupted, AnchorGone, AtPrior

(* A loss of power leaves a part of the chain. *)
LEMMA LossMoves ==
    ASSUME IInv, PowerLoss
    PROVE  /\ chain' \in Chains /\ IsPrefix(chain', chain) /\ settled' = chain'
           /\ observed' = observed /\ forgot' \in BOOLEAN
           /\ ~forgot' => ~forgot /\ \A o \in observed : IsPrefix(o, chain')
           /\ requests' = <<>>
<1>1. chain' \in Prefixes(chain)
    BY DEF PowerLoss
<1>2. /\ settled' = chain' /\ observed' = observed /\ requests' = <<>>
      /\ forgot' = (forgot \/ \E o \in observed : ~IsPrefix(o, chain'))
    BY DEF PowerLoss
<1>3. forgot' \in BOOLEAN
    BY <1>2, Zenon
<1>4. ~forgot' => ~forgot /\ \A o \in observed : IsPrefix(o, chain')
    BY <1>2, Zenon
<1> QED BY <1>1, <1>2, <1>3, <1>4, PrefixesOfChain, Typed

LEMMA ChainMoves ==
    ASSUME IInv, [Next]_vars
    PROVE  /\ chain' \in Chains
           /\ \/ chain' = chain
              \/ \E x \in Nat : chain' = Append(chain, x)
              \/ PowerLoss
<1>1. CASE UNCHANGED anchor
    BY <1>1, Typed DEF anchor
<1>2. CASE AnchorExchange \/ AnchorInterrupted
  <2>1. Head(requests).receipt \in Nat
      BY <1>2, FirstRequest DEF AnchorExchange, AnchorInterrupted
  <2>2. chain' \in {chain, Append(chain, Head(requests).receipt)}
      BY <1>2, ExchangeMoves, InterruptedMoves
  <2> QED BY <2>1, <2>2, AppendChain, Typed
<1>3. CASE PowerLoss
    BY <1>3, LossMoves
<1> QED BY <1>1, <1>2, <1>3, AnchorKinds

LEMMA FreshGrows ==
    ASSUME IInv, [Next]_vars
    PROVE  /\ fresh \in Nat /\ fresh' \in Nat /\ fresh <= fresh'
           /\ fresh' \in {fresh, fresh + 1}
<1>1. fresh' \in {fresh, fresh + 1}
  <2>1. CASE Recover
      BY <2>1, StepRecovers
  <2>2. CASE Writing
      BY <2>2, WritingCommits DEF Commits
  <2>3. CASE PowerLoss \/ Restore
      BY <2>3, StepLosesPower, StepRestores DEF Settles
  <2>4. CASE UNCHANGED vars
      BY <2>4 DEF vars
  <2> QED BY <2>1, <2>2, <2>3, <2>4, QuietStays, StepKinds
<1> QED BY <1>1, Typed

(* What the anchor signed stays signed. *)
LEMMA StaysSigned ==
    ASSUME IInv, [Next]_vars
    PROVE  observed \subseteq observed'
BY AnchorKinds, ExchangeMoves, InterruptedMoves, LossMoves DEF anchor

LEMMA LongerPrefix ==
    ASSUME IInv, [Next]_vars, ~PowerLoss, NEW s \in Chains, IsPrefix(s, chain)
    PROVE  IsPrefix(s, chain')
<1>1. CASE chain' = chain
    BY <1>1
<1>2. CASE \E x \in Nat : chain' = Append(chain, x)
    BY <1>2, PrefixOfAppend, Typed
<1> QED BY <1>1, <1>2, ChainMoves

LEMMA AnchorAgreesStep ==
    ASSUME IInv, [Next]_vars
    PROVE  /\ AnchorAgrees'
           /\ ~forgot' => ~forgot
           /\ settled' \in Chains /\ observed' \subseteq Chains
           /\ forgot' \in BOOLEAN
<1>0. /\ AnchorAgrees /\ settled \in Chains /\ observed \subseteq Chains
      /\ forgot \in BOOLEAN /\ chain' \in Chains
    BY ChainMoves DEF IInv, TypeOK
<1>1. CASE UNCHANGED anchor
    BY <1>0, <1>1 DEF anchor, AnchorAgrees
<1>2. CASE (AnchorExchange \/ AnchorInterrupted) /\ ~PowerLoss
  <2>1. /\ settled' \in {settled, chain'} /\ forgot' = forgot
        /\ observed' \in {observed, observed \cup {chain'}}
      BY <1>2, ExchangeMoves, InterruptedMoves
  <2>2. ~forgot => \A o \in observed : IsPrefix(o, chain')
      BY <1>0, <1>2, LongerPrefix DEF AnchorAgrees
  <2>3. IsPrefix(chain', chain')
      BY <1>0, PrefixOfAppend
  <2> QED BY <1>0, <2>1, <2>2, <2>3 DEF AnchorAgrees
<1>3. CASE PowerLoss
    BY <1>0, <1>3, LossMoves DEF AnchorAgrees
<1> QED BY <1>1, <1>2, <1>3, AnchorKinds

(* A directory that was sound stays so. *)
LEMMA StillSound ==
    ASSUME IInv, [Next]_vars, NEW d \in Directories
    PROVE  /\ d \in Journals /\ Joined(d) /\ HasReceipt(d.issuer)
           /\ Anchored(d, observed') /\ Drawn(d, fresh')
<1>1. /\ d \in Journals /\ Joined(d) /\ HasReceipt(d.issuer)
      /\ Anchored(d, observed) /\ Drawn(d, fresh)
    BY Typed DEF IInv, DirectoriesSound, Directories
<1>2. Anchored(d, observed')
    BY <1>1, StaysSigned DEF Anchored, Signed
<1>3. Drawn(d, fresh')
  <2>1. d.issuer.receipt \in Nat /\ d.journal.nonce \in Nat
      BY <1>1, DirectoryFields DEF IssuerRecords, JournalRecords
  <2> QED BY <1>1, <2>1, FreshGrows DEF Drawn
<1> QED BY <1>1, <1>2, <1>3

LEMMA NewSound ==
    ASSUME IInv, Commits
    PROVE  /\ disk' \in Journals /\ Joined(disk') /\ HasReceipt(disk'.issuer)
           /\ Anchored(disk', observed') /\ Drawn(disk', fresh')
<1>1. disk' \in Journals /\ Joined(disk') /\ HasReceipt(disk'.issuer)
    BY Typed, MoveJoins DEF Commits
<1> QED BY <1>1 DEF Commits, elsewhere, anchor

LEMMA DirectoryStep ==
    ASSUME IInv, [Next]_vars
    PROVE  /\ disk' \in Journals /\ kept' \in Journals /\ copy' \in Journals
           /\ DirectoriesSound' /\ OneRecordLags'
<1>1. ASSUME \A d \in {disk', kept', copy'} : d \in Directories \/ (Commits /\ d = disk')
      PROVE  /\ disk' \in Journals /\ kept' \in Journals /\ copy' \in Journals
             /\ DirectoriesSound'
    BY <1>1, StillSound, NewSound DEF DirectoriesSound, Directories
<1>2. ASSUME Stays, copy' \in {copy, disk}
      PROVE  /\ \A d \in {disk', kept', copy'} : d \in Directories
             /\ OneRecordLags'
    BY <1>2 DEF Stays, Directories, OneRecordLags, IInv
<1>3. ASSUME Commits
      PROVE  /\ \A d \in {disk', kept', copy'} : d \in Directories \/ d = disk'
             /\ OneRecordLags'
    BY <1>3 DEF Commits, Directories, OneRecordLags, elsewhere, snapshots
<1>4. ASSUME Settles
      PROVE  /\ \A d \in {disk', kept', copy'} : d \in Directories
             /\ OneRecordLags'
    BY <1>4 DEF Settles, Directories, OneRecordLags
<1>5. \/ Stays /\ copy' \in {copy, disk}
      \/ Commits
      \/ Settles
  <2>1. CASE Recover
      BY <2>1, StepRecovers DEF elsewhere, snapshots
  <2>2. CASE UNCHANGED vars
      BY <2>2 DEF vars, elsewhere, snapshots, Stays
  <2> QED BY <2>1, <2>2, StepKinds, QuietStays, WritingCommits, StepLosesPower,
             StepRestores
<1>6. \A d \in {disk', kept', copy'} : d \in Directories \/ (Commits /\ d = disk')
    BY <1>2, <1>3, <1>4, <1>5
<1>7. OneRecordLags'
    BY <1>2, <1>3, <1>4, <1>5
<1> QED BY <1>1, <1>6, <1>7

(***************************************************************************)
(* Types of the rest of the state.                                         *)
(***************************************************************************)
Observations == [challenge: Challenges, position: {"Prior", "Proposed"}]

SessionTyped ==
    /\ pc \in Steps /\ audit \in [nonce: Nat, since: Chains]
    /\ position \in {"None", "Prior", "Proposed"} /\ connected \in BOOLEAN
ChannelTyped == requests \in Seq(Challenges) /\ answers \in Seq(Observations)
ClientTyped ==
    /\ released \subseteq [prior: Chains, receipt: Nat]
    /\ acknowledged \in Chains
    /\ attested \in [chain: Chains, since: Chains]
CountersTyped ==
    occurrence \in Nat /\ restores \in 0..MaxRestores /\ faults \in 0..MaxFaults

LEMMA GoneTyped ==
    ASSUME Gone
    PROVE  SessionTyped'
BY EmptySeq DEF Gone, SessionTyped, NoAudit, Steps, Chains

LEMMA CommitSession ==
    ASSUME SessionTyped, CountersTyped, NEW name, NEW record, NEW step \in Steps,
           CommitRecord(name, record, step)
    PROVE  SessionTyped' /\ faults' \in 0..MaxFaults
<1>1. CASE GoTo(step) /\ UNCHANGED faults
    BY <1>1 DEF GoTo, SessionTyped, CountersTyped
<1>2. CASE Gone /\ Fault
    BY <1>2, GoneTyped, PublicationAssumption DEF Fault, CountersTyped
<1> QED BY <1>1, <1>2 DEF CommitRecord

LEMMA RecoverTyped ==
    ASSUME IInv, Recover
    PROVE  SessionTyped' /\ faults' \in 0..MaxFaults
<1>0. SessionTyped /\ CountersTyped
    BY DEF IInv, TypeOK, SessionTyped, CountersTyped
<1>1. {"recover_worker", "recover_journal", "idle"} \subseteq Steps
    BY DEF Steps
<1> QED BY <1>0, <1>1, CommitSession
        DEF Recover, RecoverIssuer, RecoverWorker, RecoverJournal

LEMMA WritingTyped ==
    ASSUME IInv, Writing
    PROVE  SessionTyped' /\ faults' \in 0..MaxFaults
<1>0. SessionTyped /\ CountersTyped
    BY DEF IInv, TypeOK, SessionTyped, CountersTyped
<1>1. {"idle", "exchange", "commit_worker", "publish_journal", "acknowledge",
       "respond"} \subseteq Steps
    BY DEF Steps
<1>2. CASE PrepareChallenge \/ IssueReceipt
    BY <1>0, <1>1, <1>2, CommitSession
       DEF PrepareChallenge, IssueReceipt, CommitIssuer
<1>3. CASE BeginPublish /\ BeginsNew
    BY <1>0, <1>1, <1>3, CommitSession DEF BeginsNew, CommitJournal
<1>4. CASE RecordObservation \/ PublishJournal
    BY <1>0, <1>1, <1>4, CommitSession
       DEF RecordObservation, PublishJournal, CommitJournal
<1>5. CASE CommitWorker /\ Journal.stage = "AnchorCommitted"
           /\ Worker # WorkerRecord(Journal)
    BY <1>0, <1>1, <1>5, CommitSession DEF CommitWorker
<1>6. CASE AcknowledgePublished /\ Issuer.stage = "Issued"
    BY <1>0, <1>1, <1>6, CommitSession DEF AcknowledgePublished, CommitIssuer
<1> QED BY <1>2, <1>3, <1>4, <1>5, <1>6 DEF Writing

(* The answer that is taken from the queue. *)
LEMMA FirstAnswer ==
    ASSUME IInv, answers # <<>>
    PROVE  /\ Head(answers) \in Observations /\ Head(answers) = answers[1]
           /\ Agrees(Head(answers), fresh, observed, audit)
           /\ Tail(answers) \in Seq(Observations)
           /\ \A k \in 1..Len(Tail(answers)) :
                 k + 1 \in 1..Len(answers) /\ Tail(answers)[k] = answers[k + 1]
<1>1. answers \in Seq(Observations)
    BY DEF IInv, TypeOK, Observations
<1>2. Len(answers) \in Nat \ {0} /\ 1 \in 1..Len(answers)
    BY <1>1, EmptySeq
<1>3. Head(answers) = answers[1] /\ answers[1] \in Observations
    BY <1>1, <1>2, ElementOfSeq
<1>4. /\ Tail(answers) \in Seq(Observations) /\ Len(Tail(answers)) = Len(answers) - 1
      /\ \A k \in 1..Len(Tail(answers)) : Tail(answers)[k] = answers[k + 1]
    BY <1>1, HeadTailProperties
<1>5. Agrees(Head(answers), fresh, observed, audit)
    BY <1>2, <1>3 DEF IInv, AnswersAgree
<1> QED BY <1>2, <1>3, <1>4, <1>5

LEMMA QuietTyped ==
    ASSUME IInv, Quiet
    PROVE  SessionTyped' /\ faults' \in 0..MaxFaults
<1>0. SessionTyped /\ CountersTyped /\ fresh \in Nat /\ chain \in Chains
    BY DEF IInv, TypeOK, SessionTyped, CountersTyped
<1> USE DEF session, NoCommit
<1>1. CASE SendChallenge
    BY <1>0, <1>1 DEF SendChallenge, GoTo, SessionTyped, CountersTyped, Steps
<1>2. CASE ReceiveObservation
  <2>1. Head(answers).position \in {"Prior", "Proposed"}
      BY <1>2, FirstAnswer DEF ReceiveObservation, Observations
  <2>2. faults' \in 0..MaxFaults
      BY <1>0, <1>2 DEF ReceiveObservation, CountersTyped
  <2>3. CASE Gone
      BY <2>2, <2>3, GoneTyped
  <2>4. CASE /\ position' = Head(answers).position
             /\ pc' = (IF audit = NoAudit THEN "record" ELSE "attest")
             /\ UNCHANGED <<audit, connected>>
      BY <1>0, <2>1, <2>2, <2>4 DEF SessionTyped, Steps
  <2> QED BY <1>2, <2>3, <2>4 DEF ReceiveObservation
<1>3. CASE Attest \/ RefuseAttestation \/ RespondPublished \/ EndSession
           \/ LoseAnchor
    BY <1>0, <1>3, GoneTyped
       DEF Attest, RefuseAttestation, RespondPublished, EndSession, LoseAnchor,
           CountersTyped
<1>4. CASE NewOccurrence \/ ReleaseReceipt \/ Backup \/ AnchorExchange
    BY <1>0, <1>4
       DEF NewOccurrence, ReleaseReceipt, Backup, AnchorExchange, SessionTyped,
           CountersTyped
<1>5. CASE BeginVerify
  <2>1. fresh' \in Nat
      BY <1>0, <1>5 DEF BeginVerify, Draw
  <2> QED BY <1>0, <1>5, <2>1 DEF BeginVerify, SessionTyped, CountersTyped, Steps
<1>6. CASE AnchorRefuses \/ AnchorCrash \/ AnchorInterrupted
  <2>1. faults' \in 0..MaxFaults
      BY <1>0, <1>6, PublicationAssumption
         DEF AnchorRefuses, AnchorCrash, AnchorInterrupted, Fault, CountersTyped
  <2>2. UNCHANGED <<pc, audit, position>> /\ connected' \in BOOLEAN
      BY <1>6 DEF AnchorRefuses, AnchorCrash, AnchorInterrupted, AnchorGone
  <2> QED BY <1>0, <2>1, <2>2 DEF SessionTyped
<1>7. CASE Crash
    BY <1>0, <1>7, GoneTyped, PublicationAssumption DEF Crash, Fault, CountersTyped
<1>8. CASE BeginPublish /\ GoesOn
    BY <1>0, <1>8 DEF GoesOn, GoTo, SessionTyped, CountersTyped, Steps
<1>9. CASE CommitWorker
           /\ ~(Journal.stage = "AnchorCommitted" /\ Worker # WorkerRecord(Journal))
    BY <1>0, <1>9 DEF CommitWorker, GoTo, SessionTyped, CountersTyped, Steps
<1>10. CASE AcknowledgePublished /\ Issuer.stage # "Issued"
    BY <1>0, <1>10 DEF AcknowledgePublished, GoTo, SessionTyped, CountersTyped, Steps
<1> QED BY <1>1, <1>2, <1>3, <1>4, <1>5, <1>6, <1>7, <1>8, <1>9, <1>10 DEF Quiet

(* What a step does to the queues. *)
LEMMA ChannelKinds ==
    ASSUME IInv, [Next]_vars
    PROVE  \/ UNCHANGED channel
           \/ SendChallenge \/ ReceiveObservation \/ AnchorExchange
           \/ requests' = <<>> /\ answers' = <<>>
<1> USE DEF elsewhere
<1>1. CASE Recover
    BY <1>1, StepRecovers
<1>2. CASE Writing
    BY <1>2, WritingCommits DEF Commits
<1>3. CASE PowerLoss \/ Restore
    BY <1>3 DEF PowerLoss, Restore
<1>4. CASE UNCHANGED vars
    BY <1>4 DEF vars
<1>5. CASE Attest \/ RefuseAttestation \/ RespondPublished \/ NewOccurrence
           \/ ReleaseReceipt \/ BeginVerify \/ EndSession \/ LoseAnchor
    BY <1>5 DEF Attest, RefuseAttestation, RespondPublished, NewOccurrence,
                ReleaseReceipt, BeginVerify, EndSession, LoseAnchor
<1>6. CASE AnchorRefuses \/ AnchorCrash \/ AnchorInterrupted \/ Crash \/ Backup
    BY <1>6 DEF AnchorRefuses, AnchorCrash, AnchorInterrupted, AnchorGone, Crash,
                Backup
<1>7. CASE BeginPublish
    BY <1>7, BeginCases
<1>8. CASE CommitWorker \/ AcknowledgePublished
    BY <1>8 DEF CommitWorker, AcknowledgePublished
<1> QED BY <1>1, <1>2, <1>3, <1>4, <1>5, <1>6, <1>7, <1>8, StepKinds DEF Quiet

LEMMA WorkerNotEmpty ==
    ASSUME IInv, Worker # NoWorker
    PROVE  /\ Worker.head \in Chains /\ Worker.head = Worker.chain
           /\ Worker.head # <<>>
BY Typed DEF Joined, Worker, WorkerRecords

LEMMA ChallengeTyped ==
    ASSUME IInv
    PROVE  /\ Challenge \in Challenges /\ Challenge.nonce <= fresh
           /\ audit # NoAudit =>
                 Append(Challenge.head, Challenge.receipt) = Worker.head
<1>1. CASE audit = NoAudit
  <2>1. Journal \in JournalRecords /\ Journal.nonce <= fresh
      BY Typed DEF IInv, DirectoriesSound, Directories, Drawn, Journal
  <2> QED BY <1>1, <2>1 DEF Challenge, Challenges, JournalRecords
<1>2. CASE audit # NoAudit
  <2>1. Worker # NoWorker /\ audit.nonce <= fresh /\ audit.nonce \in Nat
      BY <1>2 DEF IInv, AuditAgrees, TypeOK
  <2>2. /\ Front(Worker.head) \in Chains /\ Last(Worker.head) \in Nat
        /\ Append(Front(Worker.head), Last(Worker.head)) = Worker.head
      BY <2>1, WorkerNotEmpty, FrontAndLast
  <2> QED BY <1>2, <2>1, <2>2 DEF Challenge, Challenges
<1> QED BY <1>1, <1>2

(* The observation an exchange appends. *)
Answered ==
    [challenge |-> Head(requests),
     position |-> IF Head(requests).kind = "Recover" /\ AtPrior(Head(requests))
                  THEN "Prior" ELSE "Proposed"]

LEMMA ExchangeFacts ==
    ASSUME IInv, AnchorExchange
    PROVE  /\ requests # <<>> /\ Answered \in Observations
           /\ requests' = Tail(requests) /\ answers' = Append(answers, Answered)
           /\ Answered.challenge = Head(requests)
           /\ Answered.position = "Proposed" =>
                 /\ chain' = Append(Head(requests).head, Head(requests).receipt)
                 /\ chain' \in observed'
           /\ Answered.position = "Prior" => Head(requests).kind = "Recover"
           /\ Answered.position \in {"Prior", "Proposed"}
           /\ audit' = audit /\ fresh' = fresh
<1>1. requests # <<>>
    BY DEF AnchorExchange
<1>2. Head(requests) \in Challenges
    BY <1>1, FirstRequest
<1>3. /\ requests' = Tail(requests) /\ answers' = Append(answers, Answered)
      /\ audit' = audit /\ fresh' = fresh
    BY DEF AnchorExchange, Answered, session
<1>4. Answered.position = "Proposed" =>
        /\ chain' = Append(Head(requests).head, Head(requests).receipt)
        /\ chain' \in observed'
    BY <1>2 DEF AnchorExchange, Answered, AtPrior, AtProposed, Challenges
<1>5. /\ Answered.challenge = Head(requests)
      /\ Answered.position \in {"Prior", "Proposed"}
      /\ Answered.position = "Prior" => Head(requests).kind = "Recover"
    BY DEF Answered
<1>6. Answered \in Observations
    BY <1>2 DEF Answered, Observations
<1> QED BY <1>1, <1>3, <1>4, <1>5, <1>6

LEMMA ChannelTypes ==
    ASSUME IInv, [Next]_vars
    PROVE  ChannelTyped'
<1>0. requests \in Seq(Challenges) /\ answers \in Seq(Observations)
    BY DEF IInv, TypeOK, Observations
<1>1. CASE SendChallenge
  <2>1. requests' = Append(requests, Challenge) /\ answers' = answers
      BY <1>1 DEF SendChallenge
  <2> QED BY <1>0, <2>1, ChallengeTyped, AppendProperties DEF ChannelTyped
<1>2. CASE ReceiveObservation
  <2>1. Tail(answers) \in Seq(Observations) /\ requests' = requests
      BY <1>2, FirstAnswer DEF ReceiveObservation
  <2>2. CASE answers' \in {<<>>, Tail(answers)}
      BY <1>0, <2>1, <2>2, EmptySeq DEF ChannelTyped
  <2>3. CASE Len(answers) > 1 /\ answers' = Tail(Tail(answers))
    <3>1. Tail(answers) # <<>>
      <4>1. answers # <<>> /\ Len(answers) \in Nat
          BY <1>0, <1>2, LenProperties DEF ReceiveObservation
      <4>2. Len(Tail(answers)) = Len(answers) - 1
          BY <1>0, <4>1, HeadTailProperties
      <4> QED BY <2>3, <4>1, <4>2
    <3>2. Tail(Tail(answers)) \in Seq(Observations)
        BY <2>1, <3>1, HeadTailProperties
    <3> QED BY <1>0, <2>1, <2>3, <3>2 DEF ChannelTyped
  <2> QED BY <1>2, <2>2, <2>3 DEF ReceiveObservation
<1>3. CASE AnchorExchange
  <2>1. Tail(requests) \in Seq(Challenges) /\ Append(answers, Answered) \in Seq(Observations)
      BY <1>0, <1>3, ExchangeFacts, HeadTailProperties, AppendProperties
  <2> QED BY <1>3, <2>1, ExchangeFacts DEF ChannelTyped
<1>4. CASE UNCHANGED channel
    BY <1>0, <1>4 DEF channel, ChannelTyped
<1>5. CASE requests' = <<>> /\ answers' = <<>>
    BY <1>5, EmptySeq DEF ChannelTyped
<1> QED BY <1>1, <1>2, <1>3, <1>4, <1>5, ChannelKinds

LEMMA ClientTypes ==
    ASSUME IInv, [Next]_vars
    PROVE  ClientTyped' /\ occurrence' \in Nat /\ restores' \in 0..MaxRestores
<1>0. /\ ClientTyped /\ occurrence \in Nat /\ restores \in 0..MaxRestores
    BY DEF IInv, TypeOK, ClientTyped
<1> USE DEF elsewhere, snapshots, client
<1>1. CASE UNCHANGED elsewhere
    BY <1>0, <1>1 DEF ClientTyped
<1>2. CASE PowerLoss
    BY <1>0, <1>2 DEF PowerLoss, ClientTyped
<1>3. CASE Restore
    BY <1>0, <1>3, PublicationAssumption DEF Restore, ClientTyped
<1>4. CASE SendChallenge \/ ReceiveObservation \/ AnchorExchange
    BY <1>0, <1>4 DEF SendChallenge, ReceiveObservation, AnchorExchange, ClientTyped
<1>5. CASE AnchorRefuses \/ AnchorCrash \/ AnchorInterrupted \/ Backup
    BY <1>0, <1>5
       DEF AnchorRefuses, AnchorCrash, AnchorInterrupted, AnchorGone, Backup,
           ClientTyped
<1>6. CASE NewOccurrence
    BY <1>0, <1>6 DEF NewOccurrence, ClientTyped
<1>7. CASE ReleaseReceipt
  <2>1. Issuer.prior \in Chains /\ Issuer.receipt \in Nat
      BY Typed DEF IssuerRecords
  <2> QED BY <1>0, <1>7, <2>1 DEF ReleaseReceipt, ClientTyped
<1>8. CASE Attest
  <2>1. Worker.chain \in Chains /\ audit.since \in Chains
      BY Typed DEF WorkerRecords, IInv, TypeOK
  <2> QED BY <1>0, <1>8, <2>1 DEF Attest, ClientTyped
<1>9. CASE RespondPublished
  <2>1. Worker.chain \in Chains
      BY Typed DEF WorkerRecords
  <2> QED BY <1>0, <1>9, <2>1 DEF RespondPublished, ClientTyped
<1>10. ASSUME Recover \/ Writing \/ UNCHANGED vars PROVE UNCHANGED elsewhere
    BY <1>10, StepRecovers, WritingCommits DEF Commits, vars
<1>11. ASSUME BeginVerify \/ EndSession \/ LoseAnchor \/ Crash \/ BeginPublish
              \/ RefuseAttestation \/ CommitWorker \/ AcknowledgePublished
       PROVE  UNCHANGED elsewhere
    BY <1>11, BeginCases
       DEF BeginVerify, EndSession, LoseAnchor, Crash, RefuseAttestation,
           CommitWorker, AcknowledgePublished
<1> QED BY <1>1, <1>2, <1>3, <1>4, <1>5, <1>6, <1>7, <1>8, <1>9, <1>10, <1>11,
           StepKinds DEF Quiet

LEMMA TypeStep ==
    ASSUME IInv, [Next]_vars
    PROVE  TypeOK'
<1>1. SessionTyped' /\ faults' \in 0..MaxFaults
  <2>1. CASE PowerLoss
      BY <2>1, GoneTyped, PublicationAssumption, SMTT(30) DEF PowerLoss, Fault, IInv, TypeOK
  <2>2. CASE Restore \/ UNCHANGED vars
      BY <2>2 DEF Restore, vars, session, SessionTyped, IInv, TypeOK
  <2> QED BY <2>1, <2>2, StepKinds, RecoverTyped, WritingTyped, QuietTyped
<1>2. \A d \in {disk', kept'} : HasReceipt(d.issuer)
    BY DirectoryStep DEF DirectoriesSound, Directories
<1> QED BY <1>1, <1>2, ChannelTypes, ClientTypes, DirectoryStep, ChainMoves,
           FreshGrows, AnchorAgreesStep
        DEF TypeOK, SessionTyped, ChannelTyped, Observations, ClientTyped, HasReceipt

(***************************************************************************)
(* Every step keeps what the process relies on.                            *)
(***************************************************************************)
LEMMA GoneAgrees ==
    ASSUME pc' = "down", audit' = NoAudit
    PROVE  ProcessAgrees'
BY DEF ProcessAgrees, Recovering, Exchanging

(* Steps of the anchor and of the environment, while the process stands.   *)
LEMMA StandingAgrees ==
    ASSUME IInv, [Next]_vars, Stays, UNCHANGED <<pc, audit, position>>
    PROVE  ProcessAgrees'
<1>1. ProcessAgrees /\ disk' = disk /\ kept' = kept
    BY DEF IInv, Stays
<1>2. pc = "record" => Append(Journal.head, Journal.receipt) \in observed'
    BY <1>1, StaysSigned DEF ProcessAgrees
<1> QED BY <1>1, <1>2 DEF ProcessAgrees, Issuer, Worker, Journal

(* The next step, with its record durable, or the end of the process.      *)
LEMMA CommitLands ==
    ASSUME kept = disk, NEW name, NEW record, NEW step, CommitRecord(name, record, step)
    PROVE  \/ pc' = "down" /\ audit' = NoAudit
           \/ pc' = step /\ audit' = audit /\ kept' = disk'
BY DEF CommitRecord, GoTo, Gone

LEMMA WritingAgrees ==
    ASSUME IInv, Writing
    PROVE  ProcessAgrees' /\ audit' = NoAudit
<1>0. /\ kept = disk /\ audit = NoAudit /\ ProcessAgrees
      /\ Issuer.stage # "None"
    BY DEF IInv, ProcessAgrees, Writing, PrepareChallenge, IssueReceipt, BeginPublish,
           RecordObservation, CommitWorker, PublishJournal, AcknowledgePublished,
           Recovering, Exchanging
<1>1. ASSUME NEW step, pc' = step, audit' = audit, kept' = disk',
             disk'.issuer.stage # "None",
             \/ step = "idle"
             \/ step = "exchange" /\ disk'.journal.stage = "PreparedAnchor"
             \/ /\ step = "commit_worker" /\ disk'.journal.stage = "AnchorCommitted"
                /\ SameReceipt(disk'.issuer, disk'.journal)
             \/ /\ step = "publish_journal" /\ disk'.journal.stage = "AnchorCommitted"
                /\ disk'.worker = WorkerRecord(disk'.journal)
                /\ SameReceipt(disk'.issuer, disk'.journal)
             \/ /\ step = "acknowledge" /\ disk'.journal.stage = "Published"
                /\ disk'.issuer.stage = "Issued" => SameReceipt(disk'.issuer, disk'.journal)
             \/ /\ step = "respond" /\ disk'.journal.stage = "Published"
                /\ Behind(disk'.issuer, disk'.worker)
      PROVE  ProcessAgrees'
    BY <1>0, <1>1 DEF ProcessAgrees, Recovering, Exchanging, Issuer, Worker, Journal
<1>2. CASE PrepareChallenge
  <2>1. \/ pc' = "down" /\ audit' = NoAudit
        \/ pc' = "idle" /\ audit' = audit /\ kept' = disk'
      BY <1>0, <1>2, CommitLands DEF PrepareChallenge, CommitIssuer
  <2>2. disk'.issuer.stage = "Prepared"
      BY <1>2, StepPrepares, MoveFields, Typed
  <2> QED BY <1>0, <1>1, <2>1, <2>2, GoneAgrees
<1>3. CASE IssueReceipt
  <2>1. \/ pc' = "down" /\ audit' = NoAudit
        \/ pc' = "idle" /\ audit' = audit /\ kept' = disk'
      BY <1>0, <1>3, CommitLands DEF IssueReceipt, CommitIssuer
  <2>2. disk'.issuer.stage = "Issued"
      BY <1>3, StepIssues, MoveFields, Typed
  <2> QED BY <1>0, <1>1, <2>1, <2>2, GoneAgrees
<1>4. CASE BeginPublish /\ BeginsNew
  <2>1. \/ pc' = "down" /\ audit' = NoAudit
        \/ pc' = "exchange" /\ audit' = audit /\ kept' = disk'
      BY <1>0, <1>4, CommitLands DEF BeginsNew, CommitJournal
  <2>2. disk'.issuer = disk.issuer /\ disk'.journal.stage = "PreparedAnchor"
      BY <1>4, StepBegins, MoveFields, Typed
  <2> QED BY <1>0, <1>1, <2>1, <2>2, GoneAgrees DEF Issuer
<1>5. CASE RecordObservation
  <2>1. \/ pc' = "down" /\ audit' = NoAudit
        \/ pc' = "commit_worker" /\ audit' = audit /\ kept' = disk'
      BY <1>0, <1>5, CommitLands DEF RecordObservation, CommitJournal
  <2>2. disk'.issuer = disk.issuer
      BY <1>5, StepObserves, MoveFields, Typed
  <2> QED BY <1>0, <1>1, <1>5, <2>1, <2>2, StepObserves, GoneAgrees DEF Issuer
<1>6. CASE CommitWorker /\ Journal.stage = "AnchorCommitted"
           /\ Worker # WorkerRecord(Journal)
  <2>1. \/ pc' = "down" /\ audit' = NoAudit
        \/ pc' = "publish_journal" /\ audit' = audit /\ kept' = disk'
      BY <1>0, <1>6, CommitLands DEF CommitWorker
  <2>2. /\ disk'.worker = WorkerRecord(Journal)
        /\ disk'.issuer = disk.issuer /\ disk'.journal = disk.journal
      BY <1>6, StepCarries
  <2>3. SameReceipt(Issuer, Journal)
      BY <1>6, Typed DEF Joined, Issuer, Journal, NoJournal
  <2> QED BY <1>0, <1>1, <1>6, <2>1, <2>2, <2>3, GoneAgrees DEF Issuer, Journal
<1>7. CASE PublishJournal
  <2>1. \/ pc' = "down" /\ audit' = NoAudit
        \/ pc' = "acknowledge" /\ audit' = audit /\ kept' = disk'
      BY <1>0, <1>7, CommitLands DEF PublishJournal, CommitJournal
  <2>2. /\ disk'.issuer = disk.issuer /\ disk'.journal.stage = "Published"
        /\ disk'.journal.prior = Journal.prior
        /\ disk'.journal.receipt = Journal.receipt
      BY <1>7, StepPublishes
  <2>3. disk'.issuer.stage = "Issued" => SameReceipt(disk'.issuer, disk'.journal)
      BY <1>0, <1>7, <2>2 DEF PublishJournal, ProcessAgrees, SameReceipt, Issuer
  <2> QED BY <1>0, <1>1, <2>1, <2>2, <2>3, GoneAgrees DEF Issuer
<1>8. CASE AcknowledgePublished /\ Issuer.stage = "Issued"
  <2>1. \/ pc' = "down" /\ audit' = NoAudit
        \/ pc' = "respond" /\ audit' = audit /\ kept' = disk'
      BY <1>0, <1>8, CommitLands DEF AcknowledgePublished, CommitIssuer
  <2>2. disk'.journal.stage = "Published"
      BY <1>0, <1>8, StepAcknowledges
         DEF AcknowledgePublished, ProcessAgrees, Journal
  <2> QED BY <1>0, <1>1, <1>8, <2>1, <2>2, StepAcknowledges, GoneAgrees
<1> QED BY <1>2, <1>3, <1>4, <1>5, <1>6, <1>7, <1>8 DEF Writing

LEMMA RecoverAgrees ==
    ASSUME IInv, Recover
    PROVE  ProcessAgrees' /\ audit' = NoAudit
<1>1. audit = NoAudit
    BY DEF Recover, RecoverIssuer, RecoverWorker, RecoverJournal, IInv, ProcessAgrees,
           Exchanging
<1>2. \/ pc' = "down" /\ audit' = NoAudit
      \/ /\ pc' = "recover_worker" /\ audit' = audit
         /\ kept'.issuer = disk'.issuer /\ disk'.issuer.stage # "None"
      \/ /\ pc' = "recover_journal" /\ audit' = audit
         /\ kept'.issuer = disk'.issuer /\ disk'.issuer.stage # "None"
         /\ kept'.worker = disk'.worker
      \/ /\ pc' = "idle" /\ audit' = audit
         /\ kept' = disk' /\ disk'.issuer.stage # "None"
    BY StepRecovers
<1> QED BY <1>1, <1>2, GoneAgrees DEF ProcessAgrees, Recovering, Exchanging, Issuer

(* The observation that is taken answers the challenge of this exchange.   *)
LEMMA TakenObservation ==
    ASSUME IInv, ReceiveObservation, Answers(Head(answers))
    PROVE  /\ audit = NoAudit =>
                 /\ Head(answers).position = "Proposed"
                 /\ Append(Journal.head, Journal.receipt) \in observed
           /\ audit # NoAudit /\ Head(answers).position = "Proposed" =>
                 IsPrefix(audit.since, Worker.head)
<1>1. Agrees(Head(answers), fresh, observed, audit) /\ Head(answers).challenge = Challenge
    BY FirstAnswer DEF ReceiveObservation, Answers
<1>2. CASE audit = NoAudit
  <2>1. /\ Challenge.kind = "Advance" /\ Challenge.head = Journal.head
        /\ Challenge.receipt = Journal.receipt
      BY <1>2 DEF Challenge
  <2> QED BY <1>1, <1>2, <2>1 DEF Agrees
<1>3. CASE audit # NoAudit
  <2>1. Challenge.kind = "Recover" /\ Challenge.nonce = audit.nonce
      BY <1>3 DEF Challenge
  <2>2. Append(Challenge.head, Challenge.receipt) = Worker.head
      BY <1>3, ChallengeTyped
  <2> QED BY <1>1, <1>3, <2>1, <2>2 DEF Agrees
<1> QED BY <1>2, <1>3

LEMMA QuietAgrees ==
    ASSUME IInv, [Next]_vars, Quiet
    PROVE  ProcessAgrees'
<1>0. ProcessAgrees /\ disk' = disk /\ kept' = kept /\ Stays
    BY QuietStays DEF IInv, Stays
<1>1. CASE SendChallenge
  <2>1. pc = "exchange" /\ pc' = "await" /\ audit' = audit
      BY <1>1 DEF SendChallenge, GoTo
  <2> QED BY <1>0, <2>1
          DEF ProcessAgrees, Recovering, Exchanging, Issuer, Worker, Journal
<1>2. CASE ReceiveObservation
  <2>1. CASE Gone
      BY <2>1, GoneAgrees DEF Gone
  <2>2. CASE /\ Answers(Head(answers)) /\ position' = Head(answers).position
             /\ pc' = (IF audit = NoAudit THEN "record" ELSE "attest")
             /\ UNCHANGED audit
    <3>1. observed' = observed /\ pc \in Exchanging
        BY <1>2 DEF ReceiveObservation, Exchanging, anchor
    <3>2. CASE audit = NoAudit
        BY <1>0, <1>2, <2>2, <3>1, <3>2, TakenObservation
           DEF ProcessAgrees, Recovering, Exchanging, Issuer, Worker, Journal
    <3>3. CASE audit # NoAudit
        BY <1>0, <1>2, <2>2, <3>1, <3>3, TakenObservation
           DEF ProcessAgrees, Recovering, Exchanging, Issuer, Worker, Journal
    <3> QED BY <3>2, <3>3
  <2> QED BY <1>2, <2>1, <2>2 DEF ReceiveObservation
<1>3. CASE Attest \/ RefuseAttestation \/ RespondPublished \/ EndSession
           \/ LoseAnchor \/ Crash
    BY <1>3, GoneAgrees
       DEF Attest, RefuseAttestation, RespondPublished, EndSession, LoseAnchor,
           Crash, Gone
<1>4. CASE NewOccurrence \/ ReleaseReceipt \/ Backup \/ AnchorExchange
           \/ AnchorRefuses \/ AnchorCrash \/ AnchorInterrupted
  <2>1. UNCHANGED <<pc, audit, position>>
      BY <1>4 DEF NewOccurrence, ReleaseReceipt, Backup, AnchorExchange, AnchorRefuses,
                  AnchorCrash, AnchorInterrupted, AnchorGone, session
  <2> QED BY <1>0, <2>1, StandingAgrees
<1>5. CASE BeginVerify
  <2>1. /\ pc = "idle" /\ pc' = "exchange"
        /\ audit' = [nonce |-> fresh + 1, since |-> chain]
      BY <1>5 DEF BeginVerify, Draw
  <2>2. audit' # NoAudit
      BY <2>1, Typed DEF NoAudit
  <2> QED BY <1>0, <2>1, <2>2
          DEF ProcessAgrees, Recovering, Exchanging, Issuer, Worker, Journal
<1>6. CASE BeginPublish /\ GoesOn
  <2>1. /\ pc = "idle" /\ PublicationInput /\ audit' = audit
        /\ pc' = (IF Journal.stage = "PreparedAnchor" THEN "exchange" ELSE "commit_worker")
        /\ SameTransaction(Journal, Transaction)
      BY <1>6, BeginCases DEF GoesOn, GoTo
  <2>2. Journal.stage \in {"PreparedAnchor", "AnchorCommitted", "Published"}
      BY <2>1, Typed DEF SameTransaction, JournalRecords
  <2>3. Issuer.stage = "Issued" => SameReceipt(Issuer, Journal)
      BY <2>1 DEF SameTransaction, Transaction, SameReceipt
  <2> QED BY <1>0, <2>1, <2>2, <2>3
          DEF ProcessAgrees, Recovering, Exchanging, Issuer, Worker, Journal
<1>7. CASE CommitWorker
           /\ ~(Journal.stage = "AnchorCommitted" /\ Worker # WorkerRecord(Journal))
  <2>1. /\ pc = "commit_worker" /\ audit' = audit
        /\ \/ Journal.stage = "Published" /\ pc' = "acknowledge"
           \/ /\ Journal.stage = "AnchorCommitted" /\ Worker = WorkerRecord(Journal)
              /\ pc' = "publish_journal"
      BY <1>7 DEF CommitWorker, GoTo
  <2> QED BY <1>0, <2>1
          DEF ProcessAgrees, Recovering, Exchanging, Issuer, Worker, Journal
<1>8. CASE AcknowledgePublished /\ Issuer.stage # "Issued"
  <2>1. pc = "acknowledge" /\ pc' = "respond" /\ audit' = audit
      BY <1>8 DEF AcknowledgePublished, GoTo
  <2>2. Journal.stage = "Published" /\ Behind(Issuer, Worker)
      BY <1>0, <1>8, <2>1, Typed
         DEF ProcessAgrees, Joined, Issuer, Worker, Journal, SameReceipt, NoJournal
  <2> QED BY <1>0, <2>1, <2>2
          DEF ProcessAgrees, Recovering, Exchanging, Issuer, Worker, Journal
<1> QED BY <1>1, <1>2, <1>3, <1>4, <1>5, <1>6, <1>7, <1>8 DEF Quiet

LEMMA RestoreDown ==
    ASSUME IInv, Restore
    PROVE  pc' = "down" /\ audit' = NoAudit
BY DEF Restore, session, IInv, ProcessAgrees, Exchanging

LEMMA ProcessStep ==
    ASSUME IInv, [Next]_vars
    PROVE  ProcessAgrees'
<1>1. CASE UNCHANGED vars
    BY <1>1, StandingAgrees DEF vars, session, Stays
<1>2. CASE PowerLoss \/ Restore
    BY <1>2, StepLosesPower, RestoreDown, GoneAgrees
<1> QED BY <1>1, <1>2, StepKinds, RecoverAgrees, WritingAgrees, QuietAgrees

(* A verification under way is ended, stays as it is, or begins. *)
LEMMA AuditKinds ==
    ASSUME IInv, [Next]_vars
    PROVE  \/ audit' = NoAudit
           \/ audit' = audit /\ disk' = disk
           \/ BeginVerify
<1>1. CASE Quiet
  <2>1. disk' = disk
      BY <1>1, QuietStays DEF Stays
  <2>2. CASE SendChallenge \/ ReceiveObservation \/ Attest \/ RefuseAttestation
             \/ RespondPublished \/ EndSession \/ LoseAnchor \/ Crash
      BY <2>1, <2>2
         DEF SendChallenge, ReceiveObservation, Attest, RefuseAttestation,
             RespondPublished, EndSession, LoseAnchor, Crash, GoTo, Gone
  <2>3. CASE NewOccurrence \/ ReleaseReceipt \/ Backup \/ AnchorExchange
             \/ AnchorRefuses \/ AnchorCrash \/ AnchorInterrupted
      BY <2>1, <2>3
         DEF NewOccurrence, ReleaseReceipt, Backup, AnchorExchange, AnchorRefuses,
             AnchorCrash, AnchorInterrupted, AnchorGone, session
  <2>4. CASE BeginPublish /\ GoesOn
      BY <2>1, <2>4 DEF GoesOn, GoTo
  <2>5. CASE CommitWorker
             /\ ~(Journal.stage = "AnchorCommitted" /\ Worker # WorkerRecord(Journal))
      BY <2>1, <2>5 DEF CommitWorker, GoTo
  <2>6. CASE AcknowledgePublished /\ Issuer.stage # "Issued"
      BY <2>1, <2>6 DEF AcknowledgePublished, GoTo
  <2> QED BY <1>1, <2>2, <2>3, <2>4, <2>5, <2>6 DEF Quiet
<1>2. CASE UNCHANGED vars
    BY <1>2 DEF vars, session
<1> QED BY <1>1, <1>2, StepKinds, RecoverAgrees, WritingAgrees, StepLosesPower,
           RestoreDown

LEMMA AuditStep ==
    ASSUME IInv, [Next]_vars
    PROVE  AuditAgrees'
<1>0. /\ AuditAgrees /\ audit.nonce \in Nat /\ audit.since \in Chains
      /\ chain \in Chains /\ chain' \in Chains
    BY ChainMoves DEF IInv, TypeOK
<1>1. CASE audit' = NoAudit
  <2>1. IsPrefix(<<>>, chain')
      BY <1>0, PrefixOfAppend
  <2> QED BY <1>1, <2>1, FreshGrows DEF AuditAgrees, NoAudit
<1>2. CASE audit' = audit /\ disk' = disk /\ audit' # NoAudit
  <2>1. ~PowerLoss
      BY <1>2, StepLosesPower
  <2>2. IsPrefix(audit.since, chain')
      BY <1>0, <2>1, LongerPrefix DEF AuditAgrees
  <2> QED BY <1>0, <1>2, <2>2, FreshGrows DEF AuditAgrees, Worker
<1>3. CASE BeginVerify
  <2>1. /\ audit' = [nonce |-> fresh', since |-> chain] /\ fresh' = fresh + 1
        /\ Worker # NoWorker /\ disk' = disk /\ chain' = chain
      BY <1>3 DEF BeginVerify, Draw, NoCommit, elsewhere, anchor
  <2>2. IsPrefix(chain, chain)
      BY <1>0, PrefixOfAppend
  <2> QED BY <2>1, <2>2, FreshGrows DEF AuditAgrees, Worker
<1> QED BY <1>1, <1>2, <1>3, AuditKinds


(***************************************************************************)
(* Every step keeps what is under way, and what the client was told.       *)
(***************************************************************************)
LEMMA RequestsStep ==
    ASSUME IInv, [Next]_vars
    PROVE  RequestsAgree'
<1>0. /\ requests \in Seq(Challenges) /\ Len(requests) \in Nat
      /\ \A k \in 1..Len(requests) : requests[k].nonce \in Nat /\ requests[k].nonce <= fresh'
  <2>1. requests \in Seq(Challenges) /\ RequestsAgree
      BY DEF IInv, TypeOK
  <2>2. \A k \in 1..Len(requests) : requests[k] \in Challenges
      BY <2>1, ElementOfSeq
  <2>3. \A k \in 1..Len(requests) : requests[k].nonce \in Nat
      BY <2>2 DEF Challenges
  <2> QED BY <2>1, <2>3, FreshGrows, LenProperties DEF RequestsAgree
<1>1. CASE SendChallenge
  <2>1. requests' = Append(requests, Challenge) /\ Challenge.nonce <= fresh'
    <3>1. Challenge.nonce \in Nat /\ Challenge.nonce <= fresh
        BY ChallengeTyped DEF Challenges
    <3> QED BY <1>1, <3>1, FreshGrows DEF SendChallenge
  <2>2. /\ Len(requests') = Len(requests) + 1
        /\ \A k \in 1..Len(requests) : requests'[k] = requests[k]
        /\ requests'[Len(requests) + 1] = Challenge
      BY <1>0, <2>1, ChallengeTyped, AppendProperties
  <2> QED BY <1>0, <2>1, <2>2 DEF RequestsAgree
<1>2. CASE AnchorExchange
  <2>1. requests # <<>> /\ requests' = Tail(requests)
      BY <1>2, ExchangeFacts
  <2>2. /\ Len(requests') = Len(requests) - 1
        /\ \A k \in 1..Len(requests') : requests'[k] = requests[k + 1]
      BY <1>0, <2>1, HeadTailProperties
  <2> QED BY <1>0, <2>2 DEF RequestsAgree
<1>3. CASE ReceiveObservation \/ UNCHANGED channel
  <2>1. requests' = requests
      BY <1>3 DEF ReceiveObservation, channel
  <2> QED BY <1>0, <2>1 DEF RequestsAgree
<1>4. CASE requests' = <<>>
  <2>1. Len(requests') = 0
      BY <1>4
  <2> QED BY <2>1 DEF RequestsAgree
<1> QED BY <1>1, <1>2, <1>3, <1>4, ChannelKinds

(* An answer of the queue agrees after the step as well. *)
LEMMA AnswerStays ==
    ASSUME IInv, [Next]_vars, NEW a \in Observations, Agrees(a, fresh, observed, audit)
    PROVE  Agrees(a, fresh', observed', audit')
<1> DEFINE c == a.challenge
<1>0. /\ c.nonce \in Nat /\ c.head \in Chains /\ c.receipt \in Nat
      /\ Append(c.head, c.receipt) \in Chains
    BY AppendChain DEF Observations, Challenges
<1>1. /\ c.nonce <= fresh
      /\ c.kind = "Advance" => a.position = "Proposed"
      /\ a.position = "Proposed" => Append(c.head, c.receipt) \in observed
      /\ a.position = "Proposed" /\ c.kind = "Recover" /\ c.nonce = audit.nonce =>
            IsPrefix(audit.since, Append(c.head, c.receipt))
    BY DEF Agrees
<1>2. c.nonce <= fresh'
    BY <1>0, <1>1, FreshGrows
<1>3. a.position = "Proposed" => Append(c.head, c.receipt) \in observed'
    BY <1>1, StaysSigned
<1>4. ASSUME a.position = "Proposed", c.kind = "Recover", c.nonce = audit'.nonce
      PROVE  IsPrefix(audit'.since, Append(c.head, c.receipt))
  <2>1. CASE audit' = NoAudit
      BY <1>0, <2>1, PrefixOfAppend DEF NoAudit
  <2>2. CASE audit' = audit
      BY <1>1, <1>4, <2>2
  <2>3. CASE BeginVerify
    <3>1. audit'.nonce = fresh + 1
        BY <2>3 DEF BeginVerify, Draw
    <3> QED BY <1>0, <1>1, <1>4, <3>1, Typed
  <2> QED BY <2>1, <2>2, <2>3, AuditKinds
<1> QED BY <1>1, <1>2, <1>3, <1>4 DEF Agrees

LEMMA NewAnswerAgrees ==
    ASSUME IInv, [Next]_vars, AnchorExchange
    PROVE  Agrees(Answered, fresh', observed', audit')
<1> DEFINE c == Head(requests)
<1>1. /\ requests # <<>> /\ Answered.challenge = c
      /\ Answered.position = "Proposed" =>
            chain' = Append(c.head, c.receipt) /\ chain' \in observed'
      /\ Answered.position = "Prior" => c.kind = "Recover"
      /\ Answered.position \in {"Prior", "Proposed"}
      /\ audit' = audit /\ fresh' = fresh
    BY ExchangeFacts
<1>2. c.nonce <= fresh
    BY <1>1, FirstRequest DEF IInv, RequestsAgree
<1>3. c.kind \in {"Advance", "Recover"}
    BY <1>1, FirstRequest DEF Challenges
<1>4. IsPrefix(audit'.since, chain')
    BY AuditStep DEF AuditAgrees
<1> QED BY <1>1, <1>2, <1>3, <1>4 DEF Agrees

LEMMA AnswersStep ==
    ASSUME IInv, [Next]_vars
    PROVE  AnswersAgree'
<1>0. /\ answers \in Seq(Observations) /\ Len(answers) \in Nat
      /\ \A k \in 1..Len(answers) : Agrees(answers[k], fresh', observed', audit')
  <2>1. answers \in Seq(Observations) /\ AnswersAgree
      BY DEF IInv, TypeOK, Observations
  <2>2. \A k \in 1..Len(answers) : answers[k] \in Observations
      BY <2>1, ElementOfSeq
  <2> QED BY <2>1, <2>2, AnswerStays, LenProperties DEF AnswersAgree
<1>1. ASSUME answers # <<>>
      PROVE  /\ Tail(answers) \in Seq(Observations)
             /\ Len(Tail(answers)) = Len(answers) - 1
             /\ \A k \in 1..Len(Tail(answers)) :
                   Agrees(Tail(answers)[k], fresh', observed', audit')
  <2>1. /\ Tail(answers) \in Seq(Observations)
        /\ Len(Tail(answers)) = Len(answers) - 1
        /\ \A k \in 1..Len(Tail(answers)) : Tail(answers)[k] = answers[k + 1]
      BY <1>0, <1>1, HeadTailProperties
  <2> QED BY <1>0, <2>1
<1>2. CASE ReceiveObservation
  <2>0. answers # <<>>
      BY <1>2 DEF ReceiveObservation
  <2>1. CASE answers' = <<>>
    <3>1. Len(answers') = 0
        BY <2>1
    <3> QED BY <3>1 DEF AnswersAgree
  <2>2. CASE answers' = Tail(answers)
      BY <1>1, <2>0, <2>2 DEF AnswersAgree
  <2>3. CASE Len(answers) > 1 /\ answers' = Tail(Tail(answers))
    <3>1. Tail(answers) # <<>>
      <4>1. Len(Tail(answers)) = Len(answers) - 1 /\ Len(answers) \in Nat
          BY <1>0, <1>1, <2>0
      <4>2. Len(Tail(answers)) # 0
        <5>1. Len(answers) > 1
            BY <2>3
        <5> QED BY <4>1, <5>1
      <4> QED BY <4>2, EmptySeq
    <3>2. /\ Len(answers') = Len(Tail(answers)) - 1
          /\ \A k \in 1..Len(answers') : answers'[k] = Tail(answers)[k + 1]
        BY <1>1, <2>0, <2>3, <3>1, HeadTailProperties
    <3> QED BY <1>0, <1>1, <2>0, <3>2 DEF AnswersAgree
  <2> QED BY <1>2, <2>1, <2>2, <2>3 DEF ReceiveObservation
<1>3. CASE AnchorExchange
  <2>1. answers' = Append(answers, Answered) /\ Answered \in Observations
      BY <1>3, ExchangeFacts
  <2>2. /\ Len(answers') = Len(answers) + 1
        /\ \A k \in 1..Len(answers) : answers'[k] = answers[k]
        /\ answers'[Len(answers) + 1] = Answered
      BY <1>0, <2>1, AppendProperties
  <2>3. Agrees(answers'[Len(answers) + 1], fresh', observed', audit')
      BY <1>3, <2>2, NewAnswerAgrees
  <2> QED BY <1>0, <2>2, <2>3 DEF AnswersAgree
<1>4. CASE SendChallenge \/ UNCHANGED channel
  <2>1. answers' = answers
      BY <1>4 DEF SendChallenge, channel
  <2> QED BY <1>0, <2>1 DEF AnswersAgree
<1>5. CASE answers' = <<>>
  <2>1. Len(answers') = 0
      BY <1>5
  <2> QED BY <2>1 DEF AnswersAgree
<1> QED BY <1>2, <1>3, <1>4, <1>5, ChannelKinds

(* What a step tells the client. *)
LEMMA ClientKinds ==
    ASSUME IInv, [Next]_vars
    PROVE  /\ \/ acknowledged' = acknowledged
              \/ RespondPublished /\ acknowledged' = Worker.chain
           /\ \/ attested' = attested
              \/ Attest /\ attested' = [chain |-> Worker.chain, since |-> audit.since]
           /\ \/ released' = released
              \/ ReleaseReceipt
<1> USE DEF elsewhere, client
<1>1. CASE UNCHANGED elsewhere
    BY <1>1
<1>2. CASE PowerLoss \/ Restore
    BY <1>2 DEF PowerLoss, Restore
<1>3. CASE SendChallenge \/ ReceiveObservation \/ AnchorExchange
    BY <1>3 DEF SendChallenge, ReceiveObservation, AnchorExchange
<1>4. CASE AnchorRefuses \/ AnchorCrash \/ AnchorInterrupted \/ Backup
           \/ NewOccurrence
    BY <1>4 DEF AnchorRefuses, AnchorCrash, AnchorInterrupted, AnchorGone, Backup,
                NewOccurrence
<1>5. CASE ReleaseReceipt
    BY <1>5 DEF ReleaseReceipt
<1>6. CASE Attest \/ RespondPublished
    BY <1>6 DEF Attest, RespondPublished
<1>7. ASSUME Recover \/ Writing \/ UNCHANGED vars PROVE UNCHANGED elsewhere
    BY <1>7, StepRecovers, WritingCommits DEF Commits, vars
<1>8. ASSUME BeginVerify \/ EndSession \/ LoseAnchor \/ Crash \/ BeginPublish
             \/ RefuseAttestation \/ CommitWorker \/ AcknowledgePublished
      PROVE  UNCHANGED elsewhere
    BY <1>8, BeginCases
       DEF BeginVerify, EndSession, LoseAnchor, Crash, RefuseAttestation,
           CommitWorker, AcknowledgePublished
<1> QED BY <1>1, <1>2, <1>3, <1>4, <1>5, <1>6, <1>7, <1>8, StepKinds DEF Quiet

LEMMA ClientStep ==
    ASSUME IInv, [Next]_vars
    PROVE  ClientAgrees'
<1>0. ClientAgrees /\ observed \subseteq observed'
    BY StaysSigned DEF IInv
<1>1. Worker.head = Worker.chain /\ Vouched(Worker.chain)
    BY Typed
       DEF Joined, Worker, IInv, DirectoriesSound, Directories, Anchored, Signed, Vouched
<1>2. Vouched(acknowledged)'
    BY <1>0, <1>1, ClientKinds DEF ClientAgrees, Vouched
<1>3. Vouched(attested.chain)' /\ IsPrefix(attested'.since, attested'.chain)
  <2>1. CASE attested' = attested
      BY <1>0, <2>1 DEF ClientAgrees, Vouched
  <2>2. CASE Attest /\ attested' = [chain |-> Worker.chain, since |-> audit.since]
    <3>1. attested'.chain = Worker.chain /\ attested'.since = audit.since
        BY <2>2
    <3>2. IsPrefix(audit.since, Worker.head)
        BY <2>2 DEF Attest, IInv, ProcessAgrees
    <3> QED BY <1>0, <1>1, <3>1, <3>2 DEF Vouched
  <2> QED BY <2>1, <2>2, ClientKinds
<1> QED BY <1>2, <1>3 DEF ClientAgrees

(***************************************************************************)
(* The invariant, and what it gives for every number of restored copies.   *)
(***************************************************************************)
LEMMA Initially ==
    ASSUME Init
    PROVE  IInv
<1> DEFINE empty == [issuer |-> NoIssuer, worker |-> NoWorker, journal |-> NoJournal]
<1>1. disk = empty /\ kept = empty /\ copy = empty
    BY DEF Init
<1>2. /\ empty \in Journals /\ empty.issuer = NoIssuer /\ empty.worker = NoWorker
      /\ empty.journal = NoJournal
    BY EmptySeq DEF Journals, NoIssuer, NoWorker, NoJournal, Chains
<1> HIDE DEF empty
<1>3. Joined(empty) /\ HasReceipt(empty.issuer)
    BY <1>2 DEF Joined, HasReceipt, NoIssuer, NoWorker, NoJournal, Behind
<1>4. Anchored(empty, {}) /\ Drawn(empty, 0)
    BY <1>2 DEF Anchored, Signed, Drawn, NoIssuer, NoWorker, NoJournal
<1>5. DirectoriesSound /\ OneRecordLags
    BY <1>1, <1>3, <1>4 DEF DirectoriesSound, Directories, OneRecordLags, Init
<1>6. TypeOK
  <2>1. <<>> \in Chains /\ <<>> \in Seq(Challenges) /\ <<>> \in Seq(Observations)
      BY EmptySeq DEF Chains
  <2>2. SessionTyped /\ CountersTyped /\ fresh \in Nat
      BY <2>1, PublicationAssumption
         DEF Init, SessionTyped, CountersTyped, Steps, NoAudit
  <2>3. /\ chain \in Chains /\ settled \in Chains /\ observed \subseteq Chains
        /\ forgot \in BOOLEAN /\ requests \in Seq(Challenges)
        /\ answers \in Seq(Observations) /\ ClientTyped
      BY <2>1 DEF Init, ClientTyped
  <2> QED BY <1>1, <1>2, <1>3, <2>2, <2>3
          DEF TypeOK, SessionTyped, CountersTyped, ClientTyped, HasReceipt, Observations
<1>7. ProcessAgrees
    BY DEF Init, ProcessAgrees, Recovering, Exchanging
<1>8. AuditAgrees /\ RequestsAgree /\ AnswersAgree
  <2>1. Len(<<>>) = 0 /\ IsPrefix(<<>>, <<>>)
      BY PrefixOfAppend, EmptySeq DEF Chains
  <2> QED BY <2>1 DEF Init, AuditAgrees, RequestsAgree, AnswersAgree, NoAudit
<1>9. ClientAgrees /\ AnchorAgrees
  <2>1. IsPrefix(<<>>, <<>>)
      BY PrefixOfAppend, EmptySeq DEF Chains
  <2> QED BY <2>1 DEF Init, ClientAgrees, AnchorAgrees, Vouched
<1> QED BY <1>5, <1>6, <1>7, <1>8, <1>9 DEF IInv

LEMMA Inductive ==
    ASSUME IInv, [Next]_vars
    PROVE  IInv'
BY TypeStep, DirectoryStep, ProcessStep, AuditStep, RequestsStep, AnswersStep,
   ClientStep, AnchorAgreesStep DEF IInv

LEMMA InvariantHolds == Spec => []IInv
BY Initially, Inductive, PTL DEF Spec

(* What a loss of power leaves is one of the two directories. *)
LEMMA PositionsSound ==
    ASSUME IInv, NEW d \in Positions
    PROVE  d \in {disk, kept} /\ d \in Journals /\ Joined(d)
BY Typed, TwoPositions

(* The anchor signed for the position that a journal has observed, and     *)
(* unless a loss of power took it back it is there.                        *)
LEMMA HeadIsSigned ==
    ASSUME IInv, NEW d \in {disk, kept}
    PROVE  /\ Vouched(d.worker.head) /\ Vouched(AnchoredHead(d.journal))
           /\ d.worker.head \in Chains /\ AnchoredHead(d.journal) \in Chains
<1>0. /\ d \in Journals /\ Joined(d) /\ Anchored(d, observed)
      /\ d.worker \in WorkerRecords /\ d.journal \in JournalRecords
    BY Typed, DirectoryFields DEF IInv, DirectoriesSound, Directories
<1>1. Vouched(d.worker.head) /\ d.worker.head \in Chains
    BY <1>0 DEF Anchored, Signed, Vouched, WorkerRecords
<1>2. CASE d.journal.stage \in {"AnchorCommitted", "Published"}
  <2>1. AnchoredHead(d.journal) = Append(d.journal.head, d.journal.receipt)
      BY <1>2 DEF AnchoredHead
  <2>2. /\ WorkerRecord(d.journal).head = Append(d.journal.head, d.journal.receipt)
        /\ WorkerRecord(d.journal).head \in Chains
      BY <1>0, JournalCommits DEF WorkerRecords
  <2> QED BY <1>0, <1>1, <1>2, <2>1, <2>2 DEF Anchored, Vouched
<1>3. CASE d.journal.stage \in {"None", "PreparedAnchor"}
  <2>1. AnchoredHead(d.journal) = d.journal.head
      BY <1>3 DEF AnchoredHead
  <2>2. d.journal.head = <<>> \/ d.journal.head = d.worker.head
      BY <1>0, <1>3 DEF Joined, NoJournal
  <2>3. d.journal.head \in Chains
      BY <1>0 DEF JournalRecords
  <2> QED BY <1>1, <2>1, <2>2, <2>3 DEF Vouched
<1> QED BY <1>0, <1>1, <1>2, <1>3 DEF JournalRecords

LEMMA VouchedIsAnchored ==
    ASSUME IInv, ~forgot, NEW c, Vouched(c)
    PROVE  IsPrefix(c, chain)
BY Typed, PrefixOfAppend DEF Vouched, IInv, AnchorAgrees

(* Every variable has its type, and no journal is ever Aborted.            *)
THEOREM TypeCorrect == Spec => []TypeOK
BY InvariantHolds, PTL DEF IInv

(* validate_worker_ledger_join accepts whatever a crash, a timeout or a    *)
(* loss of power between any two commits left, and a restored copy too.    *)
THEOREM AdmissionAccepts == Spec => []EveryCrashJoins
<1>1. ASSUME IInv PROVE EveryCrashJoins
    BY <1>1, PositionsSound, JoinedIsAdmitted DEF EveryCrashJoins
<1> QED BY <1>1, InvariantHolds, PTL

(* publish_receipt_to_worker: what the Worker ledger holds, what a journal *)
(* has observed and what was acknowledged was signed by the anchor, in a   *)
(* restored directory too and whatever a loss of power took; and it is on  *)
(* the anchor's chain unless a loss of power took back what was signed.    *)
THEOREM AnchoredFirst == Spec => []AcknowledgedIsAnchored
<1>1. ASSUME IInv PROVE AcknowledgedIsAnchored
  <2>1. Vouched(acknowledged)
      BY <1>1 DEF IInv, ClientAgrees
  <2>2. \A d \in Positions : Vouched(d.worker.head) /\ Vouched(AnchoredHead(d.journal))
      BY <1>1, PositionsSound, HeadIsSigned
  <2>3. \A c : Vouched(c) /\ ~forgot => IsPrefix(c, chain)
      BY <1>1, VouchedIsAnchored
  <2> QED BY <2>1, <2>2, <2>3 DEF AcknowledgedIsAnchored
<1> QED BY <1>1, InvariantHolds, PTL

(* attest_current_carriage: an attestation is about a record that was      *)
(* signed for and not superseded when the client asked, after every loss   *)
(* of power and on every copy of the directory.                            *)
THEOREM AttestsTheCurrent == Spec => []AttestedIsCurrent
<1>1. ASSUME IInv PROVE AttestedIsCurrent
    BY <1>1, VouchedIsAnchored DEF AttestedIsCurrent, IInv, ClientAgrees
<1> QED BY <1>1, InvariantHolds, PTL

(***************************************************************************)
(* While the directory was never replaced.                                 *)
(***************************************************************************)
LEMMA RestoresCounts ==
    ASSUME IInv, [Next]_vars
    PROVE  /\ restores \in Nat
           /\ \/ restores' = restores
              \/ Restore /\ restores' = restores + 1
<1>0. restores \in Nat
    BY PublicationAssumption DEF IInv, TypeOK
<1> USE DEF elsewhere, snapshots
<1>1. CASE UNCHANGED elsewhere
    BY <1>0, <1>1
<1>2. CASE PowerLoss \/ Restore
    BY <1>0, <1>2 DEF PowerLoss, Restore
<1>3. CASE SendChallenge \/ ReceiveObservation \/ AnchorExchange
    BY <1>0, <1>3 DEF SendChallenge, ReceiveObservation, AnchorExchange
<1>4. CASE AnchorRefuses \/ AnchorCrash \/ AnchorInterrupted \/ Backup
           \/ NewOccurrence
    BY <1>0, <1>4 DEF AnchorRefuses, AnchorCrash, AnchorInterrupted, AnchorGone,
                Backup, NewOccurrence
<1>5. CASE ReleaseReceipt \/ Attest \/ RespondPublished
    BY <1>0, <1>5 DEF ReleaseReceipt, Attest, RespondPublished
<1>6. ASSUME Recover \/ Writing \/ UNCHANGED vars PROVE UNCHANGED elsewhere
    BY <1>6, StepRecovers, WritingCommits DEF Commits, vars
<1>7. ASSUME BeginVerify \/ EndSession \/ LoseAnchor \/ Crash \/ BeginPublish
             \/ RefuseAttestation \/ CommitWorker \/ AcknowledgePublished
      PROVE  UNCHANGED elsewhere
    BY <1>7, BeginCases
       DEF BeginVerify, EndSession, LoseAnchor, Crash, RefuseAttestation,
           CommitWorker, AcknowledgePublished
<1> QED BY <1>1, <1>2, <1>3, <1>4, <1>5, <1>6, <1>7, StepKinds DEF Quiet

(* What a step does to the directory when it is not replaced.              *)
LEMMA DirectoryKinds ==
    ASSUME IInv, [Next]_vars, restores' = restores
    PROVE  \/ disk' = disk /\ kept' = kept
           \/ Commits
           \/ kept' = disk' /\ disk' \in {disk, kept}
<1>0. restores \in Nat
    BY RestoresCounts
<1>1. Settles => kept' = disk' /\ disk' \in {disk, kept}
    BY <1>0 DEF Settles
<1>2. CASE Recover
    BY <1>1, <1>2, StepRecovers DEF Stays
<1>3. CASE UNCHANGED vars
    BY <1>3 DEF vars
<1>4. CASE Quiet
    BY <1>4, QuietStays DEF Stays
<1> QED BY <1>1, <1>2, <1>3, <1>4, StepKinds, WritingCommits, StepLosesPower,
           StepRestores

(* One advance is one receipt more. *)
LEMMA NotBoth ==
    ASSUME NEW s \in Chains, NEW x \in Nat
    PROVE  Append(s, x) # s /\ ~IsPrefix(Append(s, x), s)
<1>1. Append(s, x) \in Chains /\ Len(Append(s, x)) = Len(s) + 1 /\ Len(s) \in Nat
    BY AppendChain
<1>2. ~IsPrefix(Append(s, x), s)
  <2>1. ~(Len(Append(s, x)) <= Len(s))
      BY <1>1
  <2> QED BY <1>1, <2>1, PrefixPointwise
<1> QED BY <1>2, PrefixOfAppend

(* A record that lags behind a prepared journal is that of the same        *)
(* transaction.                                                            *)
LEMMA SamePreparation ==
    ASSUME NEW d \in Journals, NEW e, d = e \/ Moves(d, e),
           d.journal.stage = "PreparedAnchor"
    PROVE  /\ e.journal.stage \in {"PreparedAnchor", "AnchorCommitted"}
           /\ e.journal.head = d.journal.head /\ e.journal.receipt = d.journal.receipt
<1>1. CASE Creates(d, e) \/ Prepares(d, e) \/ Issues(d, e) \/ Carries(d, e)
           \/ Acknowledges(d, e)
  <2>1. e.journal = d.journal
      BY <1>1, MoveFields
  <2> QED BY <2>1
<1>2. CASE Observes(d, e)
    BY <1>2, MoveFields
<1>3. ~Begins(d, e) /\ ~Publishes(d, e)
    BY DEF Begins, Publishes
<1> QED BY <1>1, <1>2, <1>3 DEF Moves

(* A journal record accounts for what the one before it did.               *)
LEMMA MoveReach ==
    ASSUME NEW d \in Journals, NEW e, Joined(d), d = e \/ Moves(d, e)
    PROVE  /\ Reach(d.journal) \in Chains
           /\ d.journal.stage # "None" =>
                 /\ e.journal.stage # "None" /\ Reach(e.journal) \in Chains
                 /\ IsPrefix(Reach(d.journal), Reach(e.journal))
<1>0. d.journal \in JournalRecords /\ Reach(d.journal) \in Chains
      /\ IsPrefix(Reach(d.journal), Reach(d.journal))
    BY DirectoryFields, AppendChain, PrefixOfAppend DEF JournalRecords, Reach
<1>1. CASE d = e \/ Creates(d, e) \/ Prepares(d, e) \/ Issues(d, e)
           \/ Carries(d, e) \/ Acknowledges(d, e)
  <2>1. e.journal = d.journal
      BY <1>1, MoveFields
  <2> QED BY <1>0, <2>1
<1>2. CASE Begins(d, e)
  <2>1. /\ e.journal.stage = "PreparedAnchor" /\ e.journal.head = StableHead(d.journal)
        /\ e.journal.receipt = d.issuer.receipt /\ d.issuer.receipt \in Nat
      BY <1>2, MoveFields, DirectoryFields DEF IssuerRecords
  <2>2. ASSUME d.journal.stage # "None"
        PROVE  Reach(e.journal) = Append(Reach(d.journal), d.issuer.receipt)
      BY <1>2, <2>1, <2>2 DEF Begins, StableHead, Reach
  <2>3. /\ Append(Reach(d.journal), d.issuer.receipt) \in Chains
        /\ IsPrefix(Reach(d.journal), Append(Reach(d.journal), d.issuer.receipt))
      BY <1>0, <2>1, AppendChain, PrefixOfAppend
  <2> QED BY <1>0, <2>1, <2>2, <2>3
<1>3. CASE Observes(d, e) \/ Publishes(d, e)
  <2>1. /\ e.journal.stage # "None" /\ e.journal.head = d.journal.head
        /\ e.journal.receipt = d.journal.receipt
      BY <1>3, MoveFields
  <2> QED BY <1>0, <2>1 DEF Reach
<1> QED BY <1>1, <1>2, <1>3 DEF Moves

LEMMA MoveWithin ==
    ASSUME NEW d \in Journals, NEW e, Joined(d), d = e \/ Moves(d, e),
           NEW c \in Chains, Within(d.journal, c)
    PROVE  Within(e.journal, c)
<1>1. CASE d.journal.stage # "None"
    BY <1>1, MoveReach, PrefixTransitive DEF Within
<1>2. CASE d.journal.stage = "None"
  <2>1. c = <<>>
      BY <1>2 DEF Within
  <2>2. e.journal.stage # "None" => Reach(e.journal) \in Chains
    <3>1. e \in Journals
        BY MoveFields DEF Moves
    <3> QED BY <3>1, DirectoryFields, AppendChain DEF JournalRecords, Reach
  <2> QED BY <2>1, <2>2, PrefixOfAppend DEF Within
<1> QED BY <1>1, <1>2

(* While nothing it signed is lost, the anchor is not behind the journal.  *)
LEMMA NotBehind ==
    ASSUME IInv, ~forgot, NEW d \in {disk, kept}, Within(d.journal, chain)
    PROVE  AnchorAt(d.journal, chain)
<1>0. /\ d.journal \in JournalRecords /\ chain \in Chains
      /\ d.journal.head \in Chains /\ d.journal.receipt \in Nat
    BY Typed, DirectoryFields DEF JournalRecords
<1>1. IsPrefix(AnchoredHead(d.journal), chain) /\ AnchoredHead(d.journal) \in Chains
    BY HeadIsSigned, VouchedIsAnchored
<1>2. CASE d.journal.stage = "None"
    BY <1>2 DEF Within, AnchorAt
<1>3. CASE d.journal.stage = "PreparedAnchor"
  <2>1. /\ IsPrefix(d.journal.head, chain)
        /\ IsPrefix(chain, Append(d.journal.head, d.journal.receipt))
      BY <1>1, <1>3 DEF AnchoredHead, Within, Reach
  <2> QED BY <1>0, <1>3, <2>1, PrefixBetween DEF AnchorAt
<1>4. CASE d.journal.stage \in {"AnchorCommitted", "Published"}
  <2>1. /\ AnchoredHead(d.journal) = Append(d.journal.head, d.journal.receipt)
        /\ IsPrefix(chain, AnchoredHead(d.journal))
      BY <1>4 DEF AnchoredHead, Within, Reach
  <2>2. chain = AnchoredHead(d.journal)
      BY <1>0, <1>1, <2>1, SamePrefixes
  <2> QED BY <1>4, <2>1, <2>2 DEF AnchorAt
<1> QED BY <1>0, <1>2, <1>3, <1>4 DEF JournalRecords

(* What the first request would make of the anchor is accounted for.       *)
LEMMA AdvanceWithin ==
    ASSUME IInv, Exact, requests # <<>>, Head(requests).kind = "Advance",
           chain = Head(requests).head
    PROVE  \A d \in {disk, kept} :
              Within(d.journal, Append(chain, Head(requests).receipt))
<1>1. /\ Head(requests) = requests[1] /\ 1 \in 1..Len(requests)
      /\ Reach(Head(requests)) = Append(chain, Head(requests).receipt)
      /\ Reach(Head(requests)) \in Chains
    BY FirstRequest, AppendChain DEF Reach
<1>2. kept.journal.stage # "None" /\ IsPrefix(Reach(Head(requests)), Reach(kept.journal))
    BY <1>1 DEF Exact, OnTrack
<1>3. Within(kept.journal, Reach(Head(requests)))
    BY <1>2 DEF Within
<1> QED BY <1>1, <1>3, MoveWithin, Typed DEF OneRecordLags

LEMMA AnchorStep ==
    ASSUME IInv, Exact, [Next]_vars, restores' = restores
    PROVE  \A d \in {disk', kept'} : Within(d.journal, chain')
<1>0. Within(disk.journal, chain) /\ Within(kept.journal, chain)
    BY DEF Exact
<1>1. CASE UNCHANGED anchor
  <2>1. chain' = chain
      BY <1>1 DEF anchor
  <2>2. ASSUME Commits PROVE Within(disk'.journal, chain) /\ kept' \in {disk, disk'}
      BY <1>0, <2>2, MoveWithin, Typed DEF Commits
  <2> QED BY <1>0, <2>1, <2>2, DirectoryKinds
<1>2. CASE AnchorExchange \/ AnchorInterrupted
  <2>1. disk' = disk /\ kept' = kept
      BY <1>2 DEF AnchorExchange, AnchorInterrupted, AnchorGone, NoCommit
  <2>2. \/ chain' = chain
        \/ /\ requests # <<>> /\ Head(requests).kind = "Advance"
           /\ chain = Head(requests).head
           /\ chain' = Append(chain, Head(requests).receipt)
      BY <1>2, ExchangeMoves, InterruptedMoves, ExchangeFacts
  <2> QED BY <1>0, <2>1, <2>2, AdvanceWithin
<1>3. CASE PowerLoss
  <2>1. chain' \in Chains /\ IsPrefix(chain', chain) /\ chain \in Chains
      BY <1>3, LossMoves, Typed
  <2>2. disk' \in {disk, kept} /\ kept' \in {disk, kept}
      BY <1>3, Typed, TwoPositions DEF PowerLoss
  <2>3. ASSUME NEW d \in {disk, kept} PROVE Within(d.journal, chain')
    <3>1. Reach(d.journal) \in Chains /\ Within(d.journal, chain)
        BY <1>0, Typed, MoveReach
    <3>2. CASE d.journal.stage = "None"
      <4>1. chain = <<>> /\ IsPrefix(<<>>, chain')
          BY <2>1, <3>1, <3>2, PrefixOfAppend DEF Within
      <4>2. chain' = <<>>
          BY <2>1, <4>1, SamePrefixes
      <4> QED BY <3>2, <4>2 DEF Within
    <3>3. CASE d.journal.stage # "None"
        BY <2>1, <3>1, <3>3, PrefixTransitive DEF Within
    <3> QED BY <3>2, <3>3
  <2> QED BY <2>2, <2>3
<1> QED BY <1>1, <1>2, <1>3, AnchorKinds

(* What is queued stays accounted for. *)
LEMMA KeptMoves ==
    ASSUME IInv, [Next]_vars, restores' = restores
    PROVE  kept = kept' \/ Moves(kept, kept')
<1>1. kept' \in {kept, disk} \/ (kept = disk /\ Moves(disk, kept'))
    BY DirectoryKinds DEF Commits
<1> QED BY <1>1, Typed DEF OneRecordLags

LEMMA QueueTyped ==
    ASSUME IInv
    PROVE  /\ requests \in Seq(Challenges) /\ Len(requests) \in Nat
           /\ \A k \in 1..Len(requests) :
                 /\ requests[k] \in Challenges /\ requests[k].head \in Chains
                 /\ requests[k].receipt \in Nat
<1>1. requests \in Seq(Challenges)
    BY DEF IInv, TypeOK
<1>2. \A k \in 1..Len(requests) : requests[k] \in Challenges
    BY <1>1, ElementOfSeq
<1> QED BY <1>1, <1>2, LenProperties DEF Challenges

(* No challenge is pending and performed at once. *)
LEMMA PendingOrPerformed ==
    ASSUME NEW c \in Challenges, NEW anchored, NEW j
    PROVE  ~(Pending(c, anchored, j) /\ Performed(c, anchored))
BY NotBoth DEF Pending, Performed, Challenges

LEMMA TrackStep ==
    ASSUME IInv, Exact, [Next]_vars, restores' = restores
    PROVE  OnTrack(requests', kept'.journal)
<1>0. ASSUME NEW c \in Challenges, kept.journal.stage # "None",
             IsPrefix(Reach(c), Reach(kept.journal))
      PROVE  kept'.journal.stage # "None" /\ IsPrefix(Reach(c), Reach(kept'.journal))
  <2>1. Reach(c) \in Chains
      BY AppendChain DEF Challenges, Reach
  <2> QED BY <1>0, <2>1, KeptMoves, MoveReach, PrefixTransitive, Typed
<1>1. \A k \in 1..Len(requests) : requests[k].kind = "Advance" =>
        kept'.journal.stage # "None" /\ IsPrefix(Reach(requests[k]), Reach(kept'.journal))
    BY <1>0, QueueTyped DEF Exact, OnTrack
<1>2. CASE requests' = <<>>
  <2>1. Len(requests') = 0
      BY <1>2
  <2> QED BY <2>1 DEF OnTrack
<1>3. CASE UNCHANGED channel \/ ReceiveObservation
  <2>1. requests' = requests
      BY <1>3 DEF channel, ReceiveObservation
  <2> QED BY <1>1, <2>1 DEF OnTrack
<1>4. CASE AnchorExchange
  <2>1. requests # <<>> /\ requests' = Tail(requests)
      BY <1>4, ExchangeFacts
  <2>2. /\ Len(requests') = Len(requests) - 1
        /\ \A k \in 1..Len(requests') : requests'[k] = requests[k + 1]
      BY <2>1, QueueTyped, HeadTailProperties
  <2>3. \A k \in 1..Len(requests') : k + 1 \in 1..Len(requests)
      BY <2>2, QueueTyped
  <2> QED BY <1>1, <2>2, <2>3 DEF OnTrack
<1>5. CASE SendChallenge
  <2>1. requests' = Append(requests, Challenge) /\ kept' = kept /\ pc = "exchange"
      BY <1>5 DEF SendChallenge, NoCommit
  <2>2. /\ Len(requests') = Len(requests) + 1
        /\ \A k \in 1..Len(requests) : requests'[k] = requests[k]
        /\ requests'[Len(requests) + 1] = Challenge
      BY <2>1, QueueTyped, ChallengeTyped, AppendProperties
  <2>3. ASSUME Challenge.kind = "Advance"
        PROVE  kept.journal.stage # "None" /\ IsPrefix(Reach(Challenge), Reach(kept.journal))
    <3>1. audit = NoAudit
        BY <2>3 DEF Challenge
    <3>2. kept.journal.stage = "PreparedAnchor" /\ Reach(Challenge) = Reach(kept.journal)
        BY <2>1, <3>1
           DEF IInv, ProcessAgrees, Recovering, Exchanging, Challenge, Reach, Journal
    <3> QED BY <3>2, Typed, MoveReach, PrefixOfAppend
  <2> QED BY <1>1, <2>1, <2>2, <2>3, QueueTyped DEF OnTrack
<1> QED BY <1>2, <1>3, <1>4, <1>5, ChannelKinds

(* The first request, when it advances the anchor. *)
LEMMA AdvanceIsPending ==
    ASSUME IInv, Exact, ~forgot, AnchorExchange, chain' # chain
    PROVE  /\ Head(requests).kind = "Advance"
           /\ Pending(Head(requests), chain, kept.journal)
           /\ chain' = Append(kept.journal.head, kept.journal.receipt)
<1>1. /\ requests # <<>> /\ Head(requests).kind = "Advance"
      /\ chain = Head(requests).head
      /\ chain' = Append(chain, Head(requests).receipt)
    BY ExchangeMoves DEF AnchorExchange
<1>2. /\ Head(requests) = requests[1] /\ 1 \in 1..Len(requests)
      /\ Head(requests).receipt \in Nat /\ Head(requests).head \in Chains
    BY <1>1, FirstRequest
<1>3. ~Performed(Head(requests), chain)
    BY <1>1, <1>2, NotBoth DEF Performed
<1>4. Pending(Head(requests), chain, kept.journal)
    BY <1>1, <1>2, <1>3 DEF Exact, InOrder
<1> QED BY <1>1, <1>4 DEF Pending

(* A pending Advance stays pending while the anchor stands.                *)
LEMMA PendingStays ==
    ASSUME IInv, Exact, [Next]_vars, restores' = restores, chain' = chain, ~forgot',
           NEW c \in Challenges, Pending(c, chain, kept.journal)
    PROVE  Pending(c, chain, kept'.journal)
<1>1. /\ kept.journal.stage = "PreparedAnchor" /\ chain = c.head
      /\ kept.journal.head = c.head /\ kept.journal.receipt = c.receipt
    BY DEF Pending
<1>2. /\ kept'.journal.stage \in {"PreparedAnchor", "AnchorCommitted"}
      /\ kept'.journal.head = c.head /\ kept'.journal.receipt = c.receipt
    BY <1>1, KeptMoves, SamePreparation, Typed
<1>3. kept'.journal.stage = "AnchorCommitted" =>
        IsPrefix(Append(c.head, c.receipt), chain')
  <2>1. Anchored(kept', observed') /\ AnchorAgrees'
      BY Inductive DEF IInv, DirectoriesSound, Directories
  <2> QED BY <1>2, <2>1 DEF Anchored, AnchorAgrees, WorkerRecord
<1>4. ~IsPrefix(Append(c.head, c.receipt), c.head)
    BY NotBoth DEF Challenges
<1> QED BY <1>1, <1>2, <1>3, <1>4 DEF Pending

LEMMA StandingOrder ==
    ASSUME IInv, Exact, [Next]_vars, restores' = restores, chain' = chain,
           requests' = requests, ~forgot, ~forgot'
    PROVE  InOrder(requests', chain', kept'.journal)
<1> SUFFICES ASSUME NEW k \in 1..Len(requests), requests[k].kind = "Advance"
             PROVE  /\ \/ Performed(requests[k], chain)
                       \/ Pending(requests[k], chain, kept'.journal)
                    /\ \A m \in 1..k :
                          /\ requests[m].kind = "Advance"
                          /\ Pending(requests[m], chain, kept'.journal)
                          => Pending(requests[k], chain, kept'.journal)
    BY DEF InOrder
<1>1. /\ Performed(requests[k], chain) \/ Pending(requests[k], chain, kept.journal)
      /\ \A m \in 1..k : /\ requests[m].kind = "Advance"
                         /\ Pending(requests[m], chain, kept.journal)
                         => Pending(requests[k], chain, kept.journal)
    BY DEF Exact, InOrder
<1>2. Pending(requests[k], chain, kept.journal) =>
        Pending(requests[k], chain, kept'.journal)
    BY QueueTyped, PendingStays
<1>3. ASSUME NEW m \in 1..k, requests[m].kind = "Advance",
             Pending(requests[m], chain, kept'.journal)
      PROVE  Pending(requests[k], chain, kept'.journal)
  <2>1. m \in 1..Len(requests)
      BY QueueTyped
  <2>2. ~Performed(requests[m], chain)
      BY <1>3, <2>1, QueueTyped, PendingOrPerformed
  <2>3. Pending(requests[m], chain, kept.journal)
      BY <1>3, <2>1, <2>2 DEF Exact, InOrder
  <2> QED BY <1>1, <1>2, <1>3, <2>3
<1> QED BY <1>1, <1>2, <1>3

LEMMA SendOrder ==
    ASSUME IInv, Exact, ~forgot, SendChallenge
    PROVE  InOrder(requests', chain', kept'.journal)
<1>0. /\ requests' = Append(requests, Challenge) /\ chain' = chain /\ kept' = kept
      /\ pc = "exchange"
    BY DEF SendChallenge, NoCommit, anchor
<1>1. /\ Len(requests') = Len(requests) + 1
      /\ \A k \in 1..Len(requests) : requests'[k] = requests[k]
      /\ requests'[Len(requests) + 1] = Challenge
    BY <1>0, QueueTyped, ChallengeTyped, AppendProperties
<1>2. ASSUME Challenge.kind = "Advance"
      PROVE  \/ Pending(Challenge, chain, kept.journal)
             \/ /\ Performed(Challenge, chain)
                /\ \A c \in Challenges : ~Pending(c, chain, kept.journal)
  <2>1. audit = NoAudit
      BY <1>2 DEF Challenge
  <2>2. kept = disk /\ Journal.stage = "PreparedAnchor"
      BY <1>0, <2>1 DEF IInv, ProcessAgrees, Recovering, Exchanging
  <2>3. chain \in {Journal.head, Append(Journal.head, Journal.receipt)}
      BY <2>2, NotBehind DEF Exact, AnchorAt, Journal
  <2>4. Challenge.head = Journal.head /\ Challenge.receipt = Journal.receipt
      BY <2>1 DEF Challenge
  <2>5. CASE chain = Journal.head
      BY <2>2, <2>4, <2>5 DEF Pending, Journal
  <2>6. CASE chain = Append(Journal.head, Journal.receipt)
    <3>1. chain # Journal.head
        BY <2>6, NotBoth, Typed DEF JournalRecords
    <3> QED BY <2>2, <2>4, <2>6, <3>1 DEF Pending, Performed, Journal
  <2> QED BY <2>3, <2>5, <2>6
<1> SUFFICES ASSUME NEW k \in 1..(Len(requests) + 1), requests'[k].kind = "Advance"
             PROVE  /\ \/ Performed(requests'[k], chain)
                       \/ Pending(requests'[k], chain, kept.journal)
                    /\ \A m \in 1..k :
                          /\ requests'[m].kind = "Advance"
                          /\ Pending(requests'[m], chain, kept.journal)
                          => Pending(requests'[k], chain, kept.journal)
    BY <1>0, <1>1 DEF InOrder
<1>3. CASE k \in 1..Len(requests)
  <2>1. \A m \in 1..k : m \in 1..Len(requests)
      BY <1>3, QueueTyped
  <2> QED BY <1>1, <1>3, <2>1 DEF Exact, InOrder
<1>4. CASE k = Len(requests) + 1
  <2>1. requests'[k] = Challenge /\ Challenge.kind = "Advance"
      BY <1>1, <1>4
  <2>2. \A m \in 1..k : requests'[m] \in Challenges
      BY <1>1, <1>4, QueueTyped, ChallengeTyped
  <2> QED BY <1>2, <2>1, <2>2
<1> QED BY <1>3, <1>4, QueueTyped

LEMMA ExchangeOrder ==
    ASSUME IInv, Exact, ~forgot, AnchorExchange
    PROVE  InOrder(requests', chain', kept'.journal)
<1>0. /\ requests # <<>> /\ requests' = Tail(requests) /\ kept' = kept
    BY ExchangeFacts DEF AnchorExchange, NoCommit
<1>1. /\ Len(requests') = Len(requests) - 1
      /\ \A k \in 1..Len(requests') : requests'[k] = requests[k + 1]
      /\ Head(requests) = requests[1] /\ 1 \in 1..Len(requests)
    BY <1>0, QueueTyped, HeadTailProperties, FirstRequest
<1>2. CASE chain' = chain
  <2> SUFFICES ASSUME NEW k \in 1..Len(requests'), requests'[k].kind = "Advance"
               PROVE  /\ \/ Performed(requests'[k], chain)
                         \/ Pending(requests'[k], chain, kept.journal)
                      /\ \A m \in 1..k :
                            /\ requests'[m].kind = "Advance"
                            /\ Pending(requests'[m], chain, kept.journal)
                            => Pending(requests'[k], chain, kept.journal)
      BY <1>0, <1>2 DEF InOrder
  <2>1. k + 1 \in 1..Len(requests) /\ requests'[k] = requests[k + 1]
      BY <1>1, QueueTyped
  <2>2. \A m \in 1..k : m + 1 \in 1..(k + 1) /\ requests'[m] = requests[m + 1]
      BY <1>1, QueueTyped
  <2> QED BY <2>1, <2>2 DEF Exact, InOrder
<1>3. CASE chain' # chain
  <2>1. /\ Head(requests).kind = "Advance"
        /\ Pending(Head(requests), chain, kept.journal)
        /\ chain' = Append(kept.journal.head, kept.journal.receipt)
      BY <1>3, AdvanceIsPending
  <2>2. ASSUME NEW k \in 1..Len(requests'), requests'[k].kind = "Advance"
        PROVE  Performed(requests'[k], chain')
    <3>1. k + 1 \in 1..Len(requests) /\ 1 \in 1..(k + 1) /\ requests'[k] = requests[k + 1]
        BY <1>1, QueueTyped
    <3>2. Pending(requests[k + 1], chain, kept.journal)
        BY <1>1, <2>1, <2>2, <3>1 DEF Exact, InOrder
    <3> QED BY <2>1, <3>1, <3>2 DEF Pending, Performed
  <2>3. ASSUME NEW k \in 1..Len(requests'), requests'[k].kind = "Advance"
        PROVE  ~Pending(requests'[k], chain', kept.journal)
    <3>1. requests'[k] \in Challenges
        BY <1>1, QueueTyped
    <3> QED BY <2>2, <2>3, <3>1, PendingOrPerformed
  <2>4. \A k \in 1..Len(requests') : \A m \in 1..k : m \in 1..Len(requests')
      BY <1>1, QueueTyped
  <2> QED BY <1>0, <2>2, <2>3, <2>4 DEF InOrder
<1> QED BY <1>2, <1>3

LEMMA OrderStep ==
    ASSUME IInv, Exact, [Next]_vars, restores' = restores, ~forgot'
    PROVE  InOrder(requests', chain', kept'.journal)
<1>0. ~forgot
    BY AnchorAgreesStep
<1>1. CASE requests' = <<>>
  <2>1. Len(requests') = 0
      BY <1>1
  <2> QED BY <2>1 DEF InOrder
<1>2. CASE requests' = requests /\ chain' = chain
    BY <1>0, <1>2, StandingOrder
<1>3. CASE SendChallenge
    BY <1>0, <1>3, SendOrder
<1>4. CASE AnchorExchange
    BY <1>0, <1>4, ExchangeOrder
<1>5. CASE (UNCHANGED channel \/ ReceiveObservation) /\ ~AnchorExchange
  <2>1. requests' = requests
      BY <1>5 DEF channel, ReceiveObservation
  <2>2. chain' = chain \/ requests' = <<>>
      BY <1>5, AnchorKinds, InterruptedMoves, LossMoves DEF anchor
  <2> QED BY <1>1, <1>2, <2>1, <2>2
<1> QED BY <1>1, <1>3, <1>4, <1>5, ChannelKinds

(* The issuer keeps its receipts, or moves past the issued one.            *)
LEMMA MoveIssuer ==
    ASSUME NEW d \in Journals, NEW e, Moves(d, e)
    PROVE  \/ /\ e.issuer.prior = d.issuer.prior
              /\ d.issuer.stage = "Issued" => e.issuer = d.issuer
           \/ /\ d.issuer.stage = "Issued"
              /\ e.issuer.prior = Append(d.issuer.prior, d.issuer.receipt)
<1>1. CASE Creates(d, e)
  <2>1. e.issuer = Genesis /\ d.issuer = NoIssuer
      BY <1>1, MoveFields DEF Creates
  <2> QED BY <2>1 DEF Genesis, NoIssuer
<1>2. CASE Prepares(d, e)
    BY <1>2, MoveFields DEF Prepares
<1>3. CASE Issues(d, e)
    BY <1>3, MoveFields DEF Issues
<1>4. CASE Begins(d, e) \/ Observes(d, e) \/ Carries(d, e) \/ Publishes(d, e)
  <2>1. e.issuer = d.issuer
      BY <1>4, MoveFields
  <2> QED BY <2>1
<1>5. CASE Acknowledges(d, e)
    BY <1>5, MoveFields DEF Acknowledges, SameReceipt
<1> QED BY <1>1, <1>2, <1>3, <1>4, <1>5 DEF Moves

LEMMA MoveAccounts ==
    ASSUME NEW d \in Journals, NEW e, Moves(d, e),
           NEW receipts \in SUBSET [prior: Chains, receipt: Nat],
           Accounted(receipts, d.issuer),
           NEW told \in Chains, IsPrefix(told, d.issuer.prior)
    PROVE  Accounted(receipts, e.issuer) /\ IsPrefix(told, e.issuer.prior)
<1>0. d.issuer.prior \in Chains /\ d.issuer.receipt \in Nat
    BY DirectoryFields DEF IssuerRecords
<1>1. CASE /\ e.issuer.prior = d.issuer.prior
           /\ d.issuer.stage = "Issued" => e.issuer = d.issuer
    BY <1>1 DEF Accounted, SameReceipt
<1>2. CASE /\ d.issuer.stage = "Issued"
           /\ e.issuer.prior = Append(d.issuer.prior, d.issuer.receipt)
  <2>1. ASSUME NEW s \in Chains, IsPrefix(s, d.issuer.prior)
        PROVE  IsPrefix(s, e.issuer.prior)
      BY <1>0, <1>2, <2>1, PrefixOfAppend
  <2>2. ASSUME NEW r \in receipts
        PROVE  IsPrefix(Append(r.prior, r.receipt), e.issuer.prior)
    <3>1. r.prior \in Chains /\ r.receipt \in Nat /\ Append(r.prior, r.receipt) \in Chains
        BY AppendChain
    <3>2. CASE SameReceipt(d.issuer, r)
        BY <1>2, <3>1, <3>2, PrefixOfAppend DEF SameReceipt
    <3>3. CASE IsPrefix(Append(r.prior, r.receipt), d.issuer.prior)
        BY <2>1, <3>1, <3>3
    <3> QED BY <3>2, <3>3 DEF Accounted
  <2>3. IsPrefix(told, e.issuer.prior)
      BY <2>1
  <2> QED BY <2>2, <2>3 DEF Accounted
<1> QED BY <1>1, <1>2, MoveIssuer

LEMMA ClientKnows ==
    ASSUME IInv, Exact, [Next]_vars, restores' = restores
    PROVE  \A d \in {disk', kept'} :
              Accounted(released', d.issuer) /\ IsPrefix(acknowledged', d.issuer.prior)
<1>0. /\ released \in SUBSET [prior: Chains, receipt: Nat] /\ acknowledged \in Chains
      /\ \A d \in {disk, kept} :
            Accounted(released, d.issuer) /\ IsPrefix(acknowledged, d.issuer.prior)
    BY DEF IInv, TypeOK, Exact
<1>1. CASE released' = released /\ acknowledged' = acknowledged
  <2>1. CASE Commits
    <3>1. kept = disk /\ Moves(disk, disk') /\ kept' \in {disk, disk'}
        BY <2>1 DEF Commits
    <3>2. Accounted(released, disk'.issuer) /\ IsPrefix(acknowledged, disk'.issuer.prior)
        BY <1>0, <3>1, MoveAccounts, Typed
    <3> QED BY <1>0, <1>1, <3>1, <3>2
  <2>2. CASE disk' \in {disk, kept} /\ kept' \in {disk, kept}
      BY <1>0, <1>1, <2>2
  <2> QED BY <2>1, <2>2, DirectoryKinds
<1>2. CASE ReleaseReceipt
  <2> DEFINE new == [prior |-> Issuer.prior, receipt |-> Issuer.receipt]
  <2>1. /\ Issuer.stage = "Issued" /\ released' = released \cup {new}
        /\ disk' = disk /\ kept' = kept /\ acknowledged' = acknowledged /\ pc = "idle"
      BY <1>2 DEF ReleaseReceipt
  <2>2. kept = disk
      BY <2>1 DEF IInv, ProcessAgrees, Recovering
  <2>3. SameReceipt(disk.issuer, new)
      BY <2>1 DEF SameReceipt, Issuer
  <2>4. Accounted(released', disk.issuer)
      BY <1>0, <2>1, <2>3 DEF Accounted
  <2> QED BY <1>0, <2>1, <2>2, <2>4
<1>3. CASE RespondPublished
  <2>1. /\ acknowledged' = Worker.chain /\ released' = released
        /\ disk' = disk /\ kept' = kept /\ pc = "respond"
      BY <1>3 DEF RespondPublished, NoCommit
  <2>2. kept = disk /\ Behind(Issuer, Worker)
      BY <2>1 DEF IInv, ProcessAgrees, Recovering
  <2>3. IsPrefix(acknowledged', disk.issuer.prior)
      BY <2>1, <2>2, Typed, PrefixOfAppend DEF Behind, Issuer, IssuerRecords
  <2> QED BY <1>0, <2>1, <2>2, <2>3
<1>4. ASSUME ~ReleaseReceipt, ~RespondPublished
      PROVE  released' = released /\ acknowledged' = acknowledged
    BY <1>4, ClientKinds
<1> QED BY <1>1, <1>2, <1>3, <1>4

LEMMA ExactInitially ==
    ASSUME Init
    PROVE  Exact
<1>1. IInv /\ <<>> \in Chains /\ Len(<<>>) = 0
    BY Initially, EmptySeq DEF Chains
<1>2. IsPrefix(<<>>, <<>>)
    BY <1>1, PrefixOfAppend
<1> QED BY <1>1, <1>2
        DEF Init, Exact, Within, Accounted, OnTrack, InOrder, NoIssuer, NoJournal

LEMMA NeverReplacedHolds == Spec => [](IInv /\ NeverReplaced)
<1>1. Init => IInv /\ NeverReplaced
    BY Initially, ExactInitially DEF NeverReplaced
<1>2. IInv /\ NeverReplaced /\ [Next]_vars => IInv' /\ NeverReplaced'
  <2> SUFFICES ASSUME IInv, NeverReplaced, [Next]_vars, restores' = 0
               PROVE  Exact'
      BY Inductive DEF NeverReplaced
  <2>1. restores' = restores /\ Exact
      BY RestoresCounts DEF NeverReplaced
  <2> QED BY <2>1, AnchorStep, TrackStep, OrderStep, ClientKnows DEF Exact
<1> QED BY <1>1, <1>2, PTL DEF Spec

(* ExternalAnchorClient: the challenge is durable before it leaves, so the *)
(* anchor has nothing the durable journal does not account for, also after *)
(* a loss of power took it back.  Until it took back what the anchor had   *)
(* signed, the anchor is not behind the journal either, and every Advance  *)
(* finds it at its prior or its proposed head.                             *)
THEOREM JournalledFirst == Spec => []AnchoredIsJournalled
<1>1. ASSUME IInv, NeverReplaced PROVE AnchoredIsJournalled
  <2> DEFINE j == kept.journal
  <2> SUFFICES ASSUME Exact
               PROVE  /\ IsPrefix(chain, Append(j.head, j.receipt))
                      /\ ~forgot => chain \in {j.head, Append(j.head, j.receipt)}
                      /\ ~forgot /\ requests # <<>> /\ Head(requests).kind = "Advance" =>
                            AtPrior(Head(requests)) \/ AtProposed(Head(requests))
      BY <1>1 DEF NeverReplaced, AnchoredIsJournalled
  <2>0. /\ j \in JournalRecords /\ Within(j, chain)
        /\ Append(j.head, j.receipt) \in Chains
        /\ j.stage = "None" => j.head = <<>>
    <3>1. j \in JournalRecords /\ Within(j, chain)
        BY <1>1, Typed, DirectoryFields DEF Exact
    <3>2. j.stage = "None" => j.head = <<>>
        BY <1>1, Typed DEF Joined, NoJournal
    <3> QED BY <3>1, <3>2, AppendChain DEF JournalRecords
  <2>1. IsPrefix(chain, Append(j.head, j.receipt))
      BY <2>0, PrefixOfAppend DEF Within, Reach
  <2>2. ASSUME ~forgot PROVE chain \in {j.head, Append(j.head, j.receipt)}
    <3>1. AnchorAt(j, chain)
        BY <1>1, <2>0, <2>2, NotBehind
    <3> QED BY <2>0, <3>1 DEF AnchorAt
  <2>3. ASSUME ~forgot, requests # <<>>, Head(requests).kind = "Advance"
        PROVE  AtPrior(Head(requests)) \/ AtProposed(Head(requests))
    <3>1. Head(requests) = requests[1] /\ 1 \in 1..Len(requests)
        BY <1>1, <2>3, FirstRequest
    <3> QED BY <2>3, <3>1 DEF Exact, InOrder, Performed, Pending, AtPrior, AtProposed
  <2> QED BY <2>1, <2>2, <2>3
<1> QED BY <1>1, NeverReplacedHolds, PTL

LEMMA IssuerBehindWorker ==
    ASSUME NEW d \in Journals, Joined(d)
    PROVE  IsPrefix(d.issuer.prior, d.worker.chain)
<1>0. /\ d.issuer.prior \in Chains /\ d.issuer.receipt \in Nat
      /\ d.worker.chain \in Chains
    BY DirectoryFields DEF IssuerRecords, WorkerRecords
<1>1. CASE Behind(d.issuer, d.worker)
    BY <1>0, <1>1, PrefixOfAppend DEF Behind
<1>2. CASE d.worker = WorkerRecord(d.journal) /\ SameReceipt(d.issuer, d.journal)
  <2>1. d.worker.chain = Append(d.issuer.prior, d.issuer.receipt)
      BY <1>2 DEF WorkerRecord, SameReceipt
  <2> QED BY <1>0, <2>1, PrefixOfAppend
<1> QED BY <1>1, <1>2 DEF Joined

(* An acknowledged receipt stays behind the issuer and in the Worker       *)
(* ledger after every crash and loss of power.                             *)
THEOREM StaysAcknowledged == Spec => []AcknowledgedStays
<1>1. ASSUME IInv, NeverReplaced PROVE AcknowledgedStays
  <2> SUFFICES ASSUME Exact, NEW d \in Positions
               PROVE  /\ IsPrefix(acknowledged, d.issuer.prior)
                      /\ IsPrefix(acknowledged, d.worker.chain)
      BY <1>1 DEF NeverReplaced, AcknowledgedStays
  <2>1. d \in {disk, kept} /\ d \in Journals /\ Joined(d)
      BY <1>1, PositionsSound
  <2>2. IsPrefix(acknowledged, d.issuer.prior)
      BY <2>1 DEF Exact
  <2>3. /\ acknowledged \in Chains /\ d.issuer.prior \in Chains
        /\ d.worker.chain \in Chains
      BY <1>1, <2>1, DirectoryFields DEF IInv, TypeOK, IssuerRecords, WorkerRecords
  <2> QED BY <2>1, <2>2, <2>3, IssuerBehindWorker, PrefixTransitive
<1> QED BY <1>1, NeverReplacedHolds, PTL

(* No two different receipts leave the issuer for one sequence, whatever   *)
(* crashes and replays come between.                                       *)
THEOREM NeverTwoReceipts == Spec => []OneReceiptPerSequence
<1>1. ASSUME IInv, NeverReplaced PROVE OneReceiptPerSequence
  <2> SUFFICES ASSUME Exact, NEW r \in released, NEW s \in released,
                      Len(r.prior) = Len(s.prior)
               PROVE  r = s
      BY <1>1 DEF NeverReplaced, OneReceiptPerSequence
  <2> DEFINE i == disk.issuer
  <2>0. /\ r \in [prior: Chains, receipt: Nat] /\ s \in [prior: Chains, receipt: Nat]
        /\ i.prior \in Chains
      BY <1>1, Typed DEF IInv, TypeOK, Issuer, IssuerRecords
  <2>1. ASSUME NEW t \in [prior: Chains, receipt: Nat]
        PROVE  /\ Append(t.prior, t.receipt) \in Chains
               /\ Len(Append(t.prior, t.receipt)) = Len(t.prior) + 1
               /\ Len(t.prior) \in Nat
      BY AppendChain
  <2>2. \A t \in released : SameReceipt(i, t) \/ IsPrefix(Append(t.prior, t.receipt), i.prior)
      BY DEF Exact, Accounted
  <2>3. r.prior = s.prior /\ r.receipt = s.receipt
    <3>1. CASE SameReceipt(i, r) /\ SameReceipt(i, s)
        BY <3>1 DEF SameReceipt
    <3>2. ASSUME NEW t \in released, NEW u \in released, SameReceipt(i, t),
                 IsPrefix(Append(u.prior, u.receipt), i.prior)
          PROVE  Len(u.prior) # Len(t.prior)
      <4>1. t \in [prior: Chains, receipt: Nat] /\ u \in [prior: Chains, receipt: Nat]
          BY <1>1 DEF IInv, TypeOK
      <4>2. Len(Append(u.prior, u.receipt)) <= Len(i.prior) /\ i.prior = t.prior
          BY <2>0, <2>1, <3>2, <4>1, PrefixPointwise DEF SameReceipt
      <4> QED BY <2>1, <4>1, <4>2
    <3>3. CASE /\ IsPrefix(Append(r.prior, r.receipt), i.prior)
               /\ IsPrefix(Append(s.prior, s.receipt), i.prior)
      <4>1. Append(r.prior, r.receipt) = Append(s.prior, s.receipt)
          BY <2>0, <2>1, <3>3, SameLengthPrefix
      <4> QED BY <2>0, <4>1, SameAppend
    <3> QED BY <2>2, <3>1, <3>2, <3>3
  <2> QED BY <2>0, <2>3
<1> QED BY <1>1, NeverReplacedHolds, PTL

(***************************************************************************)
(* The journals and the anchor together are one durable record.            *)
(***************************************************************************)
(* The receipts an issuer has prepared and the transactions a journal has  *)
(* begun: each has drawn one number, or one fault took its record.         *)
Slots(i) == Len(i.prior) + (IF i.stage \in {"Prepared", "Issued"} THEN 1 ELSE 0)
Begun(j) == Len(j.prior) + (IF j.stage = "None" THEN 0 ELSE 1)
Bounded ==
    /\ \A d \in {disk, kept} : Slots(d.issuer) <= MaxSequence
    /\ fresh <= MaxFresh + Slots(kept.issuer) + Begun(kept.journal) + faults

LEMMA SlotsTyped ==
    ASSUME NEW d \in Journals
    PROVE  /\ Slots(d.issuer) \in Nat /\ Begun(d.journal) \in Nat
           /\ Len(d.issuer.prior) \in Nat /\ Len(d.journal.prior) \in Nat
           /\ Slots(d.issuer) \in {Len(d.issuer.prior), Len(d.issuer.prior) + 1}
           /\ Begun(d.journal) =
                 IF d.journal.stage = "None"
                 THEN Len(d.journal.prior) ELSE Len(d.journal.prior) + 1
<1>1. Len(d.issuer.prior) \in Nat /\ Len(d.journal.prior) \in Nat
    BY DirectoryFields, LenProperties DEF IssuerRecords, JournalRecords, Chains
<1>2. Slots(d.issuer) \in {Len(d.issuer.prior), Len(d.issuer.prior) + 1}
  <2>1. CASE d.issuer.stage \in {"Prepared", "Issued"}
      BY <2>1 DEF Slots
  <2>2. CASE d.issuer.stage \notin {"Prepared", "Issued"}
      BY <1>1, <2>2 DEF Slots
  <2> QED BY <2>1, <2>2
<1>3. Begun(d.journal) =
        IF d.journal.stage = "None"
        THEN Len(d.journal.prior) ELSE Len(d.journal.prior) + 1
  <2>1. CASE d.journal.stage = "None"
      BY <1>1, <2>1 DEF Begun
  <2>2. CASE d.journal.stage # "None"
      BY <2>2 DEF Begun
  <2> QED BY <2>1, <2>2
<1>4. Slots(d.issuer) \in Nat
    BY <1>1, <1>2
<1>5. Begun(d.journal) \in Nat
    BY <1>1, <1>3
<1> QED BY <1>1, <1>2, <1>3, <1>4, <1>5

(* A transaction is begun for an issued receipt only. *)
LEMMA BegunForIssued ==
    ASSUME NEW d \in Journals, Joined(d)
    PROVE  Begun(d.journal) <= Slots(d.issuer)
<1>1. CASE d.journal = NoJournal
  <2>1. Begun(d.journal) = 0
      BY <1>1 DEF Begun, NoJournal
  <2> QED BY <2>1, SlotsTyped
<1>2. CASE SameReceipt(d.issuer, d.journal)
    BY <1>2, SlotsTyped DEF SameReceipt, Begun, Slots
<1>3. CASE d.worker = WorkerRecord(d.journal) /\ Behind(d.issuer, d.worker)
  <2>1. d.issuer.prior = Append(d.journal.prior, d.journal.receipt)
      BY <1>3 DEF WorkerRecord, Behind
  <2>2. Len(d.issuer.prior) = Len(d.journal.prior) + 1
      BY <2>1, AppendChain, DirectoryFields DEF JournalRecords
  <2> QED BY <2>2, SlotsTyped
<1> QED BY <1>1, <1>2, <1>3 DEF Joined

LEMMA MoveSlots ==
    ASSUME NEW d \in Journals, NEW e, Joined(d), HasReceipt(d.issuer), Moves(d, e)
    PROVE  /\ Slots(d.issuer) <= Slots(e.issuer)
           /\ Begun(d.journal) <= Begun(e.journal)
           /\ Prepares(d, e) => Slots(e.issuer) = Slots(d.issuer) + 1
           /\ Begins(d, e) => Begun(e.journal) = Begun(d.journal) + 1
           /\ Slots(d.issuer) <= MaxSequence => Slots(e.issuer) <= MaxSequence
<1>0. /\ Slots(d.issuer) \in Nat /\ Begun(d.journal) \in Nat
      /\ Len(d.issuer.prior) \in Nat /\ Len(d.journal.prior) \in Nat
      /\ d.issuer.prior \in Chains /\ d.issuer.receipt \in Nat
      /\ d.journal.prior \in Chains /\ d.journal.receipt \in Nat
      /\ MaxSequence \in Nat
    BY SlotsTyped, DirectoryFields, PublicationAssumption
       DEF IssuerRecords, JournalRecords
<1>1. CASE Creates(d, e)
  <2>1. e.issuer = Genesis /\ e.journal = d.journal /\ d.issuer = NoIssuer
      BY <1>1, MoveFields DEF Creates
  <2>2. Slots(e.issuer) = Slots(d.issuer)
      BY <2>1 DEF Slots, Genesis, NoIssuer
  <2>3. ~Prepares(d, e) /\ ~Begins(d, e)
      BY <2>1 DEF Prepares, Begins, NoIssuer
  <2> QED BY <1>0, <2>1, <2>2, <2>3
<1>2. CASE Prepares(d, e)
  <2>1. /\ d.issuer.stage = "Ready" /\ Len(d.issuer.prior) < MaxSequence
        /\ e.issuer.stage = "Prepared" /\ e.issuer.prior = d.issuer.prior
        /\ e.journal = d.journal
      BY <1>2, MoveFields DEF Prepares
  <2>2. Slots(d.issuer) = Len(d.issuer.prior) /\ Slots(e.issuer) = Len(d.issuer.prior) + 1
      BY <2>1, <1>0 DEF Slots
  <2>3. ~Begins(d, e)
      BY <2>1 DEF Begins
  <2> QED BY <1>0, <2>1, <2>2, <2>3
<1>3. CASE Issues(d, e)
  <2>1. /\ d.issuer.stage = "Prepared" /\ e.issuer.stage = "Issued"
        /\ e.issuer.prior = d.issuer.prior /\ e.journal = d.journal
      BY <1>3, MoveFields DEF Issues
  <2>2. Slots(e.issuer) = Slots(d.issuer)
      BY <2>1 DEF Slots
  <2>3. ~Prepares(d, e) /\ ~Begins(d, e)
      BY <2>1 DEF Prepares, Begins
  <2> QED BY <1>0, <2>1, <2>2, <2>3
<1>4. CASE Begins(d, e)
  <2>1. /\ d.issuer.stage = "Issued" /\ Behind(d.issuer, d.worker)
        /\ d.journal.stage \in {"None", "Published"}
        /\ e.issuer = d.issuer /\ e.journal.stage = "PreparedAnchor"
        /\ e.journal.prior = d.issuer.prior
    <3>1. /\ d.issuer.stage = "Issued" /\ Behind(d.issuer, d.worker)
          /\ d.journal.stage \in {"None", "Published"}
        BY <1>4 DEF Begins
    <3> QED BY <1>4, <3>1, MoveFields
  <2>2. CASE d.journal.stage = "None"
    <3>1. d.journal = NoJournal /\ d.worker = NoWorker
        BY <2>2 DEF Joined
    <3>2. Begun(d.journal) = 0 /\ e.journal.prior = <<>>
        BY <2>1, <3>1 DEF Begun, NoJournal, NoWorker, Behind
    <3>3. Begun(e.journal) = 1
        BY <2>1, <3>2 DEF Begun
    <3> QED BY <1>0, <2>1, <3>2, <3>3 DEF Prepares
  <2>3. CASE d.journal.stage = "Published"
    <3>1. d.worker = WorkerRecord(d.journal)
        BY <2>3 DEF Joined, NoJournal
    <3>2. e.journal.prior = Append(d.journal.prior, d.journal.receipt)
        BY <2>1, <3>1 DEF WorkerRecord, Behind
    <3>3. Len(e.journal.prior) = Len(d.journal.prior) + 1
        BY <1>0, <3>2, AppendChain
    <3>4. Begun(e.journal) = Begun(d.journal) + 1
        BY <1>0, <2>1, <2>3, <3>3 DEF Begun
    <3> QED BY <1>0, <2>1, <3>4 DEF Prepares
  <2> QED BY <2>1, <2>2, <2>3
<1>5. CASE Observes(d, e) \/ Publishes(d, e)
  <2>1. /\ e.issuer = d.issuer /\ e.journal.prior = d.journal.prior
        /\ e.journal.stage # "None"
        /\ d.journal.stage \in {"PreparedAnchor", "AnchorCommitted"}
      BY <1>5, MoveFields DEF Observes, Publishes
  <2>2. Begun(e.journal) = Begun(d.journal)
      BY <2>1 DEF Begun
  <2>3. ~Prepares(d, e) /\ ~Begins(d, e)
    <3>1. d.issuer.stage = "Issued"
        BY <2>1 DEF Joined, SameReceipt, NoJournal
    <3> QED BY <2>1, <3>1 DEF Prepares, Begins
  <2> QED BY <1>0, <2>1, <2>2, <2>3
<1>6. CASE Carries(d, e)
  <2>1. /\ e.issuer = d.issuer /\ e.journal = d.journal
        /\ d.journal.stage = "AnchorCommitted"
      BY <1>6, MoveFields DEF Carries
  <2>2. ~Prepares(d, e) /\ ~Begins(d, e)
    <3>1. d.issuer.stage = "Issued"
        BY <2>1 DEF Joined, SameReceipt, NoJournal
    <3> QED BY <2>1, <3>1 DEF Prepares, Begins
  <2> QED BY <1>0, <2>1, <2>2
<1>7. CASE Acknowledges(d, e)
  <2>1. /\ e.journal = d.journal /\ d.issuer.stage = "Issued"
        /\ e.issuer.stage = "Ready"
        /\ e.issuer.prior = Append(d.issuer.prior, d.issuer.receipt)
      BY <1>7, MoveFields DEF Acknowledges, SameReceipt
  <2>2. Len(e.issuer.prior) = Len(d.issuer.prior) + 1
      BY <1>0, <2>1, AppendChain
  <2>3. Slots(e.issuer) = Slots(d.issuer)
      BY <1>0, <2>1, <2>2 DEF Slots
  <2>4. ~Prepares(d, e)
      BY <2>1 DEF Prepares
  <2>5. ~Begins(d, e)
    <3>1. Begins(d, e) => e.journal.stage = "PreparedAnchor"
        BY MoveFields
    <3> QED BY <1>7, <2>1, <3>1 DEF Acknowledges
  <2> QED BY <1>0, <2>1, <2>3, <2>4, <2>5
<1> QED BY <1>1, <1>2, <1>3, <1>4, <1>5, <1>6, <1>7 DEF Moves

(* What draws a number, and what a fault costs. *)
LEMMA DrawKinds ==
    ASSUME IInv, [Next]_vars
    PROVE  \/ fresh' = fresh
           \/ BeginVerify \/ PrepareChallenge
           \/ BeginPublish /\ BeginsNew
<1> USE DEF NoCommit
<1>1. CASE PowerLoss \/ Restore \/ UNCHANGED vars
    BY <1>1 DEF PowerLoss, Restore, vars
<1>2. CASE Recover
    BY <1>2, StepRecovers
<1>3. CASE SendChallenge \/ ReceiveObservation \/ Attest \/ RefuseAttestation
           \/ RespondPublished \/ NewOccurrence \/ ReleaseReceipt
    BY <1>3 DEF SendChallenge, ReceiveObservation, Attest, RefuseAttestation,
                RespondPublished, NewOccurrence, ReleaseReceipt
<1>4. CASE EndSession \/ LoseAnchor \/ AnchorExchange \/ AnchorRefuses \/ AnchorCrash
           \/ AnchorInterrupted \/ Crash \/ Backup
    BY <1>4 DEF EndSession, LoseAnchor, AnchorExchange, AnchorRefuses, AnchorCrash,
                AnchorInterrupted, AnchorGone, Crash, Backup
<1>5. CASE IssueReceipt \/ RecordObservation \/ CommitWorker \/ PublishJournal
           \/ AcknowledgePublished
    BY <1>5 DEF IssueReceipt, RecordObservation, CommitWorker, PublishJournal,
                AcknowledgePublished
<1>6. CASE BeginPublish
    BY <1>6, BeginCases DEF GoesOn
<1> QED BY <1>1, <1>2, <1>3, <1>4, <1>5, <1>6, StepKinds DEF Quiet, Writing

LEMMA FaultsGrow ==
    ASSUME IInv, [Next]_vars
    PROVE  faults \in Nat /\ faults' \in Nat /\ faults <= faults'
<1>0. faults \in Nat
    BY PublicationAssumption DEF IInv, TypeOK
<1> USE DEF NoCommit, Fault
<1>1. CASE PowerLoss \/ Restore \/ UNCHANGED vars
    BY <1>0, <1>1 DEF PowerLoss, Restore, vars
<1>2. ASSUME NEW name, NEW record, NEW step, CommitRecord(name, record, step)
      PROVE  faults' = faults \/ faults' = faults + 1
    BY <1>2 DEF CommitRecord
<1>3. CASE Recover
    BY <1>0, <1>2, <1>3 DEF Recover, RecoverIssuer, RecoverWorker, RecoverJournal
<1>4. CASE SendChallenge \/ ReceiveObservation \/ Attest \/ RefuseAttestation
           \/ RespondPublished \/ NewOccurrence \/ ReleaseReceipt \/ BeginVerify
    BY <1>0, <1>4 DEF SendChallenge, ReceiveObservation, Attest, RefuseAttestation,
                RespondPublished, NewOccurrence, ReleaseReceipt, BeginVerify
<1>5. CASE EndSession \/ LoseAnchor \/ AnchorExchange \/ AnchorRefuses \/ AnchorCrash
           \/ AnchorInterrupted \/ Crash \/ Backup
    BY <1>0, <1>5 DEF EndSession, LoseAnchor, AnchorExchange, AnchorRefuses, AnchorCrash,
                AnchorInterrupted, Crash, Backup
<1>6. CASE PrepareChallenge \/ IssueReceipt \/ AcknowledgePublished
    BY <1>0, <1>2, <1>6
       DEF PrepareChallenge, IssueReceipt, AcknowledgePublished, CommitIssuer
<1>7. CASE RecordObservation \/ PublishJournal \/ CommitWorker
    BY <1>0, <1>2, <1>7
       DEF RecordObservation, PublishJournal, CommitWorker, CommitJournal
<1>8. CASE BeginPublish
    BY <1>0, <1>2, <1>8, BeginCases DEF BeginsNew, GoesOn, CommitJournal
<1> QED BY <1>1, <1>3, <1>4, <1>5, <1>6, <1>7, <1>8, StepKinds DEF Quiet, Writing

(* A draw is paid for by a record that lasts, or by a fault. *)
LEMMA DrawIsPaid ==
    ASSUME IInv, PrepareChallenge \/ (BeginPublish /\ BeginsNew)
    PROVE  /\ kept = disk /\ fresh' = fresh + 1
           /\ Prepares(disk, disk') \/ Begins(disk, disk')
           /\ \/ kept' = disk' /\ faults' = faults
              \/ kept' = kept /\ faults' = faults + 1
<1>1. Prepares(disk, disk') \/ Begins(disk, disk')
    BY StepPrepares, StepBegins
<1>2. kept = disk
    BY StepPrepares, StepBegins DEF Commits
<1>3. ASSUME NEW name, NEW record, NEW step, CommitRecord(name, record, step)
      PROVE  \/ kept' = disk' /\ faults' = faults
             \/ kept' = kept /\ faults' = faults + 1
    BY <1>2, <1>3 DEF CommitRecord, Fault
<1>4. fresh' = fresh + 1
    BY DEF PrepareChallenge, BeginsNew, Draw
<1>5. \E name, record, step : CommitRecord(name, record, step)
    BY DEF PrepareChallenge, BeginsNew, CommitIssuer, CommitJournal
<1> QED BY <1>1, <1>2, <1>3, <1>4, <1>5

LEMMA BoundedStep ==
    ASSUME IInv, Bounded, [Next]_vars, restores' = restores
    PROVE  Bounded'
<1>0. /\ disk \in Journals /\ kept \in Journals /\ Joined(disk) /\ Joined(kept)
      /\ HasReceipt(disk.issuer) /\ HasReceipt(kept.issuer)
      /\ disk' \in Journals /\ kept' \in Journals
    BY Typed, DirectoryStep DEF IInv, DirectoriesSound, Directories
<1>1. /\ Slots(disk.issuer) <= MaxSequence /\ Slots(kept.issuer) <= MaxSequence
      /\ fresh <= MaxFresh + Slots(kept.issuer) + Begun(kept.journal) + faults
    BY DEF Bounded
<1>2. /\ Slots(kept.issuer) \in Nat /\ Begun(kept.journal) \in Nat
      /\ Slots(kept'.issuer) \in Nat /\ Begun(kept'.journal) \in Nat
      /\ MaxFresh \in Nat /\ fresh \in Nat
    BY <1>0, SlotsTyped, PublicationAssumption, Typed
<1>3. \/ disk' \in {disk, kept} /\ kept' \in {disk, kept}
      \/ kept = disk /\ Moves(disk, disk') /\ kept' \in {disk, disk'}
    BY DirectoryKinds DEF Commits
<1>4. \A d \in {disk', kept'} : Slots(d.issuer) <= MaxSequence
    BY <1>0, <1>1, <1>3, MoveSlots
<1>5. /\ Slots(kept.issuer) <= Slots(kept'.issuer)
      /\ Begun(kept.journal) <= Begun(kept'.journal)
  <2>1. kept' = kept \/ Moves(kept, kept')
      BY <1>3, Typed DEF OneRecordLags
  <2> QED BY <1>0, <1>2, <2>1, MoveSlots
<1>6. fresh' <= MaxFresh + Slots(kept'.issuer) + Begun(kept'.journal) + faults'
  <2>1. CASE fresh' = fresh
      BY <1>1, <1>2, <1>5, <2>1, FaultsGrow
  <2>2. CASE BeginVerify
    <3>1. fresh' = fresh + 1 /\ fresh < MaxFresh
        BY <2>2 DEF BeginVerify, Draw
    <3> QED BY <1>2, <3>1, FaultsGrow
  <2>3. CASE PrepareChallenge \/ (BeginPublish /\ BeginsNew)
    <3>1. /\ kept = disk /\ fresh' = fresh + 1
          /\ Prepares(disk, disk') \/ Begins(disk, disk')
          /\ \/ kept' = disk' /\ faults' = faults
             \/ kept' = kept /\ faults' = faults + 1
        BY <2>3, DrawIsPaid
    <3>2. CASE kept' = kept /\ faults' = faults + 1
        BY <1>1, <1>2, <3>1, <3>2, FaultsGrow
    <3>3. CASE kept' = disk' /\ faults' = faults
      <4>1. \/ Slots(kept'.issuer) = Slots(kept.issuer) + 1
            \/ Begun(kept'.journal) = Begun(kept.journal) + 1
          BY <1>0, <3>1, <3>3, MoveSlots DEF Moves
      <4> QED BY <1>1, <1>2, <1>5, <3>1, <3>3, <4>1, FaultsGrow
    <3> QED BY <3>1, <3>2, <3>3
  <2> QED BY <2>1, <2>2, <2>3, DrawKinds
<1> QED BY <1>4, <1>6 DEF Bounded

(* What a move does to the record and to what is acknowledged of it.       *)
LEMMA MoveMaps ==
    ASSUME NEW d \in Journals, NEW e, Joined(d), Moves(d, e)
    PROVE  \/ /\ e.worker = d.worker /\ e.issuer.prior = d.issuer.prior
           \/ /\ e.issuer = d.issuer /\ d.issuer.stage = "Issued"
              /\ d.worker.chain = d.issuer.prior
              /\ e.worker.chain = Append(d.worker.chain, d.issuer.receipt)
           \/ /\ e.worker = d.worker /\ e.issuer.prior = d.worker.chain
<1>1. CASE Creates(d, e)
  <2>1. e.issuer = Genesis /\ d.issuer = NoIssuer /\ e.worker = d.worker
      BY <1>1, MoveFields DEF Creates
  <2> QED BY <2>1 DEF Genesis, NoIssuer
<1>2. CASE Prepares(d, e) \/ Issues(d, e) \/ Begins(d, e) \/ Observes(d, e)
           \/ Publishes(d, e)
  <2>1. e.worker = d.worker /\ e.issuer.prior = d.issuer.prior
      BY <1>2, MoveFields
  <2> QED BY <2>1
<1>3. CASE Carries(d, e)
  <2>1. /\ e.issuer = d.issuer /\ e.worker = WorkerRecord(d.journal)
        /\ d.journal.stage = "AnchorCommitted" /\ d.worker.chain = d.journal.prior
      BY <1>3, MoveFields DEF Carries
  <2>2. SameReceipt(d.issuer, d.journal)
      BY <2>1 DEF Joined, NoJournal
  <2> QED BY <2>1, <2>2 DEF SameReceipt, WorkerRecord
<1>4. CASE Acknowledges(d, e)
  <2>1. /\ e.worker = d.worker
        /\ e.issuer.prior = Append(d.issuer.prior, d.issuer.receipt)
        /\ d.journal.stage = "Published" /\ SameReceipt(d.issuer, d.journal)
      BY <1>4, MoveFields DEF Acknowledges
  <2>2. d.worker = WorkerRecord(d.journal)
      BY <2>1 DEF Joined, NoJournal
  <2> QED BY <2>1, <2>2 DEF SameReceipt, WorkerRecord
<1> QED BY <1>1, <1>2, <1>3, <1>4 DEF Moves

(* A receipt that reaches the Worker ledger is a number that was drawn.    *)
LEMMA ReceiptInRange ==
    ASSUME IInv, Bounded, disk.issuer.stage = "Issued"
    PROVE  /\ disk.issuer.receipt \in 1..(MaxFresh + 2 * (MaxSequence + MaxFaults))
           /\ Len(disk.issuer.prior) < MaxSequence
<1>1. /\ disk \in Journals /\ kept \in Journals /\ Joined(kept)
      /\ disk.issuer.receipt \in Nat /\ disk.issuer.receipt # 0
      /\ disk.issuer.receipt <= fresh
    BY Typed, DirectoryFields
       DEF IInv, DirectoriesSound, Directories, HasReceipt, Drawn, IssuerRecords
<1>2. /\ Slots(kept.issuer) \in Nat /\ Begun(kept.journal) \in Nat
      /\ Len(disk.issuer.prior) \in Nat /\ Begun(kept.journal) <= Slots(kept.issuer)
    BY <1>1, SlotsTyped, BegunForIssued
<1>3. Slots(disk.issuer) = Len(disk.issuer.prior) + 1
    BY DEF Slots
<1>4. /\ Slots(disk.issuer) <= MaxSequence /\ Slots(kept.issuer) <= MaxSequence
      /\ fresh <= MaxFresh + Slots(kept.issuer) + Begun(kept.journal) + faults
      /\ fresh \in Nat /\ faults \in Nat /\ faults <= MaxFaults
      /\ MaxFresh \in Nat /\ MaxSequence \in Nat /\ MaxFaults \in Nat
    BY PublicationAssumption DEF Bounded, IInv, TypeOK
<1> QED BY <1>1, <1>2, <1>3, <1>4, SMTT(30)

LEMMA DurableStep ==
    ASSUME IInv, Bounded, [Next]_vars, restores' = restores
    PROVE  [Durable!Next]_(Durable!vars)
<1> USE DEF Durable!Next, Durable!vars, Durable!Propose, Durable!Acknowledge,
            Durable!Lose
<1>0. /\ disk \in Journals /\ kept \in Journals /\ Joined(disk) /\ Joined(kept)
      /\ OneRecordLags
    BY Typed
<1>1. CASE disk' = disk /\ kept' = kept
    BY <1>1 DEF Worker
<1>2. CASE Commits
  <2>1. kept = disk /\ Moves(disk, disk') /\ kept' \in {disk, disk'}
      BY <1>2 DEF Commits
  <2>2. CASE disk'.worker = disk.worker /\ disk'.issuer.prior = disk.issuer.prior
      BY <2>1, <2>2 DEF Worker
  <2>3. CASE /\ disk'.issuer = disk.issuer /\ disk.issuer.stage = "Issued"
             /\ disk.worker.chain = disk.issuer.prior
             /\ disk'.worker.chain = Append(disk.worker.chain, disk.issuer.receipt)
    <3>1. /\ disk.issuer.receipt \in 1..(MaxFresh + 2 * (MaxSequence + MaxFaults))
          /\ Len(disk.worker.chain) < MaxSequence
        BY <2>3, ReceiptInRange
    <3>2. kept.issuer.prior = disk.worker.chain /\ kept'.issuer.prior = kept.issuer.prior
        BY <2>1, <2>3
    <3> QED BY <2>3, <3>1, <3>2 DEF Worker
  <2>4. CASE disk'.worker = disk.worker /\ disk'.issuer.prior = disk.worker.chain
      BY <2>1, <2>4 DEF Worker
  <2> QED BY <1>0, <2>1, <2>2, <2>3, <2>4, MoveMaps
<1>3. CASE kept' = disk' /\ disk' = disk
  <2>1. \/ disk.issuer.prior = kept.issuer.prior
        \/ disk.issuer.prior = disk.worker.chain
      BY <1>0, MoveMaps DEF OneRecordLags
  <2> QED BY <1>3, <2>1 DEF Worker
<1>4. CASE kept' = disk' /\ disk' = kept
  <2>1. \/ kept.worker.chain = disk.worker.chain
        \/ kept.worker.chain = kept.issuer.prior
      BY <1>0, MoveMaps DEF OneRecordLags
  <2> QED BY <1>4, <2>1 DEF Worker
<1> QED BY <1>1, <1>2, <1>3, <1>4, DirectoryKinds

(* The three journals and the anchor implement one durable record, for a   *)
(* directory that is never replaced by a copy: the record is the Worker    *)
(* ledger, and it is acknowledged once the issuer is durably past it.      *)
THEOREM Refinement ==
    ASSUME MaxRestores = 0
    PROVE  Spec => ImplementsDurableRecord
<1>1. Init => Durable!Init /\ Bounded
  <2>1. ASSUME Init PROVE Durable!Init
      BY <2>1 DEF Init, Durable!Init, Worker, NoWorker, NoIssuer
  <2>2. ASSUME Init PROVE Bounded
    <3>1. /\ disk.issuer = NoIssuer /\ kept.issuer = NoIssuer
          /\ kept.journal = NoJournal /\ fresh = 0 /\ faults = 0
        BY <2>2 DEF Init
    <3>2. Slots(NoIssuer) = 0 /\ Begun(NoJournal) = 0
        BY DEF Slots, Begun, NoIssuer, NoJournal
    <3> QED BY <3>1, <3>2, PublicationAssumption DEF Bounded
  <2> QED BY <2>1, <2>2
<1>2. ASSUME IInv, IInv', [Next]_vars PROVE restores' = restores
    BY <1>2 DEF IInv, TypeOK
<1>3. IInv /\ IInv' /\ Bounded /\ [Next]_vars => Bounded' /\ [Durable!Next]_(Durable!vars)
    BY <1>2, BoundedStep, DurableStep
<1> QED BY <1>1, <1>3, InvariantHolds, PTL DEF Spec, ImplementsDurableRecord, Durable!Spec
=============================================================================
