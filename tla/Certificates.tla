---------------------------- MODULE Certificates ----------------------------
(***************************************************************************)
(* CertificatesService: issue(), bulkIssue() and revoke(), each awaiting   *)
(* two stores that share no transaction, the PostgreSQL table              *)
(* "certificates" and the Fabric ledger (module Chaincode).                *)
(*                                                                         *)
(* An element of Ids is one certificate that a client asks for: a call of  *)
(* issue(), or one entry of a bulkIssue() body.  It also names what the    *)
(* program creates for it, the UUID of the row (record.id) and the QR      *)
(* token generated from that UUID.  The entries of a bulk body are         *)
(* processed in order, so entry i starts after those in Earlier[i];        *)
(* issue() is the case Earlier[i] = {}.  bulkIssue() repeats the body of   *)
(* issue() for each entry and keeps going after a failure, so that the     *)
(* same actions stand for both.                                            *)
(*                                                                         *)
(* Each action is what the event loop runs between two awaits.             *)
(***************************************************************************)
EXTENDS Chaincode

CONSTANTS
    Content,     \* certificate data: the eight hashed fields of the DTO
    NoContent,   \* content of a row that does not exist
    Keys,        \* (rollNumber, registrationNumber) pairs
    KeyOf,       \* the key of each content
    Hash,        \* computeCertificateHash
    Supplied,    \* values of the DTO's optional qrCodeToken
    Blank,       \* "", the entity's default qrCodeToken
    NoToken,     \* token of a row that does not exist
    Earlier,     \* the bulk entries processed before each one
    MayFail      \* whether calls to the stores and the process can fail

ASSUME ContentAssumption ==
    /\ NoContent \notin Content
    /\ KeyOf \in [Content -> Keys]
    /\ Hash \in [Content -> Digests]

ASSUME TokenAssumption ==
    /\ Blank \notin Ids \cup Supplied
    /\ NoToken \notin Ids \cup Supplied \cup {Blank}
    /\ Ids \cap Supplied = {}

ASSUME EarlierAssumption ==
    /\ Earlier \in [Ids -> SUBSET Ids]
    /\ \A i \in Ids : i \notin Earlier[i]
    /\ \A i, j \in Ids : j \in Earlier[i] => Earlier[j] \subseteq Earlier[i]
    /\ \A i, j, k \in Ids :     \* the entries of one body are totally ordered
          i # j /\ ({i, j} \subseteq Earlier[k] \/ k \in Earlier[i] \cap Earlier[j])
             => i \in Earlier[j] \/ j \in Earlier[i]

ASSUME MayFailAssumption == MayFail \in BOOLEAN

VARIABLES
    status,    \* DB: certificates.status, "none" where there is no row
    content,   \* DB: the data columns
    qr,        \* DB: certificates.qr_code_token, a unique column
    dto,       \* the DTO of each issuing call
    pc,        \* where each issuing call is
    rpc,       \* where each revoke call is
    target     \* the certificate each revoke call names

dbVars == <<status, content, qr>>
revokeVars == <<rpc, target>>
vars == <<chainVars, dbVars, dto, pc, revokeVars>>

DefaultTokens == Supplied \cup {Blank}     \* what the first INSERT may store
Tokens == Ids \cup DefaultTokens

Flying == {"checked", "drafted", "submitted", "failing"}
Finished == {"created", "duplicate", "rejected", "error", "dead"}
RevokeEnded == {"revoked", "notFound", "error", "dead"}

TypeOK ==
    /\ ChainTypeOK
    /\ status \in [Ids -> {"none", "draft", "issued", "failed", "revoked"}]
    /\ content \in [Ids -> Content \cup {NoContent}]
    /\ qr \in [Ids -> Tokens \cup {NoToken}]
    /\ dto \in [Ids -> Content \cup {NoContent}]
    /\ pc \in [Ids -> {"idle"} \cup Flying \cup Finished]
    /\ rpc \in [Revokes -> {"idle", "submitted"} \cup RevokeEnded]
    /\ target \in [Revokes -> Ids]

Init ==
    /\ ChainInit
    /\ status = [i \in Ids |-> "none"]
    /\ content = [i \in Ids |-> NoContent]
    /\ qr = [i \in Ids |-> NoToken]
    /\ dto = [i \in Ids |-> NoContent]
    /\ pc = [i \in Ids |-> "idle"]
    /\ rpc = [v \in Revokes |-> "idle"]
    /\ target \in [Revokes -> Ids]

-----------------------------------------------------------------------------
(* The table. *)

HasRow(i) == status[i] # "none"
(* Defect: only certificates that were issued count as duplicates. *)
DefectIssuedKeysOnly(k) ==
    \E j \in Ids : status[j] = "issued" /\ KeyOf[content[j]] = k

RowWithKey(k) == \E j \in Ids : HasRow(j) /\ KeyOf[content[j]] = k

(* Defect: the unique index covers issued rows only. *)
DefectPartialIndex(t) == \E j \in Ids : status[j] = "issued" /\ qr[j] = t

TokenTaken(t) == \E j \in Ids : HasRow(j) /\ qr[j] = t

(* create() runs the entity's constructor, so that the first save() stores  *)
(* qrCodeToken = "" unless the DTO brings one.                              *)
Insert(i, t) ==
    /\ ~TokenTaken(t)
    /\ status' = [status EXCEPT ![i] = "draft"]
    /\ content' = [content EXCEPT ![i] = dto[i]]
    /\ qr' = [qr EXCEPT ![i] = t]

(* Defect: the token is put in the record after its last save. *)
DefectSaveWithoutToken(i, s) ==
    /\ status' = [status EXCEPT ![i] = s]
    /\ content' = [content EXCEPT ![i] = dto[i]]
    /\ UNCHANGED qr

(* A later save() writes every column of the in-memory record over the row, *)
(* whatever the row holds by then; the record has its generated QR token.   *)
Save(i, s) ==
    /\ status' = [status EXCEPT ![i] = s]
    /\ content' = [content EXCEPT ![i] = dto[i]]
    /\ qr' = [qr EXCEPT ![i] = i]

Goto(i, l) == pc' = [pc EXCEPT ![i] = l]

-----------------------------------------------------------------------------
(* issue(), and one turn of bulkIssue()'s loop. *)

(* Defect: the entries of a bulk body are processed by Promise.all(). *)
DefectReadyAtOnce(i) == pc[i] = "idle"

Ready(i) ==
    /\ pc[i] = "idle"
    /\ \A j \in Earlier[i] : pc[j] \in Finished

PassCheck(i, c) ==
    /\ Ready(i)
    /\ ~RowWithKey(KeyOf[c])
    /\ dto' = [dto EXCEPT ![i] = c]
    /\ Goto(i, "checked")
    /\ UNCHANGED <<chainVars, dbVars, revokeVars>>

RejectDuplicate(i, c) ==
    /\ Ready(i)
    /\ RowWithKey(KeyOf[c])
    /\ Goto(i, "duplicate")
    /\ UNCHANGED <<chainVars, dbVars, dto, revokeVars>>

CheckErrs(i) ==
    /\ MayFail
    /\ Ready(i)
    /\ Goto(i, "error")
    /\ UNCHANGED <<chainVars, dbVars, dto, revokeVars>>

InsertDraft(i, t) ==
    /\ pc[i] = "checked"
    /\ Insert(i, t)
    /\ Goto(i, "drafted")
    /\ UNCHANGED <<chainVars, dto, revokeVars>>

(* The unique constraint of qr_code_token; the exception leaves issue(),   *)
(* and the outer catch of bulkIssue() moves on to the next entry.          *)
InsertCollides(i, t) ==
    /\ pc[i] = "checked"
    /\ TokenTaken(t)
    /\ Goto(i, "rejected")
    /\ UNCHANGED <<chainVars, dbVars, dto, revokeVars>>

(* The database call fails, before or after its commit. *)
InsertErrs(i, t) ==
    /\ MayFail
    /\ pc[i] = "checked"
    /\ Insert(i, t) \/ UNCHANGED dbVars
    /\ Goto(i, "error")
    /\ UNCHANGED <<chainVars, dto, revokeVars>>

(* Defect: the transaction is sent before the draft is saved. *)
DefectSubmitFirst(i) ==
    /\ pc[i] \in {"checked", "drafted"}
    /\ Propose(i)
    /\ Goto(i, "submitted")
    /\ UNCHANGED <<ledger, anchor, dbVars, dto, revokeVars>>

(* Defect: nothing is ordered, as with evaluateTransaction(). *)
DefectEvaluateOnly(i) ==
    /\ pc[i] = "drafted"
    /\ Goto(i, "submitted")
    /\ UNCHANGED <<chainVars, dbVars, dto, revokeVars>>

SubmitIssue(i) ==
    /\ pc[i] = "drafted"
    /\ Propose(i)
    /\ Goto(i, "submitted")
    /\ UNCHANGED <<ledger, anchor, dbVars, dto, revokeVars>>

(* Defect: submitTransaction() is not awaited. *)
DefectSaveUnconfirmed(i) ==
    /\ pc[i] = "submitted"
    /\ Save(i, "issued")
    /\ Goto(i, "created")
    /\ UNCHANGED <<chainVars, dto, revokeVars>>

(* Defect: the record is saved once more after issue() has answered. *)
DefectSaveTwice(i) ==
    /\ pc[i] \in {"submitted", "created"}
    /\ tx[i] = "committed"
    /\ Save(i, "issued")
    /\ Goto(i, "created")
    /\ UNCHANGED <<chainVars, dto, revokeVars>>

SaveIssued(i) ==
    /\ pc[i] = "submitted"
    /\ tx[i] = "committed"
    /\ Save(i, "issued")
    /\ Goto(i, "created")
    /\ UNCHANGED <<chainVars, dto, revokeVars>>

(* Defect: the gateway has no deadline for the commit status. *)
DefectNoDeadline(i) ==
    /\ MayFail
    /\ pc[i] = "drafted"
    /\ Goto(i, "failing")
    /\ UNCHANGED <<chainVars, dbVars, dto, revokeVars>>

(* Something inside the try threw: endorsement was refused or late, the    *)
(* transaction was invalidated, one of the gateway's deadlines passed      *)
(* while it was still on its way, or the ISSUED save failed, before or     *)
(* after its commit.                                                       *)
EnterCatch(i) ==
    /\ MayFail
    /\ pc[i] \in {"drafted", "submitted"}
    /\ \/ UNCHANGED dbVars
       \/ tx[i] = "committed" /\ Save(i, "issued")
    /\ Goto(i, "failing")
    /\ UNCHANGED <<chainVars, dto, revokeVars>>

SaveFailed(i) ==
    /\ pc[i] = "failing"
    /\ Save(i, "failed")
    /\ Goto(i, "error")
    /\ UNCHANGED <<chainVars, dto, revokeVars>>

SaveFailedErrs(i) ==
    /\ MayFail
    /\ pc[i] = "failing"
    /\ Goto(i, "error")
    /\ UNCHANGED <<chainVars, dbVars, dto, revokeVars>>

-----------------------------------------------------------------------------
(* revoke(). *)

RevokeGoto(v, l) == rpc' = [rpc EXCEPT ![v] = l]

SubmitRevoke(v) ==
    /\ rpc[v] = "idle"
    /\ ledger[target[v]] # "absent"
    /\ Propose(v)
    /\ RevokeGoto(v, "submitted")
    /\ UNCHANGED <<ledger, anchor, dbVars, dto, pc, target>>

(* "does not exist" becomes a 404. *)
RevokeNotFound(v) ==
    /\ rpc[v] = "idle"
    /\ ledger[target[v]] = "absent"
    /\ RevokeGoto(v, "notFound")
    /\ UNCHANGED <<chainVars, dbVars, dto, pc, target>>

(* Defect: the row is updated without waiting for the ledger. *)
DefectMarkUnconfirmed(v) ==
    /\ rpc[v] = "submitted"
    /\ status' = [status EXCEPT ![target[v]] = "revoked"]
    /\ RevokeGoto(v, "revoked")
    /\ UNCHANGED <<chainVars, content, qr, dto, pc, target>>

(* update() of the status alone, once the transaction has committed.  The  *)
(* row exists: its certificate is on the ledger.                           *)
MarkRevoked(v) ==
    /\ rpc[v] = "submitted"
    /\ tx[v] = "committed"
    /\ status' = [status EXCEPT ![target[v]] = "revoked"]
    /\ RevokeGoto(v, "revoked")
    /\ UNCHANGED <<chainVars, content, qr, dto, pc, target>>

(* Defect: the gateway has no deadline for the commit status. *)
DefectWaitForever(v) ==
    /\ \/ /\ rpc[v] = "idle"
          /\ MayFail \/ ledger[target[v]] = "REVOKED"
       \/ rpc[v] = "submitted" /\ tx[v] = "lost"
    /\ RevokeGoto(v, "error")
    /\ UNCHANGED <<chainVars, dbVars, dto, pc, target>>

(* Any other error is rethrown: the chaincode refuses what is revoked      *)
(* already, the transaction was invalidated, a deadline passed, or the     *)
(* database failed, before or after its commit.                            *)
RevokeErrs(v) ==
    /\ \/ /\ rpc[v] = "idle"
          /\ MayFail \/ ledger[target[v]] = "REVOKED"
          /\ UNCHANGED status
       \/ /\ rpc[v] = "submitted"
          /\ MayFail \/ tx[v] = "lost"
          /\ UNCHANGED status
       \/ /\ rpc[v] = "submitted"
          /\ MayFail /\ tx[v] = "committed"
          /\ status' = [status EXCEPT ![target[v]] = "revoked"]
    /\ RevokeGoto(v, "error")
    /\ UNCHANGED <<chainVars, content, qr, dto, pc, target>>

-----------------------------------------------------------------------------
(* The channel, and the process. *)

IssueCommits(i) ==
    /\ CommitIssue(i, Hash[dto[i]])
    /\ UNCHANGED <<dbVars, dto, pc, revokeVars>>

RevokeCommits(v) ==
    /\ CommitRevoke(v, target[v], {w \in Revokes : target[w] = target[v]})
    /\ UNCHANGED <<dbVars, dto, pc, revokeVars>>

TxLost(c) ==
    /\ MayFail
    /\ Lose(c)
    /\ UNCHANGED <<dbVars, dto, pc, revokeVars>>

(* The bulk call that holds entry i has begun and not reached it yet. *)
Queued(i) ==
    /\ pc[i] = "idle"
    /\ \E j \in Earlier[i] : pc[j] # "idle"

(* The process dies with everything it had in memory.  Nothing resumes or  *)
(* repairs the calls it was serving; what was sent to the orderer stays.   *)
Crash ==
    /\ MayFail
    /\ \/ \E i \in Ids : pc[i] \in Flying \/ Queued(i)
       \/ \E v \in Revokes : rpc[v] = "submitted"
    /\ pc' = [i \in Ids |-> IF pc[i] \in Flying \/ Queued(i) THEN "dead" ELSE pc[i]]
    /\ rpc' = [v \in Revokes |-> IF rpc[v] = "submitted" THEN "dead" ELSE rpc[v]]
    /\ UNCHANGED <<chainVars, dbVars, dto, target>>

-----------------------------------------------------------------------------

Start(i) ==
    \/ \E c \in Content : PassCheck(i, c) \/ RejectDuplicate(i, c)
    \/ CheckErrs(i)

Proceed(i) ==
    \/ \E t \in DefaultTokens :
          InsertDraft(i, t) \/ InsertCollides(i, t) \/ InsertErrs(i, t)
    \/ SubmitIssue(i) \/ SaveIssued(i) \/ EnterCatch(i)
    \/ SaveFailed(i) \/ SaveFailedErrs(i)

Revoking(v) ==
    SubmitRevoke(v) \/ RevokeNotFound(v) \/ MarkRevoked(v) \/ RevokeErrs(v)

Channel ==
    \/ \E i \in Ids : IssueCommits(i)
    \/ \E v \in Revokes : RevokeCommits(v)
    \/ \E c \in Calls : TxLost(c)

Next ==
    \/ \E i \in Ids : Start(i) \/ Proceed(i)
    \/ \E v \in Revokes : Revoking(v)
    \/ Channel
    \/ Crash

Spec == Init /\ [][Next]_vars

(***************************************************************************)
(* A call that has begun is run by the event loop until it ends: a query   *)
(* returns, and the deadlines of the gateway (endorse 15 s, submit 15 s,   *)
(* commit status 60 s) turn silence into an error.  Beginning is the       *)
(* client's choice, except for the later entries of a bulk body.  Nothing  *)
(* is assumed of the channel.                                              *)
(***************************************************************************)
FairSpec ==
    /\ Spec
    /\ \A i \in Ids : WF_vars(Proceed(i)) /\ WF_vars(Queued(i) /\ Start(i))
    /\ \A v \in Revokes : WF_vars(rpc[v] # "idle" /\ Revoking(v))

(* The same, with a channel that commits what it is sent. *)
LiveSpec ==
    /\ FairSpec
    /\ \A i \in Ids : WF_vars(IssueCommits(i))
    /\ \A v \in Revokes : WF_vars(RevokeCommits(v))

-----------------------------------------------------------------------------
(* Safety. *)

(* What PostgreSQL calls issued or revoked, and what issue() answered with *)
(* "ISSUED", is on the ledger: the row is only moved after the transaction *)
(* has committed.                                                          *)
IssuedIsAnchored ==
    \A i \in Ids :
        status[i] \in {"issued", "revoked"} \/ pc[i] = "created"
            => ledger[i] # "absent"

(* No certificate is on the ledger without its row, and the row hashes to  *)
(* what was anchored: the DRAFT is saved before the transaction is sent,   *)
(* and the saves that follow write the same data.  This is what lets       *)
(* verification recompute the hash from the row.                           *)
RowBeforeAnchor ==
    \A i \in Ids :
        ledger[i] # "absent" => HasRow(i) /\ anchor[i] = Hash[content[i]]

(* A row says revoked, and a revoke() call has succeeded, only for         *)
(* certificates that are revoked on the ledger.                            *)
RevokedAgrees ==
    /\ \A i \in Ids : status[i] = "revoked" => ledger[i] = "REVOKED"
    /\ \A v \in Revokes : rpc[v] = "revoked" => ledger[target[v]] = "REVOKED"

(* The default "" in a unique column lets one issuing call without a       *)
(* qrCodeToken of its own stand between its first and its second save: the *)
(* others fail on their INSERT.                                            *)
SingleFlight ==
    \A i, j \in Ids :
        HasRow(i) /\ HasRow(j) /\ qr[i] = Blank /\ qr[j] = Blank => i = j

(* The QR token that issue() handed out finds the certificate it was made  *)
(* for, and no other row.                                                  *)
ScanFindsTheCertificate ==
    \A i \in Ids :
        pc[i] = "created" => {j \in Ids : HasRow(j) /\ qr[j] = i} = {i}

(* Two entries of one bulk body never both get a row for the same roll and *)
(* registration number, even when the first ended as FAILED.               *)
BatchKeysDistinct ==
    \A i \in Ids : \A j \in Earlier[i] :
        HasRow(i) /\ HasRow(j) => KeyOf[content[i]] # KeyOf[content[j]]

(* Once its issuing call is over, a row changes in one way only: it is     *)
(* marked revoked, and then the ledger says REVOKED already.               *)
SettledRowsKept ==
    \A i \in Ids :
        pc[i] \in Finished =>
            /\ content'[i] = content[i] /\ qr'[i] = qr[i]
            /\ \/ status'[i] = status[i]
               \/ status'[i] = "revoked" /\ ledger[i] = "REVOKED"

SettledRowsAreStable == [][SettledRowsKept]_vars

(* A row left with the default token by a call that is over, after a crash *)
(* or a failing second save, is never repaired, and while it is there no   *)
(* call gets a row without bringing a token of its own.                    *)
Jammed == \E j \in Ids : HasRow(j) /\ qr[j] = Blank /\ pc[j] \in Finished

JamKept ==
    Jammed => /\ Jammed'
              /\ \A i \in Ids : ~HasRow(i) /\ HasRow(i)' => qr'[i] # Blank

JamIsPermanent == [][JamKept]_vars

-----------------------------------------------------------------------------
(* The inductive invariant behind the safety properties: where a call is   *)
(* tells what it has written to either store.                              *)

(* The row of a call appears with its INSERT, after a check of its DTO. *)
RowStages ==
    \A i \in Ids :
        /\ pc[i] \in {"idle", "checked", "duplicate", "rejected"} => ~HasRow(i)
        /\ pc[i] \in {"drafted", "submitted", "failing", "created"} => HasRow(i)
        /\ pc[i] \in Flying => dto[i] \in Content
        /\ HasRow(i) => {dto[i], content[i]} \subseteq Content

(* It holds the DTO's data, as long as nobody else edits the table. *)
RowData == \A i \in Ids : HasRow(i) => content[i] = dto[i]

(* A transaction exists once there is a row to anchor, and the ledger holds *)
(* what the committed ones say.                                             *)
IssueStages ==
    \A i \in Ids :
        /\ pc[i] = "drafted" => tx[i] = "none"
        /\ tx[i] # "none" => HasRow(i)
        /\ ledger[i] # "absent" <=> tx[i] = "committed"
        /\ tx[i] = "committed" => anchor[i] = Hash[dto[i]]
        /\ status[i] \in {"issued", "revoked"} => tx[i] = "committed"
        /\ pc[i] = "created" => tx[i] = "committed"

(* Revocations are of certificates the ledger knows, and the table follows. *)
RevokeStages ==
    /\ \A v \in Revokes :
          /\ tx[v] # "none" => ledger[target[v]] # "absent"
          /\ tx[v] = "committed" => ledger[target[v]] = "REVOKED"
          /\ rpc[v] = "revoked" => tx[v] = "committed"
    /\ \A i \in Ids : status[i] = "revoked" => ledger[i] = "REVOKED"

(* qr_code_token is unique; generated tokens are only in their own row. *)
TokenStages ==
    /\ \A i, j \in Ids : HasRow(i) /\ HasRow(j) /\ qr[i] = qr[j] => i = j
    /\ \A i \in Ids : HasRow(i) => qr[i] \in {i} \cup DefaultTokens
    /\ \A i \in Ids : pc[i] = "created" => qr[i] = i

(* An entry has begun only if those before it are over; from its check on, *)
(* their rows have other keys.                                             *)
BatchStages ==
    \A i \in Ids : \A j \in Earlier[i] :
        /\ pc[i] # "idle" => pc[j] \in Finished
        /\ (HasRow(i) \/ pc[i] = "checked") /\ HasRow(j)
             => KeyOf[content[j]] # KeyOf[dto[i]]

(* What does not depend on the data in the rows. *)
StoreStages ==
    /\ TypeOK
    /\ RowStages
    /\ IssueStages
    /\ RevokeStages
    /\ TokenStages

IInv == StoreStages /\ RowData /\ BatchStages

-----------------------------------------------------------------------------
(* What the code says and does not keep. *)

(* "Certificate already exists with given roll and registration number":   *)
(* at most one row has a given pair.                                       *)
OneRowPerKey ==
    \A i, j \in Ids :
        HasRow(i) /\ HasRow(j) /\ KeyOf[content[i]] = KeyOf[content[j]] => i = j

(* "Rollback: mark as FAILED": a row marked FAILED stands for an issuance  *)
(* that was undone, so that its certificate is not on the ledger.          *)
FailedIsNotAnchored ==
    \A i \in Ids : status[i] = "failed" => ledger[i] = "absent"

-----------------------------------------------------------------------------
(* Liveness. *)

(* Every issuing call ends, and every entry of a bulk body that has begun  *)
(* is reached, whatever fails and whether or not the channel ever commits: *)
(* the awaits inside the try all end, and so do the catches.               *)
EveryCallEnds ==
    \A i \in Ids : pc[i] \in Flying \/ Queued(i) ~> pc[i] \in Finished

(* Every revocation that was sent is answered. *)
EveryRevokeEnds ==
    \A v \in Revokes : rpc[v] = "submitted" ~> rpc[v] \in RevokeEnded

(* With no failure, a certificate that got its row gets issued, and its    *)
(* row gives the default token back for the next one.                      *)
DraftsAreIssued ==
    \A i \in Ids : HasRow(i) ~> pc[i] = "created" /\ qr[i] = i

(* A bulk body that nothing else disturbs is issued to its last entry: the *)
(* loop awaits each entry, so that no two want the default token at once.  *)
InBatchWith(i, j) == i = j \/ i \in Earlier[j] \/ j \in Earlier[i]

BulkCompletes ==
    \A i \in Ids :
        [](\A j \in Ids : ~InBatchWith(i, j) => pc[j] = "idle")
            => (Queued(i) ~> pc[i] \in {"created", "duplicate"})

-----------------------------------------------------------------------------
(* Refinement. *)

Truth ==
    [i \in Ids |-> CASE ledger[i] = "absent" -> "unknown"
                     [] ledger[i] = "ISSUED" -> "valid"
                     [] OTHER -> "revoked"]

Shown ==
    [i \in Ids |-> CASE status[i] = "none" -> "nothing"
                     [] status[i] \in {"draft", "failed"} -> "pending"
                     [] status[i] = "issued" -> "valid"
                     [] OTHER -> "revoked"]

Promised == {i \in Ids : pc[i] = "created"}
Withdrawn == {target[v] : v \in {w \in Revokes : rpc[w] = "revoked"}}

Register == INSTANCE CertificateRegister WITH
    truth <- Truth, shown <- Shown, promised <- Promised, withdrawn <- Withdrawn

(* The two stores, the awaits and the failures together look like one      *)
(* register: the ledger is its truth, the table what it shows, the answers *)
(* of issue() and revoke() its promises.                                   *)
ImplementsRegister == Register!Spec

=============================================================================
