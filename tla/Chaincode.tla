------------------------------ MODULE Chaincode ------------------------------
(***************************************************************************)
(* The ledger as certificates.service.ts uses it.  The chaincode and the   *)
(* Fabric gateway are not in the repository: this module says only what    *)
(* the calls of the service rely on.                                       *)
(*                                                                         *)
(* submitTransaction is endorsement (the chaincode runs against the        *)
(* ledger as it is now and may refuse), then ordering and commit, which    *)
(* happen later and which the caller may stop waiting for.  A transaction  *)
(* that was ordered is therefore "pending" until the channel commits it or *)
(* drops it, whatever became of the HTTP call that sent it.                *)
(***************************************************************************)

CONSTANTS
    Ids,       \* record.id of the certificates: one per issuing call
    Revokes,   \* revoke() calls
    Digests,   \* certificate hashes
    NoDigest   \* what the ledger holds for an id it does not know

Calls == Ids \cup Revokes

ASSUME CallsAssumption == Ids \cap Revokes = {}
ASSUME DigestsAssumption == NoDigest \notin Digests

VARIABLES
    ledger,    \* on-chain state of each certificate id
    anchor,    \* on-chain certificateHash of each id
    tx         \* the transaction sent by each call

chainVars == <<ledger, anchor, tx>>

LedgerStates == {"absent", "ISSUED", "REVOKED"}
TxStates == {"none", "pending", "committed", "lost"}

ChainTypeOK ==
    /\ ledger \in [Ids -> LedgerStates]
    /\ anchor \in [Ids -> Digests \cup {NoDigest}]
    /\ tx \in [Calls -> TxStates]

ChainInit ==
    /\ ledger = [i \in Ids |-> "absent"]
    /\ anchor = [i \in Ids |-> NoDigest]
    /\ tx = [c \in Calls |-> "none"]

(***************************************************************************)
(* Endorsement succeeded and the transaction went to the orderer.          *)
(***************************************************************************)
Propose(c) == tx' = [tx EXCEPT ![c] = "pending"]

(***************************************************************************)
(* The channel commits the IssueCertificate transaction of certificate i   *)
(* with hash h.  The id is a fresh UUID, so nobody else wrote it.          *)
(***************************************************************************)
CommitIssue(i, h) ==
    /\ tx[i] = "pending"
    /\ tx' = [tx EXCEPT ![i] = "committed"]
    /\ ledger' = [ledger EXCEPT ![i] = "ISSUED"]
    /\ anchor' = [anchor EXCEPT ![i] = h]

(***************************************************************************)
(* The channel commits the RevokeCertificate transaction of call v for i.  *)
(* The others in rivals were endorsed against the state this one           *)
(* overwrites, so the channel invalidates those still pending.             *)
(***************************************************************************)
CommitRevoke(v, i, rivals) ==
    /\ tx[v] = "pending"
    /\ tx' = [c \in Calls |-> IF c = v THEN "committed"
                              ELSE IF c \in rivals /\ tx[c] = "pending" THEN "lost"
                              ELSE tx[c]]
    /\ ledger' = [ledger EXCEPT ![i] = "REVOKED"]
    /\ UNCHANGED anchor

(***************************************************************************)
(* The orderer or the committing peers drop the transaction.               *)
(***************************************************************************)
Lose(c) ==
    /\ tx[c] = "pending"
    /\ tx' = [tx EXCEPT ![c] = "lost"]
    /\ UNCHANGED <<ledger, anchor>>

(***************************************************************************)
(* What VerifyCertificate(id, hash) may answer.  The service lists the     *)
(* results AUTHENTIC, TAMPERED, REVOKED and INVALID; which of two wins for *)
(* a revoked certificate whose hash does not match is the chaincode's own  *)
(* business, and both are allowed.                                         *)
(***************************************************************************)
Verdicts == {"AUTHENTIC", "TAMPERED", "REVOKED", "INVALID"}

VerifyCertificate(i, h) ==
    IF ledger[i] = "absent" THEN {"INVALID"}
    ELSE IF ledger[i] = "REVOKED"
         THEN {"REVOKED"} \cup (IF anchor[i] = h THEN {} ELSE {"TAMPERED"})
    ELSE IF anchor[i] = h THEN {"AUTHENTIC"} ELSE {"TAMPERED"}

=============================================================================
