---------------------------- MODULE RegisterProofs ----------------------------
(***************************************************************************)
(* Certificates implements CertificateRegister: in a state of StoreStages  *)
(* every step of the service is a step of the register or leaves it        *)
(* unchanged.                                                              *)
(***************************************************************************)
EXTENDS CertificatesProofs

registerVars == <<Truth, Shown, Promised, Withdrawn>>

(* The empty stores are the empty register. *)
LEMMA InitRegister == Init => Register!Init
BY DEF Init, ChainInit, Register!Init, Truth, Shown, Promised, Withdrawn

(* A step that changes neither the ledger, nor a row, nor what has been    *)
(* answered leaves the register alone.                                     *)
LEMMA RegisterUnchanged ==
    ASSUME TypeOK, UNCHANGED <<ledger, status, target>>,
           \A i \in Ids : pc'[i] = "created" <=> pc[i] = "created",
           \A v \in Revokes : rpc'[v] = "revoked" <=> rpc[v] = "revoked"
    PROVE  UNCHANGED registerVars
<1>1. Truth' = Truth /\ Shown' = Shown
  BY DEF Truth, Shown
<1>2. Promised' = Promised
  BY DEF Promised
<1>3. {v \in Revokes : rpc[v] = "revoked"}' = {v \in Revokes : rpc[v] = "revoked"}
  OBVIOUS
<1>4. Withdrawn' = Withdrawn
  BY <1>3 DEF Withdrawn
<1> QED
  BY <1>1, <1>2, <1>4 DEF registerVars

(* A save of the row of a call that has not answered is a Show. *)
LEMMA SaveShows ==
    ASSUME TypeOK, NEW i \in Ids, NEW s \in {"draft", "failed", "issued"},
           status' = [status EXCEPT ![i] = s],
           s = "issued" => ledger[i] # "absent",
           pc[i] # "created", NEW l, l # "created", pc' = [pc EXCEPT ![i] = l],
           UNCHANGED <<ledger, rpc, target>>
    PROVE  Register!Next
<1> DEFINE a == IF s = "issued" THEN "valid" ELSE "pending"
<1>1. Truth' = Truth /\ Withdrawn' = Withdrawn
  BY DEF Truth, Withdrawn
<1>2. Shown' = [Shown EXCEPT ![i] = a]
  BY DEF TypeOK, Shown
<1>3. Promised' = Promised /\ i \notin Promised
  BY DEF TypeOK, Promised
<1>4. a = "valid" => Truth[i] # "unknown"
  BY DEF Truth, TypeOK, ChainTypeOK, LedgerStates
<1>5. Register!Show(i, a)
  BY <1>1, <1>2, <1>3, <1>4 DEF Register!Show
<1> QED
  BY <1>5 DEF Register!Next

(* Marking a certificate that is revoked on the ledger is a Withdraw, with *)
(* or without a success for the client.                                    *)
LEMMA MarkWithdraws ==
    ASSUME TypeOK, NEW v \in Revokes,
           ledger[target[v]] = "REVOKED",
           status' = [status EXCEPT ![target[v]] = "revoked"],
           rpc[v] = "submitted",
           NEW l \in {"revoked", "error"}, rpc' = [rpc EXCEPT ![v] = l],
           UNCHANGED <<ledger, pc, target>>
    PROVE  Register!Next
<1>1. target[v] \in Ids
  BY DEF TypeOK
<1>2. Truth' = Truth /\ Promised' = Promised
  BY DEF Truth, Promised
<1>3. Shown' = [Shown EXCEPT ![target[v]] = "revoked"]
  BY <1>1 DEF TypeOK, Shown
<1>4. Truth[target[v]] = "revoked"
  BY <1>1 DEF Truth
<1>5. Withdrawn' \in {Withdrawn, Withdrawn \cup {target[v]}}
  <2>1. CASE l = "revoked"
    <3>1. \A w \in Revokes : rpc'[w] = "revoked" <=> w = v \/ rpc[w] = "revoked"
      BY <2>1 DEF TypeOK
    <3> QED
      BY <3>1 DEF Withdrawn
  <2>2. CASE l = "error"
    <3>1. \A w \in Revokes : rpc'[w] = "revoked" <=> rpc[w] = "revoked"
      BY <2>2 DEF TypeOK
    <3> QED
      BY <3>1 DEF Withdrawn
  <2> QED
    BY <2>1, <2>2
<1>6. Register!Withdraw(target[v])
  BY <1>2, <1>3, <1>4, <1>5 DEF Register!Withdraw
<1> QED
  BY <1>1, <1>6 DEF Register!Next

(* Every step of the service is a step of the register or a stutter.  The  *)
(* data in the rows does not matter for that.                              *)
LEMMA StepRegister == StoreStages /\ [Next]_vars => [Register!Next]_registerVars
<1> DEFINE Goal == Register!Next \/ UNCHANGED registerVars
<1> SUFFICES ASSUME StoreStages, [Next]_vars PROVE Goal
  OBVIOUS
<1>0. TypeOK /\ RowStages /\ IssueStages /\ RevokeStages
  BY DEF StoreStages
<1> HIDE DEF Goal
<1> USE <1>0 DEF chainVars, dbVars, revokeVars, Goto, RevokeGoto
<1>a. ASSUME UNCHANGED <<ledger, status, target>>,
             \A i \in Ids : pc'[i] = "created" <=> pc[i] = "created",
             \A v \in Revokes : rpc'[v] = "revoked" <=> rpc[v] = "revoked"
      PROVE  Goal
  BY <1>a, RegisterUnchanged DEF Goal
<1>b. ASSUME NEW i \in Ids, NEW s \in {"draft", "failed", "issued"},
             status' = [status EXCEPT ![i] = s],
             s = "issued" => ledger[i] # "absent",
             pc[i] # "created", NEW l, l # "created", pc' = [pc EXCEPT ![i] = l],
             UNCHANGED <<ledger, rpc, target>>
      PROVE  Goal
  BY <1>b, SaveShows DEF Goal
<1>1. ASSUME NEW i \in Ids, NEW c \in Content, PassCheck(i, c) PROVE Goal
  BY <1>1, <1>a DEF TypeOK, PassCheck, Ready
<1>2. ASSUME NEW i \in Ids, NEW c \in Content, RejectDuplicate(i, c) PROVE Goal
  BY <1>2, <1>a DEF TypeOK, RejectDuplicate, Ready
<1>3. ASSUME NEW i \in Ids, CheckErrs(i) PROVE Goal
  BY <1>3, <1>a DEF TypeOK, CheckErrs, Ready
<1>4. ASSUME NEW i \in Ids, NEW t \in DefaultTokens, InsertCollides(i, t) PROVE Goal
  BY <1>4, <1>a DEF TypeOK, InsertCollides
<1>5. ASSUME NEW i \in Ids, SubmitIssue(i) PROVE Goal
  BY <1>5, <1>a DEF TypeOK, SubmitIssue, Propose
<1>6. ASSUME NEW i \in Ids, SaveFailedErrs(i) PROVE Goal
  BY <1>6, <1>a DEF TypeOK, SaveFailedErrs
<1>7. ASSUME NEW v \in Revokes, SubmitRevoke(v) PROVE Goal
  BY <1>7, <1>a DEF TypeOK, SubmitRevoke, Propose
<1>8. ASSUME NEW v \in Revokes, RevokeNotFound(v) PROVE Goal
  BY <1>8, <1>a DEF TypeOK, RevokeNotFound
<1>9. ASSUME NEW c \in Calls, TxLost(c) PROVE Goal
  BY <1>9, <1>a DEF TypeOK, TxLost, Lose
<1>10. ASSUME NEW i \in Ids, NEW t \in DefaultTokens, InsertDraft(i, t) PROVE Goal
  BY <1>10, <1>b DEF InsertDraft, Insert
<1>11. ASSUME NEW i \in Ids, NEW t \in DefaultTokens, InsertErrs(i, t) PROVE Goal
  <2>1. CASE Insert(i, t)
    BY <1>11, <2>1, <1>b DEF InsertErrs, Insert
  <2>2. CASE UNCHANGED dbVars
    BY <1>11, <2>2, <1>a DEF InsertErrs, TypeOK
  <2> QED
    BY <1>11, <2>1, <2>2 DEF InsertErrs
<1>12. ASSUME NEW i \in Ids, EnterCatch(i) PROVE Goal
  <2>1. CASE UNCHANGED dbVars
    BY <1>12, <2>1, <1>a DEF EnterCatch, TypeOK
  <2>2. CASE tx[i] = "committed" /\ Save(i, "issued")
    <3>1. ledger[i] # "absent"
      BY <2>2 DEF IssueStages
    <3> QED
      BY <1>12, <2>2, <3>1, <1>b DEF EnterCatch, Save
  <2> QED
    BY <1>12, <2>1, <2>2 DEF EnterCatch
<1>13. ASSUME NEW i \in Ids, SaveFailed(i) PROVE Goal
  BY <1>13, <1>b DEF SaveFailed, Save
<1>14. ASSUME NEW i \in Ids, SaveIssued(i) PROVE Goal
  <2>1. Truth[i] # "unknown"
    BY <1>14 DEF SaveIssued, IssueStages, Truth, TypeOK, ChainTypeOK, LedgerStates
  <2>2. Shown' = [Shown EXCEPT ![i] = "valid"]
    BY <1>14 DEF SaveIssued, Save, Shown, TypeOK
  <2>3. Promised' = Promised \cup {i} /\ i \notin Promised
    BY <1>14 DEF SaveIssued, Promised, TypeOK
  <2>4. Truth' = Truth /\ Withdrawn' = Withdrawn
    BY <1>14 DEF SaveIssued, Truth, Withdrawn
  <2>5. Register!Promise(i)
    BY <2>1, <2>2, <2>3, <2>4 DEF Register!Promise
  <2> QED
    BY <2>5 DEF Goal, Register!Next
<1>15. ASSUME NEW v \in Revokes, MarkRevoked(v) PROVE Goal
  <2>1. ledger[target[v]] = "REVOKED"
    BY <1>15 DEF MarkRevoked, RevokeStages
  <2> QED
    BY <1>15, <2>1, MarkWithdraws DEF MarkRevoked, Goal
<1>16. ASSUME NEW v \in Revokes, RevokeErrs(v) PROVE Goal
  <2>1. CASE UNCHANGED status
    BY <1>16, <2>1, <1>a DEF RevokeErrs, TypeOK
  <2>2. CASE /\ rpc[v] = "submitted" /\ tx[v] = "committed"
             /\ status' = [status EXCEPT ![target[v]] = "revoked"]
    <3>1. ledger[target[v]] = "REVOKED"
      BY <2>2 DEF RevokeStages
    <3> QED
      BY <1>16, <2>2, <3>1, MarkWithdraws DEF RevokeErrs, Goal
  <2> QED
    BY <1>16, <2>1, <2>2 DEF RevokeErrs
<1>17. ASSUME NEW i \in Ids, IssueCommits(i) PROVE Goal
  <2>1. ledger[i] = "absent" /\ HasRow(i)
    BY <1>17 DEF IssueCommits, CommitIssue, IssueStages
  <2>2. Truth[i] = "unknown" /\ Shown[i] # "nothing"
    BY <2>1 DEF Truth, Shown, HasRow
  <2>3. Truth' = [Truth EXCEPT ![i] = "valid"]
    BY <1>17 DEF IssueCommits, CommitIssue, Truth, TypeOK, ChainTypeOK
  <2>4. Shown' = Shown /\ Promised' = Promised /\ Withdrawn' = Withdrawn
    BY <1>17 DEF IssueCommits, Shown, Promised, Withdrawn
  <2>5. Register!Register(i)
    BY <2>2, <2>3, <2>4 DEF Register!Register
  <2> QED
    BY <2>5 DEF Goal, Register!Next
<1>18. ASSUME NEW v \in Revokes, RevokeCommits(v) PROVE Goal
  <2> DEFINE i == target[v]
  <2>1. i \in Ids /\ v \in Calls
    BY DEF TypeOK, Calls
  <2>2. ledger[i] # "absent"
    BY <1>18 DEF RevokeCommits, CommitRevoke, RevokeStages
  <2>3. ledger' = [ledger EXCEPT ![i] = "REVOKED"]
    BY <1>18 DEF RevokeCommits, CommitRevoke
  <2>4. Shown' = Shown /\ Promised' = Promised /\ Withdrawn' = Withdrawn
    BY <1>18 DEF RevokeCommits, Shown, Promised, Withdrawn
  <2>5. Truth' = [Truth EXCEPT ![i] = "revoked"]
    BY <2>1, <2>3 DEF Truth, TypeOK, ChainTypeOK
  <2>6. CASE ledger[i] = "REVOKED"
    <3>1. Truth' = Truth
      BY <2>1, <2>3, <2>6 DEF Truth, TypeOK, ChainTypeOK
    <3> QED
      BY <2>4, <3>1 DEF Goal, registerVars
  <2>7. CASE ledger[i] = "ISSUED"
    <3>1. Truth[i] = "valid"
      BY <2>1, <2>7 DEF Truth
    <3>2. Register!Revoke(i)
      BY <2>4, <2>5, <3>1 DEF Register!Revoke
    <3> QED
      BY <2>1, <3>2 DEF Goal, Register!Next
  <2> QED
    BY <2>1, <2>2, <2>6, <2>7 DEF TypeOK, ChainTypeOK, LedgerStates
<1>19. CASE Crash
  BY <1>19, <1>a DEF Crash, TypeOK, Flying, Queued
<1>20. CASE UNCHANGED vars
  BY <1>20, <1>a DEF vars
<1>21. Goal
  BY <1>1, <1>2, <1>3, <1>4, <1>5, <1>6, <1>7, <1>8, <1>9, <1>10, <1>11,
     <1>12, <1>13, <1>14, <1>15, <1>16, <1>17, <1>18, <1>19, <1>20
     DEF Next, Start, Proceed, Revoking, Channel
<1> QED
  BY <1>21

(* The service implements the register. *)
THEOREM Refinement == Spec => ImplementsRegister
<1>1. IInv /\ [Next]_vars => [Register!Next]_<<Truth, Shown, Promised, Withdrawn>>
  BY StepRegister DEF IInv, registerVars
<1> QED
  BY InitRegister, Inductive, <1>1, PTL
     DEF Spec, ImplementsRegister, Register!Spec, Register!vars

=============================================================================
