-------------------------- MODULE CertificatesProofs --------------------------
(***************************************************************************)
(* Proofs about Certificates, for any number of certificates, bulk bodies  *)
(* and revoke calls.  IInv is inductive: each of its parts is preserved by *)
(* every step that starts in a state of IInv, which is one lemma per part; *)
(* the safety properties follow from it, and so do the action properties.  *)
(***************************************************************************)
EXTENDS Certificates, TLAPS

(* The initial states satisfy the inductive invariant. *)
LEMMA InitIInv == Init => IInv
BY DEF Init, ChainInit, IInv, StoreStages, RowData, TypeOK, ChainTypeOK, LedgerStates, TxStates, Calls,
       RowStages, IssueStages, RevokeStages, TokenStages, BatchStages, HasRow, Flying

(* Every step keeps the types; a hash is only anchored for a row with content. *)
LEMMA NextTypeOK == StoreStages /\ [Next]_vars => TypeOK'
<1> SUFFICES ASSUME TypeOK, RowStages, IssueStages, [Next]_vars PROVE TypeOK'
  BY DEF StoreStages
<1> USE ContentAssumption DEF TypeOK, ChainTypeOK, LedgerStates, TxStates, Calls,
      Flying, Finished, RevokeEnded, Tokens, DefaultTokens,
      chainVars, dbVars, revokeVars, Goto, RevokeGoto
<1>1. ASSUME NEW i \in Ids, NEW c \in Content, PassCheck(i, c) PROVE TypeOK'
  BY <1>1 DEF PassCheck
<1>2. ASSUME NEW i \in Ids, NEW c \in Content, RejectDuplicate(i, c) PROVE TypeOK'
  BY <1>2 DEF RejectDuplicate
<1>3. ASSUME NEW i \in Ids, CheckErrs(i) PROVE TypeOK'
  BY <1>3 DEF CheckErrs
<1>4. ASSUME NEW i \in Ids, NEW t \in DefaultTokens, InsertDraft(i, t) PROVE TypeOK'
  BY <1>4 DEF InsertDraft, Insert
<1>5. ASSUME NEW i \in Ids, NEW t \in DefaultTokens, InsertCollides(i, t) PROVE TypeOK'
  BY <1>5 DEF InsertCollides
<1>6. ASSUME NEW i \in Ids, NEW t \in DefaultTokens, InsertErrs(i, t) PROVE TypeOK'
  BY <1>6 DEF InsertErrs, Insert
<1>7. ASSUME NEW i \in Ids, SubmitIssue(i) PROVE TypeOK'
  BY <1>7 DEF SubmitIssue, Propose
<1>8. ASSUME NEW i \in Ids, SaveIssued(i) PROVE TypeOK'
  BY <1>8 DEF SaveIssued, Save
<1>9. ASSUME NEW i \in Ids, EnterCatch(i) PROVE TypeOK'
  BY <1>9 DEF EnterCatch, Save
<1>10. ASSUME NEW i \in Ids, SaveFailed(i) PROVE TypeOK'
  BY <1>10 DEF SaveFailed, Save
<1>11. ASSUME NEW i \in Ids, SaveFailedErrs(i) PROVE TypeOK'
  BY <1>11 DEF SaveFailedErrs
<1>12. ASSUME NEW v \in Revokes, SubmitRevoke(v) PROVE TypeOK'
  BY <1>12 DEF SubmitRevoke, Propose
<1>13. ASSUME NEW v \in Revokes, RevokeNotFound(v) PROVE TypeOK'
  BY <1>13 DEF RevokeNotFound
<1>14. ASSUME NEW v \in Revokes, MarkRevoked(v) PROVE TypeOK'
  BY <1>14 DEF MarkRevoked
<1>15. ASSUME NEW v \in Revokes, RevokeErrs(v) PROVE TypeOK'
  BY <1>15 DEF RevokeErrs
<1>16. ASSUME NEW i \in Ids, IssueCommits(i) PROVE TypeOK'
  <2>1. tx[i] = "pending"
    BY <1>16 DEF IssueCommits, CommitIssue
  <2>2. dto[i] \in Content
    BY <2>1 DEF IssueStages, RowStages
  <2>3. Hash[dto[i]] \in Digests
    BY <2>2
  <2> QED
    BY <1>16, <2>3 DEF IssueCommits, CommitIssue
<1>17. ASSUME NEW v \in Revokes, RevokeCommits(v) PROVE TypeOK'
  BY <1>17 DEF RevokeCommits, CommitRevoke
<1>18. ASSUME NEW c \in Calls, TxLost(c) PROVE TypeOK'
  BY <1>18 DEF TxLost, Lose
<1>19. CASE Crash
  BY <1>19 DEF Crash
<1>20. CASE UNCHANGED vars
  BY <1>20 DEF vars
<1> QED
  BY <1>1, <1>2, <1>3, <1>4, <1>5, <1>6, <1>7, <1>8, <1>9, <1>10, <1>11, <1>12,
     <1>13, <1>14, <1>15, <1>16, <1>17, <1>18, <1>19, <1>20
     DEF Next, Start, Proceed, Revoking, Channel

(* Every step keeps the link between a call and its row. *)
LEMMA NextRowStages == StoreStages /\ [Next]_vars => RowStages'
<1> SUFFICES ASSUME TypeOK, RowStages, IssueStages, RevokeStages, [Next]_vars PROVE RowStages'
  BY DEF StoreStages
<1> USE DEF RowStages, IssueStages, RevokeStages, HasRow,
      TypeOK, ChainTypeOK, LedgerStates, TxStates, Calls,
      Flying, Finished, RevokeEnded, Tokens, DefaultTokens,
      chainVars, dbVars, revokeVars, Goto, RevokeGoto
<1>1. ASSUME NEW i \in Ids, NEW c \in Content, PassCheck(i, c) PROVE RowStages'
  BY <1>1 DEF PassCheck, Ready
<1>2. ASSUME NEW i \in Ids, NEW c \in Content, RejectDuplicate(i, c) PROVE RowStages'
  BY <1>2 DEF RejectDuplicate, Ready
<1>3. ASSUME NEW i \in Ids, CheckErrs(i) PROVE RowStages'
  BY <1>3 DEF CheckErrs, Ready
<1>4. ASSUME NEW i \in Ids, NEW t \in DefaultTokens, InsertDraft(i, t) PROVE RowStages'
  BY <1>4 DEF InsertDraft, Insert
<1>5. ASSUME NEW i \in Ids, NEW t \in DefaultTokens, InsertCollides(i, t) PROVE RowStages'
  BY <1>5 DEF InsertCollides
<1>6. ASSUME NEW i \in Ids, NEW t \in DefaultTokens, InsertErrs(i, t) PROVE RowStages'
  BY <1>6 DEF InsertErrs, Insert
<1>7. ASSUME NEW i \in Ids, SubmitIssue(i) PROVE RowStages'
  BY <1>7 DEF SubmitIssue, Propose
<1>8. ASSUME NEW i \in Ids, SaveIssued(i) PROVE RowStages'
  BY <1>8 DEF SaveIssued, Save
<1>9. ASSUME NEW i \in Ids, EnterCatch(i) PROVE RowStages'
  BY <1>9 DEF EnterCatch, Save
<1>10. ASSUME NEW i \in Ids, SaveFailed(i) PROVE RowStages'
  BY <1>10 DEF SaveFailed, Save
<1>11. ASSUME NEW i \in Ids, SaveFailedErrs(i) PROVE RowStages'
  BY <1>11 DEF SaveFailedErrs
<1>12. ASSUME NEW v \in Revokes, SubmitRevoke(v) PROVE RowStages'
  BY <1>12 DEF SubmitRevoke, Propose
<1>13. ASSUME NEW v \in Revokes, RevokeNotFound(v) PROVE RowStages'
  BY <1>13 DEF RevokeNotFound
<1>14. ASSUME NEW v \in Revokes, MarkRevoked(v) PROVE RowStages'
  BY <1>14 DEF MarkRevoked
<1>15. ASSUME NEW v \in Revokes, RevokeErrs(v) PROVE RowStages'
  BY <1>15 DEF RevokeErrs
<1>16. ASSUME NEW i \in Ids, IssueCommits(i) PROVE RowStages'
  BY <1>16 DEF IssueCommits, CommitIssue
<1>17. ASSUME NEW v \in Revokes, RevokeCommits(v) PROVE RowStages'
  BY <1>17 DEF RevokeCommits, CommitRevoke
<1>18. ASSUME NEW c \in Calls, TxLost(c) PROVE RowStages'
  BY <1>18 DEF TxLost, Lose
<1>19. CASE Crash
  BY <1>19 DEF Crash
<1>20. CASE UNCHANGED vars
  BY <1>20 DEF vars
<1> QED
  BY <1>1, <1>2, <1>3, <1>4, <1>5, <1>6, <1>7, <1>8, <1>9, <1>10, <1>11, <1>12,
     <1>13, <1>14, <1>15, <1>16, <1>17, <1>18, <1>19, <1>20
     DEF Next, Start, Proceed, Revoking, Channel

(* The service writes no other data to a row than the DTO of its call. *)
LEMMA NextRowData == IInv /\ [Next]_vars => RowData'
<1> SUFFICES ASSUME TypeOK, RowStages, RowData, IssueStages, RevokeStages, [Next]_vars PROVE RowData'
  BY DEF IInv, StoreStages
<1> USE DEF RowStages, RowData, IssueStages, RevokeStages, HasRow,
      TypeOK, ChainTypeOK, LedgerStates, TxStates, Calls,
      Flying, Finished, RevokeEnded, Tokens, DefaultTokens,
      chainVars, dbVars, revokeVars, Goto, RevokeGoto
<1>1. ASSUME NEW i \in Ids, NEW c \in Content, PassCheck(i, c) PROVE RowData'
  BY <1>1 DEF PassCheck, Ready
<1>2. ASSUME NEW i \in Ids, NEW c \in Content, RejectDuplicate(i, c) PROVE RowData'
  BY <1>2 DEF RejectDuplicate, Ready
<1>3. ASSUME NEW i \in Ids, CheckErrs(i) PROVE RowData'
  BY <1>3 DEF CheckErrs, Ready
<1>4. ASSUME NEW i \in Ids, NEW t \in DefaultTokens, InsertDraft(i, t) PROVE RowData'
  BY <1>4 DEF InsertDraft, Insert
<1>5. ASSUME NEW i \in Ids, NEW t \in DefaultTokens, InsertCollides(i, t) PROVE RowData'
  BY <1>5 DEF InsertCollides
<1>6. ASSUME NEW i \in Ids, NEW t \in DefaultTokens, InsertErrs(i, t) PROVE RowData'
  BY <1>6 DEF InsertErrs, Insert
<1>7. ASSUME NEW i \in Ids, SubmitIssue(i) PROVE RowData'
  BY <1>7 DEF SubmitIssue, Propose
<1>8. ASSUME NEW i \in Ids, SaveIssued(i) PROVE RowData'
  BY <1>8 DEF SaveIssued, Save
<1>9. ASSUME NEW i \in Ids, EnterCatch(i) PROVE RowData'
  BY <1>9 DEF EnterCatch, Save
<1>10. ASSUME NEW i \in Ids, SaveFailed(i) PROVE RowData'
  BY <1>10 DEF SaveFailed, Save
<1>11. ASSUME NEW i \in Ids, SaveFailedErrs(i) PROVE RowData'
  BY <1>11 DEF SaveFailedErrs
<1>12. ASSUME NEW v \in Revokes, SubmitRevoke(v) PROVE RowData'
  BY <1>12 DEF SubmitRevoke, Propose
<1>13. ASSUME NEW v \in Revokes, RevokeNotFound(v) PROVE RowData'
  BY <1>13 DEF RevokeNotFound
<1>14. ASSUME NEW v \in Revokes, MarkRevoked(v) PROVE RowData'
  BY <1>14 DEF MarkRevoked
<1>15. ASSUME NEW v \in Revokes, RevokeErrs(v) PROVE RowData'
  BY <1>15 DEF RevokeErrs
<1>16. ASSUME NEW i \in Ids, IssueCommits(i) PROVE RowData'
  BY <1>16 DEF IssueCommits, CommitIssue
<1>17. ASSUME NEW v \in Revokes, RevokeCommits(v) PROVE RowData'
  BY <1>17 DEF RevokeCommits, CommitRevoke
<1>18. ASSUME NEW c \in Calls, TxLost(c) PROVE RowData'
  BY <1>18 DEF TxLost, Lose
<1>19. CASE Crash
  BY <1>19 DEF Crash
<1>20. CASE UNCHANGED vars
  BY <1>20 DEF vars
<1> QED
  BY <1>1, <1>2, <1>3, <1>4, <1>5, <1>6, <1>7, <1>8, <1>9, <1>10, <1>11, <1>12,
     <1>13, <1>14, <1>15, <1>16, <1>17, <1>18, <1>19, <1>20
     DEF Next, Start, Proceed, Revoking, Channel

(* Every step keeps the link between a call, its transaction and the ledger. *)
LEMMA NextIssueStages == StoreStages /\ [Next]_vars => IssueStages'
<1> SUFFICES ASSUME TypeOK, RowStages, IssueStages, RevokeStages, [Next]_vars PROVE IssueStages'
  BY DEF StoreStages
<1> USE CallsAssumption DEF RowStages, IssueStages, RevokeStages, HasRow,
      TypeOK, ChainTypeOK, LedgerStates, TxStates, Calls,
      Flying, Finished, RevokeEnded, Tokens, DefaultTokens,
      chainVars, dbVars, revokeVars, Goto, RevokeGoto
<1>1. ASSUME NEW i \in Ids, NEW c \in Content, PassCheck(i, c) PROVE IssueStages'
  BY <1>1 DEF PassCheck, Ready
<1>2. ASSUME NEW i \in Ids, NEW c \in Content, RejectDuplicate(i, c) PROVE IssueStages'
  BY <1>2 DEF RejectDuplicate, Ready
<1>3. ASSUME NEW i \in Ids, CheckErrs(i) PROVE IssueStages'
  BY <1>3 DEF CheckErrs, Ready
<1>4. ASSUME NEW i \in Ids, NEW t \in DefaultTokens, InsertDraft(i, t) PROVE IssueStages'
  BY <1>4 DEF InsertDraft, Insert
<1>5. ASSUME NEW i \in Ids, NEW t \in DefaultTokens, InsertCollides(i, t) PROVE IssueStages'
  BY <1>5 DEF InsertCollides
<1>6. ASSUME NEW i \in Ids, NEW t \in DefaultTokens, InsertErrs(i, t) PROVE IssueStages'
  BY <1>6 DEF InsertErrs, Insert
<1>7. ASSUME NEW i \in Ids, SubmitIssue(i) PROVE IssueStages'
  BY <1>7 DEF SubmitIssue, Propose
<1>8. ASSUME NEW i \in Ids, SaveIssued(i) PROVE IssueStages'
  BY <1>8 DEF SaveIssued, Save
<1>9. ASSUME NEW i \in Ids, EnterCatch(i) PROVE IssueStages'
  BY <1>9 DEF EnterCatch, Save
<1>10. ASSUME NEW i \in Ids, SaveFailed(i) PROVE IssueStages'
  BY <1>10 DEF SaveFailed, Save
<1>11. ASSUME NEW i \in Ids, SaveFailedErrs(i) PROVE IssueStages'
  BY <1>11 DEF SaveFailedErrs
<1>12. ASSUME NEW v \in Revokes, SubmitRevoke(v) PROVE IssueStages'
  BY <1>12 DEF SubmitRevoke, Propose
<1>13. ASSUME NEW v \in Revokes, RevokeNotFound(v) PROVE IssueStages'
  BY <1>13 DEF RevokeNotFound
<1>14. ASSUME NEW v \in Revokes, MarkRevoked(v) PROVE IssueStages'
  BY <1>14 DEF MarkRevoked
<1>15. ASSUME NEW v \in Revokes, RevokeErrs(v) PROVE IssueStages'
  BY <1>15 DEF RevokeErrs
<1>16. ASSUME NEW i \in Ids, IssueCommits(i) PROVE IssueStages'
  BY <1>16 DEF IssueCommits, CommitIssue
<1>17. ASSUME NEW v \in Revokes, RevokeCommits(v) PROVE IssueStages'
  BY <1>17 DEF RevokeCommits, CommitRevoke
<1>18. ASSUME NEW c \in Calls, TxLost(c) PROVE IssueStages'
  BY <1>18 DEF TxLost, Lose
<1>19. CASE Crash
  BY <1>19 DEF Crash
<1>20. CASE UNCHANGED vars
  BY <1>20 DEF vars
<1> QED
  BY <1>1, <1>2, <1>3, <1>4, <1>5, <1>6, <1>7, <1>8, <1>9, <1>10, <1>11, <1>12,
     <1>13, <1>14, <1>15, <1>16, <1>17, <1>18, <1>19, <1>20
     DEF Next, Start, Proceed, Revoking, Channel

(* Every step keeps revocations behind the ledger. *)
LEMMA NextRevokeStages == StoreStages /\ [Next]_vars => RevokeStages'
<1> SUFFICES ASSUME TypeOK, RowStages, IssueStages, RevokeStages, [Next]_vars PROVE RevokeStages'
  BY DEF StoreStages
<1> USE CallsAssumption DEF RowStages, IssueStages, RevokeStages, HasRow,
      TypeOK, ChainTypeOK, LedgerStates, TxStates, Calls,
      Flying, Finished, RevokeEnded, Tokens, DefaultTokens,
      chainVars, dbVars, revokeVars, Goto, RevokeGoto
<1>1. ASSUME NEW i \in Ids, NEW c \in Content, PassCheck(i, c) PROVE RevokeStages'
  BY <1>1 DEF PassCheck
<1>2. ASSUME NEW i \in Ids, NEW c \in Content, RejectDuplicate(i, c) PROVE RevokeStages'
  BY <1>2 DEF RejectDuplicate
<1>3. ASSUME NEW i \in Ids, CheckErrs(i) PROVE RevokeStages'
  BY <1>3 DEF CheckErrs
<1>4. ASSUME NEW i \in Ids, NEW t \in DefaultTokens, InsertDraft(i, t) PROVE RevokeStages'
  BY <1>4 DEF InsertDraft, Insert
<1>5. ASSUME NEW i \in Ids, NEW t \in DefaultTokens, InsertCollides(i, t) PROVE RevokeStages'
  BY <1>5 DEF InsertCollides
<1>6. ASSUME NEW i \in Ids, NEW t \in DefaultTokens, InsertErrs(i, t) PROVE RevokeStages'
  BY <1>6 DEF InsertErrs, Insert
<1>7. ASSUME NEW i \in Ids, SubmitIssue(i) PROVE RevokeStages'
  BY <1>7 DEF SubmitIssue, Propose
<1>8. ASSUME NEW i \in Ids, SaveIssued(i) PROVE RevokeStages'
  BY <1>8 DEF SaveIssued, Save
<1>9. ASSUME NEW i \in Ids, EnterCatch(i) PROVE RevokeStages'
  BY <1>9 DEF EnterCatch, Save
<1>10. ASSUME NEW i \in Ids, SaveFailed(i) PROVE RevokeStages'
  BY <1>10 DEF SaveFailed, Save
<1>11. ASSUME NEW i \in Ids, SaveFailedErrs(i) PROVE RevokeStages'
  BY <1>11 DEF SaveFailedErrs
<1>12. ASSUME NEW v \in Revokes, SubmitRevoke(v) PROVE RevokeStages'
  BY <1>12 DEF SubmitRevoke, Propose
<1>13. ASSUME NEW v \in Revokes, RevokeNotFound(v) PROVE RevokeStages'
  BY <1>13 DEF RevokeNotFound
<1>14. ASSUME NEW v \in Revokes, MarkRevoked(v) PROVE RevokeStages'
  BY <1>14 DEF MarkRevoked
<1>15. ASSUME NEW v \in Revokes, RevokeErrs(v) PROVE RevokeStages'
  BY <1>15 DEF RevokeErrs
<1>16. ASSUME NEW i \in Ids, IssueCommits(i) PROVE RevokeStages'
  BY <1>16 DEF IssueCommits, CommitIssue
<1>17. ASSUME NEW v \in Revokes, RevokeCommits(v) PROVE RevokeStages'
  BY <1>17 DEF RevokeCommits, CommitRevoke
<1>18. ASSUME NEW c \in Calls, TxLost(c) PROVE RevokeStages'
  BY <1>18 DEF TxLost, Lose
<1>19. CASE Crash
  BY <1>19 DEF Crash
<1>20. CASE UNCHANGED vars
  BY <1>20 DEF vars
<1> QED
  BY <1>1, <1>2, <1>3, <1>4, <1>5, <1>6, <1>7, <1>8, <1>9, <1>10, <1>11, <1>12,
     <1>13, <1>14, <1>15, <1>16, <1>17, <1>18, <1>19, <1>20
     DEF Next, Start, Proceed, Revoking, Channel

(* Every step keeps the QR tokens of the rows distinct. *)
LEMMA NextTokenStages == StoreStages /\ [Next]_vars => TokenStages'
<1> SUFFICES ASSUME TypeOK, RowStages, IssueStages, RevokeStages, TokenStages, [Next]_vars PROVE TokenStages'
  BY DEF StoreStages
<1> USE TokenAssumption DEF TokenStages, RowStages, IssueStages, RevokeStages, HasRow, TokenTaken,
      TypeOK, ChainTypeOK, LedgerStates, TxStates, Calls,
      Flying, Finished, RevokeEnded, Tokens, DefaultTokens,
      chainVars, dbVars, revokeVars, Goto, RevokeGoto
<1>1. ASSUME NEW i \in Ids, NEW c \in Content, PassCheck(i, c) PROVE TokenStages'
  BY <1>1 DEF PassCheck
<1>2. ASSUME NEW i \in Ids, NEW c \in Content, RejectDuplicate(i, c) PROVE TokenStages'
  BY <1>2 DEF RejectDuplicate
<1>3. ASSUME NEW i \in Ids, CheckErrs(i) PROVE TokenStages'
  BY <1>3 DEF CheckErrs
<1>4. ASSUME NEW i \in Ids, NEW t \in DefaultTokens, InsertDraft(i, t) PROVE TokenStages'
  BY <1>4 DEF InsertDraft, Insert
<1>5. ASSUME NEW i \in Ids, NEW t \in DefaultTokens, InsertCollides(i, t) PROVE TokenStages'
  BY <1>5 DEF InsertCollides
<1>6. ASSUME NEW i \in Ids, NEW t \in DefaultTokens, InsertErrs(i, t) PROVE TokenStages'
  BY <1>6 DEF InsertErrs, Insert
<1>7. ASSUME NEW i \in Ids, SubmitIssue(i) PROVE TokenStages'
  BY <1>7 DEF SubmitIssue, Propose
<1>8. ASSUME NEW i \in Ids, SaveIssued(i) PROVE TokenStages'
  BY <1>8 DEF SaveIssued, Save
<1>9. ASSUME NEW i \in Ids, EnterCatch(i) PROVE TokenStages'
  BY <1>9 DEF EnterCatch, Save
<1>10. ASSUME NEW i \in Ids, SaveFailed(i) PROVE TokenStages'
  BY <1>10 DEF SaveFailed, Save
<1>11. ASSUME NEW i \in Ids, SaveFailedErrs(i) PROVE TokenStages'
  BY <1>11 DEF SaveFailedErrs
<1>12. ASSUME NEW v \in Revokes, SubmitRevoke(v) PROVE TokenStages'
  BY <1>12 DEF SubmitRevoke, Propose
<1>13. ASSUME NEW v \in Revokes, RevokeNotFound(v) PROVE TokenStages'
  BY <1>13 DEF RevokeNotFound
<1>14. ASSUME NEW v \in Revokes, MarkRevoked(v) PROVE TokenStages'
  BY <1>14 DEF MarkRevoked
<1>15. ASSUME NEW v \in Revokes, RevokeErrs(v) PROVE TokenStages'
  BY <1>15 DEF RevokeErrs
<1>16. ASSUME NEW i \in Ids, IssueCommits(i) PROVE TokenStages'
  BY <1>16 DEF IssueCommits, CommitIssue
<1>17. ASSUME NEW v \in Revokes, RevokeCommits(v) PROVE TokenStages'
  BY <1>17 DEF RevokeCommits, CommitRevoke
<1>18. ASSUME NEW c \in Calls, TxLost(c) PROVE TokenStages'
  BY <1>18 DEF TxLost, Lose
<1>19. CASE Crash
  BY <1>19 DEF Crash
<1>20. CASE UNCHANGED vars
  BY <1>20 DEF vars
<1> QED
  BY <1>1, <1>2, <1>3, <1>4, <1>5, <1>6, <1>7, <1>8, <1>9, <1>10, <1>11, <1>12,
     <1>13, <1>14, <1>15, <1>16, <1>17, <1>18, <1>19, <1>20
     DEF Next, Start, Proceed, Revoking, Channel

(* Every step keeps the order of the bulk bodies and their keys apart. *)
LEMMA NextBatchStages == IInv /\ [Next]_vars => BatchStages'
<1> SUFFICES ASSUME TypeOK, RowStages, RowData, IssueStages, RevokeStages, BatchStages, [Next]_vars PROVE BatchStages'
  BY DEF IInv, StoreStages
<1> USE EarlierAssumption DEF BatchStages, RowStages, RowData, IssueStages, RevokeStages, HasRow, Ready, RowWithKey, Queued,
      TypeOK, ChainTypeOK, LedgerStates, TxStates, Calls,
      Flying, Finished, RevokeEnded, Tokens, DefaultTokens,
      chainVars, dbVars, revokeVars, Goto, RevokeGoto
<1>1. ASSUME NEW i \in Ids, NEW c \in Content, PassCheck(i, c) PROVE BatchStages'
  BY <1>1 DEF PassCheck
<1>2. ASSUME NEW i \in Ids, NEW c \in Content, RejectDuplicate(i, c) PROVE BatchStages'
  BY <1>2 DEF RejectDuplicate
<1>3. ASSUME NEW i \in Ids, CheckErrs(i) PROVE BatchStages'
  BY <1>3 DEF CheckErrs
<1>4. ASSUME NEW i \in Ids, NEW t \in DefaultTokens, InsertDraft(i, t) PROVE BatchStages'
  BY <1>4 DEF InsertDraft, Insert
<1>5. ASSUME NEW i \in Ids, NEW t \in DefaultTokens, InsertCollides(i, t) PROVE BatchStages'
  BY <1>5 DEF InsertCollides
<1>6. ASSUME NEW i \in Ids, NEW t \in DefaultTokens, InsertErrs(i, t) PROVE BatchStages'
  BY <1>6 DEF InsertErrs, Insert
<1>7. ASSUME NEW i \in Ids, SubmitIssue(i) PROVE BatchStages'
  BY <1>7 DEF SubmitIssue, Propose
<1>8. ASSUME NEW i \in Ids, SaveIssued(i) PROVE BatchStages'
  BY <1>8 DEF SaveIssued, Save
<1>9. ASSUME NEW i \in Ids, EnterCatch(i) PROVE BatchStages'
  BY <1>9 DEF EnterCatch, Save
<1>10. ASSUME NEW i \in Ids, SaveFailed(i) PROVE BatchStages'
  BY <1>10 DEF SaveFailed, Save
<1>11. ASSUME NEW i \in Ids, SaveFailedErrs(i) PROVE BatchStages'
  BY <1>11 DEF SaveFailedErrs
<1>12. ASSUME NEW v \in Revokes, SubmitRevoke(v) PROVE BatchStages'
  BY <1>12 DEF SubmitRevoke, Propose
<1>13. ASSUME NEW v \in Revokes, RevokeNotFound(v) PROVE BatchStages'
  BY <1>13 DEF RevokeNotFound
<1>14. ASSUME NEW v \in Revokes, MarkRevoked(v) PROVE BatchStages'
  BY <1>14 DEF MarkRevoked
<1>15. ASSUME NEW v \in Revokes, RevokeErrs(v) PROVE BatchStages'
  BY <1>15 DEF RevokeErrs
<1>16. ASSUME NEW i \in Ids, IssueCommits(i) PROVE BatchStages'
  BY <1>16 DEF IssueCommits, CommitIssue
<1>17. ASSUME NEW v \in Revokes, RevokeCommits(v) PROVE BatchStages'
  BY <1>17 DEF RevokeCommits, CommitRevoke
<1>18. ASSUME NEW c \in Calls, TxLost(c) PROVE BatchStages'
  BY <1>18 DEF TxLost, Lose
<1>19. CASE Crash
  <2>0. \A i \in Ids : pc'[i] = IF pc[i] \in Flying \/ Queued(i) THEN "dead" ELSE pc[i]
    BY <1>19 DEF Crash
  <2>1. SUFFICES ASSUME NEW i \in Ids, NEW j \in Earlier[i]
                 PROVE  /\ pc'[i] # "idle" => pc'[j] \in Finished
                        /\ (HasRow(i)' \/ pc'[i] = "checked") /\ HasRow(j)'
                              => KeyOf[content'[j]] # KeyOf[dto'[i]]
    BY <1>19 DEF Crash
  <2>5. (HasRow(i)' \/ pc'[i] = "checked") /\ HasRow(j)' => KeyOf[content'[j]] # KeyOf[dto'[i]]
    BY <1>19, <2>0 DEF Crash
  <2>2. j \in Ids
    BY <2>1
  <2>3. CASE pc[i] # "idle"
    BY <2>0, <2>2, <2>3, <2>5
  <2>4. CASE pc[i] = "idle" /\ pc'[i] # "idle"
    <3>1. PICK k \in Earlier[i] : pc[k] # "idle"
      BY <2>0, <2>4
    <3>2. k \in Ids /\ (k = j \/ k \in Earlier[j] \/ j \in Earlier[k])
      BY <2>1, <2>2, <3>1, EarlierAssumption
    <3>3. CASE j \in Earlier[k]
      BY <2>0, <2>2, <2>5, <3>1, <3>2, <3>3
    <3>4. CASE k = j \/ k \in Earlier[j]
      BY <2>0, <2>2, <2>5, <3>1, <3>2, <3>4
    <3> QED
      BY <3>2, <3>3, <3>4
  <2> QED
    BY <2>3, <2>4, <2>5
<1>20. CASE UNCHANGED vars
  BY <1>20 DEF vars
<1> QED
  BY <1>1, <1>2, <1>3, <1>4, <1>5, <1>6, <1>7, <1>8, <1>9, <1>10, <1>11, <1>12,
     <1>13, <1>14, <1>15, <1>16, <1>17, <1>18, <1>19, <1>20
     DEF Next, Start, Proceed, Revoking, Channel

(* What does not depend on the data in the rows is inductive by itself. *)
LEMMA NextStoreStages == StoreStages /\ [Next]_vars => StoreStages'
<1> QED
  BY NextTypeOK, NextRowStages, NextIssueStages, NextRevokeStages, NextTokenStages
     DEF StoreStages

(* IInv is an invariant of the service. *)
THEOREM Inductive == Spec => []IInv
<1>1. IInv /\ [Next]_vars => IInv'
  BY NextStoreStages, NextRowData, NextBatchStages DEF IInv
<1> QED
  BY InitIInv, <1>1, PTL DEF Spec

(* The variables always have their types. *)
THEOREM Typing == Spec => []TypeOK
BY Inductive, PTL DEF IInv, StoreStages

(* PostgreSQL never runs ahead of the ledger with an issuance. *)
THEOREM NothingIssuedOffChain == Spec => []IssuedIsAnchored
<1>1. IInv => IssuedIsAnchored
  BY DEF IInv, StoreStages, IssueStages, IssuedIsAnchored
<1> QED
  BY Inductive, <1>1, PTL

(* The ledger never holds a certificate without the row verification needs. *)
THEOREM NothingAnchoredWithoutRow == Spec => []RowBeforeAnchor
<1>1. IInv => RowBeforeAnchor
  BY DEF IInv, StoreStages, RowData, IssueStages, RowBeforeAnchor
<1> QED
  BY Inductive, <1>1, PTL

(* Nor does PostgreSQL, or an answer of revoke(), run ahead with a revocation. *)
THEOREM NothingRevokedOffChain == Spec => []RevokedAgrees
<1>1. IInv => RevokedAgrees
  BY DEF IInv, StoreStages, RevokeStages, RevokedAgrees
<1> QED
  BY Inductive, <1>1, PTL

(* At most one row holds the default QR token. *)
THEOREM OneBlankToken == Spec => []SingleFlight
<1>1. IInv => SingleFlight
  BY DEF IInv, StoreStages, TokenStages, SingleFlight
<1> QED
  BY Inductive, <1>1, PTL

(* The token issue() answers with finds exactly its certificate. *)
THEOREM TokenFindsRow == Spec => []ScanFindsTheCertificate
<1>1. IInv => ScanFindsTheCertificate
  BY DEF IInv, StoreStages, RowStages, TokenStages, ScanFindsTheCertificate
<1> QED
  BY Inductive, <1>1, PTL

(* A bulk body never creates two rows with the same key. *)
THEOREM BulkKeepsKeysApart == Spec => []BatchKeysDistinct
<1>1. IInv => BatchKeysDistinct
  BY EarlierAssumption DEF IInv, RowData, BatchStages, BatchKeysDistinct
<1> QED
  BY Inductive, <1>1, PTL

(* A step touches the row of a call that is over only to mark it revoked. *)
LEMMA NextSettledRowsKept == IInv /\ Next => SettledRowsKept
<1> SUFFICES ASSUME TypeOK, RowStages, IssueStages, RevokeStages, Next PROVE SettledRowsKept
  BY DEF IInv, StoreStages
<1> USE DEF SettledRowsKept, RowStages, IssueStages, RevokeStages, HasRow,
      TypeOK, ChainTypeOK, LedgerStates, TxStates, Calls,
      Flying, Finished, RevokeEnded, Tokens, DefaultTokens,
      chainVars, dbVars, revokeVars, Goto, RevokeGoto
<1>1. ASSUME NEW i \in Ids, NEW c \in Content, PassCheck(i, c) PROVE SettledRowsKept
  BY <1>1 DEF PassCheck, Ready
<1>2. ASSUME NEW i \in Ids, NEW c \in Content, RejectDuplicate(i, c) PROVE SettledRowsKept
  BY <1>2 DEF RejectDuplicate, Ready
<1>3. ASSUME NEW i \in Ids, CheckErrs(i) PROVE SettledRowsKept
  BY <1>3 DEF CheckErrs, Ready
<1>4. ASSUME NEW i \in Ids, NEW t \in DefaultTokens, InsertDraft(i, t) PROVE SettledRowsKept
  BY <1>4 DEF InsertDraft, Insert
<1>5. ASSUME NEW i \in Ids, NEW t \in DefaultTokens, InsertCollides(i, t) PROVE SettledRowsKept
  BY <1>5 DEF InsertCollides
<1>6. ASSUME NEW i \in Ids, NEW t \in DefaultTokens, InsertErrs(i, t) PROVE SettledRowsKept
  BY <1>6 DEF InsertErrs, Insert
<1>7. ASSUME NEW i \in Ids, SubmitIssue(i) PROVE SettledRowsKept
  BY <1>7 DEF SubmitIssue, Propose
<1>8. ASSUME NEW i \in Ids, SaveIssued(i) PROVE SettledRowsKept
  BY <1>8 DEF SaveIssued, Save
<1>9. ASSUME NEW i \in Ids, EnterCatch(i) PROVE SettledRowsKept
  BY <1>9 DEF EnterCatch, Save
<1>10. ASSUME NEW i \in Ids, SaveFailed(i) PROVE SettledRowsKept
  BY <1>10 DEF SaveFailed, Save
<1>11. ASSUME NEW i \in Ids, SaveFailedErrs(i) PROVE SettledRowsKept
  BY <1>11 DEF SaveFailedErrs
<1>12. ASSUME NEW v \in Revokes, SubmitRevoke(v) PROVE SettledRowsKept
  BY <1>12 DEF SubmitRevoke, Propose
<1>13. ASSUME NEW v \in Revokes, RevokeNotFound(v) PROVE SettledRowsKept
  BY <1>13 DEF RevokeNotFound
<1>14. ASSUME NEW v \in Revokes, MarkRevoked(v) PROVE SettledRowsKept
  BY <1>14 DEF MarkRevoked
<1>15. ASSUME NEW v \in Revokes, RevokeErrs(v) PROVE SettledRowsKept
  BY <1>15 DEF RevokeErrs
<1>16. ASSUME NEW i \in Ids, IssueCommits(i) PROVE SettledRowsKept
  BY <1>16 DEF IssueCommits, CommitIssue
<1>17. ASSUME NEW v \in Revokes, RevokeCommits(v) PROVE SettledRowsKept
  BY <1>17 DEF RevokeCommits, CommitRevoke
<1>18. ASSUME NEW c \in Calls, TxLost(c) PROVE SettledRowsKept
  BY <1>18 DEF TxLost, Lose
<1>19. CASE Crash
  BY <1>19 DEF Crash
<1> QED
  BY <1>1, <1>2, <1>3, <1>4, <1>5, <1>6, <1>7, <1>8, <1>9, <1>10, <1>11, <1>12,
     <1>13, <1>14, <1>15, <1>16, <1>17, <1>18, <1>19
     DEF Next, Start, Proceed, Revoking, Channel

(* The lost-update race of revoke() with issue() ends when issue() does. *)
THEOREM SettledRows == Spec => SettledRowsAreStable
<1>1. IInv /\ [Next]_vars => [SettledRowsKept]_vars
  BY NextSettledRowsKept
<1> QED
  BY Inductive, <1>1, PTL DEF Spec, SettledRowsAreStable

(* A step neither clears an orphaned default token nor adds another. *)
LEMMA NextJamKept == IInv /\ Next => JamKept
<1> SUFFICES ASSUME TypeOK, RowStages, IssueStages, RevokeStages, Next PROVE JamKept
  BY DEF IInv, StoreStages
<1> USE TokenAssumption DEF JamKept, Jammed, RowStages, IssueStages, RevokeStages, HasRow, TokenTaken, Ready, Queued,
      TypeOK, ChainTypeOK, LedgerStates, TxStates, Calls,
      Flying, Finished, RevokeEnded, Tokens, DefaultTokens,
      chainVars, dbVars, revokeVars, Goto, RevokeGoto
<1>1. ASSUME NEW i \in Ids, NEW c \in Content, PassCheck(i, c) PROVE JamKept
  BY <1>1 DEF PassCheck, Ready
<1>2. ASSUME NEW i \in Ids, NEW c \in Content, RejectDuplicate(i, c) PROVE JamKept
  BY <1>2 DEF RejectDuplicate, Ready
<1>3. ASSUME NEW i \in Ids, CheckErrs(i) PROVE JamKept
  BY <1>3 DEF CheckErrs, Ready
<1>4. ASSUME NEW i \in Ids, NEW t \in DefaultTokens, InsertDraft(i, t) PROVE JamKept
  BY <1>4 DEF InsertDraft, Insert
<1>5. ASSUME NEW i \in Ids, NEW t \in DefaultTokens, InsertCollides(i, t) PROVE JamKept
  BY <1>5 DEF InsertCollides
<1>6. ASSUME NEW i \in Ids, NEW t \in DefaultTokens, InsertErrs(i, t) PROVE JamKept
  BY <1>6 DEF InsertErrs, Insert
<1>7. ASSUME NEW i \in Ids, SubmitIssue(i) PROVE JamKept
  BY <1>7 DEF SubmitIssue, Propose
<1>8. ASSUME NEW i \in Ids, SaveIssued(i) PROVE JamKept
  BY <1>8 DEF SaveIssued, Save
<1>9. ASSUME NEW i \in Ids, EnterCatch(i) PROVE JamKept
  BY <1>9 DEF EnterCatch, Save
<1>10. ASSUME NEW i \in Ids, SaveFailed(i) PROVE JamKept
  BY <1>10 DEF SaveFailed, Save
<1>11. ASSUME NEW i \in Ids, SaveFailedErrs(i) PROVE JamKept
  BY <1>11 DEF SaveFailedErrs
<1>12. ASSUME NEW v \in Revokes, SubmitRevoke(v) PROVE JamKept
  BY <1>12 DEF SubmitRevoke, Propose
<1>13. ASSUME NEW v \in Revokes, RevokeNotFound(v) PROVE JamKept
  BY <1>13 DEF RevokeNotFound
<1>14. ASSUME NEW v \in Revokes, MarkRevoked(v) PROVE JamKept
  BY <1>14 DEF MarkRevoked
<1>15. ASSUME NEW v \in Revokes, RevokeErrs(v) PROVE JamKept
  BY <1>15 DEF RevokeErrs
<1>16. ASSUME NEW i \in Ids, IssueCommits(i) PROVE JamKept
  BY <1>16 DEF IssueCommits, CommitIssue
<1>17. ASSUME NEW v \in Revokes, RevokeCommits(v) PROVE JamKept
  BY <1>17 DEF RevokeCommits, CommitRevoke
<1>18. ASSUME NEW c \in Calls, TxLost(c) PROVE JamKept
  BY <1>18 DEF TxLost, Lose
<1>19. CASE Crash
  BY <1>19 DEF Crash
<1> QED
  BY <1>1, <1>2, <1>3, <1>4, <1>5, <1>6, <1>7, <1>8, <1>9, <1>10, <1>11, <1>12,
     <1>13, <1>14, <1>15, <1>16, <1>17, <1>18, <1>19
     DEF Next, Start, Proceed, Revoking, Channel

(* Nothing in the service repairs a row orphaned with the default token. *)
THEOREM JamsStay == Spec => JamIsPermanent
<1>1. IInv /\ [Next]_vars => [JamKept]_vars
  BY NextJamKept
<1> QED
  BY Inductive, <1>1, PTL DEF Spec, JamIsPermanent

-----------------------------------------------------------------------------
(* When what the code says does hold. *)

(* findOne() has looked for the roll and registration number, and save()   *)
(* has not stored the row yet: no two calls are there with one key.        *)
OneCheckPerKey ==
    \A i, j \in Ids :
        pc[i] = "checked" /\ pc[j] = "checked" /\ KeyOf[dto[i]] = KeyOf[dto[j]] => i = j

(* What a check found still holds when its row is inserted. *)
CheckStages ==
    \A i, j \in Ids : pc[i] = "checked" /\ HasRow(j) => KeyOf[dto[j]] # KeyOf[dto[i]]

KeyStages ==
    CheckStages /\ \A i, j \in Ids : HasRow(i) /\ HasRow(j) /\ KeyOf[dto[i]] = KeyOf[dto[j]] => i = j

(* Only another check of the same key can come between. *)
LEMMA NextKeyStages ==
    IInv /\ OneCheckPerKey /\ KeyStages /\ [Next]_vars => KeyStages'
<1> SUFFICES ASSUME TypeOK, RowStages, RowData, IssueStages, RevokeStages, OneCheckPerKey, KeyStages,
                    [Next]_vars
             PROVE  KeyStages'
  BY DEF IInv, StoreStages
<1> USE DEF KeyStages, CheckStages, OneCheckPerKey, RowStages, RowData, IssueStages, RevokeStages, HasRow, RowWithKey,
      TypeOK, ChainTypeOK, LedgerStates, TxStates, Calls,
      Flying, Finished, RevokeEnded, Tokens, DefaultTokens,
      chainVars, dbVars, revokeVars, Goto, RevokeGoto
<1>1. ASSUME NEW i \in Ids, NEW c \in Content, PassCheck(i, c) PROVE KeyStages'
  BY <1>1 DEF PassCheck, Ready
<1>2. ASSUME NEW i \in Ids, NEW c \in Content, RejectDuplicate(i, c) PROVE KeyStages'
  BY <1>2 DEF RejectDuplicate, Ready
<1>3. ASSUME NEW i \in Ids, CheckErrs(i) PROVE KeyStages'
  BY <1>3 DEF CheckErrs, Ready
<1>4. ASSUME NEW i \in Ids, NEW t \in DefaultTokens, InsertDraft(i, t) PROVE KeyStages'
  BY <1>4 DEF InsertDraft, Insert
<1>5. ASSUME NEW i \in Ids, NEW t \in DefaultTokens, InsertCollides(i, t) PROVE KeyStages'
  BY <1>5 DEF InsertCollides
<1>6. ASSUME NEW i \in Ids, NEW t \in DefaultTokens, InsertErrs(i, t) PROVE KeyStages'
  BY <1>6 DEF InsertErrs, Insert
<1>7. ASSUME NEW i \in Ids, SubmitIssue(i) PROVE KeyStages'
  BY <1>7 DEF SubmitIssue, Propose
<1>8. ASSUME NEW i \in Ids, SaveIssued(i) PROVE KeyStages'
  BY <1>8 DEF SaveIssued, Save
<1>9. ASSUME NEW i \in Ids, EnterCatch(i) PROVE KeyStages'
  BY <1>9 DEF EnterCatch, Save
<1>10. ASSUME NEW i \in Ids, SaveFailed(i) PROVE KeyStages'
  BY <1>10 DEF SaveFailed, Save
<1>11. ASSUME NEW i \in Ids, SaveFailedErrs(i) PROVE KeyStages'
  BY <1>11 DEF SaveFailedErrs
<1>12. ASSUME NEW v \in Revokes, SubmitRevoke(v) PROVE KeyStages'
  BY <1>12 DEF SubmitRevoke, Propose
<1>13. ASSUME NEW v \in Revokes, RevokeNotFound(v) PROVE KeyStages'
  BY <1>13 DEF RevokeNotFound
<1>14. ASSUME NEW v \in Revokes, MarkRevoked(v) PROVE KeyStages'
  BY <1>14 DEF MarkRevoked
<1>15. ASSUME NEW v \in Revokes, RevokeErrs(v) PROVE KeyStages'
  BY <1>15 DEF RevokeErrs
<1>16. ASSUME NEW i \in Ids, IssueCommits(i) PROVE KeyStages'
  BY <1>16 DEF IssueCommits, CommitIssue
<1>17. ASSUME NEW v \in Revokes, RevokeCommits(v) PROVE KeyStages'
  BY <1>17 DEF RevokeCommits, CommitRevoke
<1>18. ASSUME NEW c \in Calls, TxLost(c) PROVE KeyStages'
  BY <1>18 DEF TxLost, Lose
<1>19. CASE Crash
  BY <1>19 DEF Crash, Queued
<1>20. CASE UNCHANGED vars
  BY <1>20 DEF vars
<1> QED
  BY <1>1, <1>2, <1>3, <1>4, <1>5, <1>6, <1>7, <1>8, <1>9, <1>10, <1>11, <1>12,
     <1>13, <1>14, <1>15, <1>16, <1>17, <1>18, <1>19, <1>20
     DEF Next, Start, Proceed, Revoking, Channel

(* "Certificate already exists with given roll and registration number" is *)
(* true as long as no two calls are between the check and the insert for   *)
(* one key: the check is right, and all it lacks is a lock, or a unique    *)
(* column under it.                                                        *)
THEOREM KeysAreUniqueIfChecksAreApart == Spec /\ []OneCheckPerKey => []OneRowPerKey
<1>1. Init => KeyStages
  BY DEF Init, KeyStages, CheckStages, HasRow
<1>2. IInv /\ KeyStages => OneRowPerKey
  BY DEF IInv, RowData, KeyStages, OneRowPerKey
<1> QED
  BY <1>1, <1>2, NextKeyStages, Inductive, PTL DEF Spec

(* All certificates come from one bulk body. *)
OneBody == \A i, j \in Ids : i # j => i \in Earlier[j] \/ j \in Earlier[i]

(* bulkIssue() keeps its own checks apart, for it awaits each entry: while *)
(* only one body is being processed every key has at most one row.         *)
THEOREM OneBodyKeepsKeysUnique ==
  ASSUME OneBody
  PROVE  Spec => []OneRowPerKey
<1>1. IInv => OneCheckPerKey
  BY EarlierAssumption DEF IInv, BatchStages, OneBody, OneCheckPerKey, Finished
<1> QED
  BY <1>1, Inductive, KeysAreUniqueIfChecksAreApart, PTL

(* The catch of issue() is only entered when its transaction has not       *)
(* reached the orderer or has been dropped, and not when a deadline passed *)
(* while it was on its way, nor when the ISSUED save failed after it.      *)
CatchMeansUndone == \A i \in Ids : pc[i] = "failing" => tx[i] \in {"none", "lost"}

(* A row that was marked so belongs to a call that is over. *)
FailedStages ==
    \A i \in Ids : status[i] = "failed" => pc[i] = "error" /\ tx[i] \in {"none", "lost"}

(* Nothing commits any more for a call that has marked its row. *)
LEMMA NextFailedStages ==
    IInv /\ CatchMeansUndone /\ FailedStages /\ [Next]_vars => FailedStages'
<1> SUFFICES ASSUME TypeOK, RowStages, CatchMeansUndone, FailedStages, [Next]_vars
             PROVE  FailedStages'
  BY DEF IInv, StoreStages
<1> USE CallsAssumption DEF FailedStages, CatchMeansUndone, RowStages, HasRow,
      TypeOK, ChainTypeOK, LedgerStates, TxStates, Calls,
      Flying, Finished, RevokeEnded, Tokens, DefaultTokens,
      chainVars, dbVars, revokeVars, Goto, RevokeGoto
<1>1. ASSUME NEW i \in Ids, NEW c \in Content, PassCheck(i, c) PROVE FailedStages'
  BY <1>1 DEF PassCheck, Ready
<1>2. ASSUME NEW i \in Ids, NEW c \in Content, RejectDuplicate(i, c) PROVE FailedStages'
  BY <1>2 DEF RejectDuplicate, Ready
<1>3. ASSUME NEW i \in Ids, CheckErrs(i) PROVE FailedStages'
  BY <1>3 DEF CheckErrs, Ready
<1>4. ASSUME NEW i \in Ids, NEW t \in DefaultTokens, InsertDraft(i, t) PROVE FailedStages'
  BY <1>4 DEF InsertDraft, Insert
<1>5. ASSUME NEW i \in Ids, NEW t \in DefaultTokens, InsertCollides(i, t) PROVE FailedStages'
  BY <1>5 DEF InsertCollides
<1>6. ASSUME NEW i \in Ids, NEW t \in DefaultTokens, InsertErrs(i, t) PROVE FailedStages'
  BY <1>6 DEF InsertErrs, Insert
<1>7. ASSUME NEW i \in Ids, SubmitIssue(i) PROVE FailedStages'
  BY <1>7 DEF SubmitIssue, Propose
<1>8. ASSUME NEW i \in Ids, SaveIssued(i) PROVE FailedStages'
  BY <1>8 DEF SaveIssued, Save
<1>9. ASSUME NEW i \in Ids, EnterCatch(i) PROVE FailedStages'
  BY <1>9 DEF EnterCatch, Save
<1>10. ASSUME NEW i \in Ids, SaveFailed(i) PROVE FailedStages'
  BY <1>10 DEF SaveFailed, Save
<1>11. ASSUME NEW i \in Ids, SaveFailedErrs(i) PROVE FailedStages'
  BY <1>11 DEF SaveFailedErrs
<1>12. ASSUME NEW v \in Revokes, SubmitRevoke(v) PROVE FailedStages'
  BY <1>12 DEF SubmitRevoke, Propose
<1>13. ASSUME NEW v \in Revokes, RevokeNotFound(v) PROVE FailedStages'
  BY <1>13 DEF RevokeNotFound
<1>14. ASSUME NEW v \in Revokes, MarkRevoked(v) PROVE FailedStages'
  BY <1>14 DEF MarkRevoked
<1>15. ASSUME NEW v \in Revokes, RevokeErrs(v) PROVE FailedStages'
  BY <1>15 DEF RevokeErrs
<1>16. ASSUME NEW i \in Ids, IssueCommits(i) PROVE FailedStages'
  BY <1>16 DEF IssueCommits, CommitIssue
<1>17. ASSUME NEW v \in Revokes, RevokeCommits(v) PROVE FailedStages'
  BY <1>17 DEF RevokeCommits, CommitRevoke
<1>18. ASSUME NEW c \in Calls, TxLost(c) PROVE FailedStages'
  BY <1>18 DEF TxLost, Lose
<1>19. CASE Crash
  BY <1>19 DEF Crash, Queued
<1>20. CASE UNCHANGED vars
  BY <1>20 DEF vars
<1> QED
  BY <1>1, <1>2, <1>3, <1>4, <1>5, <1>6, <1>7, <1>8, <1>9, <1>10, <1>11, <1>12,
     <1>13, <1>14, <1>15, <1>16, <1>17, <1>18, <1>19, <1>20
     DEF Next, Start, Proceed, Revoking, Channel

(* "Rollback: mark as FAILED" is true as long as the catch is not entered  *)
(* for a transaction that has committed or may still do: what FAILED lacks *)
(* is the outcome of a transaction that is late.                           *)
THEOREM FailedMeansUndone == Spec /\ []CatchMeansUndone => []FailedIsNotAnchored
<1>1. Init => FailedStages
  BY DEF Init, FailedStages
<1>2. IInv /\ FailedStages => FailedIsNotAnchored
  BY DEF IInv, StoreStages, IssueStages, FailedStages, FailedIsNotAnchored
<1> QED
  BY <1>1, <1>2, NextFailedStages, Inductive, PTL DEF Spec

(* A call ends in an error, or without an answer, only if something fails. *)
NoErrors == \A i \in Ids : pc[i] \notin {"failing", "error", "dead"}

(* No step leads to one without a failure. *)
LEMMA NextNoErrors ==
    ASSUME ~MayFail
    PROVE  TypeOK /\ NoErrors /\ [Next]_vars => NoErrors'
<1> SUFFICES ASSUME TypeOK, NoErrors, [Next]_vars PROVE NoErrors'
  OBVIOUS
<1> USE DEF NoErrors,
      TypeOK, ChainTypeOK, LedgerStates, TxStates, Calls,
      Flying, Finished, RevokeEnded, Tokens, DefaultTokens,
      chainVars, dbVars, revokeVars, Goto, RevokeGoto
<1>1. ASSUME NEW i \in Ids, NEW c \in Content, PassCheck(i, c) PROVE NoErrors'
  BY <1>1 DEF PassCheck, Ready
<1>2. ASSUME NEW i \in Ids, NEW c \in Content, RejectDuplicate(i, c) PROVE NoErrors'
  BY <1>2 DEF RejectDuplicate, Ready
<1>3. ASSUME NEW i \in Ids, CheckErrs(i) PROVE NoErrors'
  BY <1>3 DEF CheckErrs, Ready
<1>4. ASSUME NEW i \in Ids, NEW t \in DefaultTokens, InsertDraft(i, t) PROVE NoErrors'
  BY <1>4 DEF InsertDraft, Insert
<1>5. ASSUME NEW i \in Ids, NEW t \in DefaultTokens, InsertCollides(i, t) PROVE NoErrors'
  BY <1>5 DEF InsertCollides
<1>6. ASSUME NEW i \in Ids, NEW t \in DefaultTokens, InsertErrs(i, t) PROVE NoErrors'
  BY <1>6 DEF InsertErrs, Insert
<1>7. ASSUME NEW i \in Ids, SubmitIssue(i) PROVE NoErrors'
  BY <1>7 DEF SubmitIssue, Propose
<1>8. ASSUME NEW i \in Ids, SaveIssued(i) PROVE NoErrors'
  BY <1>8 DEF SaveIssued, Save
<1>9. ASSUME NEW i \in Ids, EnterCatch(i) PROVE NoErrors'
  BY <1>9 DEF EnterCatch, Save
<1>10. ASSUME NEW i \in Ids, SaveFailed(i) PROVE NoErrors'
  BY <1>10 DEF SaveFailed, Save
<1>11. ASSUME NEW i \in Ids, SaveFailedErrs(i) PROVE NoErrors'
  BY <1>11 DEF SaveFailedErrs
<1>12. ASSUME NEW v \in Revokes, SubmitRevoke(v) PROVE NoErrors'
  BY <1>12 DEF SubmitRevoke, Propose
<1>13. ASSUME NEW v \in Revokes, RevokeNotFound(v) PROVE NoErrors'
  BY <1>13 DEF RevokeNotFound
<1>14. ASSUME NEW v \in Revokes, MarkRevoked(v) PROVE NoErrors'
  BY <1>14 DEF MarkRevoked
<1>15. ASSUME NEW v \in Revokes, RevokeErrs(v) PROVE NoErrors'
  BY <1>15 DEF RevokeErrs
<1>16. ASSUME NEW i \in Ids, IssueCommits(i) PROVE NoErrors'
  BY <1>16 DEF IssueCommits, CommitIssue
<1>17. ASSUME NEW v \in Revokes, RevokeCommits(v) PROVE NoErrors'
  BY <1>17 DEF RevokeCommits, CommitRevoke
<1>18. ASSUME NEW c \in Calls, TxLost(c) PROVE NoErrors'
  BY <1>18 DEF TxLost, Lose
<1>19. CASE Crash
  BY <1>19 DEF Crash, Queued
<1>20. CASE UNCHANGED vars
  BY <1>20 DEF vars
<1> QED
  BY <1>1, <1>2, <1>3, <1>4, <1>5, <1>6, <1>7, <1>8, <1>9, <1>10, <1>11, <1>12,
     <1>13, <1>14, <1>15, <1>16, <1>17, <1>18, <1>19, <1>20
     DEF Next, Start, Proceed, Revoking, Channel

(* Without failures no call ends so. *)
THEOREM ErrorsComeFromFailures ==
  ASSUME ~MayFail
  PROVE  Spec => []NoErrors
<1>1. Init => NoErrors
  BY DEF Init, NoErrors
<1>2. IInv => TypeOK
  BY DEF IInv, StoreStages
<1> QED
  BY <1>1, <1>2, NextNoErrors, Inductive, PTL DEF Spec

(* Nor is a row left with the default token: the jams of JamIsPermanent    *)
(* all begin with a failure between the two saves of one call.             *)
THEOREM JamsComeFromFailures ==
  ASSUME ~MayFail
  PROVE  Spec => []~Jammed
<1>1. IInv /\ NoErrors => ~Jammed
  BY TokenAssumption DEF IInv, StoreStages, RowStages, TokenStages, NoErrors, Jammed, Finished
<1> QED
  BY <1>1, ErrorsComeFromFailures, Inductive, PTL

(* Somebody else has a row with the default token, for now or for good. *)
BlankIsHeld == Jammed \/ \E j \in Ids : pc[j] \in Flying /\ HasRow(j) /\ qr[j] = Blank

RejectionCaused == \A i \in Ids : pc[i] = "checked" /\ pc'[i] = "rejected" => BlankIsHeld

(* If no client brings a token of its own, an insert is refused only while *)
(* another call is between its two saves, or because a failed one left its *)
(* default token behind: the unique column refuses nothing else.           *)
THEOREM RejectionHasACause ==
  ASSUME Supplied = {}
  PROVE  Spec => [][RejectionCaused]_vars
<1>1. IInv /\ [Next]_vars => [RejectionCaused]_vars
  <2> SUFFICES ASSUME IInv, Next, NEW i \in Ids, pc[i] = "checked", pc'[i] = "rejected"
               PROVE  BlankIsHeld
    BY DEF RejectionCaused
  <2>0. TypeOK /\ RowStages /\ TokenStages
    BY DEF IInv, StoreStages
  <2>1. \E t \in DefaultTokens : InsertCollides(i, t)
    BY <2>0 DEF TypeOK, Next, Start, Proceed, Revoking, Channel, PassCheck, RejectDuplicate,
       CheckErrs, Ready, InsertDraft, InsertCollides, InsertErrs, SubmitIssue, SaveIssued,
       EnterCatch, SaveFailed, SaveFailedErrs, SubmitRevoke, RevokeNotFound, MarkRevoked,
       RevokeErrs, IssueCommits, RevokeCommits, TxLost, Crash, Flying, Goto
  <2>2. PICK j \in Ids : HasRow(j) /\ qr[j] = Blank
    BY <2>1 DEF InsertCollides, TokenTaken, DefaultTokens
  <2>3. pc[j] \in Flying \cup Finished
    BY <2>0, <2>2 DEF TypeOK, RowStages
  <2> QED
    BY <2>2, <2>3 DEF BlankIsHeld, Jammed
<1> QED
  BY <1>1, Inductive, PTL DEF Spec

(* The entries of a lone bulk body do not stand in each other's way: if    *)
(* nothing fails, none of them is refused its row.                         *)
THEOREM BulkIsNotRejected ==
  ASSUME Supplied = {}, ~MayFail, OneBody
  PROVE  Spec => [](\A i \in Ids : pc[i] # "rejected")
<1> DEFINE Accepted == \A i \in Ids : pc[i] # "rejected"
<1>1. Init => Accepted
  BY DEF Init
<1>2. IInv /\ NoErrors /\ ~Jammed /\ Accepted /\ [Next]_vars /\ [RejectionCaused]_vars => Accepted'
  <2> SUFFICES ASSUME IInv, ~Jammed, Accepted, [Next]_vars, [RejectionCaused]_vars,
                      NEW i \in Ids, pc'[i] = "rejected"
               PROVE  FALSE
    OBVIOUS
  <2>0. TypeOK /\ RowStages /\ BatchStages
    BY DEF IInv, StoreStages
  <2>1. pc[i] = "checked"
    BY <2>0 DEF TypeOK, vars, Next, Start, Proceed, Revoking, Channel, PassCheck, RejectDuplicate,
       CheckErrs, Ready, InsertDraft, InsertCollides, InsertErrs, SubmitIssue, SaveIssued,
       EnterCatch, SaveFailed, SaveFailedErrs, SubmitRevoke, RevokeNotFound, MarkRevoked,
       RevokeErrs, IssueCommits, RevokeCommits, TxLost, Crash, Flying, Goto
  <2>2. PICK j \in Ids : pc[j] \in Flying /\ HasRow(j)
    BY <2>1 DEF vars, RejectionCaused, BlankIsHeld
  <2>3. i # j
    BY <2>0, <2>1, <2>2 DEF RowStages
  <2> QED
    BY <2>0, <2>1, <2>2, <2>3, OneBody, EarlierAssumption DEF OneBody, BatchStages, Flying, Finished
<1> QED
  BY <1>1, <1>2, ErrorsComeFromFailures, JamsComeFromFailures, RejectionHasACause, Inductive, PTL
     DEF Spec

(* Nobody has a certificate revoked whose issuing call is still running. *)
NoRevokeInFlight == \A v \in Revokes : rpc[v] = "submitted" => pc[target[v]] \notin Flying

AtWork(i) ==
    pc[i] \in Flying \/ \E v \in Revokes : target[v] = i /\ rpc[v] = "submitted"

(* The listing shows what verification goes by. *)
Agreed(i) ==
    CASE Truth[i] = "unknown" -> Shown[i] = "nothing"
      [] OTHER -> Shown[i] = Truth[i]

StoresAgree == \A i \in Ids : AtWork(i) \/ Agreed(i)

(* What is revoked had been issued before, and is marked so or about to be. *)
CalmStages ==
    /\ \A v \in Revokes : tx[v] = "pending" => rpc[v] = "submitted"
    /\ \A i \in Ids :
          /\ pc[i] = "created" => status[i] \in {"issued", "revoked"}
          /\ pc[i] \in Flying => ledger[i] # "REVOKED"
          /\ pc[i] = "created" /\ ledger[i] = "REVOKED" =>
                \/ status[i] = "revoked"
                \/ \E v \in Revokes : target[v] = i /\ rpc[v] = "submitted" /\ tx[v] = "committed"

(* Without failures no call is cut off, and no revocation is overwritten. *)
LEMMA NextCalmStages ==
    ASSUME ~MayFail
    PROVE  IInv /\ NoErrors /\ NoRevokeInFlight /\ CalmStages /\ [Next]_vars => CalmStages'
<1> SUFFICES ASSUME TypeOK, RowStages, IssueStages, RevokeStages, NoErrors,
                    NoRevokeInFlight, CalmStages, [Next]_vars
             PROVE  CalmStages'
  BY DEF IInv, StoreStages
<1> USE CallsAssumption DEF CalmStages, NoErrors, NoRevokeInFlight, RowStages, IssueStages, RevokeStages, HasRow,
      TypeOK, ChainTypeOK, LedgerStates, TxStates, Calls,
      Flying, Finished, RevokeEnded, Tokens, DefaultTokens,
      chainVars, dbVars, revokeVars, Goto, RevokeGoto
<1>1. ASSUME NEW i \in Ids, NEW c \in Content, PassCheck(i, c) PROVE CalmStages'
  BY <1>1 DEF PassCheck, Ready
<1>2. ASSUME NEW i \in Ids, NEW c \in Content, RejectDuplicate(i, c) PROVE CalmStages'
  BY <1>2 DEF RejectDuplicate, Ready
<1>3. ASSUME NEW i \in Ids, CheckErrs(i) PROVE CalmStages'
  BY <1>3 DEF CheckErrs, Ready
<1>4. ASSUME NEW i \in Ids, NEW t \in DefaultTokens, InsertDraft(i, t) PROVE CalmStages'
  BY <1>4 DEF InsertDraft, Insert
<1>5. ASSUME NEW i \in Ids, NEW t \in DefaultTokens, InsertCollides(i, t) PROVE CalmStages'
  BY <1>5 DEF InsertCollides
<1>6. ASSUME NEW i \in Ids, NEW t \in DefaultTokens, InsertErrs(i, t) PROVE CalmStages'
  BY <1>6 DEF InsertErrs, Insert
<1>7. ASSUME NEW i \in Ids, SubmitIssue(i) PROVE CalmStages'
  BY <1>7 DEF SubmitIssue, Propose
<1>8. ASSUME NEW i \in Ids, SaveIssued(i) PROVE CalmStages'
  BY <1>8 DEF SaveIssued, Save
<1>9. ASSUME NEW i \in Ids, EnterCatch(i) PROVE CalmStages'
  BY <1>9 DEF EnterCatch, Save
<1>10. ASSUME NEW i \in Ids, SaveFailed(i) PROVE CalmStages'
  BY <1>10 DEF SaveFailed, Save
<1>11. ASSUME NEW i \in Ids, SaveFailedErrs(i) PROVE CalmStages'
  BY <1>11 DEF SaveFailedErrs
<1>12. ASSUME NEW v \in Revokes, SubmitRevoke(v) PROVE CalmStages'
  BY <1>12 DEF SubmitRevoke, Propose
<1>13. ASSUME NEW v \in Revokes, RevokeNotFound(v) PROVE CalmStages'
  BY <1>13 DEF RevokeNotFound
<1>14. ASSUME NEW v \in Revokes, MarkRevoked(v) PROVE CalmStages'
  BY <1>14 DEF MarkRevoked
<1>15. ASSUME NEW v \in Revokes, RevokeErrs(v) PROVE CalmStages'
  BY <1>15 DEF RevokeErrs
<1>16. ASSUME NEW i \in Ids, IssueCommits(i) PROVE CalmStages'
  BY <1>16 DEF IssueCommits, CommitIssue
<1>17. ASSUME NEW v \in Revokes, RevokeCommits(v) PROVE CalmStages'
  BY <1>17 DEF RevokeCommits, CommitRevoke
<1>18. ASSUME NEW c \in Calls, TxLost(c) PROVE CalmStages'
  BY <1>18 DEF TxLost, Lose
<1>19. CASE Crash
  BY <1>19 DEF Crash, Queued
<1>20. CASE UNCHANGED vars
  BY <1>20 DEF vars
<1> QED
  BY <1>1, <1>2, <1>3, <1>4, <1>5, <1>6, <1>7, <1>8, <1>9, <1>10, <1>11, <1>12,
     <1>13, <1>14, <1>15, <1>16, <1>17, <1>18, <1>19, <1>20
     DEF Next, Start, Proceed, Revoking, Channel

(* With no failure, and if no certificate is revoked before issue() has    *)
(* answered for it, the table and the ledger agree on every certificate    *)
(* that no call is at work on: what can part them for good is a failure,   *)
(* or a revocation that the last save of issue() overwrites.               *)
THEOREM CalmStoresAgree ==
  ASSUME ~MayFail
  PROVE  Spec /\ []NoRevokeInFlight => []StoresAgree
<1>1. Init => CalmStages
  BY CallsAssumption DEF Init, ChainInit, CalmStages, Calls, Flying
<1>2. IInv /\ NoErrors /\ CalmStages => StoresAgree
  <2> SUFFICES ASSUME IInv, NoErrors, CalmStages, NEW i \in Ids, ~AtWork(i) PROVE Agreed(i)
    BY DEF StoresAgree
  <2>1. TypeOK /\ RowStages /\ IssueStages /\ RevokeStages
    BY DEF IInv, StoreStages
  <2>2. CASE pc[i] = "created"
    <3>1. status[i] \in {"issued", "revoked"} /\ ledger[i] \in {"ISSUED", "REVOKED"}
      BY <2>1, <2>2 DEF CalmStages, IssueStages, TypeOK, ChainTypeOK, LedgerStates
    <3>2. status[i] = "revoked" <=> ledger[i] = "REVOKED"
      BY <2>1, <2>2 DEF CalmStages, RevokeStages, AtWork
    <3> QED
      BY <3>1, <3>2 DEF Agreed, Truth, Shown
  <2>3. CASE pc[i] # "created"
    <3>1. pc[i] \in {"idle", "duplicate", "rejected"}
      BY <2>1, <2>3 DEF NoErrors, AtWork, TypeOK, Flying, Finished
    <3>2. status[i] = "none" /\ ledger[i] = "absent"
      BY <2>1, <3>1 DEF RowStages, IssueStages, HasRow
    <3> QED
      BY <3>2 DEF Agreed, Truth, Shown
  <2> QED
    BY <2>2, <2>3
<1> QED
  BY <1>1, <1>2, NextCalmStages, ErrorsComeFromFailures, Inductive, PTL DEF Spec

=============================================================================
