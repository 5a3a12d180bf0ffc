-------------------------- MODULE VerificationProofs --------------------------
(***************************************************************************)
(* Proofs about Verification, for any number of certificates and calls.    *)
(* VIInv is inductive although the table may be edited at any time: it     *)
(* takes from the writing side StoreStages, which says nothing of the data *)
(* in the rows.                                                            *)
(***************************************************************************)
EXTENDS Verification, RegisterProofs

(* The initial states satisfy the inductive invariant. *)
LEMMA InitVIInv == VInit => VIInv
<1> SUFFICES ASSUME VInit PROVE VIInv
  OBVIOUS
<1>1. StoreStages
  BY InitIInv DEF VInit, IInv
<1>2. ReadTypeOK
  BY DEF VInit, ReadTypeOK, NoMoment, Moments
<1>3. \A q \in Queries : FoundStages(q) /\ AnswerStages(q)
  BY DEF VInit, FoundStages, AnswerStages, Certain, Grounded, NoMoment
<1> QED
  BY <1>1, <1>2, <1>3 DEF VIInv

(* What is settled about a certificate stays so in every step of the       *)
(* writing side: its row and DTO, that issue() has answered, and that it   *)
(* is on the ledger and revoked there.                                     *)
Settled ==
    \A i \in Ids :
        /\ HasRow(i) => HasRow(i)' /\ dto'[i] = dto[i]
        /\ pc[i] = "created" => pc'[i] = "created"
        /\ ledger[i] = "REVOKED" => ledger'[i] = "REVOKED"
        /\ ledger[i] # "absent" => ledger'[i] # "absent"

(* No step of the writing side unsettles any of it. *)
LEMMA NextSettled == StoreStages /\ [Next]_vars => Settled
<1> SUFFICES ASSUME TypeOK, RowStages, IssueStages, RevokeStages, [Next]_vars PROVE Settled
  BY DEF StoreStages
<1> USE DEF Settled, RowStages, IssueStages, RevokeStages, HasRow,
      TypeOK, ChainTypeOK, LedgerStates, TxStates, Calls,
      Flying, Finished, RevokeEnded, Tokens, DefaultTokens,
      chainVars, dbVars, revokeVars, Goto, RevokeGoto
<1>1. ASSUME NEW i \in Ids, NEW c \in Content, PassCheck(i, c) PROVE Settled
  BY <1>1 DEF PassCheck, Ready
<1>2. ASSUME NEW i \in Ids, NEW c \in Content, RejectDuplicate(i, c) PROVE Settled
  BY <1>2 DEF RejectDuplicate, Ready
<1>3. ASSUME NEW i \in Ids, CheckErrs(i) PROVE Settled
  BY <1>3 DEF CheckErrs, Ready
<1>4. ASSUME NEW i \in Ids, NEW t \in DefaultTokens, InsertDraft(i, t) PROVE Settled
  BY <1>4 DEF InsertDraft, Insert
<1>5. ASSUME NEW i \in Ids, NEW t \in DefaultTokens, InsertCollides(i, t) PROVE Settled
  BY <1>5 DEF InsertCollides
<1>6. ASSUME NEW i \in Ids, NEW t \in DefaultTokens, InsertErrs(i, t) PROVE Settled
  BY <1>6 DEF InsertErrs, Insert
<1>7. ASSUME NEW i \in Ids, SubmitIssue(i) PROVE Settled
  BY <1>7 DEF SubmitIssue, Propose
<1>8. ASSUME NEW i \in Ids, SaveIssued(i) PROVE Settled
  BY <1>8 DEF SaveIssued, Save
<1>9. ASSUME NEW i \in Ids, EnterCatch(i) PROVE Settled
  BY <1>9 DEF EnterCatch, Save
<1>10. ASSUME NEW i \in Ids, SaveFailed(i) PROVE Settled
  BY <1>10 DEF SaveFailed, Save
<1>11. ASSUME NEW i \in Ids, SaveFailedErrs(i) PROVE Settled
  BY <1>11 DEF SaveFailedErrs
<1>12. ASSUME NEW v \in Revokes, SubmitRevoke(v) PROVE Settled
  BY <1>12 DEF SubmitRevoke, Propose
<1>13. ASSUME NEW v \in Revokes, RevokeNotFound(v) PROVE Settled
  BY <1>13 DEF RevokeNotFound
<1>14. ASSUME NEW v \in Revokes, MarkRevoked(v) PROVE Settled
  BY <1>14 DEF MarkRevoked
<1>15. ASSUME NEW v \in Revokes, RevokeErrs(v) PROVE Settled
  BY <1>15 DEF RevokeErrs
<1>16. ASSUME NEW i \in Ids, IssueCommits(i) PROVE Settled
  BY <1>16 DEF IssueCommits, CommitIssue
<1>17. ASSUME NEW v \in Revokes, RevokeCommits(v) PROVE Settled
  BY <1>17 DEF RevokeCommits, CommitRevoke
<1>18. ASSUME NEW c \in Calls, TxLost(c) PROVE Settled
  BY <1>18 DEF TxLost, Lose
<1>19. CASE Crash
  BY <1>19 DEF Crash, Queued
<1>20. CASE UNCHANGED vars
  BY <1>20 DEF vars
<1> QED
  BY <1>1, <1>2, <1>3, <1>4, <1>5, <1>6, <1>7, <1>8, <1>9, <1>10, <1>11, <1>12,
     <1>13, <1>14, <1>15, <1>16, <1>17, <1>18, <1>19, <1>20
     DEF Next, Start, Proceed, Revoking, Channel


(* A step of the writing side is one of Certificates. *)
LEMMA WritesAreNext == Writes \/ Crash => Next
BY DEF Writes, Next

(* Edits of the data leave StoreStages alone, and nothing else unsettles it. *)
LEMMA NextStores == VIInv /\ [VNext]_allVars => StoreStages'
<1> SUFFICES ASSUME StoreStages, [VNext]_allVars PROVE StoreStages'
  BY DEF VIInv
<1>1. CASE Writes \/ CrashAll
  BY <1>1, WritesAreNext, NextStoreStages DEF CrashAll
<1>2. ASSUME NEW i \in Ids, NEW c \in Content, Tamper(i, c) PROVE StoreStages'
  <2> USE <1>2 DEF Tamper, HasRow, chainVars, revokeVars
  <2>1. TypeOK'
    BY DEF StoreStages, TypeOK, ChainTypeOK
  <2>2. RowStages'
    BY DEF StoreStages, TypeOK, RowStages
  <2>3. IssueStages' /\ RevokeStages'
    BY DEF StoreStages, IssueStages, RevokeStages
  <2>4. TokenStages'
    BY DEF StoreStages, TokenStages
  <2> QED
    BY <2>1, <2>2, <2>3, <2>4 DEF StoreStages
<1>3. CASE UNCHANGED vars
  BY <1>3, NextStoreStages
<1> QED
  BY <1>1, <1>2, <1>3
     DEF VNext, Reading, Find, FindNothing, Evaluate, GetOnChain, ReadErrs, allVars

(* The verdicts of the chaincode are among the outcomes. *)
LEMMA VerdictTypes ==
  ASSUME NEW i \in Ids, NEW h, NEW r \in VerifyCertificate(i, h)
  PROVE  /\ r \in Verdicts
         /\ r = "AUTHENTIC" => ledger[i] = "ISSUED" \/ ledger[i] \notin LedgerStates
         /\ r = "AUTHENTIC" => anchor[i] = h
         /\ ledger[i] # "absent" /\ anchor[i] = h => r \in {"AUTHENTIC", "REVOKED"}
         /\ r = "TAMPERED" => ledger[i] # "absent" /\ anchor[i] # h
         /\ r = "REVOKED" => ledger[i] = "REVOKED"
BY DEF VerifyCertificate, Verdicts, LedgerStates

(* Every step keeps the types of the reading side. *)
LEMMA NextReadTypeOK == VIInv /\ [VNext]_allVars => ReadTypeOK'
<1> SUFFICES ASSUME VIInv, [VNext]_allVars PROVE ReadTypeOK'
  OBVIOUS
<1>0. ReadTypeOK /\ TypeOK /\ \A q \in Queries : FoundStages(q)
  BY DEF VIInv, StoreStages
<1> USE <1>0 DEF ReadTypeOK, Outcomes, Verdicts, Moments, NoMoment, Reply
<1>1. CASE UNCHANGED readVars
  BY <1>1 DEF readVars
<1>2. CASE CrashAll
  BY <1>2 DEF CrashAll
<1>3. ASSUME NEW q \in Queries, NEW i \in Ids, Find(q, i) PROVE ReadTypeOK'
  <2>1. GenuineIsNamed(ask[q]) \in BOOLEAN /\ OnlyGenuineMatch(ask[q]) \in BOOLEAN
    BY DEF GenuineIsNamed, OnlyGenuineMatch
  <2> HIDE DEF GenuineIsNamed, OnlyGenuineMatch
  <2> QED
    BY <1>3, <2>1 DEF Find, TypeOK
<1>4. ASSUME NEW q \in Queries, FindNothing(q) PROVE ReadTypeOK'
  BY <1>4 DEF FindNothing, GenuineIsNamed
<1>5. ASSUME NEW q \in Queries, Evaluate(q) PROVE ReadTypeOK'
  <2>1. PICK r \in VerifyCertificate(hit[q], Hash[seen[q]]) : Reply(q, r)
    BY <1>5 DEF Evaluate
  <2>2. r \in Verdicts
    BY <1>5, <2>1, VerdictTypes DEF Evaluate, FoundStages
  <2> QED
    BY <1>5, <2>1, <2>2 DEF Evaluate
<1>6. ASSUME NEW q \in Queries, GetOnChain(q) PROVE ReadTypeOK'
  BY <1>6 DEF GetOnChain
<1>7. ASSUME NEW q \in Queries, ReadErrs(q) PROVE ReadTypeOK'
  BY <1>7 DEF ReadErrs
<1> QED
  BY <1>1, <1>2, <1>3, <1>4, <1>5, <1>6, <1>7 DEF VNext, Reading, Tamper, allVars

(* A call that the step is not one of goes on from what was settled. *)
LEMMA OthersKept ==
  ASSUME VIInv, Settled, NEW q \in Queries,
         ask'[q] = ask[q], hit'[q] = hit[q], seen'[q] = seen[q], then'[q] = then[q],
         reply'[q] \in {reply[q], "error"}
  PROVE  (FoundStages(q) /\ AnswerStages(q))'
<1>1. FoundStages(q) /\ AnswerStages(q)
  BY DEF VIInv
<1>2. FoundStages(q)'
  BY <1>1 DEF FoundStages, Certain, Settled, SamePaper
<1>3. AnswerStages(q)'
  BY <1>1 DEF AnswerStages, Certain, Grounded, Settled, SamePaper
<1> QED
  BY <1>2, <1>3

(* A genuine certificate is among the rows that match, and the only one if *)
(* it is named by its token or its id.                                     *)
LEMMA GenuineMatches ==
  ASSUME VIInv, NEW q \in Queries, NEW i \in Ids, Named(i, ask[q]), Genuine(i)
  PROVE  /\ Matches(i, ask[q])
         /\ \A j \in Ids : Matches(j, ask[q]) /\ ask[q].by # "paper" => j = i
<1>1. HasRow(i) /\ qr[i] = i /\ content[i] = dto[i]
  BY DEF VIInv, StoreStages, RowStages, TokenStages, Genuine
<1>2. ask[q].by \in {"token", "id", "paper"}
  <2>1. ask[q] \in Asks
    BY DEF VIInv, ReadTypeOK
  <2> QED
    BY <2>1 DEF Asks
<1>3. \A j \in Ids : HasRow(j) /\ qr[j] = i => j = i
  BY <1>1 DEF VIInv, StoreStages, TokenStages
<1> QED
  BY <1>1, <1>2, <1>3 DEF Matches, Named

(* What a call finds is there, and is what then says of it. *)
LEMMA FindKeeps ==
  ASSUME VIInv, NEW q \in Queries, NEW i \in Ids, Find(q, i)
  PROVE  (FoundStages(q) /\ AnswerStages(q))'
<1>1. /\ HasRow(i) /\ content[i] \in Content /\ Matches(i, ask[q])
      /\ ask[q].by = "paper" => SamePaper(content[i], ask[q].paper)
  BY DEF VIInv, StoreStages, RowStages, Find, Matches
<1> DEFINE genuine == GenuineIsNamed(ask[q])
           alone == OnlyGenuineMatch(ask[q])
           revoked == ledger[i] = "REVOKED"
<1>2. /\ hit'[q] = i /\ seen'[q] = content[i] /\ reply'[q] = "found" /\ ask' = ask
      /\ then'[q] = [genuine |-> genuine, alone |-> alone, revoked |-> revoked]
      /\ UNCHANGED vars
  BY DEF VIInv, ReadTypeOK, Find, Reply
<1>3. UNCHANGED <<status, dto, pc, ledger>>
  BY <1>2 DEF vars, dbVars, chainVars
<1>4. genuine /\ (ask[q].by = "paper" => alone) => Genuine(i)
  <2>1. CASE ask[q].by = "paper"
    BY <1>1, <2>1 DEF OnlyGenuineMatch
  <2>2. CASE ask[q].by # "paper"
    BY <1>1, <2>2, GenuineMatches DEF GenuineIsNamed
  <2> QED
    BY <2>1, <2>2
<1>5. (Certain(q))' => Genuine(i)
  <2>1. PICK g \in BOOLEAN : g = genuine
    BY DEF GenuineIsNamed
  <2>2. PICK a \in BOOLEAN : a = alone
    BY DEF OnlyGenuineMatch
  <2>3. then'[q].genuine = g /\ then'[q].alone = a
    BY <1>2, <2>1, <2>2
  <2> HIDE DEF genuine, alone
  <2> QED
    BY <1>2, <1>4, <2>1, <2>2, <2>3 DEF Certain
<1>6. then'[q].revoked => ledger'[i] = "REVOKED"
  <2>1. PICK x \in BOOLEAN : x = revoked
    OBVIOUS
  <2> HIDE DEF genuine, alone
  <2>2. then'[q].revoked = x
    BY <1>2, <2>1
  <2> QED
    BY <1>3, <2>1, <2>2
<1> HIDE DEF genuine, alone, revoked
<1>7. FoundStages(q)'
  <2>1. HasRow(i)'
    BY <1>1, <1>3 DEF HasRow
  <2>2. (Certain(q))' => pc'[i] = "created" /\ content[i] = dto'[i]
    BY <1>3, <1>5 DEF Genuine
  <2> QED
    BY <1>1, <1>2, <1>6, <2>1, <2>2 DEF FoundStages, SamePaper
<1>8. AnswerStages(q)'
  BY <1>2 DEF AnswerStages, Grounded
<1> QED
  BY <1>7, <1>8

(* Who finds nothing has not asked for a genuine certificate. *)
LEMMA FindNothingKeeps ==
  ASSUME VIInv, NEW q \in Queries, FindNothing(q)
  PROVE  (FoundStages(q) /\ AnswerStages(q))'
<1>1. ~GenuineIsNamed(ask[q])
  BY GenuineMatches DEF FindNothing, GenuineIsNamed
<1>2. reply'[q] = "notFound" /\ ~then'[q].genuine
  BY <1>1 DEF VIInv, ReadTypeOK, Moments, FindNothing, Reply
<1> QED
  BY <1>2 DEF FoundStages, AnswerStages, Certain, Grounded

(* The answer of the chaincode to the hash of what was read. *)
LEMMA EvaluateKeeps ==
  ASSUME VIInv, NEW q \in Queries, Evaluate(q)
  PROVE  (FoundStages(q) /\ AnswerStages(q))'
<1> DEFINE i == hit[q]
<1>0. FoundStages(q) /\ StoreStages /\ ReadTypeOK
  BY DEF VIInv
<1>1. /\ i \in Ids /\ HasRow(i) /\ seen[q] \in Content
      /\ ask[q].by = "paper" => SamePaper(seen[q], ask[q].paper)
      /\ Certain(q) => pc[i] = "created" /\ seen[q] = dto[i]
      /\ then[q].revoked => ledger[i] = "REVOKED"
  BY <1>0 DEF Evaluate, FoundStages
<1>2. PICK r \in VerifyCertificate(i, Hash[seen[q]]) : reply'[q] = r
  BY <1>0 DEF Evaluate, Reply, ReadTypeOK
<1>3. UNCHANGED <<ask, hit, seen, then, status, dto, pc, ledger>>
  BY DEF Evaluate, vars, dbVars, chainVars
<1>4. r \in Verdicts
  BY <1>1, VerdictTypes
<1>5. ledger[i] \in LedgerStates
  BY <1>0, <1>1 DEF StoreStages, TypeOK, ChainTypeOK
<1>6. r = "AUTHENTIC" => Hash[seen[q]] = Hash[dto[i]] /\ ~then[q].revoked
  <2>1. r = "AUTHENTIC" => ledger[i] = "ISSUED" /\ anchor[i] = Hash[seen[q]]
    BY <1>1, <1>5, VerdictTypes
  <2>2. ledger[i] # "absent" => anchor[i] = Hash[dto[i]]
    BY <1>0, <1>1 DEF StoreStages, IssueStages
  <2> QED
    BY <1>1, <2>1, <2>2
<1>7. Certain(q) => r \in {"AUTHENTIC", "REVOKED"}
  <2>1. pc[i] = "created" => ledger[i] # "absent" /\ anchor[i] = Hash[dto[i]]
    BY <1>0, <1>1 DEF StoreStages, IssueStages
  <2> QED
    BY <1>1, <2>1, VerdictTypes
<1>8. FoundStages(q)'
  BY <1>2, <1>4 DEF FoundStages, Verdicts
<1>9. Grounded(q)'
  <2>1. r = "TAMPERED" => ledger[i] # "absent" /\ seen[q] # dto[i]
    BY <1>0, <1>1, VerdictTypes DEF StoreStages, IssueStages
  <2>2. r = "REVOKED" => ledger[i] = "REVOKED"
    BY <1>1, VerdictTypes
  <2> QED
    BY <1>2, <1>3, <1>4, <2>1, <2>2 DEF Grounded, Verdicts
<1>10. AnswerStages(q)'
  BY <1>1, <1>2, <1>3, <1>4, <1>6, <1>7, <1>9 DEF AnswerStages, Certain, Verdicts, HasRow, SamePaper
<1> QED
  BY <1>8, <1>10

LEMMA GetKeeps ==
  ASSUME VIInv, NEW q \in Queries, GetOnChain(q)
  PROVE  (FoundStages(q) /\ AnswerStages(q))'
<1>0. FoundStages(q) /\ StoreStages /\ ReadTypeOK
  BY DEF VIInv
<1>1. Certain(q) => ledger[hit[q]] # "absent"
  BY <1>0 DEF GetOnChain, FoundStages, StoreStages, IssueStages
<1>2. /\ ask[q].by = "id" /\ UNCHANGED ask
      /\ reply'[q] = IF ledger[hit[q]] = "absent" THEN "notFound" ELSE "row"
      /\ UNCHANGED <<then, hit, ledger, status>>
      /\ hit[q] \in Ids /\ HasRow(hit[q])
  BY <1>0 DEF GetOnChain, Reply, ReadTypeOK, FoundStages, vars, dbVars, chainVars
<1> QED
  BY <1>1, <1>2 DEF FoundStages, AnswerStages, Certain, Grounded, HasRow

(* Every step keeps what reading calls rely on and have answered. *)
LEMMA NextReads ==
  VIInv /\ [VNext]_allVars => (\A q \in Queries : FoundStages(q) /\ AnswerStages(q))'
<1> SUFFICES ASSUME VIInv, [VNext]_allVars, NEW q \in Queries
             PROVE  (FoundStages(q) /\ AnswerStages(q))'
  OBVIOUS
<1>0. ReadTypeOK /\ StoreStages
  BY DEF VIInv
<1>1. CASE UNCHANGED vars
  <2>1. Settled
    BY <1>0, <1>1, NextSettled
  <2>2. ASSUME NEW p \in Queries, p # q, Reading(p)
        PROVE  /\ ask'[q] = ask[q] /\ hit'[q] = hit[q] /\ seen'[q] = seen[q]
               /\ then'[q] = then[q] /\ reply'[q] = reply[q]
    BY <1>0, <2>2 DEF Reading, Find, FindNothing, Evaluate, GetOnChain, ReadErrs, Reply, ReadTypeOK
  <2>3. CASE ReadErrs(q)
    BY <1>0, <2>1, <2>3, OthersKept DEF ReadErrs, Reply, ReadTypeOK
  <2>4. CASE Reading(q)
    BY <2>3, <2>4, FindKeeps, FindNothingKeeps, EvaluateKeeps, GetKeeps DEF Reading
  <2>5. CASE UNCHANGED readVars
    BY <2>1, <2>5, OthersKept DEF readVars
  <2>6. CASE CrashAll
    BY <1>0, <2>1, <2>6, OthersKept DEF CrashAll, ReadTypeOK
  <2> QED
    BY <2>1, <2>2, <2>4, <2>5, <2>6, OthersKept DEF VNext, Tamper, allVars
<1>2. CASE Writes /\ UNCHANGED readVars
  BY <1>0, <1>2, WritesAreNext, NextSettled, OthersKept DEF readVars
<1>3. CASE CrashAll
  BY <1>0, <1>3, WritesAreNext, NextSettled, OthersKept DEF CrashAll, ReadTypeOK
<1>4. ASSUME NEW i \in Ids, NEW c \in Content, Tamper(i, c)
      PROVE  (FoundStages(q) /\ AnswerStages(q))'
  <2>1. Settled
    BY <1>4 DEF Tamper, Settled, HasRow, chainVars
  <2> QED
    BY <1>4, <2>1, OthersKept DEF Tamper, readVars
<1> QED
  BY <1>1, <1>2, <1>3, <1>4
     DEF VNext, Reading, Find, FindNothing, Evaluate, GetOnChain, ReadErrs, allVars

-----------------------------------------------------------------------------

(* VIInv is an invariant of the service with its readers. *)
THEOREM ReadersInductive == VSpec => []VIInv
<1>1. VIInv /\ [VNext]_allVars => VIInv'
  BY NextStores, NextReadTypeOK, NextReads DEF VIInv
<1> QED
  BY InitVIInv, <1>1, PTL DEF VSpec

(* A hash that tells the contents apart, as SHA-256 is taken to do. *)
HashTellsApart == \A c, d \in Content : Hash[c] = Hash[d] => c = d

(* With such a hash AUTHENTIC is only said of data as it was issued. *)
THEOREM AuthenticMeansIssued ==
  ASSUME HashTellsApart
  PROVE  VSpec => []AuthenticIsWhatWasIssued
<1>1. VIInv => AuthenticIsWhatWasIssued
  <2> SUFFICES ASSUME VIInv, NEW q \in Queries, reply[q] = "AUTHENTIC"
               PROVE  /\ seen[q] = dto[hit[q]]
                      /\ ask[q].by = "paper" =>
                            /\ KeyOf[dto[hit[q]]] = KeyOf[ask[q].paper]
                            /\ YearOf[dto[hit[q]]] = YearOf[ask[q].paper]
    BY DEF AuthenticIsWhatWasIssued
  <2>1. AnswerStages(q) /\ RowStages
    BY DEF VIInv, StoreStages
  <2>2. dto[hit[q]] \in Content /\ seen[q] \in Content /\ Hash[seen[q]] = Hash[dto[hit[q]]]
    BY <2>1 DEF AnswerStages, RowStages
  <2>3. seen[q] = dto[hit[q]]
    BY <2>2, HashTellsApart DEF HashTellsApart
  <2> QED
    BY <2>1, <2>3 DEF AnswerStages, SamePaper
<1> QED
  BY ReadersInductive, <1>1, PTL

(* Nothing revoked is called AUTHENTIC by a call that reads its row later. *)
THEOREM RevokedIsNotAuthentic == VSpec => []NoAuthenticAfterRevocation
<1>1. VIInv => NoAuthenticAfterRevocation
  BY DEF VIInv, AnswerStages, NoAuthenticAfterRevocation
<1> QED
  BY ReadersInductive, <1>1, PTL

(* What is genuine is recognised by its token and its id, and by its data  *)
(* unless another row, not as it was issued, shows the same.               *)
THEOREM GenuineIsFound == VSpec => []GenuineIsRecognised
<1>1. VIInv => GenuineIsRecognised
  BY DEF VIInv, AnswerStages, GenuineIsRecognised
<1> QED
  BY ReadersInductive, <1>1, PTL

(* TAMPERED is only said of data that is not what was issued, REVOKED of a *)
(* certificate that is revoked, and no row is returned off the ledger.     *)
THEOREM NoAnswerIsMadeUp == VSpec => []AnswersAreGrounded
<1>1. VIInv => AnswersAreGrounded
  BY DEF VIInv, AnswerStages, AnswersAreGrounded
<1> QED
  BY ReadersInductive, <1>1, PTL

-----------------------------------------------------------------------------
(* The service with its readers, and with somebody who edits the table. *)

(* No reader has any effect on either store: a step is one of the writing  *)
(* side, or an edit of the table, or changes neither.                      *)
WritesOrEdits == Next \/ \E i \in Ids, c \in Content : Tamper(i, c)

(* verifyById(), verifyWithData() and getById() only read: whatever holds  *)
(* of the steps of Certificates holds of the service with its readers.     *)
THEOREM ReadersOnlyRead == VSpec => Init /\ [][WritesOrEdits]_vars
<1>1. [VNext]_allVars => [WritesOrEdits]_vars
  <2> SUFFICES ASSUME [VNext]_allVars PROVE [WritesOrEdits]_vars
    OBVIOUS
  <2>1. CASE Writes \/ CrashAll
    BY <2>1, WritesAreNext DEF CrashAll, WritesOrEdits
  <2> QED
    BY <2>1 DEF VNext, Reading, Find, FindNothing, Evaluate, GetOnChain, ReadErrs,
                WritesOrEdits, allVars
<1> QED
  BY <1>1, PTL DEF VSpec, VInit

(* If nobody edits the table, the service with its readers is a behaviour  *)
(* of Certificates, and every theorem about that holds here.               *)
THEOREM WithoutEditsCertificates ==
  ASSUME ~MayTamper
  PROVE  VSpec => Spec
<1>1. WritesOrEdits => Next
  BY DEF WritesOrEdits, Tamper
<1>2. [WritesOrEdits]_vars => [Next]_vars
  BY <1>1
<1> QED
  BY ReadersOnlyRead, <1>2, PTL DEF Spec

(* The service looks like one register to its clients even if somebody     *)
(* edits the data in the rows all the time: what the register is made of   *)
(* are the ledger, the statuses and the answers.                           *)
THEOREM EditsKeepTheRegister == VSpec => ImplementsRegister
<1>1. StoreStages /\ [WritesOrEdits]_vars
        => [Register!Next]_<<Truth, Shown, Promised, Withdrawn>>
  <2> SUFFICES ASSUME StoreStages, [WritesOrEdits]_vars
               PROVE  [Register!Next]_registerVars
    BY DEF registerVars
  <2>1. CASE [Next]_vars
    BY <2>1, StepRegister
  <2>2. ASSUME NEW i \in Ids, NEW c \in Content, Tamper(i, c) PROVE UNCHANGED registerVars
    BY <2>2, RegisterUnchanged DEF Tamper, StoreStages, chainVars, revokeVars
  <2> QED
    BY <2>1, <2>2 DEF WritesOrEdits
<1>2. VIInv => StoreStages
  BY DEF VIInv
<1> QED
  BY InitRegister, ReadersInductive, ReadersOnlyRead, <1>1, <1>2, PTL
     DEF ImplementsRegister, Register!Spec, Register!vars

=============================================================================
