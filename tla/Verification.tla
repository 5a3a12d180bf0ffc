----------------------------- MODULE Verification -----------------------------
(***************************************************************************)
(* The reading side of CertificatesService, verifyById(), verifyWithData() *)
(* and getById(), beside the writing side of module Certificates.  Each    *)
(* reads a row from PostgreSQL and then asks the ledger, and rows and      *)
(* ledger move between the two awaits.  What the ledger is for is that     *)
(* somebody edits the table behind the service's back: Tamper.             *)
(***************************************************************************)
EXTENDS Certificates

CONSTANTS
    Queries,      \* reading calls
    YearOf,       \* passingYear of each content
    NoId,         \* what a call without a row works on
    MayTamper     \* whether rows are edited outside the service

ASSUME YearAssumption == DOMAIN YearOf = Content
ASSUME NoIdAssumption == NoId \notin Ids
ASSUME MayTamperAssumption == MayTamper \in BOOLEAN

VARIABLES
    ask,      \* what each call is asked
    reply,    \* where it is, or what it answered
    hit,      \* record.id of the row it read
    seen,     \* the data of that row when it was read
    then      \* history: what was settled by then about what it asks for

readVars == <<ask, reply, hit, seen, then>>
allVars == <<vars, readVars>>

(* verifyById(token), getById(id), and verifyWithData() for a paper that   *)
(* shows some certificate data.  The empty token matches no route.         *)
Asks ==
    [by : {"token"}, token : Ids \cup Supplied]
        \cup [by : {"id"}, id : Ids]
        \cup [by : {"paper"}, paper : Content]

Outcomes == Verdicts \cup {"row", "notFound", "error"}
Moments == [genuine : BOOLEAN, alone : BOOLEAN, revoked : BOOLEAN]
NoMoment == [genuine |-> FALSE, alone |-> FALSE, revoked |-> FALSE]

ReadTypeOK ==
    /\ ask \in [Queries -> Asks]
    /\ reply \in [Queries -> {"idle", "found"} \cup Outcomes]
    /\ hit \in [Queries -> Ids \cup {NoId}]
    /\ seen \in [Queries -> Content \cup {NoContent}]
    /\ then \in [Queries -> Moments]

VInit ==
    /\ Init
    /\ ask \in [Queries -> Asks]
    /\ reply = [q \in Queries |-> "idle"]
    /\ hit = [q \in Queries |-> NoId]
    /\ seen = [q \in Queries |-> NoContent]
    /\ then = [q \in Queries |-> NoMoment]

-----------------------------------------------------------------------------

(* What the manual entry asks for: roll, registration number and year. *)
SamePaper(c, d) == KeyOf[c] = KeyOf[d] /\ YearOf[c] = YearOf[d]

Matches(i, a) ==
    /\ HasRow(i)
    /\ CASE a.by = "token" -> qr[i] = a.token
         [] a.by = "id" -> i = a.id
         [] a.by = "paper" -> SamePaper(content[i], a.paper)

Reply(q, r) == reply' = [reply EXCEPT ![q] = r]

(* issue() has answered for certificate i, and its row is as it was issued. *)
Genuine(i) == pc[i] = "created" /\ content[i] = dto[i]

(* The certificate that was asked for, as its holder knows it. *)
Named(i, a) ==
    CASE a.by = "token" -> i = a.token
      [] a.by = "id" -> i = a.id
      [] a.by = "paper" -> dto[i] \in Content /\ SamePaper(dto[i], a.paper)

(* What was asked for is genuine, and no other row shows the same. *)
GenuineIsNamed(a) == \E i \in Ids : Named(i, a) /\ Genuine(i)
OnlyGenuineMatch(a) == \A i \in Ids : Matches(i, a) => Genuine(i)

(* findOne() returns any one of the rows that match. *)
Find(q, i) ==
    /\ reply[q] = "idle"
    /\ Matches(i, ask[q])
    /\ hit' = [hit EXCEPT ![q] = i]
    /\ seen' = [seen EXCEPT ![q] = content[i]]
    /\ then' = [then EXCEPT ![q] = [genuine |-> GenuineIsNamed(ask[q]),
                                    alone |-> OnlyGenuineMatch(ask[q]),
                                    revoked |-> ledger[i] = "REVOKED"]]
    /\ Reply(q, "found")
    /\ UNCHANGED <<vars, ask>>

(* Defect: a missing row is not told from a row. *)
DefectNoRowCheck(q) ==
    /\ reply[q] = "idle"
    /\ \A i \in Ids : ~Matches(i, ask[q])
    /\ Reply(q, "undefined")
    /\ UNCHANGED <<vars, ask, hit, seen, then>>

FindNothing(q) ==
    /\ reply[q] = "idle"
    /\ \A i \in Ids : ~Matches(i, ask[q])
    /\ then' = [then EXCEPT ![q].genuine = GenuineIsNamed(ask[q])]
    /\ Reply(q, "notFound")
    /\ UNCHANGED <<vars, ask, hit, seen>>

(* Defect: the row's own status is taken for the ledger's. *)
DefectTrustStatus(q) ==
    /\ reply[q] = "found"
    /\ ask[q].by # "id"
    /\ Reply(q, IF status[hit[q]] = "revoked" THEN "REVOKED" ELSE "AUTHENTIC")
    /\ UNCHANGED <<vars, ask, hit, seen, then>>

(* Defect: the hash computed at issue is sent in place of the row's. *)
DefectStoredHash(q) ==
    /\ reply[q] = "found"
    /\ ask[q].by # "id"
    /\ \E r \in VerifyCertificate(hit[q], Hash[dto[hit[q]]]) : Reply(q, r)
    /\ UNCHANGED <<vars, ask, hit, seen, then>>

(* evaluateVerify(): the hash is that of the row as it was read, for the   *)
(* manual entry too; the data on the paper only chose the row.             *)
Evaluate(q) ==
    /\ reply[q] = "found"
    /\ ask[q].by # "id"
    /\ \E r \in VerifyCertificate(hit[q], Hash[seen[q]]) : Reply(q, r)
    /\ UNCHANGED <<vars, ask, hit, seen, then>>

(* Defect: the ledger is not asked, or its answer is not looked at. *)
DefectRowAlone(q) ==
    /\ reply[q] = "found"
    /\ ask[q].by = "id"
    /\ Reply(q, "row")
    /\ UNCHANGED <<vars, ask, hit, seen, then>>

(* getById(): the row read before is returned if the ledger has its id. *)
GetOnChain(q) ==
    /\ reply[q] = "found"
    /\ ask[q].by = "id"
    /\ Reply(q, IF ledger[hit[q]] = "absent" THEN "notFound" ELSE "row")
    /\ UNCHANGED <<vars, ask, hit, seen, then>>

(* A query fails, the evaluation passes its deadline, or the process dies. *)
ReadErrs(q) ==
    /\ MayFail
    /\ reply[q] \in {"idle", "found"}
    /\ Reply(q, "error")
    /\ UNCHANGED <<vars, ask, hit, seen, then>>

(* The data columns of a row are edited by somebody else. *)
Tamper(i, c) ==
    /\ MayTamper
    /\ HasRow(i)
    /\ content' = [content EXCEPT ![i] = c]
    /\ UNCHANGED <<chainVars, status, qr, dto, pc, revokeVars, readVars>>

Writes == (\E i \in Ids : Start(i) \/ Proceed(i)) \/ (\E v \in Revokes : Revoking(v)) \/ Channel

CrashAll ==
    /\ Crash
    /\ reply' = [q \in Queries |-> IF reply[q] = "found" THEN "error" ELSE reply[q]]
    /\ UNCHANGED <<ask, hit, seen, then>>

Reading(q) ==
    \/ \E i \in Ids : Find(q, i)
    \/ FindNothing(q) \/ Evaluate(q) \/ GetOnChain(q) \/ ReadErrs(q)

VNext ==
    \/ Writes /\ UNCHANGED readVars
    \/ CrashAll
    \/ \E q \in Queries : Reading(q)
    \/ \E i \in Ids, c \in Content : Tamper(i, c)

VSpec == VInit /\ [][VNext]_allVars

-----------------------------------------------------------------------------
(* With a hash that tells the contents apart, AUTHENTIC is only said of    *)
(* data as it was issued, however the table was edited before or after it  *)
(* was read; and the certificate found for a paper was issued for the roll *)
(* and registration number and the year on the paper.                      *)
AuthenticIsWhatWasIssued ==
    \A q \in Queries :
        reply[q] = "AUTHENTIC" =>
            /\ seen[q] = dto[hit[q]]
            /\ ask[q].by = "paper" =>
                  /\ KeyOf[dto[hit[q]]] = KeyOf[ask[q].paper]
                  /\ YearOf[dto[hit[q]]] = YearOf[ask[q].paper]

(* Once the ledger holds a revocation, no call that reads the row after    *)
(* that says AUTHENTIC, even while the table still says issued.            *)
NoAuthenticAfterRevocation ==
    \A q \in Queries : reply[q] = "AUTHENTIC" => ~then[q].revoked

(* Whoever asks for a certificate that issue() has answered for, and whose *)
(* row nobody had edited by then, by its token or its id, is told          *)
(* AUTHENTIC or REVOKED or gets its row, unless a store fails.  By the     *)
(* data on the paper it is never unknown, but findOne() may return another *)
(* row that shows the same, a draft, a failed issue or one that was        *)
(* edited, and the answer is about that row; if there was none when the    *)
(* table was read, the paper is called neither tampered nor invalid.       *)
Certain(q) == then[q].genuine /\ (ask[q].by = "paper" => then[q].alone)

GenuineIsRecognised ==
    \A q \in Queries :
        /\ Certain(q) => reply[q] \in {"found", "AUTHENTIC", "REVOKED", "row", "error"}
        /\ then[q].genuine => reply[q] # "notFound"

(* Nor is any other answer about a row made up, whatever was committed or  *)
(* saved between the two awaits: TAMPERED is only said of data that is not *)
(* what was issued, REVOKED of a certificate whose revocation has          *)
(* committed, and getById() returns no row that is missing on the ledger.  *)
Grounded(q) ==
    /\ reply[q] = "TAMPERED" => seen[q] # dto[hit[q]]
    /\ reply[q] = "REVOKED" => ledger[hit[q]] = "REVOKED"
    /\ reply[q] \in {"TAMPERED", "row"} => ledger[hit[q]] # "absent"

AnswersAreGrounded == \A q \in Queries : Grounded(q)

-----------------------------------------------------------------------------
(* The inductive invariant behind them, beside StoreStages. *)

(* A call that has read a row works on one that is still there, and what   *)
(* was settled by then still is.                                           *)
FoundStages(q) ==
    reply[q] = "found" =>
        /\ hit[q] \in Ids /\ HasRow(hit[q]) /\ seen[q] \in Content
        /\ ask[q].by = "paper" => SamePaper(seen[q], ask[q].paper)
        /\ Certain(q) => pc[hit[q]] = "created" /\ seen[q] = dto[hit[q]]
        /\ then[q].revoked => ledger[hit[q]] = "REVOKED"

AnswerStages(q) ==
    /\ reply[q] = "idle" => then[q] = NoMoment
    /\ Certain(q) => reply[q] \in {"found", "AUTHENTIC", "REVOKED", "row", "error"}
    /\ then[q].genuine => reply[q] # "notFound"
    /\ reply[q] = "AUTHENTIC" =>
          /\ hit[q] \in Ids /\ HasRow(hit[q]) /\ seen[q] \in Content
          /\ Hash[seen[q]] = Hash[dto[hit[q]]]
          /\ ask[q].by = "paper" => SamePaper(seen[q], ask[q].paper)
          /\ ~then[q].revoked
    /\ reply[q] \in {"TAMPERED", "REVOKED", "row"} => hit[q] \in Ids /\ HasRow(hit[q])
    /\ Grounded(q)

VIInv ==
    /\ StoreStages
    /\ ReadTypeOK
    /\ \A q \in Queries : FoundStages(q) /\ AnswerStages(q)

=============================================================================
