---------------------------- MODULE LegacyProofs ----------------------------
(***************************************************************************)
(* Proofs about the earlier asset API, for any number of users, assets and *)
(* calls: the wallets and the assets have a part of IInv each.             *)
(***************************************************************************)
EXTENDS LegacyAssets, TLAPS

(* The initial states satisfy the inductive invariant. *)
LEMMA InitIInv == Init => IInv
<1> SUFFICES ASSUME Init PROVE IInv
  OBVIOUS
<1>1. StartTypeOK /\ StartStages /\ RequestStages
  BY DEF Init, StartInit, StartTypeOK, StartStages, WalletInit, RequestStages, Required,
     Enrolling, Waiting, Calls
<1>2. TypeOK
  <2>1. WalletTypeOK
    BY DEF Init, WalletInit, WalletTypeOK, Writers
  <2> QED
    BY <1>1, <2>1 DEF Init, TypeOK
<1>3. WalletStages
  BY SecretAssumption DEF Init, WalletInit, WalletStages
<1>4. AssetStages
  BY DEF Init, AssetStages, Committed, Calls
<1>5. SendStages
  BY DEF Init, SendStages, Calls
<1> QED
  BY <1>1, <1>2, <1>3, <1>4, <1>5 DEF IInv

DiskTypes ==
    /\ dirs \in [Names -> 0..2]
    /\ cert \in [Names -> Writers]
    /\ key \in [Names -> Writers]

(* Writing files keeps the types of the disk. *)
LEMMA WriteFilesTypes ==
  ASSUME TypeOK, NEW r \in Registrations, NEW k \in 0..4, WriteFiles(r, k)
  PROVE  DiskTypes'
<1> DEFINE n == forName[r]
           made == IF k < 2 THEN k ELSE 2
<1>1. n \in Names /\ made \in 0..2 /\ dirs[n] \in 0..2
  BY DEF TypeOK, WalletTypeOK
<1>2. (IF made > dirs[n] THEN made ELSE dirs[n]) \in 0..2
  BY <1>1
<1>3. dirs' = [dirs EXCEPT ![n] = IF made > dirs[n] THEN made ELSE dirs[n]]
  BY DEF WriteFiles
<1>4. dirs' \in [Names -> 0..2]
  BY <1>2, <1>3 DEF TypeOK, WalletTypeOK
<1> QED
  BY <1>4 DEF WriteFiles, DiskTypes, TypeOK, WalletTypeOK, Writers

(* Every step keeps the types. *)
LEMMA NextTypeOK == IInv /\ [Next]_vars => TypeOK'
<1> SUFFICES ASSUME TypeOK, [Next]_vars PROVE TypeOK'
  BY DEF IInv
<1>0. \A r \in Registrations, k \in 0..4 : WriteFiles(r, k) => DiskTypes'
  BY WriteFilesTypes
<1> USE DEF TypeOK, WalletTypeOK, Writers, Enrolling, Registered, Waiting, Answered,
      Orders, StartTypeOK, startVars, walletVars, assetVars, diskVars, WalletGoto, Goto, AssetOf
<1>1. ASSUME NEW r \in Registrations, CheckLocal(r), UNCHANGED assetVars PROVE TypeOK'
  BY <1>1 DEF CheckLocal
<1>2. ASSUME NEW r \in Registrations, Register(r), UNCHANGED assetVars PROVE TypeOK'
  BY <1>2 DEF Register, Take
<1>3. ASSUME NEW r \in Registrations, RegisterErrs(r), UNCHANGED assetVars PROVE TypeOK'
  BY <1>3 DEF RegisterErrs, Take
<1>4. ASSUME NEW r \in Registrations, Enroll(r), UNCHANGED assetVars PROVE TypeOK'
  <2>1. WriteFiles(r, 4) /\ 4 \in 0..4
    BY <1>4 DEF Enroll
  <2>2. DiskTypes'
    BY <1>0, <2>1
  <2> QED
    BY <1>4, <2>2 DEF Enroll, DiskTypes
<1>5. ASSUME NEW r \in Registrations, EnrollErrs(r), UNCHANGED assetVars PROVE TypeOK'
  <2>1. CASE UNCHANGED diskVars
    BY <1>5, <2>1 DEF EnrollErrs
  <2>2. ASSUME NEW k \in 0..3, WriteFiles(r, k) PROVE TypeOK'
    <3>1. DiskTypes'
      BY <1>0, <2>2
    <3> QED
      BY <1>5, <3>1 DEF EnrollErrs, DiskTypes
  <2> QED
    BY <1>5, <2>1, <2>2 DEF EnrollErrs
<1>6. ASSUME NEW c \in Calls, Endorse(c) PROVE TypeOK'
  BY <1>6 DEF Endorse
<1>7. ASSUME NEW c \in Calls, Refuse(c) PROVE TypeOK'
  BY <1>7 DEF Refuse
<1>8. ASSUME NEW c \in Calls, Submit(c) PROVE TypeOK'
  BY <1>8 DEF Submit
<1>9. ASSUME NEW c \in Calls, SubmitErrs(c) PROVE TypeOK'
  BY <1>9 DEF SubmitErrs
<1>10. ASSUME NEW c \in Edits, AnswerEdit(c) PROVE TypeOK'
  BY <1>10 DEF AnswerEdit
<1>11. ASSUME NEW c \in Calls, Commit(c) PROVE TypeOK'
  BY <1>11 DEF Commit, NewOwner
<1>12. ASSUME NEW c \in Calls, Invalidate(c) PROVE TypeOK'
  BY <1>12 DEF Invalidate
<1>13. CASE Crash
  <2>1. CASE UNCHANGED diskVars
    BY <1>13, <2>1 DEF Crash, End, WalletCrash
  <2>2. ASSUME NEW r \in Registrations, NEW k \in 1..4, WriteFiles(r, k) PROVE TypeOK'
    <3>1. k \in 0..4
      BY <2>2
    <3>2. DiskTypes'
      BY <1>0, <2>2, <3>1
    <3> QED
      BY <1>13, <3>2 DEF Crash, End, WalletCrash, DiskTypes
  <2> QED
    BY <1>13, <2>1, <2>2 DEF Crash, WalletCrash
<1>14. CASE UNCHANGED vars
  BY <1>14 DEF vars
<1>15. ASSUME Starting, UNCHANGED <<walletVars, assetVars>> PROVE TypeOK'
  BY <1>15 DEF Starting, HookReturns, HookErrs, Listen, Restart, End
<1>16. ASSUME NEW n \in Elsewhere, RegisterElsewhere(n), UNCHANGED assetVars PROVE TypeOK'
  BY <1>16, ElsewhereAssumption DEF RegisterElsewhere
<1> QED
  BY <1>1, <1>2, <1>3, <1>4, <1>5, <1>6, <1>7, <1>8, <1>9,
     <1>10, <1>11, <1>12, <1>13, <1>14, <1>15, <1>16
     DEF Next, Registering, Editing, Transferring, Calls

(* Only the start and the end of the process touch its hooks. *)
LEMMA NextKeepsStart == [Next]_vars => Starting \/ Crash \/ UNCHANGED startVars
<1> SUFFICES ASSUME [Next]_vars, ~Starting, ~Crash PROVE UNCHANGED startVars
  OBVIOUS
<1> USE DEF startVars
<1>1. ASSUME NEW r \in Registrations, Registering(r) PROVE UNCHANGED startVars
  BY <1>1 DEF Registering, CheckLocal, Register, RegisterErrs, Enroll, EnrollErrs
<1>2. ASSUME NEW c \in Calls,
             \/ Endorse(c) \/ Refuse(c) \/ Submit(c) \/ SubmitErrs(c)
             \/ AnswerEdit(c) \/ Commit(c) \/ Invalidate(c)
      PROVE  UNCHANGED startVars
  BY <1>2 DEF Endorse, Refuse, Submit, SubmitErrs, AnswerEdit, Commit, Invalidate
<1>3. ASSUME NEW n \in Elsewhere, RegisterElsewhere(n) PROVE UNCHANGED startVars
  BY <1>3 DEF RegisterElsewhere
<1>4. CASE UNCHANGED vars
  BY <1>4 DEF vars
<1> QED
  BY <1>1, <1>2, <1>3, <1>4 DEF Next, Editing, Transferring, Calls

(* Every step of the start, and the end of the process, keeps the hooks in line. *)
LEMMA NextStartStages == IInv /\ [Next]_vars => StartStages'
<1> SUFFICES ASSUME StartTypeOK, StartStages, [Next]_vars PROVE StartStages'
  BY DEF IInv, TypeOK
<1> USE DEF StartTypeOK, StartStages, Required, startVars
<1>1. CASE Starting
  BY <1>1 DEF Starting, HookReturns, HookErrs, Listen, Restart, End
<1>2. CASE Crash
  BY <1>2 DEF Crash, End
<1>3. CASE UNCHANGED startVars
  BY <1>3
<1> QED
  BY <1>1, <1>2, <1>3, NextKeepsStart

(* Every step keeps a wallet in the hands of the call that registered its name. *)
LEMMA NextWalletStages == IInv /\ [Next]_vars => WalletStages'
<1> SUFFICES ASSUME TypeOK, WalletStages, [Next]_vars PROVE WalletStages'
  BY DEF IInv
<1> USE NoOneAssumption, SecretAssumption DEF TypeOK, WalletTypeOK, WalletStages, Enrolling,
      Writers, startVars, walletVars, assetVars, diskVars, WalletGoto, Goto, AssetOf
<1>1. ASSUME NEW r \in Registrations, CheckLocal(r), UNCHANGED assetVars PROVE WalletStages'
  BY <1>1 DEF CheckLocal
<1>2. ASSUME NEW r \in Registrations, Register(r), UNCHANGED assetVars PROVE WalletStages'
  BY <1>2 DEF Register, Take
<1>3. ASSUME NEW r \in Registrations, RegisterErrs(r), UNCHANGED assetVars PROVE WalletStages'
  BY <1>3 DEF RegisterErrs, Take
<1>4. ASSUME NEW r \in Registrations, Enroll(r), UNCHANGED assetVars PROVE WalletStages'
  BY <1>4 DEF Enroll, WriteFiles, CanEnroll
<1>5. ASSUME NEW r \in Registrations, EnrollErrs(r), UNCHANGED assetVars PROVE WalletStages'
  BY <1>5 DEF EnrollErrs, WriteFiles, CanEnroll
<1>6. ASSUME NEW c \in Calls, Endorse(c) PROVE WalletStages'
  BY <1>6 DEF Endorse
<1>7. ASSUME NEW c \in Calls, Refuse(c) PROVE WalletStages'
  BY <1>7 DEF Refuse
<1>8. ASSUME NEW c \in Calls, Submit(c) PROVE WalletStages'
  BY <1>8 DEF Submit
<1>9. ASSUME NEW c \in Calls, SubmitErrs(c) PROVE WalletStages'
  BY <1>9 DEF SubmitErrs
<1>10. ASSUME NEW c \in Edits, AnswerEdit(c) PROVE WalletStages'
  BY <1>10 DEF AnswerEdit
<1>11. ASSUME NEW c \in Calls, Commit(c) PROVE WalletStages'
  BY <1>11 DEF Commit, NewOwner
<1>12. ASSUME NEW c \in Calls, Invalidate(c) PROVE WalletStages'
  BY <1>12 DEF Invalidate
<1>13. CASE Crash
  BY <1>13 DEF Crash, WalletCrash, WriteFiles, CanEnroll
<1>14. CASE UNCHANGED vars
  BY <1>14 DEF vars
<1>15. ASSUME Starting, UNCHANGED <<walletVars, assetVars>> PROVE WalletStages'
  BY <1>15 DEF Starting
<1>16. ASSUME NEW n \in Elsewhere, RegisterElsewhere(n), UNCHANGED assetVars PROVE WalletStages'
  BY <1>16, ElsewhereAssumption DEF RegisterElsewhere
<1> QED
  BY <1>1, <1>2, <1>3, <1>4, <1>5, <1>6, <1>7, <1>8, <1>9,
     <1>10, <1>11, <1>12, <1>13, <1>14, <1>15, <1>16
     DEF Next, Registering, Editing, Transferring, Calls

(* No request outlives its process. *)
LEMMA NextRequestStages == IInv /\ [Next]_vars => RequestStages'
<1> SUFFICES ASSUME TypeOK, RequestStages, [Next]_vars PROVE RequestStages'
  BY DEF IInv
<1> USE DEF TypeOK, WalletTypeOK, RequestStages, Enrolling, Waiting, Answered, Registered, Calls,
      startVars, walletVars, assetVars, WalletGoto, Goto
<1>1. ASSUME NEW r \in Registrations, Registering(r), UNCHANGED assetVars PROVE RequestStages'
  BY <1>1 DEF Registering, CheckLocal, Register, RegisterErrs, Enroll, EnrollErrs
<1>2. ASSUME NEW c \in Calls, Endorse(c) \/ Refuse(c) \/ Submit(c) \/ SubmitErrs(c)
      PROVE  RequestStages'
  BY <1>2 DEF Endorse, Refuse, Submit, SubmitErrs
<1>3. ASSUME NEW c \in Edits, AnswerEdit(c) PROVE RequestStages'
  BY <1>3 DEF AnswerEdit
<1>4. ASSUME NEW c \in Calls, Commit(c) \/ Invalidate(c) PROVE RequestStages'
  BY <1>4 DEF Commit, Invalidate
<1>5. CASE Crash
  BY <1>5 DEF Crash, WalletCrash
<1>6. ASSUME Starting, UNCHANGED <<walletVars, assetVars>> PROVE RequestStages'
  BY <1>6 DEF Starting, HookReturns, HookErrs, Listen, Restart, End
<1>7. ASSUME NEW n \in Elsewhere, RegisterElsewhere(n), UNCHANGED assetVars PROVE RequestStages'
  BY <1>7 DEF RegisterElsewhere
<1>8. CASE UNCHANGED vars
  BY <1>8 DEF vars
<1> QED
  BY <1>1, <1>2, <1>3, <1>4, <1>5, <1>6, <1>7, <1>8 DEF Next, Editing, Transferring

(* Every step keeps the transactions that are not stale in line with their assets. *)
LEMMA NextAssetStages == IInv /\ [Next]_vars => AssetStages'
<1> SUFFICES ASSUME TypeOK, AssetStages, [Next]_vars PROVE AssetStages'
  BY DEF IInv
<1> USE AbsentAssumption, EditsAssumption DEF TypeOK, AssetStages, Orders, Calls, Accepts,
      Committed, Deleted, Waiting, startVars, walletVars, assetVars, diskVars, WalletGoto, Goto, AssetOf
<1>1. ASSUME NEW r \in Registrations, CheckLocal(r), UNCHANGED assetVars PROVE AssetStages'
  BY <1>1 DEF CheckLocal
<1>2. ASSUME NEW r \in Registrations, Register(r), UNCHANGED assetVars PROVE AssetStages'
  BY <1>2 DEF Register, Take
<1>3. ASSUME NEW r \in Registrations, RegisterErrs(r), UNCHANGED assetVars PROVE AssetStages'
  BY <1>3 DEF RegisterErrs, Take
<1>4. ASSUME NEW r \in Registrations, Enroll(r), UNCHANGED assetVars PROVE AssetStages'
  BY <1>4 DEF Enroll, WriteFiles, CanEnroll
<1>5. ASSUME NEW r \in Registrations, EnrollErrs(r), UNCHANGED assetVars PROVE AssetStages'
  BY <1>5 DEF EnrollErrs, WriteFiles, CanEnroll
<1>6. ASSUME NEW c \in Calls, Endorse(c) PROVE AssetStages'
  <2>1. \A d \in Calls \ {c} : tx'[d] = tx[d] /\ apc'[d] = apc[d]
    BY <1>6 DEF Endorse
  <2>2. tx'[c] = "endorsed" /\ apc'[c] = "endorsed" /\ tx[c] = "none"
    BY <1>6 DEF Endorse
  <2> QED
    BY <1>6, <2>1, <2>2 DEF Endorse
<1>7. ASSUME NEW c \in Calls, Refuse(c) PROVE AssetStages'
  BY <1>7 DEF Refuse
<1>8. ASSUME NEW c \in Calls, Submit(c) PROVE AssetStages'
  BY <1>8 DEF Submit
<1>9. ASSUME NEW c \in Calls, SubmitErrs(c) PROVE AssetStages'
  BY <1>9 DEF SubmitErrs
<1>10. ASSUME NEW c \in Edits, AnswerEdit(c) PROVE AssetStages'
  BY <1>10 DEF AnswerEdit
<1>11. ASSUME NEW c \in Calls, Commit(c) PROVE AssetStages'
  <2> DEFINE x == AssetOf(c)
  <2>1. /\ x \in Assets
        /\ order[c].op = "DeleteAsset" => c \in Edits
        /\ NewOwner(c) = Absent => order[c].op = "DeleteAsset"
    <3>1. CASE c \in Transfers
      <4>1. order[c] \in [op : {"TransferAsset"}, asset : Assets, from : Names, to : Names]
        BY <3>1
      <4> QED
        BY <3>1, <4>1 DEF NewOwner
    <3>2. CASE c \notin Transfers
      <4>1. order[c] \in [op : {"CreateAsset", "UpdateAsset", "DeleteAsset"},
                          asset : Assets, to : Names]
        BY <3>2
      <4> QED
        BY <3>2, <4>1 DEF NewOwner
    <3> QED
      BY <3>1, <3>2
  <2>2. /\ tx[c] = "ordered" /\ Accepts(c)
        /\ tx'[c] = "committed" /\ \A d \in Calls \ {c} : tx'[d] = tx[d]
        /\ owner'[x] = NewOwner(c) /\ \A a \in Assets \ {x} : owner'[a] = owner[a]
        /\ order' = order /\ apc' = apc
    BY <1>11, <2>1 DEF Commit
  <2>3. \A d \in Calls :
          tx'[d] \in {"endorsed", "ordered"} /\ d \notin stale' => AssetOf(d) # x /\ d \notin stale
    BY <1>11, <2>2 DEF Commit
  <2>4. \A a \in Assets : Deleted(a) => Deleted(a)'
    BY <2>2
  <2>5. order[c].op = "DeleteAsset" => Deleted(x)'
    BY <2>1, <2>2
  <2>6. \A d \in Calls :
          /\ apc'[d] = "idle" => tx'[d] = "none"
          /\ apc'[d] = "endorsed" => tx'[d] = "endorsed"
          /\ tx'[d] \in {"endorsed", "ordered"} /\ d \notin stale' => Accepts(d)'
    <3>1. \A d \in Calls : AssetOf(d) \in Assets
      OBVIOUS
    <3>2. \A d \in Calls : AssetOf(d) # x => (Accepts(d) <=> Accepts(d)')
      BY <2>2, <3>1
    <3> QED
      BY <1>11, <2>2, <2>3, <3>2 DEF Commit
  <2>7. \A d \in Edits : apc'[d] = "ok" => tx'[d] = "committed"
    BY <2>2
  <2>8. ASSUME NEW d \in Edits, NEW a \in Assets,
               Committed(d, "CreateAsset", a)', ~Deleted(a)'
        PROVE  owner'[a] # Absent
    <3>1. CASE a = x
      BY <2>1, <2>2, <2>5, <2>8, <3>1
    <3>2. CASE a # x
      BY <2>2, <2>4, <2>8, <3>2
    <3> QED
      BY <3>1, <3>2
  <2>9. ASSUME NEW d \in Edits, NEW e \in Edits, NEW a \in Assets, d # e,
               Committed(d, "CreateAsset", a)', Committed(e, "CreateAsset", a)'
        PROVE  Deleted(a)'
    <3>1. CASE c \notin {d, e}
      BY <2>2, <2>4, <2>9, <3>1
    <3>2. CASE c \in {d, e}
      <4>1. a = x /\ order[c].op = "CreateAsset" /\ owner[x] = Absent
        BY <2>2, <2>9, <3>2
      <4>2. \E f \in Edits : f # c /\ Committed(f, "CreateAsset", x)
        BY <2>2, <2>9, <3>2, <4>1
      <4>3. Deleted(x)
        BY <2>1, <4>1, <4>2
      <4> QED
        BY <2>1, <2>4, <4>1, <4>3
    <3> QED
      BY <3>1, <3>2
  <2> QED
    BY <2>6, <2>7, <2>8, <2>9
<1>12. ASSUME NEW c \in Calls, Invalidate(c) PROVE AssetStages'
  BY <1>12 DEF Invalidate
<1>13. CASE Crash
  BY <1>13 DEF Crash, WalletCrash, WriteFiles, CanEnroll
<1>14. CASE UNCHANGED vars
  BY <1>14 DEF vars
<1>15. ASSUME Starting, UNCHANGED <<walletVars, assetVars>> PROVE AssetStages'
  BY <1>15 DEF Starting
<1>16. ASSUME NEW n \in Elsewhere, RegisterElsewhere(n), UNCHANGED assetVars PROVE AssetStages'
  BY <1>16 DEF RegisterElsewhere
<1> QED
  BY <1>1, <1>2, <1>3, <1>4, <1>5, <1>6, <1>7, <1>8, <1>9,
     <1>10, <1>11, <1>12, <1>13, <1>14, <1>15, <1>16
     DEF Next, Registering, Editing, Transferring, Calls

(* No step takes a private key away. *)
LEMMA NextKeysStay ==
  ASSUME TypeOK, [Next]_vars, NEW n \in Names, key[n] # NoOne
  PROVE  key'[n] # NoOne
<1> USE NoOneAssumption DEF TypeOK, WalletTypeOK
<1>1. ASSUME NEW r \in Registrations, NEW k \in 0..4, WriteFiles(r, k) PROVE key'[n] # NoOne
  BY <1>1 DEF WriteFiles
<1>2. ASSUME NEW r \in Registrations, Registering(r) PROVE key'[n] # NoOne
  BY <1>1, <1>2 DEF Registering, CheckLocal, Register, RegisterErrs, Enroll, EnrollErrs, diskVars
<1>3. CASE Crash
  BY <1>1, <1>3 DEF Crash, WalletCrash, diskVars
<1>4. CASE UNCHANGED walletVars
  BY <1>4 DEF walletVars, diskVars
<1>5. ASSUME NEW m \in Elsewhere, RegisterElsewhere(m) PROVE key'[n] # NoOne
  BY <1>5 DEF RegisterElsewhere, diskVars
<1> QED
  BY <1>2, <1>3, <1>4, <1>5
     DEF Next, Editing, Transferring, Endorse, Refuse, Submit, SubmitErrs, AnswerEdit,
         Commit, Invalidate, vars

(* Every step keeps a transfer in the hands of a wallet's owner. *)
LEMMA NextSendStages == IInv /\ [Next]_vars => SendStages'
<1> SUFFICES ASSUME TypeOK, AssetStages, SendStages, [Next]_vars PROVE SendStages'
  BY DEF IInv
<1>0. \A n \in Names : key[n] # NoOne => key'[n] # NoOne
  BY NextKeysStay
<1>a. \A c \in Transfers : order[c].from \in Names
  BY DEF TypeOK, Calls, Orders
<1> USE <1>0, <1>a DEF TypeOK, SendStages, Calls, startVars, walletVars, assetVars, Goto
<1>1. ASSUME UNCHANGED assetVars PROVE SendStages'
  BY <1>1
<1>2. ASSUME NEW c \in Calls, Endorse(c) PROVE SendStages'
  BY <1>2 DEF Endorse, CanSend, Usable
<1>3. ASSUME NEW c \in Calls, Refuse(c) PROVE SendStages'
  BY <1>3 DEF Refuse
<1>4. ASSUME NEW c \in Calls, Submit(c) PROVE SendStages'
  BY <1>4 DEF Submit, AssetStages
<1>5. ASSUME NEW c \in Calls, SubmitErrs(c) PROVE SendStages'
  BY <1>5 DEF SubmitErrs, AssetStages
<1>6. ASSUME NEW c \in Edits, AnswerEdit(c) PROVE SendStages'
  BY <1>6 DEF AnswerEdit
<1>7. ASSUME NEW c \in Calls, Commit(c) PROVE SendStages'
  BY <1>7 DEF Commit
<1>8. ASSUME NEW c \in Calls, Invalidate(c) PROVE SendStages'
  BY <1>8 DEF Invalidate
<1>9. CASE Crash
  BY <1>9 DEF Crash
<1> QED
  BY <1>1, <1>2, <1>3, <1>4, <1>5, <1>6, <1>7, <1>8, <1>9
     DEF Next, Editing, Transferring, vars

(* No step completes the wallet of a stranded name. *)
LEMMA NextStrandedKept == IInv /\ [Next]_vars => StrandedKept
<1> SUFFICES ASSUME TypeOK, [Next]_vars PROVE StrandedKept
  BY DEF IInv
<1> USE DEF TypeOK, WalletTypeOK, Enrolling, StrandedKept, Stranded, Usable, GetAllUsers,
      startVars, walletVars, assetVars, diskVars, WalletGoto, Goto, AssetOf
<1>1. ASSUME NEW r \in Registrations, CheckLocal(r), UNCHANGED assetVars PROVE StrandedKept
  BY <1>1 DEF CheckLocal
<1>2. ASSUME NEW r \in Registrations, Register(r), UNCHANGED assetVars PROVE StrandedKept
  BY <1>2 DEF Register, Take
<1>3. ASSUME NEW r \in Registrations, RegisterErrs(r), UNCHANGED assetVars PROVE StrandedKept
  BY <1>3 DEF RegisterErrs, Take
<1>4. ASSUME NEW r \in Registrations, Enroll(r), UNCHANGED assetVars PROVE StrandedKept
  BY <1>4 DEF Enroll, WriteFiles, CanEnroll
<1>5. ASSUME NEW r \in Registrations, EnrollErrs(r), UNCHANGED assetVars PROVE StrandedKept
  BY <1>5 DEF EnrollErrs, WriteFiles, CanEnroll
<1>6. ASSUME NEW c \in Calls, Endorse(c) PROVE StrandedKept
  BY <1>6 DEF Endorse
<1>7. ASSUME NEW c \in Calls, Refuse(c) PROVE StrandedKept
  BY <1>7 DEF Refuse
<1>8. ASSUME NEW c \in Calls, Submit(c) PROVE StrandedKept
  BY <1>8 DEF Submit
<1>9. ASSUME NEW c \in Calls, SubmitErrs(c) PROVE StrandedKept
  BY <1>9 DEF SubmitErrs
<1>10. ASSUME NEW c \in Edits, AnswerEdit(c) PROVE StrandedKept
  BY <1>10 DEF AnswerEdit
<1>11. ASSUME NEW c \in Calls, Commit(c) PROVE StrandedKept
  BY <1>11 DEF Commit, NewOwner
<1>12. ASSUME NEW c \in Calls, Invalidate(c) PROVE StrandedKept
  BY <1>12 DEF Invalidate
<1>13. CASE Crash
  BY <1>13 DEF Crash, WalletCrash, WriteFiles, CanEnroll
<1>14. CASE UNCHANGED vars
  BY <1>14 DEF vars
<1>15. ASSUME Starting, UNCHANGED <<walletVars, assetVars>> PROVE StrandedKept
  BY <1>15 DEF Starting
<1>16. ASSUME NEW n \in Elsewhere, RegisterElsewhere(n), UNCHANGED assetVars PROVE StrandedKept
  BY <1>16, ElsewhereAssumption DEF RegisterElsewhere
<1> QED
  BY <1>1, <1>2, <1>3, <1>4, <1>5, <1>6, <1>7, <1>8, <1>9,
     <1>10, <1>11, <1>12, <1>13, <1>14, <1>15, <1>16
     DEF Next, Registering, Editing, Transferring, Calls

-----------------------------------------------------------------------------

(* The inductive invariant holds in every state. *)
THEOREM Inductive == Spec => []IInv
<1>1. Init => IInv
  BY InitIInv
<1>2. IInv /\ [Next]_vars => IInv'
  BY NextTypeOK, NextStartStages, NextWalletStages, NextRequestStages,
     NextAssetStages, NextSendStages DEF IInv
<1> QED
  BY <1>1, <1>2, PTL DEF Spec

(* The variables keep their types. *)
THEOREM Typing == Spec => []TypeOK
<1>1. IInv => TypeOK
  BY DEF IInv
<1> QED
  BY <1>1, Inductive, PTL

(* The certificate and the key of a wallet belong together. *)
THEOREM OneEnrollment == Spec => []KeyMatchesCert
<1>1. IInv => KeyMatchesCert
  BY DEF IInv, WalletStages, KeyMatchesCert
<1> QED
  BY <1>1, Inductive, PTL

(* Two clients are told that they created one asset only if a deletion of *)
(* it committed.                                                          *)
THEOREM OneCreator == Spec => []OneCreatorIsTold
<1>1. IInv => OneCreatorIsTold
  <2> SUFFICES ASSUME IInv, NEW c \in Edits, NEW d \in Edits,
                      c # d, AssetOf(c) = AssetOf(d),
                      order[c].op = "CreateAsset", order[d].op = "CreateAsset",
                      apc[c] = "ok", apc[d] = "ok"
               PROVE Deleted(AssetOf(c))
    BY DEF OneCreatorIsTold, Deleted, Committed
  <2>1. AssetOf(c) \in Assets
    BY DEF IInv, TypeOK, Orders, Calls, AssetOf
  <2> QED
    BY <2>1 DEF IInv, AssetStages, Committed
<1> QED
  BY <1>1, Inductive, PTL

(* A read finds what an earlier call was told it had done. *)
THEOREM ReadYourWrites == Spec => []ReadsFindWhatWasAnswered
<1>1. IInv => ReadsFindWhatWasAnswered
  <2> SUFFICES ASSUME IInv, NEW c \in Edits, apc[c] = "ok" PROVE FindsWhatWasAnswered(c)
    BY DEF ReadsFindWhatWasAnswered
  <2>1. AssetOf(c) \in Assets /\ tx[c] = "committed" /\ c \in Calls
    BY DEF IInv, TypeOK, AssetStages, Orders, Calls, AssetOf
  <2>2. owner[AssetOf(c)] \in Names \cup {Absent}
    BY <2>1 DEF IInv, TypeOK
  <2> QED
    BY <2>1, <2>2 DEF IInv, AssetStages, Committed, Deleted, Calls, FindsWhatWasAnswered,
       GetAssetHistory, ReadAsset, GetAssetsByOwner
<1> QED
  BY <1>1, Inductive, PTL

(* Requests are handled by a process that has started all it relies on. *)
THEOREM HandledWhenReady == Spec => []HandledByReadyProcess
<1>1. IInv => HandledByReadyProcess
  BY DEF IInv, TypeOK, StartTypeOK, StartStages, RequestStages, HandledByReadyProcess, Required
<1> QED
  BY <1>1, Inductive, PTL

(* Of the calls about one asset only one has a transaction on its way,     *)
(* endorsed or ordered: the next one is made when it is known what became  *)
(* of the last.                                                            *)
OneInFlight ==
    \A c, d \in Calls :
        /\ AssetOf(c) = AssetOf(d)
        /\ tx[c] \in {"endorsed", "ordered"} /\ tx[d] \in {"endorsed", "ordered"}
        => c = d

(* Then no transaction is overtaken, and none is dropped. *)
Undisturbed == stale = {} /\ \A c \in Calls : tx[c] # "invalid"

(* A commit that overtakes nothing leaves nothing stale. *)
LEMMA NextUndisturbed ==
  ASSUME ~MayFail
  PROVE  IInv /\ OneInFlight /\ Undisturbed /\ [Next]_vars => Undisturbed'
<1> SUFFICES ASSUME TypeOK, OneInFlight, Undisturbed, [Next]_vars PROVE Undisturbed'
  BY DEF IInv
<1> USE DEF TypeOK, Undisturbed, assetVars
<1>1. ASSUME UNCHANGED assetVars PROVE Undisturbed'
  BY <1>1
<1>2. ASSUME NEW c \in Calls, Endorse(c) \/ Refuse(c) \/ Submit(c) \/ SubmitErrs(c)
      PROVE  Undisturbed'
  BY <1>2 DEF Endorse, Refuse, Submit, SubmitErrs
<1>3. ASSUME NEW c \in Edits, AnswerEdit(c) PROVE Undisturbed'
  BY <1>3 DEF AnswerEdit
<1>4. ASSUME NEW c \in Calls, Commit(c) PROVE Undisturbed'
  <2>1. {d \in Calls \ {c} : AssetOf(d) = AssetOf(c) /\ tx[d] \in {"endorsed", "ordered"}} = {}
    BY <1>4 DEF Commit, OneInFlight
  <2> QED
    BY <1>4, <2>1 DEF Commit
<1>5. ASSUME NEW c \in Calls, Invalidate(c) PROVE FALSE
  BY <1>5 DEF Invalidate
<1>6. ~Crash
  BY DEF Crash
<1> QED
  BY <1>1, <1>2, <1>3, <1>4, <1>5, <1>6 DEF Next, Editing, Transferring, Calls, vars

(* What a report of success lacks is the outcome of a race: without        *)
(* failures, a transfer of an asset that is there, on which nobody else is *)
(* at work meanwhile, is kept if it was reported as successful.            *)
THEOREM LoneTransfersAreKept ==
  ASSUME ~MayFail
  PROVE  Spec /\ []OneInFlight => []ReportedTransferIsKept
<1>1. Init => Undisturbed
  BY DEF Init, Undisturbed
<1>2. Undisturbed => ReportedTransferIsKept
  BY DEF Undisturbed, ReportedTransferIsKept, Calls
<1> QED
  BY <1>1, <1>2, NextUndisturbed, Inductive, PTL DEF Spec

(* A name whose registration was cut short, or that was taken elsewhere,   *)
(* never gets its wallet.                                                  *)
THEOREM StrandedStay == Spec => StrandedNamesStay
<1>1. IInv /\ [Next]_vars => [StrandedKept]_walletVars
  BY NextStrandedKept
<1> QED
  BY <1>1, Inductive, PTL DEF Spec, StrandedNamesStay

=============================================================================
