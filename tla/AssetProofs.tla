----------------------------- MODULE AssetProofs -----------------------------
(***************************************************************************)
(* LegacyAssets implements AssetRegister: in a state of IInv every step of *)
(* the earlier API is a step of the register or leaves it unchanged.       *)
(***************************************************************************)
EXTENDS LegacyProofs

Welcomed == {r \in Registrations : wpc[r] = "added"}
Places == [c \in Calls |-> Place(c)]
Told == {c \in Calls : apc[c] = "ok"}
registerVars == <<forName, order, key, Welcomed, owner, Places, Told>>

(* The empty disk and ledger are the empty register. *)
LEMMA InitAssets == Init => Atomic!Init
<1> SUFFICES ASSUME Init PROVE Atomic!Init
  OBVIOUS
<1>1. TypeOK
  BY InitIInv DEF IInv
<1>2. \A c \in Calls : order[c].asset \in Assets
  BY <1>1 DEF TypeOK, Orders
<1>3. Welcomed = {} /\ Told = {}
  BY DEF Init, WalletInit, Welcomed, Told
<1>4. Places = [c \in Calls |-> "idle"]
  BY DEF Init, Places, Place
<1> QED
  BY <1>2, <1>3, <1>4 DEF Init, WalletInit, Atomic!Init, Atomic!Calls, Calls, Welcomed, Places, Told

(* A step that neither makes a wallet nor welcomes anybody leaves the      *)
(* users of the register alone.                                            *)
LEMMA SameWelcome ==
  ASSUME \A r \in Registrations : wpc'[r] = "added" <=> wpc[r] = "added"
  PROVE  Welcomed' = Welcomed
BY DEF Welcomed

(* A step that changes the place of no call, nor what one was told. *)
LEMMA SameCalls ==
  ASSUME \A c \in Calls : Place(c)' = Place(c) /\ (apc'[c] = "ok" <=> apc[c] = "ok")
  PROVE  Places' = Places /\ Told' = Told
BY DEF Places, Told

(* A call that goes to another place, the others staying where they are. *)
LEMMA OneMoves ==
  ASSUME NEW c \in Calls, NEW p, Place(c)' = p,
         \A d \in Calls \ {c} : tx'[d] = tx[d] /\ apc'[d] = apc[d]
  PROVE  Places' = [Places EXCEPT ![c] = p]
<1>1. \A d \in Calls \ {c} : Place(d)' = Place(d)
  BY DEF Place
<1>2. Places' = [d \in Calls |-> IF d = c THEN p ELSE Place(d)]
  BY <1>1 DEF Places
<1> QED
  BY <1>2 DEF Places

(* A step of a registration. *)
LEMMA RegistrationSteps ==
  ASSUME IInv, NEW r \in Registrations, Registering(r), UNCHANGED assetVars
  PROVE  Atomic!Next \/ UNCHANGED registerVars
<1>0. TypeOK /\ WalletTypeOK /\ WalletStages
  BY DEF IInv, TypeOK
<1>1. UNCHANGED <<forName, order, owner, Places, Told>>
  BY SameCalls
     DEF assetVars, Registering, CheckLocal, Register, RegisterErrs, Enroll, EnrollErrs, Place
<1>2. CASE Enroll(r)
  <2>1. key[forName[r]] = NoOne /\ key' = [key EXCEPT ![forName[r]] = r]
    BY <1>0, <1>2 DEF WalletStages, Enroll, WriteFiles
  <2>2. Welcomed' = Welcomed \cup {r}
    BY <1>0, <1>2 DEF WalletTypeOK, Enroll, WalletGoto, Welcomed
  <2>3. Atomic!Join(r)
    BY <1>1, <2>1, <2>2 DEF Atomic!Join, Atomic!Fill, Atomic!callVars, Welcomed, Places, Told
  <2> QED
    BY <2>3 DEF Atomic!Next
<1>3. CASE ~Enroll(r)
  <2>1. UNCHANGED key
    BY <1>3 DEF Registering, CheckLocal, Register, RegisterErrs, EnrollErrs, WriteFiles, diskVars
  <2>2. \A s \in Registrations : wpc'[s] = "added" <=> wpc[s] = "added"
    BY <1>0, <1>3
       DEF WalletTypeOK, Registering, CheckLocal, Register, RegisterErrs, EnrollErrs, WalletGoto
  <2> QED
    BY <1>1, <2>1, <2>2, SameWelcome DEF registerVars
<1> QED
  BY <1>2, <1>3

(* A transfer that is on its way may act, and a transaction that commits   *)
(* fits its asset.                                                         *)
LEMMA CommitTakesEffect ==
  ASSUME IInv, NEW c \in Calls, Commit(c)
  PROVE  Atomic!TakeEffect(c)
<1>0. TypeOK /\ AssetStages /\ SendStages
  BY DEF IInv
<1>1. tx[c] = "ordered" /\ apc[c] # "idle"
  BY <1>0 DEF Commit, AssetStages
<1>2. Place(c) = "open" /\ Place(c)' = "done"
  BY <1>0, <1>1 DEF Commit, TypeOK, Place
<1>3. Places' = [Places EXCEPT ![c] = "done"]
  BY <1>0, <1>2, OneMoves DEF Commit, TypeOK
<1>4. Accepts(c)
  BY <1>0, <1>1 DEF Commit, AssetStages
<1>5. c \in Transfers => key[order[c].from] # NoOne
  BY <1>0, <1>1 DEF SendStages
<1>6. UNCHANGED <<forName, order, key, Welcomed, Told>>
  BY SameWelcome DEF Commit, walletVars, diskVars, Told
<1> QED
  BY <1>2, <1>3, <1>4, <1>5, <1>6
     DEF Commit, Accepts, AssetOf, NewOwner, Places, Welcomed, Told, Atomic!TakeEffect,
         Atomic!MayAct, Atomic!Fits, Atomic!MoveTo, Atomic!userVars

(* A call that ends without an effect. *)
LEMMA OneFails ==
  ASSUME NEW c \in Calls, Place(c) \in {"idle", "open"}, Place(c)' = "void",
         \A d \in Calls \ {c} : tx'[d] = tx[d] /\ apc'[d] = apc[d],
         apc[c] # "ok" \/ apc'[c] = "ok", apc'[c] = "ok" => apc[c] = "ok",
         UNCHANGED <<walletVars, order, owner>>
  PROVE  Atomic!Next
<1>1. Places' = [d \in Calls |-> IF d \in {c} THEN "void" ELSE Places[d]]
  BY DEF Places, Place
<1>2. UNCHANGED <<forName, key, Welcomed, Told>>
  BY SameWelcome DEF walletVars, diskVars, Told
<1>3. {c} \in SUBSET Atomic!Calls
  BY DEF Calls, Atomic!Calls
<1>4. Atomic!Fail({c})
  BY <1>1, <1>2 DEF Places, Welcomed, Told, Calls, Atomic!Fail, Atomic!Calls
<1> QED
  BY <1>3, <1>4 DEF Atomic!Next

(* A step of one call, other than the commit of its transaction. *)
LEMMA CallSteps ==
  ASSUME IInv, NEW c \in Calls,
         \/ Endorse(c) \/ Refuse(c) \/ Submit(c) \/ SubmitErrs(c)
         \/ (c \in Edits /\ AnswerEdit(c)) \/ Invalidate(c)
  PROVE  Atomic!Next \/ UNCHANGED registerVars
<1>0. TypeOK /\ AssetStages /\ SendStages
  BY DEF IInv
<1> USE EditsAssumption, <1>0
<1>a. c \in Atomic!Calls
  BY DEF Calls, Atomic!Calls
<1>b. UNCHANGED <<forName, order, key, owner, Welcomed>>
  BY SameWelcome
     DEF Endorse, Refuse, Submit, SubmitErrs, AnswerEdit, Invalidate, walletVars, diskVars
<1>c. \A d \in Calls \ {c} : tx'[d] = tx[d] /\ apc'[d] = apc[d]
  BY DEF TypeOK, Endorse, Refuse, Submit, SubmitErrs, AnswerEdit, Invalidate, Goto
<1>d. UNCHANGED walletVars
  BY DEF Endorse, Refuse, Submit, SubmitErrs, AnswerEdit, Invalidate
<1>e. ASSUME Place(c)' = Place(c), apc'[c] = "ok" <=> apc[c] = "ok" PROVE UNCHANGED registerVars
  <2>1. \A d \in Calls : Place(d)' = Place(d) /\ (apc'[d] = "ok" <=> apc[d] = "ok")
    BY <1>c, <1>e DEF Place
  <2> QED
    BY <1>b, <2>1, SameCalls DEF registerVars
<1>1. CASE Endorse(c)
  <2>0. /\ apc[c] = "idle" /\ tx[c] = "none"
        /\ apc'[c] = "endorsed" /\ tx'[c] = "endorsed"
    BY <1>1 DEF Endorse, Goto, TypeOK, AssetStages
  <2>1. Place(c) = "idle" /\ Place(c)' = "open"
    BY <2>0 DEF Place
  <2>2. Places' = [Places EXCEPT ![c] = "open"] /\ Told' = Told
    BY <1>c, <2>0, <2>1, OneMoves DEF Told
  <2>3. Atomic!Ask(c)
    BY <1>b, <2>1, <2>2 DEF Places, Told, Welcomed, Atomic!Ask, Atomic!MoveTo, Atomic!userVars
  <2> QED
    BY <1>a, <2>3 DEF Atomic!Next
<1>2. CASE Refuse(c)
  <2>1. Place(c) = "idle" /\ Place(c)' = "void"
    BY <1>2 DEF Refuse, Goto, TypeOK, AssetStages, Place
  <2> QED
    BY <1>2, <1>b, <1>c, <1>d, <2>1, OneFails DEF Refuse, Goto, TypeOK
<1>3. CASE Submit(c)
  <2>1. tx[c] = "endorsed" /\ tx'[c] = "ordered"
    BY <1>3 DEF Submit, AssetStages, TypeOK
  <2>2. Place(c) = "open" /\ Place(c)' = "open"
    BY <1>3, <2>1 DEF Submit, Goto, TypeOK, Place
  <2>3. CASE c \in Transfers
    <3>1. key[order[c].from] # NoOne
      BY <2>1, <2>3 DEF SendStages
    <3>2. Told' = Told \cup {c}
      BY <1>3, <1>c, <2>3 DEF Submit, Goto, TypeOK, Told
    <3>3. Places' = Places
      BY <1>c, <2>2 DEF Places, Place
    <3>4. Atomic!Tell(c)
      BY <1>b, <2>2, <2>3, <3>1, <3>2, <3>3
         DEF Places, Told, Welcomed, Atomic!Tell, Atomic!MayAct, Atomic!userVars
    <3> QED
      BY <1>a, <3>4 DEF Atomic!Next
  <2>4. CASE c \notin Transfers
    BY <1>3, <1>e, <2>2, <2>4 DEF Submit, Goto, TypeOK
  <2> QED
    BY <2>3, <2>4
<1>4. CASE SubmitErrs(c)
  <2>0. apc[c] \in Waiting /\ apc'[c] = "error"
    BY <1>4 DEF SubmitErrs, Goto, TypeOK
  <2>1. CASE apc[c] = "submitted" /\ UNCHANGED tx
    <3>1. CASE Place(c)' = Place(c)
      BY <1>e, <2>0, <3>1 DEF Waiting
    <3>2. CASE Place(c)' # Place(c)
      <4>1. Place(c) = "open" /\ Place(c)' = "void"
        BY <2>0, <2>1, <3>2 DEF Place
      <4> QED
        BY <1>b, <1>c, <1>d, <2>0, <2>1, <4>1, OneFails
    <3> QED
      BY <3>1, <3>2
  <2>2. CASE apc[c] = "endorsed" /\ tx' = [tx EXCEPT ![c] = "ordered"]
    <3>1. Place(c) = "open" /\ Place(c)' = "open"
      BY <2>0, <2>2 DEF AssetStages, TypeOK, Place
    <3> QED
      BY <1>e, <2>0, <2>2, <3>1
  <2>3. CASE apc[c] = "endorsed" /\ tx' = [tx EXCEPT ![c] = "none"]
    <3>1. Place(c) = "open" /\ Place(c)' = "void"
      BY <2>0, <2>3 DEF AssetStages, TypeOK, Place
    <3> QED
      BY <1>b, <1>c, <1>d, <2>0, <2>3, <3>1, OneFails
  <2> QED
    BY <1>4, <2>1, <2>2, <2>3 DEF SubmitErrs
<1>5. CASE c \in Edits /\ AnswerEdit(c)
  <2>1. CASE tx[c] = "committed" /\ Goto(c, "ok")
    <3>1. Place(c) = "done" /\ Place(c)' = "done"
      BY <1>5, <2>1 DEF AnswerEdit, Goto, TypeOK, Place
    <3>2. Told' = Told \cup {c} /\ Places' = Places
      BY <1>c, <2>1, <3>1 DEF Goto, TypeOK, Told, Places, Place
    <3>3. Atomic!Tell(c)
      BY <1>5, <1>b, <3>1, <3>2
         DEF Places, Told, Welcomed, Atomic!Tell, Atomic!userVars
    <3> QED
      BY <1>a, <3>3 DEF Atomic!Next
  <2>2. CASE tx[c] = "invalid" /\ Goto(c, "error")
    <3>1. Place(c) = "void" /\ Place(c)' = "void"
      BY <1>5, <2>2 DEF AnswerEdit, Goto, TypeOK, Place
    <3> QED
      BY <1>5, <1>e, <2>2, <3>1 DEF AnswerEdit, Goto, TypeOK
  <2> QED
    BY <1>5, <2>1, <2>2 DEF AnswerEdit
<1>6. CASE Invalidate(c)
  <2>1. tx[c] = "ordered" /\ tx'[c] = "invalid" /\ apc' = apc /\ apc[c] # "idle"
    BY <1>6 DEF Invalidate, TypeOK, AssetStages
  <2>2. Place(c) = "open" /\ Place(c)' = "void"
    BY <2>1 DEF Place
  <2> QED
    BY <1>6, <1>b, <1>c, <1>d, <2>1, <2>2, OneFails DEF Invalidate
<1> QED
  BY <1>1, <1>2, <1>3, <1>4, <1>5, <1>6

(* The process dies: what was endorsed comes to nothing, and a call that   *)
(* was writing its files may have finished them.                           *)
LEMMA CrashFails ==
  ASSUME IInv, Crash
  PROVE  Atomic!Next
<1>0. TypeOK /\ WalletTypeOK /\ WalletStages /\ AssetStages
  BY DEF IInv, TypeOK
<1> DEFINE cs == {c \in Calls : Place(c)' # Place(c)}
<1>1. \A c \in cs : Place(c) = "open" /\ Place(c)' = "void"
  <2> SUFFICES ASSUME NEW c \in Calls, Place(c)' # Place(c)
               PROVE  Place(c) = "open" /\ Place(c)' = "void"
    OBVIOUS
  <2>1. /\ apc'[c] = IF apc[c] \in Waiting THEN "dead" ELSE apc[c]
        /\ tx'[c] = IF tx[c] = "endorsed" THEN "none" ELSE tx[c]
    BY DEF Crash
  <2> QED
    BY <1>0, <2>1 DEF Place, Waiting, AssetStages
<1>2. Places' = [c \in Calls |-> IF c \in cs THEN "void" ELSE Places[c]]
  BY <1>1 DEF Places
<1>3. Told' = Told
  BY <1>0 DEF Crash, Told, Waiting
<1>4. Welcomed' = Welcomed
  BY <1>0 DEF Crash, WalletCrash, Welcomed, Enrolling
<1>5. UNCHANGED key \/ \E r \in Registrations \ Welcomed : Atomic!Fill(r)
  <2> SUFFICES ASSUME NEW r \in Registrations, NEW k \in 1..4,
                      wpc[r] = "enrolling", WriteFiles(r, k)
               PROVE  UNCHANGED key \/ (r \notin Welcomed /\ Atomic!Fill(r))
    BY DEF Crash, WalletCrash, diskVars
  <2>1. r \notin Welcomed /\ key[forName[r]] = NoOne
    BY <1>0 DEF Welcomed, WalletStages
  <2> QED
    BY <2>1 DEF WriteFiles, Atomic!Fill
<1>6. UNCHANGED <<forName, order, owner>>
  BY DEF Crash, WalletCrash
<1>7. Atomic!Fail(cs)
  BY <1>1, <1>2, <1>3, <1>4, <1>5, <1>6
     DEF Places, Told, Welcomed, Calls, Atomic!Fail, Atomic!Calls
<1> QED
  BY <1>7 DEF Atomic!Next, Atomic!Calls, Calls

(* Every step of the earlier API is a step of the register or a stutter. *)
LEMMA StepAssets == IInv /\ [Next]_vars => [Atomic!Next]_registerVars
<1> DEFINE Goal == Atomic!Next \/ UNCHANGED registerVars
<1> SUFFICES ASSUME IInv, [Next]_vars PROVE Goal
  OBVIOUS
<1>1. ASSUME UNCHANGED <<walletVars, assetVars>> PROVE Goal
  BY <1>1, SameWelcome, SameCalls
     DEF walletVars, assetVars, diskVars, registerVars, Place
<1>2. ASSUME NEW r \in Registrations, Registering(r), UNCHANGED assetVars PROVE Goal
  BY <1>2, RegistrationSteps
<1>3. ASSUME NEW c \in Edits, Editing(c) PROVE Goal
  BY <1>3, CallSteps DEF Editing, Calls
<1>4. ASSUME NEW c \in Transfers, Transferring(c) PROVE Goal
  BY <1>4, CallSteps DEF Transferring, Calls
<1>5. ASSUME NEW c \in Calls, Commit(c) PROVE Goal
  BY <1>5, CommitTakesEffect DEF Atomic!Next, Atomic!Calls, Calls
<1>6. ASSUME NEW c \in Calls, Invalidate(c) PROVE Goal
  BY <1>6, CallSteps
<1>7. ASSUME NEW n \in Elsewhere, RegisterElsewhere(n), UNCHANGED assetVars PROVE Goal
  BY <1>7, SameWelcome, SameCalls DEF RegisterElsewhere, assetVars, diskVars, registerVars, Place
<1>8. CASE Crash
  BY <1>8, CrashFails
<1> QED
  BY <1>1, <1>2, <1>3, <1>4, <1>5, <1>6, <1>7, <1>8 DEF Next, vars

(* The earlier API implements the register. *)
THEOREM Refinement == Spec => ImplementsAssets
<1>1. IInv /\ [Next]_vars => [Atomic!Next]_<<forName, order, <<key, Welcomed>>, <<owner, Places, Told>>>>
  BY StepAssets DEF registerVars
<1> QED
  BY InitAssets, Inductive, <1>1, PTL
     DEF Spec, ImplementsAssets, Atomic!Spec, Atomic!vars, Atomic!userVars, Atomic!callVars,
         Welcomed, Places, Told

=============================================================================
