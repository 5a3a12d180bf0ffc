---------------------------- MODULE AccountProofs ----------------------------
(***************************************************************************)
(* Identity implements AccountRegister: in a state of IInv every step of   *)
(* the service is a step of the register or leaves it unchanged.           *)
(***************************************************************************)
EXTENDS IdentityProofs

Of == [x \in Logins \cup Requests |-> forName[x]]
Standings == [n \in Names |-> Standing(n)]
Told == {n \in Names : KnownInactive(n)}
Place == [x \in Logins \cup Requests |->
             IF x \in Logins THEN LoginPlace(x) ELSE RequestPlace(x)]

accountVars == <<Of, Standings, Told, Place>>

(* No account, no answer and nobody inside is the empty register. *)
LEMMA InitAccounts == Init => Accounts!Init
<1> SUFFICES ASSUME Init PROVE Accounts!Init
  OBVIOUS
<1>1. Of \in [Logins \cup Requests -> Names]
  BY DEF Init, Of, Callers
<1>2. Standings = [n \in Names |-> "none"]
  BY DEF Init, Standings, Standing
<1>3. Told = {}
  BY DEF Init, Told, KnownInactive
<1>4. Place = [x \in Logins \cup Requests |-> "outside"]
  BY DEF Init, Place, LoginPlace, RequestPlace
<1> QED
  BY <1>1, <1>2, <1>3, <1>4
     DEF Accounts!Init, Accounts!Comers, Of, Standings, Told, Place

(* What the register sees follows from the variables it is made of. *)
LEMMA Unchanged ==
    /\ UNCHANGED forName => UNCHANGED Of
    /\ UNCHANGED <<account, role>> => UNCHANGED Standings
    /\ UNCHANGED <<dpc, forName>> => UNCHANGED Told
    /\ UNCHANGED <<lpc, qpc>> => UNCHANGED Place
<1>1. UNCHANGED forName => UNCHANGED Of
  BY DEF Of
<1>2. UNCHANGED <<account, role>> => UNCHANGED Standings
  BY DEF Standings, Standing
<1>3. UNCHANGED <<dpc, forName>> => UNCHANGED Told
  BY DEF Told, KnownInactive
<1>4. UNCHANGED <<lpc, qpc>> => UNCHANGED Place
  BY DEF Place, LoginPlace, RequestPlace
<1> QED
  BY <1>1, <1>2, <1>3, <1>4

(* A deactivation that is not answered by the step tells nobody. *)
LEMMA NobodyTold ==
    ASSUME TypeOK, UNCHANGED forName, NEW d \in Deactivations, dpc[d] # "done",
           NEW s, s # "done", dpc' = [dpc EXCEPT ![d] = s]
    PROVE  UNCHANGED Told
<1>1. \A e \in Deactivations : dpc'[e] = "done" <=> dpc[e] = "done"
  BY DEF TypeOK
<1> QED
  BY <1>1 DEF Told, KnownInactive

(* A login that changes its place moves alone. *)
LEMMA LoginMoves ==
    ASSUME TypeOK, NEW l \in Logins, NEW s, lpc' = [lpc EXCEPT ![l] = s], UNCHANGED qpc
    PROVE  Place' = [Place EXCEPT ![l] = LoginPlace(l)']
<1>1. \A m \in Logins : m # l => LoginPlace(m)' = LoginPlace(m)
  BY DEF TypeOK, LoginPlace
<1>2. \A q \in Requests : RequestPlace(q)' = RequestPlace(q)
  BY DEF RequestPlace
<1> QED
  BY <1>1, <1>2 DEF Place

LEMMA RequestMoves ==
    ASSUME TypeOK, NEW q \in Requests, NEW s, qpc' = [qpc EXCEPT ![q] = s], UNCHANGED lpc
    PROVE  Place' = [Place EXCEPT ![q] = RequestPlace(q)']
<1>1. \A r \in Requests : r # q => RequestPlace(r)' = RequestPlace(r)
  BY DEF TypeOK, RequestPlace
<1>2. \A l \in Logins : LoginPlace(l)' = LoginPlace(l)
  BY DEF LoginPlace
<1> QED
  BY <1>1, <1>2, LateAssumption DEF Place

(* Who is not inside and ends as refused is refused by the register. *)
LEMMA RefusesOne ==
    ASSUME UNCHANGED <<Of, Standings, Told>>, NEW x \in Logins \cup Requests,
           Place[x] # "inside", Place' = [Place EXCEPT ![x] = "refused"]
    PROVE  Accounts!Next
<1>1. Place' = [y \in Logins \cup Requests |-> IF y \in {x} THEN "refused" ELSE Place[y]]
  BY DEF Place
<1>2. Accounts!Refuse({x})
  BY <1>1 DEF Accounts!Refuse, Accounts!Comers, Of, Standings, Told, Place
<1> QED
  BY <1>2 DEF Accounts!Next, Accounts!Comers

(* The row that is inserted opens the account. *)
LEMMA InsertOpens ==
    ASSUME TypeOK, NEW c \in Creates, InsertUser(c), UNCHANGED <<forName, dpc, lpc, qpc>>
    PROVE  Accounts!Next
<1> DEFINE n == forName[c]
           r == asRole[c]
<1>1. n \in Names /\ r \in Roles
  BY DEF TypeOK, Callers
<1>2. Standings[n] = "none"
  BY <1>1 DEF InsertUser, Standings, Standing
<1>3. Standings' = [Standings EXCEPT ![n] = r]
  BY <1>1 DEF InsertUser, Standings, Standing, TypeOK
<1>4. Accounts!Open(n, r)
  BY <1>2, <1>3, Unchanged DEF Accounts!Open, Of, Standings, Told, Place
<1> QED
  BY <1>1, <1>4 DEF Accounts!Next, Accounts!Roles, Roles

(* The row that is wiped closes it, told to somebody or not. *)
LEMMA WipeCloses ==
    ASSUME IInv, NEW d \in Deactivations, dpc[d] = "wiping", WipeRow(d),
           NEW s \in {"done", "dbError"}, dpc' = [dpc EXCEPT ![d] = s],
           UNCHANGED <<forName, lpc, qpc>>
    PROVE  Accounts!Next
<1> DEFINE n == forName[d]
<1>0. TypeOK /\ DoneStages /\ CallStages
  BY DEF IInv
<1>1. n \in Names
  BY <1>0 DEF TypeOK, Callers
<1>2. Standings[n] \in {"issuer", "closed"}
  BY <1>0, <1>1 DEF TypeOK, Roles, DoneStages, CallStages, Standings, Standing
<1>3. Standings' = [Standings EXCEPT ![n] = "closed"]
  BY <1>0, <1>1 DEF WipeRow, Standings, Standing, TypeOK
<1>4. Told' \in {Told, Told \cup {n}}
  <2>1. CASE s = "dbError"
    BY <1>0, <2>1, NobodyTold
  <2>2. CASE s = "done"
    <3>1. \A e \in Deactivations : dpc'[e] = "done" <=> e = d \/ dpc[e] = "done"
      BY <1>0, <2>2 DEF TypeOK
    <3> QED
      BY <1>1, <3>1 DEF Told, KnownInactive
  <2> QED
    BY <2>1, <2>2
<1>5. Accounts!Close(n)
  BY <1>2, <1>3, <1>4, Unchanged DEF Accounts!Close, Of, Standings, Told, Place
<1> QED
  BY <1>1, <1>5 DEF Accounts!Next

(* Every step of the service is a step of the register or a stutter. *)
LEMMA StepAccounts == IInv /\ [Next]_vars => [Accounts!Next]_accountVars
<1> DEFINE Goal == Accounts!Next \/ UNCHANGED accountVars
<1> SUFFICES ASSUME IInv, [Next]_vars PROVE Goal
  OBVIOUS
<1>0. TypeOK /\ DoneStages /\ CallStages
  BY DEF IInv
<1> HIDE DEF Goal
<1> USE <1>0 DEF rowVars, caVars, inputVars, CreateGoto, LoginGoto, DeactivateGoto
<1>a. ASSUME UNCHANGED <<forName, account, role, dpc, lpc, qpc>> PROVE Goal
  BY <1>a, Unchanged DEF Goal, accountVars
<1>b. ASSUME NEW l \in Logins, lpc[l] # "in", lpc' = [lpc EXCEPT ![l] = "denied"],
             UNCHANGED <<forName, account, role, dpc, qpc>>
      PROVE  Goal
  <2>1. Place[l] # "inside" /\ LoginPlace(l)' = "refused"
    BY <1>b DEF Place, LoginPlace, TypeOK
  <2> QED
    BY <1>b, <2>1, LoginMoves, RefusesOne, Unchanged DEF Goal
<1>c. ASSUME NEW d \in Deactivations, dpc[d] # "done", NEW s, s # "done",
             dpc' = [dpc EXCEPT ![d] = s], UNCHANGED <<forName, account, role, lpc, qpc>>
      PROVE  Goal
  BY <1>c, NobodyTold, Unchanged DEF Goal, accountVars
<1>1. ASSUME NEW c \in Creates, CheckName(c) \/ LookUp(c) \/ RegisterUser(c) \/ RegisterErrs(c)
                                   \/ CountUsers(c)
      PROVE  Goal
  BY <1>1, <1>a DEF CheckName, LookUp, RegisterUser, RegisterErrs, CountUsers
<1>2. ASSUME NEW c \in Creates, SaveUser(c) PROVE Goal
  BY <1>2, InsertOpens DEF SaveUser, Goal
<1>3. ASSUME NEW c \in Creates, SaveUserErrs(c) PROVE Goal
  <2>1. CASE InsertUser(c)
    BY <1>3, <2>1, InsertOpens DEF SaveUserErrs, Goal
  <2>2. CASE UNCHANGED rowVars
    BY <1>3, <2>2, <1>a DEF SaveUserErrs
  <2> QED
    BY <1>3, <2>1, <2>2 DEF SaveUserErrs
<1>4. ASSUME NEW l \in Logins, ValidateCredentials(l) PROVE Goal
  <2>1. CASE LoginGoto(l, "denied")
    BY <1>4, <2>1, <1>b DEF ValidateCredentials
  <2>2. CASE account[forName[l]] = "active" /\ LoginGoto(l, "valid")
    <3>1. forName[l] \in Names /\ Of[l] = forName[l]
      BY DEF TypeOK, Callers, Of
    <3>2. Standings[Of[l]] \in Roles
      BY <2>2, <3>1 DEF TypeOK, Standings, Standing
    <3>3. Place[l] = "outside" /\ LoginPlace(l)' = "entitled"
      BY <1>4, <2>2 DEF ValidateCredentials, Place, LoginPlace, TypeOK
    <3>4. Place' = [Place EXCEPT ![l] = "entitled"]
      BY <1>4, <2>2, <3>3, LoginMoves DEF ValidateCredentials
    <3>5. Accounts!Entitle(l)
      BY <1>4, <3>2, <3>3, <3>4, Unchanged
         DEF ValidateCredentials, Accounts!Entitle, Accounts!Move, Accounts!Roles, Roles,
             Of, Standings, Told, Place
    <3> QED
      BY <3>5 DEF Goal, Accounts!Next
  <2> QED
    BY <1>4, <2>1, <2>2 DEF ValidateCredentials
<1>5. ASSUME NEW l \in Logins, EnrollUser(l) PROVE Goal
  <2>1. CASE LoginGoto(l, "denied")
    BY <1>5, <2>1, <1>b DEF EnrollUser
  <2>2. CASE LoginGoto(l, "enrolled")
    <3>1. Place' = Place
      BY <1>5, <2>2 DEF EnrollUser, Place, LoginPlace, RequestPlace, TypeOK
    <3> QED
      BY <1>5, <3>1, Unchanged DEF EnrollUser, Goal, accountVars
  <2> QED
    BY <1>5, <2>1, <2>2 DEF EnrollUser
<1>6. ASSUME NEW l \in Logins, StoreEnrolledIdentity(l) PROVE Goal
  <2>1. Place[l] = "entitled" /\ LoginPlace(l)' = "inside"
    BY <1>6 DEF StoreEnrolledIdentity, Place, LoginPlace, TypeOK
  <2>2. Place' = [Place EXCEPT ![l] = "inside"]
    BY <1>6, <2>1, LoginMoves DEF StoreEnrolledIdentity
  <2>3. Accounts!Enter(l)
    BY <1>6, <2>1, <2>2, Unchanged
       DEF StoreEnrolledIdentity, Accounts!Enter, Accounts!Move, Of, Standings, Told, Place
  <2> QED
    BY <2>3 DEF Goal, Accounts!Next
<1>7. ASSUME NEW l \in Logins, StoreErrs(l) PROVE Goal
  BY <1>7, <1>b DEF StoreErrs
<1>8. ASSUME NEW d \in Deactivations, ReadUser(d) PROVE Goal
  BY <1>8, <1>c DEF ReadUser
<1>9. ASSUME NEW d \in Deactivations, RevokeUser(d) PROVE Goal
  BY <1>9, <1>c DEF RevokeUser
<1>10. ASSUME NEW d \in Deactivations, Wipe(d) PROVE Goal
  BY <1>10, WipeCloses DEF Wipe, Goal
<1>11. ASSUME NEW d \in Deactivations, WipeErrs(d) PROVE Goal
  <2>1. CASE WipeRow(d)
    BY <1>11, <2>1, WipeCloses DEF WipeErrs, Goal
  <2>2. CASE UNCHANGED rowVars
    BY <1>11, <2>2, <1>c DEF WipeErrs
  <2> QED
    BY <1>11, <2>1, <2>2 DEF WipeErrs
<1>12. ASSUME NEW q \in Requests, Arrive(q) PROVE Goal
  <2>1. Place' = Place
    BY <1>12 DEF Arrive, Place, LoginPlace, RequestPlace, TypeOK
  <2> QED
    BY <1>12, <2>1, Unchanged DEF Arrive, Goal, accountVars
<1>13. ASSUME NEW q \in Requests, Authorize(q) PROVE Goal
  <2>0. q \notin Logins /\ forName[q] \in Names /\ Of[q] = forName[q]
    BY LateAssumption DEF TypeOK, Callers, Of
  <2>1. Place[q] = "outside"
    BY <1>13, <2>0 DEF Authorize, Place, RequestPlace
  <2>2. CASE qpc' = [qpc EXCEPT ![q] = "denied"]
    <3>1. RequestPlace(q)' = "refused"
      BY <2>2 DEF RequestPlace, TypeOK
    <3> QED
      BY <1>13, <2>1, <2>2, <3>1, RequestMoves, RefusesOne, Unchanged DEF Authorize, Goal
  <2>3. CASE account[forName[q]] = "active" /\ qpc' = [qpc EXCEPT ![q] = "allowed"]
    <3>1. RequestPlace(q)' = "inside"
      BY <2>3 DEF RequestPlace, TypeOK
    <3>2. Place' = [Place EXCEPT ![q] = "inside"]
      BY <1>13, <2>3, <3>1, RequestMoves DEF Authorize
    <3>3. Standings[Of[q]] \in Roles
      BY <2>0, <2>3 DEF TypeOK, Standings, Standing
    <3>4. \E l \in Logins : Place[l] = "inside" /\ Of[l] = Of[q]
      BY <1>13, <2>0 DEF Authorize, CallStages, Place, LoginPlace, Of
    <3>5. Accounts!Serve(q)
      BY <1>13, <2>1, <3>2, <3>3, <3>4, Unchanged
         DEF Authorize, Accounts!Serve, Accounts!Move, Accounts!Roles, Roles,
             Of, Standings, Told, Place
    <3> QED
      BY <3>5 DEF Goal, Accounts!Next
  <2> QED
    BY <1>13, <2>2, <2>3 DEF Authorize
<1>14. CASE Crash
  <2> DEFINE Dying == {l \in Logins : lpc[l] \in {"valid", "enrolled"}}
             Dropped == {q \in Requests : qpc[q] = "arrived"}
  <2>1. /\ \A d \in Deactivations : dpc'[d] = "done" <=> dpc[d] = "done"
        /\ UNCHANGED <<forName, account, role>>
    BY <1>14 DEF Crash, TypeOK
  <2>2. UNCHANGED <<Of, Standings, Told>>
    BY <2>1, Unchanged DEF Told, KnownInactive
  <2>3. \A x \in Dying \cup Dropped : Place[x] # "inside"
    BY LateAssumption DEF Place, LoginPlace, RequestPlace
  <2>4. /\ \A l \in Logins : LoginPlace(l)' = IF l \in Dying THEN "refused" ELSE LoginPlace(l)
        /\ \A q \in Requests :
              RequestPlace(q)' = IF q \in Dropped THEN "refused" ELSE RequestPlace(q)
    BY <1>14 DEF Crash, LoginPlace, RequestPlace, TypeOK
  <2>5. Place' = [x \in Logins \cup Requests |->
                     IF x \in Dying \cup Dropped THEN "refused" ELSE Place[x]]
    <3>1. Dying \subseteq Logins /\ Dropped \subseteq Requests
      OBVIOUS
    <3> HIDE DEF Dying, Dropped
    <3>2. \A x \in Logins \cup Requests :
             (IF x \in Logins THEN LoginPlace(x)' ELSE RequestPlace(x)')
               = IF x \in Dying \cup Dropped THEN "refused" ELSE Place[x]
      BY <2>4, <3>1, LateAssumption DEF Place
    <3>3. Place' = [x \in Logins \cup Requests |->
                      IF x \in Logins THEN LoginPlace(x)' ELSE RequestPlace(x)']
      BY DEF Place
    <3> QED
      BY <3>2, <3>3
  <2>6. PICK xs \in SUBSET (Logins \cup Requests) : xs = Dying \cup Dropped
    OBVIOUS
  <2> HIDE DEF Dying, Dropped
  <2>7. Accounts!Refuse(xs)
    BY <2>2, <2>3, <2>5, <2>6 DEF Accounts!Refuse, Accounts!Comers, Of, Standings, Told, Place
  <2> QED
    BY <2>7 DEF Goal, Accounts!Next, Accounts!Comers
<1>15. ASSUME NEW n \in Elsewhere, RegisterElsewhere(n) PROVE Goal
  BY <1>15, <1>a DEF RegisterElsewhere
<1>16. CASE UNCHANGED vars
  BY <1>16, <1>a DEF vars
<1>17. Goal
  BY <1>1, <1>2, <1>3, <1>4, <1>5, <1>6, <1>7, <1>8, <1>9, <1>10, <1>11, <1>12, <1>13,
     <1>14, <1>15, <1>16, SeedsAssumption DEF Next, Creating, Seeding, LoggingIn, Deactivating
<1> QED
  BY <1>17

(* The service implements the register of accounts. *)
THEOREM Refinement == Spec => ImplementsAccounts
<1>1. IInv /\ [Next]_vars => [Accounts!Next]_<<Of, Standings, Told, Place>>
  BY StepAccounts DEF accountVars
<1> QED
  BY InitAccounts, Inductive, <1>1, PTL
     DEF Spec, ImplementsAccounts, Accounts!Spec, Accounts!vars, Of, Standings, Told, Place

=============================================================================
