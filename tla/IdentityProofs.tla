---------------------------- MODULE IdentityProofs ----------------------------
(***************************************************************************)
(* Proofs about Identity, for any number of names, calls and requests, and *)
(* any of the failures.  IInv is inductive, one lemma for each of its      *)
(* parts, and gives the safety and the action properties.                  *)
(***************************************************************************)
EXTENDS Identity, TLAPS

(* The initial states satisfy the inductive invariant. *)
LEMMA InitIInv == Init => IInv
BY SecretAssumption DEF Init, IInv, TypeOK, DoneStages, LateStages, SecretStages,
   HasRoleAttribute, CallStages, Callers, Roles

(* Every step keeps the types. *)
LEMMA NextTypeOK == IInv /\ [Next]_vars => TypeOK'
<1> SUFFICES ASSUME TypeOK, [Next]_vars PROVE TypeOK'
  BY DEF IInv
<1> USE DEF TypeOK, Roles, rowVars, caVars, inputVars,
      CreateGoto, LoginGoto, DeactivateGoto, Callers
<1>1. ASSUME NEW c \in Creates, CheckName(c) PROVE TypeOK'
  BY <1>1 DEF CheckName
<1>2. ASSUME NEW c \in Creates, LookUp(c) PROVE TypeOK'
  BY <1>2 DEF LookUp
<1>3. ASSUME NEW c \in Creates, RegisterUser(c) PROVE TypeOK'
  BY <1>3 DEF RegisterUser
<1>4. ASSUME NEW c \in Creates, RegisterErrs(c) PROVE TypeOK'
  BY <1>4 DEF RegisterErrs
<1>5. ASSUME NEW c \in Creates, SaveUser(c) PROVE TypeOK'
  BY <1>5 DEF SaveUser, InsertUser
<1>6. ASSUME NEW c \in Creates, SaveUserErrs(c) PROVE TypeOK'
  BY <1>6 DEF SaveUserErrs, InsertUser
<1>7. ASSUME NEW l \in Logins, ValidateCredentials(l) PROVE TypeOK'
  BY <1>7 DEF ValidateCredentials, NoteLate
<1>8. ASSUME NEW l \in Logins, EnrollUser(l) PROVE TypeOK'
  BY <1>8 DEF EnrollUser
<1>9. ASSUME NEW l \in Logins, StoreEnrolledIdentity(l) PROVE TypeOK'
  BY <1>9 DEF StoreEnrolledIdentity
<1>10. ASSUME NEW l \in Logins, StoreErrs(l) PROVE TypeOK'
  BY <1>10 DEF StoreErrs
<1>11. ASSUME NEW d \in Deactivations, ReadUser(d) PROVE TypeOK'
  BY <1>11 DEF ReadUser
<1>12. ASSUME NEW d \in Deactivations, RevokeUser(d) PROVE TypeOK'
  BY <1>12 DEF RevokeUser, RevokeAtCa
<1>13. ASSUME NEW d \in Deactivations, Wipe(d) PROVE TypeOK'
  BY <1>13 DEF Wipe, WipeRow
<1>14. ASSUME NEW d \in Deactivations, WipeErrs(d) PROVE TypeOK'
  BY <1>14 DEF WipeErrs, WipeRow
<1>15. ASSUME NEW q \in Requests, Arrive(q) PROVE TypeOK'
  BY <1>15 DEF Arrive, NoteLate
<1>16. ASSUME NEW q \in Requests, Authorize(q) PROVE TypeOK'
  BY <1>16 DEF Authorize, HasRole
<1>17. ASSUME NEW c \in Seeds, CountUsers(c) PROVE TypeOK'
  BY <1>17, SeedsAssumption DEF CountUsers
<1>18. ASSUME NEW n \in Elsewhere, RegisterElsewhere(n) PROVE TypeOK'
  BY <1>18, ElsewhereAssumption, SeedsAssumption DEF RegisterElsewhere
<1>19. CASE Crash
  BY <1>19 DEF Crash
<1>20. CASE UNCHANGED vars
  BY <1>20 DEF vars
<1> QED
  BY <1>1, <1>2, <1>3, <1>4, <1>5, <1>6, <1>7, <1>8, <1>9,
     <1>10, <1>11, <1>12, <1>13, <1>14, <1>15, <1>16, <1>17, <1>18, <1>19, <1>20, SeedsAssumption
     DEF Next, Creating, Seeding, LoggingIn, Deactivating

(* Every step keeps the link between a deactivation and its account. *)
LEMMA NextDoneStages == IInv /\ [Next]_vars => DoneStages'
<1> SUFFICES ASSUME TypeOK, DoneStages, [Next]_vars PROVE DoneStages'
  BY DEF IInv
<1> USE DEF TypeOK, DoneStages, rowVars, caVars, inputVars,
      CreateGoto, LoginGoto, DeactivateGoto, Callers
<1>1. ASSUME NEW c \in Creates, CheckName(c) PROVE DoneStages'
  BY <1>1 DEF CheckName
<1>2. ASSUME NEW c \in Creates, LookUp(c) PROVE DoneStages'
  BY <1>2 DEF LookUp
<1>3. ASSUME NEW c \in Creates, RegisterUser(c) PROVE DoneStages'
  BY <1>3 DEF RegisterUser
<1>4. ASSUME NEW c \in Creates, RegisterErrs(c) PROVE DoneStages'
  BY <1>4 DEF RegisterErrs
<1>5. ASSUME NEW c \in Creates, SaveUser(c) PROVE DoneStages'
  BY <1>5 DEF SaveUser, InsertUser
<1>6. ASSUME NEW c \in Creates, SaveUserErrs(c) PROVE DoneStages'
  BY <1>6 DEF SaveUserErrs, InsertUser
<1>7. ASSUME NEW l \in Logins, ValidateCredentials(l) PROVE DoneStages'
  BY <1>7 DEF ValidateCredentials, NoteLate
<1>8. ASSUME NEW l \in Logins, EnrollUser(l) PROVE DoneStages'
  BY <1>8 DEF EnrollUser
<1>9. ASSUME NEW l \in Logins, StoreEnrolledIdentity(l) PROVE DoneStages'
  BY <1>9 DEF StoreEnrolledIdentity
<1>10. ASSUME NEW l \in Logins, StoreErrs(l) PROVE DoneStages'
  BY <1>10 DEF StoreErrs
<1>11. ASSUME NEW d \in Deactivations, ReadUser(d) PROVE DoneStages'
  BY <1>11 DEF ReadUser
<1>12. ASSUME NEW d \in Deactivations, RevokeUser(d) PROVE DoneStages'
  BY <1>12 DEF RevokeUser, RevokeAtCa
<1>13. ASSUME NEW d \in Deactivations, Wipe(d) PROVE DoneStages'
  BY <1>13 DEF Wipe, WipeRow
<1>14. ASSUME NEW d \in Deactivations, WipeErrs(d) PROVE DoneStages'
  BY <1>14 DEF WipeErrs, WipeRow
<1>15. ASSUME NEW q \in Requests, Arrive(q) PROVE DoneStages'
  BY <1>15 DEF Arrive, NoteLate
<1>16. ASSUME NEW q \in Requests, Authorize(q) PROVE DoneStages'
  BY <1>16 DEF Authorize, HasRole
<1>17. ASSUME NEW c \in Seeds, CountUsers(c) PROVE DoneStages'
  BY <1>17, SeedsAssumption DEF CountUsers
<1>18. ASSUME NEW n \in Elsewhere, RegisterElsewhere(n) PROVE DoneStages'
  BY <1>18, ElsewhereAssumption DEF RegisterElsewhere
<1>19. CASE Crash
  BY <1>19 DEF Crash
<1>20. CASE UNCHANGED vars
  BY <1>20 DEF vars
<1> QED
  BY <1>1, <1>2, <1>3, <1>4, <1>5, <1>6, <1>7, <1>8, <1>9,
     <1>10, <1>11, <1>12, <1>13, <1>14, <1>15, <1>16, <1>17, <1>18, <1>19, <1>20, SeedsAssumption
     DEF Next, Creating, Seeding, LoggingIn, Deactivating

(* Every step keeps out what began after a deactivation was answered. *)
LEMMA NextLateStages == IInv /\ [Next]_vars => LateStages'
<1> SUFFICES ASSUME TypeOK, DoneStages, LateStages, [Next]_vars PROVE LateStages'
  BY DEF IInv
<1> USE LateAssumption DEF TypeOK, DoneStages, LateStages, KnownInactive,
      rowVars, caVars, inputVars,
      CreateGoto, LoginGoto, DeactivateGoto, Callers
<1>1. ASSUME NEW c \in Creates, CheckName(c) PROVE LateStages'
  BY <1>1 DEF CheckName
<1>2. ASSUME NEW c \in Creates, LookUp(c) PROVE LateStages'
  BY <1>2 DEF LookUp
<1>3. ASSUME NEW c \in Creates, RegisterUser(c) PROVE LateStages'
  BY <1>3 DEF RegisterUser
<1>4. ASSUME NEW c \in Creates, RegisterErrs(c) PROVE LateStages'
  BY <1>4 DEF RegisterErrs
<1>5. ASSUME NEW c \in Creates, SaveUser(c) PROVE LateStages'
  BY <1>5 DEF SaveUser, InsertUser
<1>6. ASSUME NEW c \in Creates, SaveUserErrs(c) PROVE LateStages'
  BY <1>6 DEF SaveUserErrs, InsertUser
<1>7. ASSUME NEW l \in Logins, ValidateCredentials(l) PROVE LateStages'
  BY <1>7 DEF ValidateCredentials, NoteLate
<1>8. ASSUME NEW l \in Logins, EnrollUser(l) PROVE LateStages'
  BY <1>8 DEF EnrollUser
<1>9. ASSUME NEW l \in Logins, StoreEnrolledIdentity(l) PROVE LateStages'
  BY <1>9 DEF StoreEnrolledIdentity
<1>10. ASSUME NEW l \in Logins, StoreErrs(l) PROVE LateStages'
  BY <1>10 DEF StoreErrs
<1>11. ASSUME NEW d \in Deactivations, ReadUser(d) PROVE LateStages'
  BY <1>11 DEF ReadUser
<1>12. ASSUME NEW d \in Deactivations, RevokeUser(d) PROVE LateStages'
  BY <1>12 DEF RevokeUser, RevokeAtCa
<1>13. ASSUME NEW d \in Deactivations, Wipe(d) PROVE LateStages'
  BY <1>13 DEF Wipe, WipeRow
<1>14. ASSUME NEW d \in Deactivations, WipeErrs(d) PROVE LateStages'
  BY <1>14 DEF WipeErrs, WipeRow
<1>15. ASSUME NEW q \in Requests, Arrive(q) PROVE LateStages'
  BY <1>15 DEF Arrive, NoteLate
<1>16. ASSUME NEW q \in Requests, Authorize(q) PROVE LateStages'
  BY <1>16 DEF Authorize, HasRole
<1>17. ASSUME NEW c \in Seeds, CountUsers(c) PROVE LateStages'
  BY <1>17, SeedsAssumption DEF CountUsers
<1>18. ASSUME NEW n \in Elsewhere, RegisterElsewhere(n) PROVE LateStages'
  BY <1>18, ElsewhereAssumption DEF RegisterElsewhere
<1>19. CASE Crash
  BY <1>19 DEF Crash
<1>20. CASE UNCHANGED vars
  BY <1>20 DEF vars
<1> QED
  BY <1>1, <1>2, <1>3, <1>4, <1>5, <1>6, <1>7, <1>8, <1>9,
     <1>10, <1>11, <1>12, <1>13, <1>14, <1>15, <1>16, <1>17, <1>18, <1>19, <1>20, SeedsAssumption
     DEF Next, Creating, Seeding, LoggingIn, Deactivating

(* Every step keeps the secrets with the names they were made for. *)
LEMMA NextSecretStages == IInv /\ [Next]_vars => SecretStages'
<1> SUFFICES ASSUME TypeOK, DoneStages, SecretStages, [Next]_vars PROVE SecretStages'
  BY DEF IInv
<1> USE SecretAssumption, SeedsAssumption
      DEF TypeOK, DoneStages, SecretStages, HasRoleAttribute, rowVars, caVars, inputVars,
      CreateGoto, LoginGoto, DeactivateGoto, Callers
<1>1. ASSUME NEW c \in Creates \ Seeds, CheckName(c) PROVE SecretStages'
  BY <1>1 DEF CheckName
<1>2. ASSUME NEW c \in Creates \ Seeds, LookUp(c) PROVE SecretStages'
  BY <1>2 DEF LookUp
<1>3. ASSUME NEW c \in Creates \ Seeds, RegisterUser(c) PROVE SecretStages'
  BY <1>3 DEF RegisterUser
<1>4. ASSUME NEW c \in Creates \ Seeds, RegisterErrs(c) PROVE SecretStages'
  BY <1>4 DEF RegisterErrs
<1>5. ASSUME NEW c \in Creates, SaveUser(c) PROVE SecretStages'
  BY <1>5 DEF SaveUser, InsertUser
<1>6. ASSUME NEW c \in Creates, SaveUserErrs(c) PROVE SecretStages'
  BY <1>6 DEF SaveUserErrs, InsertUser
<1>7. ASSUME NEW l \in Logins, ValidateCredentials(l) PROVE SecretStages'
  BY <1>7 DEF ValidateCredentials, NoteLate
<1>8. ASSUME NEW l \in Logins, EnrollUser(l) PROVE SecretStages'
  BY <1>8 DEF EnrollUser
<1>9. ASSUME NEW l \in Logins, StoreEnrolledIdentity(l) PROVE SecretStages'
  BY <1>9 DEF StoreEnrolledIdentity
<1>10. ASSUME NEW l \in Logins, StoreErrs(l) PROVE SecretStages'
  BY <1>10 DEF StoreErrs
<1>11. ASSUME NEW d \in Deactivations, ReadUser(d) PROVE SecretStages'
  BY <1>11 DEF ReadUser
<1>12. ASSUME NEW d \in Deactivations, RevokeUser(d) PROVE SecretStages'
  BY <1>12 DEF RevokeUser, RevokeAtCa
<1>13. ASSUME NEW d \in Deactivations, Wipe(d) PROVE SecretStages'
  BY <1>13 DEF Wipe, WipeRow
<1>14. ASSUME NEW d \in Deactivations, WipeErrs(d) PROVE SecretStages'
  BY <1>14 DEF WipeErrs, WipeRow
<1>15. ASSUME NEW q \in Requests, Arrive(q) PROVE SecretStages'
  BY <1>15 DEF Arrive, NoteLate
<1>16. ASSUME NEW q \in Requests, Authorize(q) PROVE SecretStages'
  BY <1>16 DEF Authorize, HasRole
<1>17. ASSUME NEW c \in Seeds, CountUsers(c) PROVE SecretStages'
  BY <1>17, SeedsAssumption DEF CountUsers
<1>18. ASSUME NEW n \in Elsewhere, RegisterElsewhere(n) PROVE SecretStages'
  BY <1>18, ElsewhereAssumption DEF RegisterElsewhere
<1>19. CASE Crash
  BY <1>19 DEF Crash
<1>20. CASE UNCHANGED vars
  BY <1>20 DEF vars
<1> QED
  BY <1>1, <1>2, <1>3, <1>4, <1>5, <1>6, <1>7, <1>8, <1>9,
     <1>10, <1>11, <1>12, <1>13, <1>14, <1>15, <1>16, <1>17, <1>18, <1>19, <1>20, SeedsAssumption
     DEF Next, Creating, Seeding, LoggingIn, Deactivating

(* Every step keeps what calls under way rely on. *)
LEMMA NextCallStages == IInv /\ [Next]_vars => CallStages'
<1> SUFFICES ASSUME TypeOK, DoneStages, CallStages, [Next]_vars PROVE CallStages'
  BY DEF IInv
<1> USE DEF TypeOK, DoneStages, CallStages, rowVars, caVars, inputVars,
      CreateGoto, LoginGoto, DeactivateGoto, Callers
<1>1. ASSUME NEW c \in Creates, CheckName(c) PROVE CallStages'
  BY <1>1 DEF CheckName
<1>2. ASSUME NEW c \in Creates, LookUp(c) PROVE CallStages'
  BY <1>2 DEF LookUp
<1>3. ASSUME NEW c \in Creates, RegisterUser(c) PROVE CallStages'
  BY <1>3 DEF RegisterUser
<1>4. ASSUME NEW c \in Creates, RegisterErrs(c) PROVE CallStages'
  BY <1>4 DEF RegisterErrs
<1>5. ASSUME NEW c \in Creates, SaveUser(c) PROVE CallStages'
  BY <1>5 DEF SaveUser, InsertUser
<1>6. ASSUME NEW c \in Creates, SaveUserErrs(c) PROVE CallStages'
  BY <1>6 DEF SaveUserErrs, InsertUser
<1>7. ASSUME NEW l \in Logins, ValidateCredentials(l) PROVE CallStages'
  BY <1>7 DEF ValidateCredentials, NoteLate
<1>8. ASSUME NEW l \in Logins, EnrollUser(l) PROVE CallStages'
  BY <1>8 DEF EnrollUser
<1>9. ASSUME NEW l \in Logins, StoreEnrolledIdentity(l) PROVE CallStages'
  BY <1>9 DEF StoreEnrolledIdentity
<1>10. ASSUME NEW l \in Logins, StoreErrs(l) PROVE CallStages'
  BY <1>10 DEF StoreErrs
<1>11. ASSUME NEW d \in Deactivations, ReadUser(d) PROVE CallStages'
  BY <1>11 DEF ReadUser
<1>12. ASSUME NEW d \in Deactivations, RevokeUser(d) PROVE CallStages'
  BY <1>12 DEF RevokeUser, RevokeAtCa
<1>13. ASSUME NEW d \in Deactivations, Wipe(d) PROVE CallStages'
  BY <1>13 DEF Wipe, WipeRow
<1>14. ASSUME NEW d \in Deactivations, WipeErrs(d) PROVE CallStages'
  BY <1>14 DEF WipeErrs, WipeRow
<1>15. ASSUME NEW q \in Requests, Arrive(q) PROVE CallStages'
  BY <1>15 DEF Arrive, NoteLate
<1>16. ASSUME NEW q \in Requests, Authorize(q) PROVE CallStages'
  BY <1>16 DEF Authorize, HasRole
<1>17. ASSUME NEW c \in Seeds, CountUsers(c) PROVE CallStages'
  BY <1>17, SeedsAssumption DEF CountUsers
<1>18. ASSUME NEW n \in Elsewhere, RegisterElsewhere(n) PROVE CallStages'
  BY <1>18, ElsewhereAssumption DEF RegisterElsewhere
<1>19. CASE Crash
  BY <1>19 DEF Crash
<1>20. CASE UNCHANGED vars
  BY <1>20 DEF vars
<1> QED
  BY <1>1, <1>2, <1>3, <1>4, <1>5, <1>6, <1>7, <1>8, <1>9,
     <1>10, <1>11, <1>12, <1>13, <1>14, <1>15, <1>16, <1>17, <1>18, <1>19, <1>20, SeedsAssumption
     DEF Next, Creating, Seeding, LoggingIn, Deactivating

(* No step frees a locked account. *)
LEMMA NextLockKept == IInv /\ [Next]_vars => LockKept
<1> SUFFICES ASSUME TypeOK, SecretStages, [Next]_vars PROVE LockKept
  BY DEF IInv
<1> USE SecretAssumption, SeedsAssumption
      DEF TypeOK, SecretStages, HasRoleAttribute, LockKept, Locked, Orphan, CaAccepts,
      getCaEnrollmentSecret,
      rowVars, caVars, inputVars,
      CreateGoto, LoginGoto, DeactivateGoto, Callers
<1>1. ASSUME NEW c \in Creates \ Seeds, CheckName(c) PROVE LockKept
  BY <1>1 DEF CheckName
<1>2. ASSUME NEW c \in Creates \ Seeds, LookUp(c) PROVE LockKept
  BY <1>2 DEF LookUp
<1>3. ASSUME NEW c \in Creates \ Seeds, RegisterUser(c) PROVE LockKept
  BY <1>3 DEF RegisterUser
<1>4. ASSUME NEW c \in Creates \ Seeds, RegisterErrs(c) PROVE LockKept
  BY <1>4 DEF RegisterErrs
<1>5. ASSUME NEW c \in Creates, SaveUser(c) PROVE LockKept
  BY <1>5 DEF SaveUser, InsertUser
<1>6. ASSUME NEW c \in Creates, SaveUserErrs(c) PROVE LockKept
  BY <1>6 DEF SaveUserErrs, InsertUser
<1>7. ASSUME NEW l \in Logins, ValidateCredentials(l) PROVE LockKept
  BY <1>7 DEF ValidateCredentials, NoteLate
<1>8. ASSUME NEW l \in Logins, EnrollUser(l) PROVE LockKept
  BY <1>8 DEF EnrollUser
<1>9. ASSUME NEW l \in Logins, StoreEnrolledIdentity(l) PROVE LockKept
  BY <1>9 DEF StoreEnrolledIdentity
<1>10. ASSUME NEW l \in Logins, StoreErrs(l) PROVE LockKept
  BY <1>10 DEF StoreErrs
<1>11. ASSUME NEW d \in Deactivations, ReadUser(d) PROVE LockKept
  BY <1>11 DEF ReadUser
<1>12. ASSUME NEW d \in Deactivations, RevokeUser(d) PROVE LockKept
  BY <1>12 DEF RevokeUser, RevokeAtCa
<1>13. ASSUME NEW d \in Deactivations, Wipe(d) PROVE LockKept
  BY <1>13 DEF Wipe, WipeRow
<1>14. ASSUME NEW d \in Deactivations, WipeErrs(d) PROVE LockKept
  BY <1>14 DEF WipeErrs, WipeRow
<1>15. ASSUME NEW q \in Requests, Arrive(q) PROVE LockKept
  BY <1>15 DEF Arrive, NoteLate
<1>16. ASSUME NEW q \in Requests, Authorize(q) PROVE LockKept
  BY <1>16 DEF Authorize, HasRole
<1>17. ASSUME NEW c \in Seeds, CountUsers(c) PROVE LockKept
  BY <1>17, SeedsAssumption DEF CountUsers
<1>18. ASSUME NEW n \in Elsewhere, RegisterElsewhere(n) PROVE LockKept
  BY <1>18, ElsewhereAssumption DEF RegisterElsewhere
<1>19. CASE Crash
  BY <1>19 DEF Crash
<1>20. CASE UNCHANGED vars
  BY <1>20 DEF vars
<1> QED
  BY <1>1, <1>2, <1>3, <1>4, <1>5, <1>6, <1>7, <1>8, <1>9,
     <1>10, <1>11, <1>12, <1>13, <1>14, <1>15, <1>16, <1>17, <1>18, <1>19, <1>20, SeedsAssumption
     DEF Next, Creating, Seeding, LoggingIn, Deactivating

(* Wiped credentials only come back from a login that began in time. *)
LEMMA NextWipeKept == IInv /\ [Next]_vars => WipeKept
<1> SUFFICES ASSUME TypeOK, LateStages, [Next]_vars PROVE WipeKept
  BY DEF IInv
<1> USE DEF TypeOK, LateStages, WipeKept, rowVars, caVars, inputVars,
      CreateGoto, LoginGoto, DeactivateGoto, Callers
<1>1. ASSUME NEW c \in Creates, CheckName(c) PROVE WipeKept
  BY <1>1 DEF CheckName
<1>2. ASSUME NEW c \in Creates, LookUp(c) PROVE WipeKept
  BY <1>2 DEF LookUp
<1>3. ASSUME NEW c \in Creates, RegisterUser(c) PROVE WipeKept
  BY <1>3 DEF RegisterUser
<1>4. ASSUME NEW c \in Creates, RegisterErrs(c) PROVE WipeKept
  BY <1>4 DEF RegisterErrs
<1>5. ASSUME NEW c \in Creates, SaveUser(c) PROVE WipeKept
  BY <1>5 DEF SaveUser, InsertUser
<1>6. ASSUME NEW c \in Creates, SaveUserErrs(c) PROVE WipeKept
  BY <1>6 DEF SaveUserErrs, InsertUser
<1>7. ASSUME NEW l \in Logins, ValidateCredentials(l) PROVE WipeKept
  BY <1>7 DEF ValidateCredentials, NoteLate
<1>8. ASSUME NEW l \in Logins, EnrollUser(l) PROVE WipeKept
  BY <1>8 DEF EnrollUser
<1>9. ASSUME NEW l \in Logins, StoreEnrolledIdentity(l) PROVE WipeKept
  BY <1>9 DEF StoreEnrolledIdentity
<1>10. ASSUME NEW l \in Logins, StoreErrs(l) PROVE WipeKept
  BY <1>10 DEF StoreErrs
<1>11. ASSUME NEW d \in Deactivations, ReadUser(d) PROVE WipeKept
  BY <1>11 DEF ReadUser
<1>12. ASSUME NEW d \in Deactivations, RevokeUser(d) PROVE WipeKept
  BY <1>12 DEF RevokeUser, RevokeAtCa
<1>13. ASSUME NEW d \in Deactivations, Wipe(d) PROVE WipeKept
  BY <1>13 DEF Wipe, WipeRow
<1>14. ASSUME NEW d \in Deactivations, WipeErrs(d) PROVE WipeKept
  BY <1>14 DEF WipeErrs, WipeRow
<1>15. ASSUME NEW q \in Requests, Arrive(q) PROVE WipeKept
  BY <1>15 DEF Arrive, NoteLate
<1>16. ASSUME NEW q \in Requests, Authorize(q) PROVE WipeKept
  BY <1>16 DEF Authorize, HasRole
<1>17. ASSUME NEW c \in Seeds, CountUsers(c) PROVE WipeKept
  BY <1>17, SeedsAssumption DEF CountUsers
<1>18. ASSUME NEW n \in Elsewhere, RegisterElsewhere(n) PROVE WipeKept
  BY <1>18, ElsewhereAssumption DEF RegisterElsewhere
<1>19. CASE Crash
  BY <1>19 DEF Crash
<1>20. CASE UNCHANGED vars
  BY <1>20 DEF vars
<1> QED
  BY <1>1, <1>2, <1>3, <1>4, <1>5, <1>6, <1>7, <1>8, <1>9,
     <1>10, <1>11, <1>12, <1>13, <1>14, <1>15, <1>16, <1>17, <1>18, <1>19, <1>20, SeedsAssumption
     DEF Next, Creating, Seeding, LoggingIn, Deactivating

-----------------------------------------------------------------------------

(* The inductive invariant holds in every state. *)
THEOREM Inductive == Spec => []IInv
<1>1. Init => IInv
  BY InitIInv
<1>2. IInv /\ [Next]_vars => IInv'
  BY NextTypeOK, NextDoneStages, NextLateStages, NextSecretStages, NextCallStages DEF IInv
<1> QED
  BY <1>1, <1>2, PTL DEF Spec

(* The variables of the accounts keep their types. *)
THEOREM Typing == Spec => []TypeOK
<1>1. IInv => TypeOK
  BY DEF IInv
<1> QED
  BY <1>1, Inductive, PTL

(* No login that begins after the answer to a deactivation is let in. *)
THEOREM LateLogins == Spec => []LateLoginsDenied
<1>1. IInv => LateLoginsDenied
  BY DEF IInv, LateStages, LateLoginsDenied
<1> QED
  BY <1>1, Inductive, PTL

(* No request that begins after the answer to a deactivation is let through. *)
THEOREM LateRequests == Spec => []LateRequestsDenied
<1>1. IInv => LateRequestsDenied
  BY DEF IInv, LateStages, LateRequestsDenied
<1> QED
  BY <1>1, Inductive, PTL

(* A user who cannot enroll with the secret in his row was seeded, or the  *)
(* name is held by somebody else, or the call that registered it saved no  *)
(* row.                                                                    *)
LEMMA PartingCause == IInv => PartingsAreExplained
<1> SUFFICES ASSUME IInv, NEW n \in Names, Locked(n),
                    stored[n] \notin Seeds, n \in Elsewhere => HasRoleAttribute(n)
             PROVE  \E c \in Creates \ Seeds :
                       /\ registered[n] = c /\ stored[n] # c
                       /\ forName[c] = n /\ cpc[c] \in {"saving", "error", "dead"}
  BY DEF PartingsAreExplained, Parted
<1>1. account[n] # "none"
  BY DEF Locked
<1>2. HasRoleAttribute(n)
  BY <1>1 DEF IInv, SecretStages, HasRoleAttribute
<1>3. registered[n] \in Creates \ Seeds /\ stored[n] # registered[n]
  BY <1>2 DEF Locked, HasRoleAttribute
<1>4. /\ forName[registered[n]] = n
      /\ cpc[registered[n]] \in {"saving", "created", "error", "dead"}
  BY <1>2 DEF IInv, SecretStages
<1>5. cpc[registered[n]] # "created"
  BY <1>3, <1>4 DEF IInv, SecretStages
<1> QED
  BY <1>3, <1>4, <1>5

(* Row and CA are only parted by those causes, in every state. *)
THEOREM PartingHasACause == Spec => []PartingsAreExplained
BY PartingCause, Inductive, PTL

(* A name that is lost, to a row that the CA does not take or to no row at *)
(* all, stays lost.                                                        *)
THEOREM LockIsPermanent == Spec => LockoutIsPermanent
<1>1. IInv /\ [Next]_vars => [LockKept]_vars
  BY NextLockKept
<1> QED
  BY <1>1, Inductive, PTL DEF Spec, LockoutIsPermanent

(* Wiped credentials only come back from a login that was already under way. *)
THEOREM WipeStays == Spec => CredentialsStayWiped
<1>1. IInv /\ [Next]_vars => [WipeKept]_vars
  BY NextWipeKept
<1> QED
  BY <1>1, Inductive, PTL DEF Spec, CredentialsStayWiped

-----------------------------------------------------------------------------
(* When what the code says does hold, and what stands behind a lockout. *)

(* Whatever is made under the name n is made by one and the same call of   *)
(* createUser().                                                           *)
CreatedOnce(n) ==
    \A c, d \in Creates : forName[c] = n /\ forName[d] = n => c = d /\ c \notin Seeds

(* Nobody changes what a call was asked. *)
LEMMA InputsStay == [Next]_vars => UNCHANGED forName
<1> USE DEF inputVars
<1>1. CASE UNCHANGED vars
  BY <1>1 DEF vars
<1>2. CASE Next
  BY <1>2 DEF Next, Creating, Seeding, LoggingIn, Deactivating, CheckName, LookUp,
     RegisterUser, RegisterErrs, SaveUser, SaveUserErrs, CountUsers, RegisterElsewhere,
     ValidateCredentials, EnrollUser, StoreEnrolledIdentity, StoreErrs, ReadUser, RevokeUser, Wipe, WipeErrs,
     Arrive, Authorize, Crash
<1> QED
  BY <1>1, <1>2

(* "Register in Fabric CA with the RANDOM secret" and store that secret is *)
(* what createUser() does for a name that only one call is ever made for,  *)
(* whatever fails and whatever becomes of other names, if the earlier API  *)
(* is not used for the name, it is not that of the CA's administrator, and *)
(* the seeder leaves it alone.                                             *)
THEOREM SecretsAgreeIfNamesAreCreatedOnce ==
  ASSUME NEW n \in Names \ Elsewhere
  PROVE  Spec /\ CreatedOnce(n) => []SecretAgrees(n)
<1>1. CreatedOnce(n) /\ [Next]_vars => CreatedOnce(n)'
  BY InputsStay DEF CreatedOnce
<1>2. CreatedOnce(n) /\ IInv => SecretAgrees(n)
  <2> SUFFICES ASSUME CreatedOnce(n), IInv, account[n] # "none"
               PROVE  stored[n] = registered[n]
    BY DEF SecretAgrees
  <2>1. stored[n] \in Creates /\ forName[stored[n]] = n
    BY DEF IInv, TypeOK, SecretStages
  <2>2. registered[n] \in Creates \ Seeds
    BY <2>1 DEF CreatedOnce, IInv, SecretStages
  <2>3. forName[registered[n]] = n
    BY <2>2 DEF IInv, SecretStages, HasRoleAttribute
  <2> QED
    BY <2>1, <2>2, <2>3 DEF CreatedOnce
<1> QED
  BY <1>1, <1>2, Inductive, PTL DEF Spec

(* No login of a user is under way while the user is being deactivated. *)
NoLoginMeanwhile ==
    \A l \in Logins, d \in Deactivations :
        forName[l] = forName[d] /\ lpc[l] \in {"valid", "enrolled"}
            => dpc[d] \notin {"revoking", "wiping"}

(* An account that is closed has nothing stored, and nobody about to store. *)
ClosedStages ==
    \A n \in Names : account[n] = "inactive" =>
        /\ creds[n] = NoCreds
        /\ \A l \in Logins : forName[l] = n => lpc[l] \notin {"valid", "enrolled"}

(* A login only passes its check while the account is open. *)
LEMMA NextClosedStages ==
    IInv /\ NoLoginMeanwhile /\ ClosedStages /\ [Next]_vars => ClosedStages'
<1> SUFFICES ASSUME TypeOK, NoLoginMeanwhile, ClosedStages, [Next]_vars PROVE ClosedStages'
  BY DEF IInv
<1> USE DEF TypeOK, NoLoginMeanwhile, ClosedStages, rowVars, caVars, inputVars,
      CreateGoto, LoginGoto, DeactivateGoto, Callers
<1>1. ASSUME NEW c \in Creates, CheckName(c) PROVE ClosedStages'
  BY <1>1 DEF CheckName
<1>2. ASSUME NEW c \in Creates, LookUp(c) PROVE ClosedStages'
  BY <1>2 DEF LookUp
<1>3. ASSUME NEW c \in Creates, RegisterUser(c) PROVE ClosedStages'
  BY <1>3 DEF RegisterUser
<1>4. ASSUME NEW c \in Creates, RegisterErrs(c) PROVE ClosedStages'
  BY <1>4 DEF RegisterErrs
<1>5. ASSUME NEW c \in Creates, SaveUser(c) PROVE ClosedStages'
  BY <1>5 DEF SaveUser, InsertUser
<1>6. ASSUME NEW c \in Creates, SaveUserErrs(c) PROVE ClosedStages'
  BY <1>6 DEF SaveUserErrs, InsertUser
<1>7. ASSUME NEW l \in Logins, ValidateCredentials(l) PROVE ClosedStages'
  BY <1>7 DEF ValidateCredentials
<1>8. ASSUME NEW l \in Logins, EnrollUser(l) PROVE ClosedStages'
  BY <1>8 DEF EnrollUser
<1>9. ASSUME NEW l \in Logins, StoreEnrolledIdentity(l) PROVE ClosedStages'
  BY <1>9 DEF StoreEnrolledIdentity
<1>10. ASSUME NEW l \in Logins, StoreErrs(l) PROVE ClosedStages'
  BY <1>10 DEF StoreErrs
<1>11. ASSUME NEW d \in Deactivations, ReadUser(d) PROVE ClosedStages'
  BY <1>11 DEF ReadUser
<1>12. ASSUME NEW d \in Deactivations, RevokeUser(d) PROVE ClosedStages'
  BY <1>12 DEF RevokeUser, RevokeAtCa
<1>13. ASSUME NEW d \in Deactivations, Wipe(d) PROVE ClosedStages'
  BY <1>13 DEF Wipe, WipeRow
<1>14. ASSUME NEW d \in Deactivations, WipeErrs(d) PROVE ClosedStages'
  BY <1>14 DEF WipeErrs, WipeRow
<1>15. ASSUME NEW q \in Requests, Arrive(q) PROVE ClosedStages'
  BY <1>15 DEF Arrive
<1>16. ASSUME NEW q \in Requests, Authorize(q) PROVE ClosedStages'
  BY <1>16 DEF Authorize
<1>17. ASSUME NEW c \in Seeds, CountUsers(c) PROVE ClosedStages'
  BY <1>17, SeedsAssumption DEF CountUsers
<1>18. ASSUME NEW n \in Elsewhere, RegisterElsewhere(n) PROVE ClosedStages'
  BY <1>18, ElsewhereAssumption DEF RegisterElsewhere
<1>19. CASE Crash
  BY <1>19 DEF Crash
<1>20. CASE UNCHANGED vars
  BY <1>20 DEF vars
<1> QED
  BY <1>1, <1>2, <1>3, <1>4, <1>5, <1>6, <1>7, <1>8, <1>9,
     <1>10, <1>11, <1>12, <1>13, <1>14, <1>15, <1>16, <1>17, <1>18, <1>19, <1>20, SeedsAssumption
     DEF Next, Creating, Seeding, LoggingIn, Deactivating

(* "Wipe stored credentials from DB" is true as long as no login of the    *)
(* user is between its check and its last write while the user is being    *)
(* deactivated: a condition on the status in that write would do.          *)
THEOREM WipedIfNoLoginMeanwhile == Spec /\ []NoLoginMeanwhile => []InactiveHasNoCredentials
<1>1. Init => ClosedStages
  BY DEF Init, ClosedStages
<1>2. ClosedStages => InactiveHasNoCredentials
  BY DEF ClosedStages, InactiveHasNoCredentials
<1> QED
  BY <1>1, <1>2, NextClosedStages, Inductive, PTL DEF Spec

(* A deactivation has told the CA, and may have been cut short after that. *)
RevokedStages ==
    \A n \in Names : revoked[n] =>
        \E d \in Deactivations : forName[d] = n /\ dpc[d] \in {"wiping", "done", "dbError", "dead"}

(* Nothing but a deactivation has the CA revoke a user. *)
LEMMA NextRevokedStages == IInv /\ RevokedStages /\ [Next]_vars => RevokedStages'
<1> SUFFICES ASSUME TypeOK, RevokedStages, [Next]_vars PROVE RevokedStages'
  BY DEF IInv
<1> USE DEF TypeOK, RevokedStages, rowVars, caVars, inputVars,
      CreateGoto, LoginGoto, DeactivateGoto, Callers
<1>1. ASSUME NEW c \in Creates, CheckName(c) PROVE RevokedStages'
  BY <1>1 DEF CheckName
<1>2. ASSUME NEW c \in Creates, LookUp(c) PROVE RevokedStages'
  BY <1>2 DEF LookUp
<1>3. ASSUME NEW c \in Creates, RegisterUser(c) PROVE RevokedStages'
  BY <1>3 DEF RegisterUser
<1>4. ASSUME NEW c \in Creates, RegisterErrs(c) PROVE RevokedStages'
  BY <1>4 DEF RegisterErrs
<1>5. ASSUME NEW c \in Creates, SaveUser(c) PROVE RevokedStages'
  BY <1>5 DEF SaveUser, InsertUser
<1>6. ASSUME NEW c \in Creates, SaveUserErrs(c) PROVE RevokedStages'
  BY <1>6 DEF SaveUserErrs, InsertUser
<1>7. ASSUME NEW l \in Logins, ValidateCredentials(l) PROVE RevokedStages'
  BY <1>7 DEF ValidateCredentials
<1>8. ASSUME NEW l \in Logins, EnrollUser(l) PROVE RevokedStages'
  BY <1>8 DEF EnrollUser
<1>9. ASSUME NEW l \in Logins, StoreEnrolledIdentity(l) PROVE RevokedStages'
  BY <1>9 DEF StoreEnrolledIdentity
<1>10. ASSUME NEW l \in Logins, StoreErrs(l) PROVE RevokedStages'
  BY <1>10 DEF StoreErrs
<1>11. ASSUME NEW d \in Deactivations, ReadUser(d) PROVE RevokedStages'
  BY <1>11 DEF ReadUser
<1>12. ASSUME NEW d \in Deactivations, RevokeUser(d) PROVE RevokedStages'
  BY <1>12 DEF RevokeUser, RevokeAtCa
<1>13. ASSUME NEW d \in Deactivations, Wipe(d) PROVE RevokedStages'
  BY <1>13 DEF Wipe, WipeRow
<1>14. ASSUME NEW d \in Deactivations, WipeErrs(d) PROVE RevokedStages'
  BY <1>14 DEF WipeErrs, WipeRow
<1>15. ASSUME NEW q \in Requests, Arrive(q) PROVE RevokedStages'
  BY <1>15 DEF Arrive
<1>16. ASSUME NEW q \in Requests, Authorize(q) PROVE RevokedStages'
  BY <1>16 DEF Authorize
<1>17. ASSUME NEW c \in Seeds, CountUsers(c) PROVE RevokedStages'
  BY <1>17, SeedsAssumption DEF CountUsers
<1>18. ASSUME NEW n \in Elsewhere, RegisterElsewhere(n) PROVE RevokedStages'
  BY <1>18, ElsewhereAssumption DEF RegisterElsewhere
<1>19. CASE Crash
  BY <1>19 DEF Crash
<1>20. CASE UNCHANGED vars
  BY <1>20 DEF vars
<1> QED
  BY <1>1, <1>2, <1>3, <1>4, <1>5, <1>6, <1>7, <1>8, <1>9,
     <1>10, <1>11, <1>12, <1>13, <1>14, <1>15, <1>16, <1>17, <1>18, <1>19, <1>20, SeedsAssumption
     DEF Next, Creating, Seeding, LoggingIn, Deactivating

(* An active account that cannot log in was parted from the CA, or is half *)
(* deactivated.                                                            *)
THEOREM LockoutHasACause == Spec => []LockoutIsExplained
<1>1. Init => RevokedStages
  BY DEF Init, RevokedStages
<1>2. IInv /\ RevokedStages => LockoutIsExplained
  <2> SUFFICES ASSUME IInv, RevokedStages,
                      NEW n \in Names, account[n] = "active", ~CaAccepts(n), ~Parted(n)
               PROVE  \E d \in Deactivations :
                         forName[d] = n /\ dpc[d] \in {"wiping", "dbError", "dead"}
    BY DEF LockoutIsExplained
  <2>1. ~Locked(n)
    BY PartingCause DEF PartingsAreExplained
  <2>2. revoked[n]
    BY <2>1 DEF Locked, CaAccepts, getCaEnrollmentSecret
  <2> QED
    BY <2>2 DEF RevokedStages, IInv, DoneStages
<1> QED
  BY <1>1, <1>2, NextRevokedStages, Inductive, PTL DEF Spec

===============================================================================
