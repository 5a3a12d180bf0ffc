------------------------------- MODULE Identity -------------------------------
(***************************************************************************)
(* Accounts: UsersService, AuthService, JwtStrategy and FabricCaService    *)
(* over the table "users" and the Fabric certificate authority, which is   *)
(* not in the repository and is modelled from the calls made to it.        *)
(*                                                                         *)
(* Creating, logging in and deactivating are three handlers that read the  *)
(* table, await the CA and write the table, and nothing holds an account   *)
(* still in between.  Each action is what runs between two awaits; what    *)
(* never changes once it is written (a row's role and CA secret) is read   *)
(* with the step that uses it.                                             *)
(***************************************************************************)
CONSTANTS
    Names,          \* usernames, which are also the CA enrollment ids
    Creates,        \* createUser() calls and seeds; each has a random CA secret
    Seeds,          \* those of them that are runs of the seeder
    Logins,         \* login() calls
    Deactivations,  \* deactivateUser() calls
    Requests,       \* requests with the token of a login
    Elsewhere,      \* names that others may have registered at the same CA: the
                    \* earlier API does so, and the CA's administrator is known
    Foreign,        \* the secret of such an identity
    NoSecret,       \* the secret of a name that is not there
    NoCreds,        \* encryptedCert and encryptedPrivateKey are null
    CaMayFail,      \* whether calls to the CA can fail
    MayFail         \* whether the database and the process can fail

ASSUME SeedsAssumption == Seeds \subseteq Creates
ASSUME LateAssumption == Logins \cap Requests = {}
ASSUME ElsewhereAssumption == Elsewhere \subseteq Names
ASSUME SecretAssumption == NoSecret # Foreign /\ {NoSecret, Foreign} \cap Creates = {}
ASSUME CredsAssumption == NoCreds \notin Logins
ASSUME SwitchAssumption == {CaMayFail, MayFail} \subseteq BOOLEAN

VARIABLES
    account,     \* DB: status of the row with this username, or "none"
    role,        \* DB: its role
    stored,      \* DB: encryptedCaSecret
    creds,       \* DB: encryptedCert and key, named by the login that enrolled
    registered,  \* CA: enrollment secret of the identity
    revoked,     \* CA: whether the identity is revoked
    forName,     \* the username each call and login is about
    asRole,      \* the role of the account each of Creates is to create
    cpc, lpc, dpc, qpc,   \* where each call is
    late         \* history: logins and requests that began once a
                 \* deactivation of their account had been answered

rowVars == <<account, role, stored, creds>>
caVars == <<registered, revoked>>
inputVars == <<forName, asRole>>
vars == <<rowVars, caVars, inputVars, cpc, lpc, dpc, qpc, late>>

Roles == {"superadmin", "issuer"}
Callers == Creates \cup Logins \cup Deactivations \cup Requests

TypeOK ==
    /\ account \in [Names -> {"none", "active", "inactive"}]
    /\ role \in [Names -> Roles]
    /\ stored \in [Names -> Creates \cup {NoSecret}]
    /\ creds \in [Names -> Logins \cup {NoCreds}]
    /\ registered \in [Names -> Creates \cup {NoSecret, Foreign}]
    /\ revoked \in [Names -> BOOLEAN]
    /\ forName \in [Callers -> Names]
    /\ asRole \in [Creates -> Roles]
    /\ cpc \in [Creates -> {"idle", "checked", "registering", "saving",
                            "created", "conflict", "error", "dead"}]
    /\ lpc \in [Logins -> {"idle", "valid", "enrolled", "in", "denied", "dead"}]
    /\ dpc \in [Deactivations -> {"idle", "revoking", "wiping",
                                  "done", "refused", "caError", "dbError", "dead"}]
    /\ qpc \in [Requests -> {"idle", "arrived", "allowed", "denied", "dead"}]
    /\ late \in SUBSET (Logins \cup Requests)

Init ==
    /\ account = [n \in Names |-> "none"]
    /\ role = [n \in Names |-> "issuer"]
    /\ stored = [n \in Names |-> NoSecret]
    /\ creds = [n \in Names |-> NoCreds]
    /\ registered \in {f \in [Names -> {NoSecret, Foreign}] :
                         \A n \in Names \ Elsewhere : f[n] = NoSecret}
    /\ revoked = [n \in Names |-> FALSE]
    /\ forName \in [Callers -> Names]
    /\ asRole \in {f \in [Creates -> Roles] : \A c \in Seeds : f[c] = "superadmin"}
    /\ cpc = [c \in Creates |-> "idle"]
    /\ lpc = [l \in Logins |-> "idle"]
    /\ dpc = [d \in Deactivations |-> "idle"]
    /\ qpc = [q \in Requests |-> "idle"]
    /\ late = {}

-----------------------------------------------------------------------------
(* createUser() *)

CreateGoto(c, l) == cpc' = [cpc EXCEPT ![c] = l]

CheckName(c) ==
    /\ cpc[c] = "idle"
    /\ \/ CreateGoto(c, IF account[forName[c]] = "none" THEN "checked" ELSE "conflict")
       \/ MayFail /\ CreateGoto(c, "error")
    /\ UNCHANGED <<rowVars, caVars, inputVars, lpc, dpc, qpc, late>>

(* isRegistered() takes any error of the CA for "no". *)
LookUp(c) ==
    /\ cpc[c] = "checked"
    /\ \/ registered[forName[c]] # NoSecret /\ CreateGoto(c, "saving")
       \/ /\ registered[forName[c]] = NoSecret \/ CaMayFail
          /\ CreateGoto(c, "registering")
    /\ UNCHANGED <<rowVars, caVars, inputVars, lpc, dpc, qpc, late>>

(* Defect: the identity is registered with another secret than the row's. *)
DefectRegisterOtherSecret(c) ==
    /\ cpc[c] = "registering"
    /\ registered[forName[c]] = NoSecret
    /\ \E other \in Creates \ {c} :
          registered' = [registered EXCEPT ![forName[c]] = other]
    /\ CreateGoto(c, "saving")
    /\ UNCHANGED <<rowVars, revoked, inputVars, lpc, dpc, qpc, late>>

(* The CA registers a name once and never changes its secret. *)
RegisterUser(c) ==
    /\ cpc[c] = "registering"
    /\ registered[forName[c]] = NoSecret
    /\ registered' = [registered EXCEPT ![forName[c]] = c]
    /\ CreateGoto(c, "saving")
    /\ UNCHANGED <<rowVars, revoked, inputVars, lpc, dpc, qpc, late>>

(* The name is taken, or the call fails before or after it took effect. *)
RegisterErrs(c) ==
    /\ cpc[c] = "registering"
    /\ \/ registered[forName[c]] # NoSecret /\ UNCHANGED registered
       \/ CaMayFail /\ UNCHANGED registered
       \/ /\ CaMayFail /\ registered[forName[c]] = NoSecret
          /\ registered' = [registered EXCEPT ![forName[c]] = c]
    /\ CreateGoto(c, "error")
    /\ UNCHANGED <<rowVars, revoked, inputVars, lpc, dpc, qpc, late>>

InsertUser(c) ==
    LET n == forName[c]
    IN /\ account[n] = "none"
       /\ account' = [account EXCEPT ![n] = "active"]
       /\ role' = [role EXCEPT ![n] = asRole[c]]
       /\ stored' = [stored EXCEPT ![n] = c]
       /\ UNCHANGED creds

(* Defect: the row is written over a row of the same name. *)
DefectUpsert(c) ==
    /\ cpc[c] = "saving"
    /\ account' = [account EXCEPT ![forName[c]] = "active"]
    /\ role' = [role EXCEPT ![forName[c]] = asRole[c]]
    /\ stored' = [stored EXCEPT ![forName[c]] = c]
    /\ CreateGoto(c, "created")
    /\ UNCHANGED <<creds, caVars, inputVars, lpc, dpc, qpc, late>>

SaveUser(c) ==
    /\ cpc[c] = "saving"
    /\ InsertUser(c)
    /\ CreateGoto(c, "created")
    /\ UNCHANGED <<caVars, inputVars, lpc, dpc, qpc, late>>

(* The unique username, or the database fails before or after its commit. *)
SaveUserErrs(c) ==
    /\ cpc[c] = "saving"
    /\ \/ account[forName[c]] # "none" /\ UNCHANGED rowVars
       \/ MayFail /\ (InsertUser(c) \/ UNCHANGED rowVars)
    /\ CreateGoto(c, "error")
    /\ UNCHANGED <<caVars, inputVars, lpc, dpc, qpc, late>>

-----------------------------------------------------------------------------
(* The seeder is a process of its own, that somebody runs by hand. *)

(* It goes on only if there is no account at all, and then inserts one     *)
(* with a secret that it prints and tells nobody else, the CA included.    *)
CountUsers(c) ==
    /\ cpc[c] = "idle"
    /\ \/ CreateGoto(c, IF \A n \in Names : account[n] = "none" THEN "saving" ELSE "conflict")
       \/ MayFail /\ CreateGoto(c, "error")
    /\ UNCHANGED <<rowVars, caVars, inputVars, lpc, dpc, qpc, late>>

-----------------------------------------------------------------------------
(* The earlier API: POST /api/users, which has no guard, registers at the  *)
(* same CA and leaves the table "users" alone.                             *)

(* The secret is the client's: one of his own, or one the seeder printed.  *)
RegisterElsewhere(n) ==
    /\ registered[n] = NoSecret
    /\ \E s \in {Foreign} \cup {c \in Seeds : cpc[c] = "created"} :
          registered' = [registered EXCEPT ![n] = s]
    /\ UNCHANGED <<rowVars, revoked, inputVars, cpc, lpc, dpc, qpc, late>>

-----------------------------------------------------------------------------
(* login() *)

LoginGoto(l, s) == lpc' = [lpc EXCEPT ![l] = s]

(* The account of n has been deactivated and the caller was told so. *)
KnownInactive(n) == \E d \in Deactivations : dpc[d] = "done" /\ forName[d] = n

NoteLate(x) ==
    late' = IF KnownInactive(forName[x]) THEN late \cup {x} ELSE late

(* Defect: the status of the row is not looked at. *)
DefectPasswordOnly(l) ==
    /\ lpc[l] = "idle"
    /\ NoteLate(l)
    /\ LoginGoto(l, IF account[forName[l]] # "none" THEN "valid" ELSE "denied")
    /\ UNCHANGED <<rowVars, caVars, inputVars, cpc, dpc, qpc>>

(* validateCredentials(); the password may also be wrong. *)
ValidateCredentials(l) ==
    /\ lpc[l] = "idle"
    /\ NoteLate(l)
    /\ \/ account[forName[l]] = "active" /\ LoginGoto(l, "valid")
       \/ LoginGoto(l, "denied")
    /\ UNCHANGED <<rowVars, caVars, inputVars, cpc, dpc, qpc>>

getCaEnrollmentSecret(n) == stored[n]

(* Only registerUser() gives an identity the attribute "role", which       *)
(* enrollUser() has the CA put into the certificate or refuse.             *)
HasRoleAttribute(n) == registered[n] \in Creates \ Seeds

(* The identity is registered without a limit to its enrollments. *)
CaAccepts(n) ==
    /\ registered[n] = getCaEnrollmentSecret(n)
    /\ HasRoleAttribute(n)
    /\ ~revoked[n]

(* An error of the database or the CA ends the login. *)
EnrollUser(l) ==
    /\ lpc[l] = "valid"
    /\ \/ CaAccepts(forName[l]) /\ LoginGoto(l, "enrolled")
       \/ (~CaAccepts(forName[l]) \/ CaMayFail \/ MayFail) /\ LoginGoto(l, "denied")
    /\ UNCHANGED <<rowVars, caVars, inputVars, cpc, dpc, qpc, late>>

(* storeEnrolledIdentity() updates the row by id, whatever its status, and *)
(* the token is signed.                                                    *)
StoreEnrolledIdentity(l) ==
    /\ lpc[l] = "enrolled"
    /\ creds' = [creds EXCEPT ![forName[l]] = l]
    /\ LoginGoto(l, "in")
    /\ UNCHANGED <<account, role, stored, caVars, inputVars, cpc, dpc, qpc, late>>

StoreErrs(l) ==
    /\ MayFail
    /\ lpc[l] = "enrolled"
    /\ creds' \in {creds, [creds EXCEPT ![forName[l]] = l]}
    /\ LoginGoto(l, "denied")
    /\ UNCHANGED <<account, role, stored, caVars, inputVars, cpc, dpc, qpc, late>>

-----------------------------------------------------------------------------
(* deactivateUser() *)

DeactivateGoto(d, s) == dpc' = [dpc EXCEPT ![d] = s]

(* Defect: a superadmin is deactivated like anybody else. *)
DefectAnyRole(d) ==
    /\ dpc[d] = "idle"
    /\ \/ account[forName[d]] = "active" /\ DeactivateGoto(d, "revoking")
       \/ account[forName[d]] # "active" /\ DeactivateGoto(d, "refused")
       \/ MayFail /\ DeactivateGoto(d, "dbError")
    /\ UNCHANGED <<rowVars, caVars, inputVars, cpc, lpc, qpc, late>>

(* Defect: the CA is asked before the row is looked at. *)
DefectRevokeFirst(d) ==
    /\ dpc[d] = "idle"
    /\ revoked' = [revoked EXCEPT ![forName[d]] = TRUE]
    /\ DeactivateGoto(d, IF account[forName[d]] = "active" /\ role[forName[d]] # "superadmin"
                         THEN "wiping" ELSE "refused")
    /\ UNCHANGED <<rowVars, registered, inputVars, cpc, lpc, qpc, late>>

(* The controller passes on req.user.username, which only a guard sets. *)
ReadUser(d) ==
    /\ dpc[d] = "idle"
    /\ \/ /\ account[forName[d]] = "active" /\ role[forName[d]] # "superadmin"
          /\ DeactivateGoto(d, "revoking")
       \/ /\ account[forName[d]] # "active" \/ role[forName[d]] = "superadmin"
          /\ DeactivateGoto(d, "refused")
       \/ MayFail /\ DeactivateGoto(d, "dbError")
    /\ UNCHANGED <<rowVars, caVars, inputVars, cpc, lpc, qpc, late>>

(* Defect: an error of the CA ends the call. *)
DefectCaErrorThrown(d) ==
    /\ dpc[d] = "revoking"
    /\ \/ /\ revoked' = [revoked EXCEPT ![forName[d]] = TRUE]
          /\ DeactivateGoto(d, "wiping")
       \/ CaMayFail /\ UNCHANGED revoked /\ DeactivateGoto(d, "caError")
    /\ UNCHANGED <<rowVars, registered, inputVars, cpc, lpc, qpc, late>>

RevokeAtCa(n) == revoked' = [revoked EXCEPT ![n] = TRUE]

(* An error of the CA is logged and swallowed. *)
RevokeUser(d) ==
    /\ dpc[d] = "revoking"
    /\ \/ RevokeAtCa(forName[d])
       \/ CaMayFail /\ UNCHANGED revoked
    /\ DeactivateGoto(d, "wiping")
    /\ UNCHANGED <<rowVars, registered, inputVars, cpc, lpc, qpc, late>>

WipeRow(d) ==
    /\ account' = [account EXCEPT ![forName[d]] = "inactive"]
    /\ creds' = [creds EXCEPT ![forName[d]] = NoCreds]
    /\ UNCHANGED <<role, stored>>

Wipe(d) ==
    /\ dpc[d] = "wiping"
    /\ WipeRow(d)
    /\ DeactivateGoto(d, "done")
    /\ UNCHANGED <<caVars, inputVars, cpc, lpc, qpc, late>>

WipeErrs(d) ==
    /\ MayFail
    /\ dpc[d] = "wiping"
    /\ WipeRow(d) \/ UNCHANGED rowVars
    /\ DeactivateGoto(d, "dbError")
    /\ UNCHANGED <<caVars, inputVars, cpc, lpc, qpc, late>>

-----------------------------------------------------------------------------
(* JwtStrategy.validate() and RolesGuard *)

(* A request arrives with the token of a login that succeeded. *)
Arrive(q) ==
    /\ qpc[q] = "idle"
    /\ \E l \in Logins : lpc[l] = "in" /\ forName[l] = forName[q]
    /\ NoteLate(q)
    /\ qpc' = [qpc EXCEPT ![q] = "arrived"]
    /\ UNCHANGED <<rowVars, caVars, inputVars, cpc, lpc, dpc>>

(* Defect: a token with a good signature is enough. *)
DefectTrustToken(q) ==
    /\ qpc[q] = "arrived"
    /\ qpc' = [qpc EXCEPT ![q] = "allowed"]
    /\ UNCHANGED <<rowVars, caVars, inputVars, cpc, lpc, dpc, late>>

(* RolesGuard asks for the role in the token, which login() took from the  *)
(* row; a route that names no role is open to every user.                  *)
HasRole(n, required) == required = {} \/ role[n] \in required

(* The user's row is read again for every request; an error denies it too. *)
Authorize(q) ==
    LET n == forName[q]
    IN /\ qpc[q] = "arrived"
       /\ \E required \in {{}, {"superadmin"}} :
             \/ /\ account[n] = "active" /\ HasRole(n, required)
                /\ qpc' = [qpc EXCEPT ![q] = "allowed"]
             \/ /\ account[n] # "active" \/ ~HasRole(n, required) \/ MayFail
                /\ qpc' = [qpc EXCEPT ![q] = "denied"]
    /\ UNCHANGED <<rowVars, caVars, inputVars, cpc, lpc, dpc, late>>

-----------------------------------------------------------------------------

(* The process dies with the calls it was serving. *)
Crash ==
    /\ MayFail
    /\ cpc' = [c \in Creates |->
                 IF c \notin Seeds /\ cpc[c] \in {"checked", "registering", "saving"}
                 THEN "dead" ELSE cpc[c]]
    /\ lpc' = [l \in Logins |-> IF lpc[l] \in {"valid", "enrolled"}
                                THEN "dead" ELSE lpc[l]]
    /\ dpc' = [d \in Deactivations |-> IF dpc[d] \in {"revoking", "wiping"}
                                       THEN "dead" ELSE dpc[d]]
    /\ qpc' = [q \in Requests |-> IF qpc[q] = "arrived" THEN "dead" ELSE qpc[q]]
    /\ <<cpc, lpc, dpc, qpc>>' # <<cpc, lpc, dpc, qpc>>
    /\ UNCHANGED <<rowVars, caVars, inputVars, late>>

Creating(c) ==
    \/ CheckName(c) \/ LookUp(c) \/ RegisterUser(c) \/ RegisterErrs(c)
    \/ SaveUser(c) \/ SaveUserErrs(c)

Seeding(c) == CountUsers(c) \/ SaveUser(c) \/ SaveUserErrs(c)

LoggingIn(l) ==
    \/ ValidateCredentials(l) \/ EnrollUser(l)
    \/ StoreEnrolledIdentity(l) \/ StoreErrs(l)

Deactivating(d) == ReadUser(d) \/ RevokeUser(d) \/ Wipe(d) \/ WipeErrs(d)

Next ==
    \/ \E c \in Creates \ Seeds : Creating(c)
    \/ \E c \in Seeds : Seeding(c)
    \/ \E n \in Elsewhere : RegisterElsewhere(n)
    \/ \E l \in Logins : LoggingIn(l)
    \/ \E d \in Deactivations : Deactivating(d)
    \/ \E q \in Requests : Arrive(q) \/ Authorize(q)
    \/ Crash

Spec == Init /\ [][Next]_vars

(* The event loop runs a deactivation that has begun to its end. *)
Fairness ==
    \A d \in Deactivations : WF_vars(dpc[d] # "idle" /\ Deactivating(d))

FairSpec == Spec /\ Fairness

-----------------------------------------------------------------------------

(* The CA will not enroll the user of a row with the secret in it.         *)
Locked(n) ==
    account[n] # "none" /\ ~(stored[n] = registered[n] /\ HasRoleAttribute(n))

(* What can part a row and the CA: the account was seeded, somebody else   *)
(* registered its name, or a createUser() call for it registered its own   *)
(* secret and has no row, so that another call's row is there.             *)
Parted(n) ==
    \/ stored[n] \in Seeds
    \/ n \in Elsewhere /\ ~HasRoleAttribute(n)
    \/ \E c \in Creates \ Seeds :
          /\ registered[n] = c /\ stored[n] # c
          /\ forName[c] = n /\ cpc[c] \in {"saving", "error", "dead"}

(* "Register in Fabric CA with the RANDOM secret" and store it: through    *)
(* every failure and interleaving the user can enroll with the secret in   *)
(* the row, but for those three causes.  A createUser() that is answered   *)
(* well alone is none: if it registered the name, it locks nobody out.     *)
PartingsAreExplained == \A n \in Names : Locked(n) => Parted(n)

(* A name that the CA knows, while no account has it and no call is about  *)
(* to save one with the secret that the CA knows.                          *)
Orphan(n) ==
    /\ account[n] = "none" /\ registered[n] # NoSecret
    /\ \A c \in Creates \ Seeds : registered[n] = c => cpc[c] # "saving"

(* Once a creation fails between the CA and the table, or others hold the  *)
(* name at the CA, no later call makes an account of that name that can    *)
(* log in; nor does anything mend one that cannot, whatever parted it from *)
(* the CA.                                                                 *)
LockKept ==
    \A n \in Names : Locked(n) \/ Orphan(n) =>
        /\ (Locked(n) \/ Orphan(n))'
        /\ \A l \in Logins :
              forName[l] = n /\ lpc'[l] = "enrolled" => lpc[l] = "enrolled"

LockoutIsPermanent == [][LockKept]_vars

(* An account that is active can log in, unless its row and the CA were    *)
(* parted as above, or its deactivation has reached the CA and not, or     *)
(* never, the database.                                                    *)
LockoutIsExplained ==
    \A n \in Names :
        account[n] = "active" /\ ~CaAccepts(n) =>
            \/ Parted(n)
            \/ \E d \in Deactivations : forName[d] = n /\ dpc[d] \in {"wiping", "dbError", "dead"}

(* Once a deactivation has been answered no login that begins later gets   *)
(* as far as the CA, even if the CA never heard of the revocation.         *)
LateLoginsDenied ==
    \A l \in Logins : l \in late => lpc[l] = "denied"

(* Nor is a request with an older token let through: "deactivated users    *)
(* can't keep using old JWTs".                                             *)
LateRequestsDenied ==
    \A q \in Requests : q \in late => qpc[q] \in {"arrived", "denied", "dead"}

(* The credentials that deactivateUser() wiped come back only from a login *)
(* that had passed its check before the deactivation was answered.         *)
WipeKept ==
    \A n \in Names :
        account[n] = "inactive" /\ creds[n] = NoCreds /\ creds'[n] # NoCreds =>
            \E l \in Logins : forName[l] = n /\ lpc[l] = "enrolled" /\ l \notin late

CredentialsStayWiped == [][WipeKept]_vars

(* "Log but don't block - still deactivate in DB": once the CA is being    *)
(* asked, the account ends up inactive, whatever the CA answers, unless    *)
(* the database fails or the process dies.                                 *)
DeactivationTakesEffect ==
    \A d \in Deactivations :
        dpc[d] = "revoking" ~>
            account[forName[d]] = "inactive" \/ dpc[d] \in {"dbError", "dead"}

-----------------------------------------------------------------------------
(* The inductive invariant behind the safety properties. *)

(* A deactivation under way is of an account that is there, and one that   *)
(* has been answered has made it inactive.                                 *)
DoneStages ==
    \A d \in Deactivations :
        /\ dpc[d] \in {"revoking", "wiping"} => account[forName[d]] # "none"
        /\ dpc[d] = "done" => account[forName[d]] = "inactive"

(* What began after that has been or will be refused. *)
LateStages ==
    /\ \A l \in Logins : l \in late => lpc[l] = "denied"
    /\ \A q \in Requests : q \in late =>
          /\ account[forName[q]] = "inactive"
          /\ qpc[q] \in {"arrived", "denied", "dead"}

(* A secret, in a row or at the CA, is that of a call for its name, but    *)
(* for one that came to the CA from elsewhere.  The CA knows a name before *)
(* its row is saved, unless the seeder saves it.                           *)
SecretStages ==
    /\ \A n \in Names :
          /\ HasRoleAttribute(n) =>
                /\ forName[registered[n]] = n
                /\ cpc[registered[n]] \in {"saving", "created", "error", "dead"}
          /\ n \notin Elsewhere => registered[n] \in (Creates \ Seeds) \cup {NoSecret}
          /\ account[n] = "none" <=> stored[n] = NoSecret
          /\ account[n] # "none" =>
                /\ forName[stored[n]] = n
                /\ registered[n] # NoSecret \/ stored[n] \in Seeds
    /\ \A c \in Creates :
          /\ cpc[c] = "created" => stored[forName[c]] = c
          /\ cpc[c] = "saving" => registered[forName[c]] # NoSecret \/ c \in Seeds

(* A deactivation under way is of no superadmin, and a request under way   *)
(* has the token of a login.                                               *)
CallStages ==
    /\ \A d \in Deactivations :
          dpc[d] \in {"revoking", "wiping"} => role[forName[d]] # "superadmin"
    /\ \A q \in Requests :
          qpc[q] = "arrived" => \E l \in Logins : lpc[l] = "in" /\ forName[l] = forName[q]

IInv == TypeOK /\ DoneStages /\ LateStages /\ SecretStages /\ CallStages

-----------------------------------------------------------------------------
(* What a caller sees of it is an AccountRegister. *)

Standing(n) ==
    CASE account[n] = "none" -> "none"
      [] account[n] = "active" -> role[n]
      [] account[n] = "inactive" -> "closed"

LoginPlace(l) ==
    CASE lpc[l] = "idle" -> "outside"
      [] lpc[l] \in {"valid", "enrolled"} -> "entitled"
      [] lpc[l] = "in" -> "inside"
      [] lpc[l] \in {"denied", "dead"} -> "refused"

RequestPlace(q) ==
    CASE qpc[q] \in {"idle", "arrived"} -> "outside"
      [] qpc[q] = "allowed" -> "inside"
      [] qpc[q] \in {"denied", "dead"} -> "refused"

Accounts == INSTANCE AccountRegister WITH
    of <- [x \in Logins \cup Requests |-> forName[x]],
    standing <- [n \in Names |-> Standing(n)],
    told <- {n \in Names : KnownInactive(n)},
    place <- [x \in Logins \cup Requests |->
                 IF x \in Logins THEN LoginPlace(x) ELSE RequestPlace(x)]

(* Through interleavings, failures and crashes accounts are opened once    *)
(* and closed for good, no superadmin's is closed, and nobody gets in but  *)
(* by an account that was open when the caller was looked at.              *)
ImplementsAccounts == Accounts!Spec

-----------------------------------------------------------------------------
(* What the code says and does not keep. *)

(* "Wipe stored credentials from DB": an inactive account has none. *)
InactiveHasNoCredentials ==
    \A n \in Names : account[n] = "inactive" => creds[n] = NoCreds

(* "Register in Fabric CA with the RANDOM secret" and store it: the secret *)
(* of every account is the one that login will enroll with.                *)
SecretAgrees(n) == account[n] # "none" => stored[n] = registered[n]

StoredSecretIsRegistered == \A n \in Names : SecretAgrees(n)

=============================================================================
