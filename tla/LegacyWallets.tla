---------------------------- MODULE LegacyWallets ----------------------------
(***************************************************************************)
(* Users of the earlier asset API: FabricCaService.registerAndEnrollUser() *)
(* of fabrics-old, which the application still serves.  A user is an       *)
(* identity of the CA and a directory on disk, his wallet, that the call   *)
(* fills after two awaits with four calls to the file system.  Those run   *)
(* without an await, but any of them can fail and the process can die      *)
(* between them; a file cut off in the middle counts as not written, since *)
(* whoever reads it fails the same way.                                    *)
(***************************************************************************)
EXTENDS Startup

CONSTANTS
    Names,          \* usernames
    Registrations,  \* registerAndEnrollUser() calls
    Secrets,        \* the secrets that clients send
    Elsewhere,      \* names that others may have registered at the same CA: the
                    \* users API does so, and the CA's administrator is known
    Foreign,        \* the secret of such an identity
    NoSecret,       \* the CA's secret of a name it does not know
    NoOne           \* the writer of a file that is not there

ASSUME ElsewhereAssumption == Elsewhere \subseteq Names
ASSUME SecretAssumption == NoSecret # Foreign /\ {NoSecret, Foreign} \cap Secrets = {}
ASSUME NoOneAssumption == NoOne \notin Registrations

VARIABLES
    taken,     \* CA: the secret a name was registered with
    dirs,      \* disk: how many of msp/signcerts and msp/keystore are there
    cert, key, \* disk: the call that wrote signcerts/cert.pem, keystore/private.key
    forName, secret,  \* the body of each call
    wpc        \* where each call is

diskVars == <<dirs, cert, key>>
walletVars == <<taken, diskVars, forName, secret, wpc>>

Writers == Registrations \cup {NoOne}
Enrolling == {"registering", "enrolling"}
Registered == {"added", "exists", "error", "dead"}

WalletTypeOK ==
    /\ taken \in [Names -> Secrets \cup {NoSecret, Foreign}]
    /\ dirs \in [Names -> 0..2]
    /\ cert \in [Names -> Writers]
    /\ key \in [Names -> Writers]
    /\ forName \in [Registrations -> Names]
    /\ secret \in [Registrations -> Secrets]
    /\ wpc \in [Registrations -> {"idle"} \cup Enrolling \cup Registered]

WalletInit ==
    /\ taken \in {f \in [Names -> {NoSecret, Foreign}] :
                    \A n \in Names \ Elsewhere : f[n] = NoSecret}
    /\ dirs = [n \in Names |-> 0]
    /\ cert = [n \in Names |-> NoOne]
    /\ key = [n \in Names |-> NoOne]
    /\ forName \in [Registrations -> Names]
    /\ secret \in [Registrations -> Secrets]
    /\ wpc = [r \in Registrations |-> "idle"]

WalletGoto(r, l) == wpc' = [wpc EXCEPT ![r] = l]

(* onModuleInit() enrolled the admin since the process began. *)
caReady == "legacyCa" \in ready

(* existsSync() asks for the directory, not for what should be in it. *)
CheckLocal(r) ==
    /\ phase = "serving"
    /\ wpc[r] = "idle"
    /\ \/ dirs[forName[r]] > 0 /\ WalletGoto(r, "exists")
       \/ dirs[forName[r]] = 0 /\ caReady /\ WalletGoto(r, "registering")
       \/ dirs[forName[r]] = 0 /\ ~caReady /\ WalletGoto(r, "error")
    /\ UNCHANGED <<startVars, taken, diskVars, forName, secret>>

Take(r) ==
    /\ taken[forName[r]] = NoSecret
    /\ taken' = [taken EXCEPT ![forName[r]] = secret[r]]

(* Defect: a name that the CA knows is enrolled without being registered. *)
DefectSkipRegistered(r) ==
    /\ wpc[r] = "registering"
    /\ \/ Take(r)
       \/ taken[forName[r]] # NoSecret /\ UNCHANGED taken
    /\ WalletGoto(r, "enrolling")
    /\ UNCHANGED <<startVars, diskVars, forName, secret>>

Register(r) ==
    /\ wpc[r] = "registering"
    /\ Take(r)
    /\ WalletGoto(r, "enrolling")
    /\ UNCHANGED <<startVars, diskVars, forName, secret>>

(* The CA knows the name, or fails before or after registering it. *)
RegisterErrs(r) ==
    /\ wpc[r] = "registering"
    /\ \/ taken[forName[r]] # NoSecret /\ UNCHANGED taken
       \/ MayFail /\ (Take(r) \/ UNCHANGED taken)
    /\ WalletGoto(r, "error")
    /\ UNCHANGED <<startVars, diskVars, forName, secret>>

(* The first k of mkdir, mkdir, write cert.pem, write private.key. *)
WriteFiles(r, k) ==
    LET n == forName[r]
        made == IF k < 2 THEN k ELSE 2
    IN /\ dirs' = [dirs EXCEPT ![n] = IF made > dirs[n] THEN made ELSE dirs[n]]
       /\ cert' = IF k >= 3 THEN [cert EXCEPT ![n] = r] ELSE cert
       /\ key' = IF k >= 4 THEN [key EXCEPT ![n] = r] ELSE key

CanEnroll(r) == taken[forName[r]] = secret[r]

Enroll(r) ==
    /\ wpc[r] = "enrolling"
    /\ CanEnroll(r)
    /\ WriteFiles(r, 4)
    /\ WalletGoto(r, "added")
    /\ UNCHANGED <<startVars, taken, forName, secret>>

(* The CA refuses or fails, or one of the calls to the file system does. *)
EnrollErrs(r) ==
    /\ wpc[r] = "enrolling"
    /\ \/ (~CanEnroll(r) \/ MayFail) /\ UNCHANGED diskVars
       \/ MayFail /\ CanEnroll(r) /\ \E k \in 0..3 : WriteFiles(r, k)
    /\ WalletGoto(r, "error")
    /\ UNCHANGED <<startVars, taken, forName, secret>>

(* The process dies, perhaps while a call writes its files; the disk stays *)
(* as it was left.                                                         *)
WalletCrash ==
    /\ \/ UNCHANGED diskVars
       \/ \E r \in Registrations, k \in 1..4 :
             wpc[r] = "enrolling" /\ CanEnroll(r) /\ WriteFiles(r, k)
    /\ wpc' = [r \in Registrations |->
                 IF wpc[r] \in Enrolling THEN "dead" ELSE wpc[r]]
    /\ UNCHANGED <<taken, forName, secret>>

Registering(r) ==
    CheckLocal(r) \/ Register(r) \/ RegisterErrs(r) \/ Enroll(r) \/ EnrollErrs(r)

(* createUser() of the users API registers the name at the same CA, with a *)
(* secret that it shows to nobody; whose process it runs in is no matter.  *)
RegisterElsewhere(n) ==
    /\ taken[n] = NoSecret
    /\ taken' = [taken EXCEPT ![n] = Foreign]
    /\ UNCHANGED <<startVars, diskVars, forName, secret, wpc>>

-----------------------------------------------------------------------------

(* The certificate and the private key of a wallet come from one           *)
(* enrollment, that of the call which registered the name: however calls   *)
(* for a name interleave or are repeated after failures, no two of them    *)
(* write to its wallet.                                                    *)
KeyMatchesCert ==
    \A n \in Names :
        /\ key[n] # NoOne => key[n] = cert[n]
        /\ \A r \in Registrations :
              wpc[r] = "added" /\ forName[r] = n => key[n] = r /\ taken[n] = secret[r]

Usable(n) == cert[n] # NoOne /\ key[n] = cert[n]

(* getAllUsers(): what the CA knows, whoever registered it. *)
GetAllUsers == {n \in Names : taken[n] # NoSecret}

(* A name that the CA lists, but whose call ended before the wallet was    *)
(* complete, or that came to the CA from elsewhere, is stranded:           *)
(* registering it again is refused, by the directory or by the CA, and no  *)
(* operation of the service completes the wallet.                          *)
Stranded(n) ==
    /\ n \in GetAllUsers
    /\ ~Usable(n)
    /\ \A r \in Registrations : wpc[r] = "enrolling" => forName[r] # n

StrandedKept == \A n \in Names : Stranded(n) => Stranded(n)'

StrandedNamesStay == [][StrandedKept]_walletVars

(* Behind KeyMatchesCert: a call gets to enroll only as the one that       *)
(* registered its name, and no file of the wallet is there before it does. *)
WalletStages ==
    /\ \A n \in Names :
          /\ taken[n] = NoSecret => cert[n] = NoOne /\ key[n] = NoOne
          /\ key[n] # NoOne => key[n] = cert[n]
    /\ \A r \in Registrations :
          /\ wpc[r] = "enrolling" =>
                /\ taken[forName[r]] = secret[r]
                /\ cert[forName[r]] = NoOne /\ key[forName[r]] = NoOne
          /\ wpc[r] = "added" =>
                /\ taken[forName[r]] = secret[r]
                /\ cert[forName[r]] = r /\ key[forName[r]] = r
    /\ \A r, s \in Registrations :
          wpc[r] = "enrolling" /\ wpc[s] = "enrolling" /\ forName[r] = forName[s] => r = s

=============================================================================
