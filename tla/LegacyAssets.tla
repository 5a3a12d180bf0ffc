----------------------------- MODULE LegacyAssets -----------------------------
(***************************************************************************)
(* The assets of the earlier API: createAsset(), updateAsset(),            *)
(* deleteAsset() and transferAsset() of FabricService in fabrics-old.  The *)
(* first three send their transaction over the connection made at start-up *)
(* and wait until it has committed; transferAsset() opens a connection     *)
(* with the wallet of fromUser, endorses, submits, and waits no longer.    *)
(* The reads change nothing and await one query each, so that they are     *)
(* operators on the state in which the query runs.                         *)
(*                                                                         *)
(* The chaincode and the channel are external.  What matters of them: a    *)
(* transaction is endorsed against the asset as it is then, and is         *)
(* invalidated if another one commits on the same asset before it.         *)
(***************************************************************************)
EXTENDS LegacyWallets

CONSTANTS
    Assets,      \* asset ids
    Absent,      \* owner of an asset that does not exist
    Edits,       \* createAsset(), updateAsset() and deleteAsset() calls
    Transfers    \* transferAsset() calls

ASSUME AbsentAssumption == Absent \notin Names
ASSUME EditsAssumption == Edits \cap Transfers = {}

Calls == Edits \cup Transfers

VARIABLES
    owner,      \* ledger: the owner of each asset, or Absent
    order,      \* what each call is asked: operation, asset, users
    tx,         \* the transaction of each call
    stale,      \* transactions whose asset changed since they were endorsed
    apc         \* where each call is

assetVars == <<owner, order, tx, stale, apc>>
vars == <<startVars, walletVars, assetVars>>

Waiting == {"endorsed", "submitted"}
Answered == {"ok", "error", "dead"}

(* The body of a request: of an edit, and of a transfer. *)
Orders(c) ==
    IF c \in Transfers
    THEN [op : {"TransferAsset"}, asset : Assets, from : Names, to : Names]
    ELSE [op : {"CreateAsset", "UpdateAsset", "DeleteAsset"}, asset : Assets, to : Names]

TypeOK ==
    /\ StartTypeOK
    /\ WalletTypeOK
    /\ owner \in [Assets -> Names \cup {Absent}]
    /\ \A c \in Calls : order[c] \in Orders(c)
    /\ tx \in [Calls -> {"none", "endorsed", "ordered", "committed", "invalid"}]
    /\ stale \in SUBSET Calls
    /\ apc \in [Calls -> {"idle"} \cup Waiting \cup Answered]

Init ==
    /\ StartInit
    /\ WalletInit
    /\ owner = [a \in Assets |-> Absent]
    /\ order \in {o \in [Calls -> UNION {Orders(c) : c \in Calls}] :
                     \A c \in Calls : o[c] \in Orders(c)}
    /\ tx = [c \in Calls |-> "none"]
    /\ stale = {}
    /\ apc = [c \in Calls |-> "idle"]

-----------------------------------------------------------------------------

Goto(c, l) == apc' = [apc EXCEPT ![c] = l]
AssetOf(c) == order[c].asset

(* The chaincode creates what is absent and changes what is there. *)
Accepts(c) == (order[c].op = "CreateAsset") <=> (owner[AssetOf(c)] = Absent)

(* onModuleInit() connected since the process began. *)
connected == "legacyFabric" \in ready

(* Defect: a directory is taken for a wallet, as in CheckLocal. *)
DefectDirectoryIsWallet(c) ==
    IF c \in Transfers THEN dirs[order[c].from] > 0 ELSE connected

(* transferAsset() needs the wallet of fromUser, the others the connection. *)
CanSend(c) == IF c \in Transfers THEN Usable(order[c].from) ELSE connected

(* The wallet is read before the endorsement is awaited; that is one action *)
(* because a wallet that is complete stays as it is.                        *)
Endorse(c) ==
    /\ phase = "serving"
    /\ apc[c] = "idle"
    /\ CanSend(c)
    /\ Accepts(c)
    /\ tx' = [tx EXCEPT ![c] = "endorsed"]
    /\ Goto(c, "endorsed")
    /\ UNCHANGED <<startVars, walletVars, owner, order, stale>>

Refuse(c) ==
    /\ phase = "serving"
    /\ apc[c] = "idle"
    /\ ~CanSend(c) \/ ~Accepts(c) \/ MayFail
    /\ Goto(c, "error")
    /\ UNCHANGED <<startVars, walletVars, owner, order, tx, stale>>

(* submit() is the last thing that transferAsset() awaits. *)
Submit(c) ==
    /\ apc[c] = "endorsed"
    /\ tx' = [tx EXCEPT ![c] = "ordered"]
    /\ Goto(c, IF c \in Transfers THEN "ok" ELSE "submitted")
    /\ UNCHANGED <<startVars, walletVars, owner, order, stale>>

(* The orderer or the connection fails or is late, before or after the     *)
(* transaction was taken; one that nobody has submitted comes to nothing.  *)
SubmitErrs(c) ==
    /\ MayFail
    /\ apc[c] \in Waiting
    /\ \/ apc[c] = "submitted" /\ UNCHANGED tx
       \/ apc[c] = "endorsed" /\ \E s \in {"none", "ordered"} : tx' = [tx EXCEPT ![c] = s]
    /\ Goto(c, "error")
    /\ UNCHANGED <<startVars, walletVars, owner, order, stale>>

(* Defect: the answer does not wait for the commit, as in transferAsset(). *)
DefectAnswerAtOnce(c) ==
    /\ apc[c] = "submitted"
    /\ Goto(c, "ok")
    /\ UNCHANGED <<startVars, walletVars, owner, order, tx, stale>>

(* submitTransaction() returns or throws by the commit status. *)
AnswerEdit(c) ==
    /\ apc[c] = "submitted"
    /\ \/ tx[c] = "committed" /\ Goto(c, "ok")
       \/ tx[c] = "invalid" /\ Goto(c, "error")
    /\ UNCHANGED <<startVars, walletVars, owner, order, tx, stale>>

-----------------------------------------------------------------------------

(* What a committed transaction makes of the owner of its asset. *)
NewOwner(c) == IF order[c].op = "DeleteAsset" THEN Absent ELSE order[c].to

Commit(c) ==
    /\ tx[c] = "ordered"
    /\ c \notin stale
    /\ tx' = [tx EXCEPT ![c] = "committed"]
    /\ owner' = [owner EXCEPT ![AssetOf(c)] = NewOwner(c)]
    /\ stale' = stale \cup {d \in Calls \ {c} : AssetOf(d) = AssetOf(c)
                                              /\ tx[d] \in {"endorsed", "ordered"}}
    /\ UNCHANGED <<startVars, walletVars, order, apc>>

Invalidate(c) ==
    /\ tx[c] = "ordered"
    /\ c \in stale \/ MayFail
    /\ tx' = [tx EXCEPT ![c] = "invalid"]
    /\ stale' = stale \ {c}
    /\ UNCHANGED <<startVars, walletVars, owner, order, apc>>

(* Reads go over the contract made at start-up, or with a user's wallet    *)
(* over the client, which is there even if the contract could not be made. *)
CanRead == phase = "serving" /\ connected
CanReadAs(n) == phase = "serving" /\ Usable(n)

(* What a read finds; for an asset that is absent the chaincode throws. *)
ReadAsset(a) == owner[a]
GetAssetsByOwner(n) == {a \in Assets : owner[a] = n}
GetAssetHistory(a) == {c \in Calls : tx[c] = "committed" /\ AssetOf(c) = a}

Crash ==
    /\ MayFail
    /\ phase # "ended"
    /\ End
    /\ WalletCrash
    /\ apc' = [c \in Calls |-> IF apc[c] \in Waiting THEN "dead" ELSE apc[c]]
    /\ tx' = [c \in Calls |-> IF tx[c] = "endorsed" THEN "none" ELSE tx[c]]
    /\ UNCHANGED <<owner, order, stale>>

Editing(c) ==
    Endorse(c) \/ Refuse(c) \/ Submit(c) \/ SubmitErrs(c) \/ AnswerEdit(c)

Transferring(c) == Endorse(c) \/ Refuse(c) \/ Submit(c) \/ SubmitErrs(c)

Next ==
    \/ Starting /\ UNCHANGED <<walletVars, assetVars>>
    \/ \E r \in Registrations : Registering(r) /\ UNCHANGED assetVars
    \/ \E n \in Elsewhere : RegisterElsewhere(n) /\ UNCHANGED assetVars
    \/ \E c \in Edits : Editing(c)
    \/ \E c \in Transfers : Transferring(c)
    \/ \E c \in Calls : Commit(c) \/ Invalidate(c)
    \/ Crash

Spec == Init /\ [][Next]_vars

-----------------------------------------------------------------------------

(* No two clients are told that they created one asset, unless somebody    *)
(* else's deletion of it may have come in between, however the calls race. *)
OneCreatorIsTold ==
    \A c, d \in Edits :
        /\ c # d /\ AssetOf(c) = AssetOf(d)
        /\ order[c].op = "CreateAsset" /\ order[d].op = "CreateAsset"
        /\ apc[c] = "ok" /\ apc[d] = "ok"
        => \E e \in Edits : /\ order[e].op = "DeleteAsset" /\ AssetOf(e) = AssetOf(c)
                             /\ tx[e] = "committed"

(* Read your writes, over restarts too: an edit that was answered with     *)
(* success is in the history of its asset, and whoever can read finds an   *)
(* asset whose creation was answered so, in the list of an owner as well,  *)
(* unless the history tells of a deletion.                                 *)
FindsWhatWasAnswered(c) ==
    LET a == AssetOf(c)
    IN /\ c \in GetAssetHistory(a)
       /\ order[c].op = "CreateAsset" =>
             \/ ReadAsset(a) # Absent /\ \E n \in Names : a \in GetAssetsByOwner(n)
             \/ \E d \in GetAssetHistory(a) : order[d].op = "DeleteAsset"

ReadsFindWhatWasAnswered ==
    CanRead \/ (\E n \in Names : CanReadAs(n)) =>
        \A c \in Edits : apc[c] = "ok" => FindsWhatWasAnswered(c)

(* No request is under way, or can begin, in a process that has not        *)
(* started all that the rest of the service relies on: the contract, the   *)
(* admin of the CA and the cache are there whenever a handler runs.        *)
HandledByReadyProcess ==
    \/ phase = "serving"
    \/ \E r \in Registrations : wpc[r] \in Enrolling
    \/ \E c \in Calls : apc[c] \in Waiting
    => phase = "serving" /\ Required \subseteq ready

(* Behind them: a transaction that is not stale fits its asset as it is,   *)
(* and an asset whose creation committed is there unless a deletion did    *)
(* too.                                                                    *)
Committed(c, op, a) == tx[c] = "committed" /\ order[c].op = op /\ AssetOf(c) = a
Deleted(a) == \E e \in Edits : Committed(e, "DeleteAsset", a)

AssetStages ==
    /\ \A c \in Calls :
          /\ apc[c] = "idle" => tx[c] = "none"
          /\ apc[c] = "endorsed" => tx[c] = "endorsed"
          /\ tx[c] \in {"endorsed", "ordered"} /\ c \notin stale => Accepts(c)
    /\ \A c \in Edits : apc[c] = "ok" => tx[c] = "committed"
    /\ \A c \in Edits, a \in Assets :
          Committed(c, "CreateAsset", a) /\ ~Deleted(a) => owner[a] # Absent
    /\ \A c, d \in Edits, a \in Assets :
          /\ c # d
          /\ Committed(c, "CreateAsset", a) /\ Committed(d, "CreateAsset", a)
          => Deleted(a)

(* A request lives no longer than the process that handles it. *)
RequestStages ==
    \/ phase = "serving"
    \/ /\ \A r \in Registrations : wpc[r] \notin Enrolling
       /\ \A c \in Calls : apc[c] \notin Waiting

(* A transfer on its way acts for a user whose wallet is complete.         *)
SendStages ==
    \A c \in Transfers : tx[c] \in {"endorsed", "ordered"} => key[order[c].from] # NoOne

IInv ==
    /\ TypeOK
    /\ StartStages /\ WalletStages /\ RequestStages
    /\ AssetStages /\ SendStages

-----------------------------------------------------------------------------
(* What users and clients see of it is an AssetRegister. *)

Place(c) ==
    CASE apc[c] = "idle" -> "idle"
      [] tx[c] = "committed" -> "done"
      [] tx[c] = "invalid" \/ (tx[c] = "none" /\ apc[c] \in {"error", "dead"}) -> "void"
      [] OTHER -> "open"

Atomic == INSTANCE AssetRegister WITH
    holder <- key,
    welcomed <- {r \in Registrations : wpc[r] = "added"},
    place <- [c \in Calls |-> Place(c)],
    told <- {c \in Calls : apc[c] = "ok"}

(* However calls race, fail or are cut off by a crash, each takes effect   *)
(* at most once, at one moment, on an asset that it fits and for a user    *)
(* who has a wallet; and of an edit nobody is told before that.            *)
ImplementsAssets == Atomic!Spec

-----------------------------------------------------------------------------

(* "Transaction ... successfully committed", and the answer "transfer      *)
(* request successful": what is reported so is not dropped.                *)
ReportedTransferIsKept ==
    \A c \in Transfers : apc[c] = "ok" => tx[c] # "invalid"

=============================================================================
