---------------------------- MODULE AssetRegister ----------------------------
(***************************************************************************)
(* What the earlier API promises, without processes, files, connections or *)
(* endorsements.  A user gets one wallet, once.  A call about an asset     *)
(* takes effect at most once, at one moment after it was made, and only if *)
(* it fits the asset as it is at that moment, whoever else is at work.     *)
(* Success is told of an edit after its effect, but of a transfer perhaps  *)
(* before it, and perhaps for nothing; an error tells nothing.             *)
(* LegacyAssets implements this register.                                  *)
(***************************************************************************)
CONSTANTS Names, Registrations, NoOne, Assets, Absent, Edits, Transfers

VARIABLES
    forName,   \* the user each registration is about
    holder,    \* the registration that made the wallet of each user, or NoOne
    welcomed,  \* registrations that were told so
    order,     \* what each call asks
    owner,     \* the owner of each asset, or Absent
    place,     \* what has become of each call
    told       \* calls that were told of success

userVars == <<holder, welcomed>>
callVars == <<owner, place, told>>
vars == <<forName, order, userVars, callVars>>

Calls == Edits \cup Transfers

Init ==
    /\ forName \in [Registrations -> Names]
    /\ holder = [n \in Names |-> NoOne]
    /\ welcomed = {}
    /\ \A c \in Calls : order[c].asset \in Assets
    /\ owner = [a \in Assets |-> Absent]
    /\ place = [c \in Calls |-> "idle"]
    /\ told = {}

Fill(r) ==
    /\ holder[forName[r]] = NoOne
    /\ holder' = [holder EXCEPT ![forName[r]] = r]

Join(r) ==
    /\ Fill(r)
    /\ welcomed' = welcomed \cup {r}
    /\ UNCHANGED <<forName, order, callVars>>

MoveTo(c, p) == place' = [place EXCEPT ![c] = p]

Ask(c) ==
    /\ place[c] = "idle"
    /\ MoveTo(c, "open")
    /\ UNCHANGED <<forName, order, userVars, owner, told>>

(* A transfer acts for a user who has a wallet. *)
MayAct(c) == c \in Transfers => holder[order[c].from] # NoOne

Fits(c) == (order[c].op = "CreateAsset") <=> (owner[order[c].asset] = Absent)

TakeEffect(c) ==
    /\ place[c] = "open"
    /\ MayAct(c) /\ Fits(c)
    /\ owner' = [owner EXCEPT ![order[c].asset] =
                   IF order[c].op = "DeleteAsset" THEN Absent ELSE order[c].to]
    /\ MoveTo(c, "done")
    /\ UNCHANGED <<forName, order, userVars, told>>

Tell(c) ==
    /\ \/ c \in Edits /\ place[c] = "done"
       \/ c \in Transfers /\ place[c] = "open" /\ MayAct(c)
    /\ told' = told \cup {c}
    /\ UNCHANGED <<forName, order, userVars, owner, place>>

(* Calls come to nothing, several at once when a process dies; a user may  *)
(* get a wallet in the same moment that nobody is told of.                 *)
Fail(cs) ==
    /\ \A c \in cs : place[c] \in {"idle", "open"}
    /\ place' = [c \in Calls |-> IF c \in cs THEN "void" ELSE place[c]]
    /\ UNCHANGED holder \/ \E r \in Registrations \ welcomed : Fill(r)
    /\ UNCHANGED <<forName, welcomed, order, owner, told>>

Next ==
    \/ \E r \in Registrations : Join(r)
    \/ \E c \in Calls : Ask(c) \/ TakeEffect(c) \/ Tell(c)
    \/ \E cs \in SUBSET Calls : Fail(cs)

Spec == Init /\ [][Next]_vars

=============================================================================
