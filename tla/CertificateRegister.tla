------------------------- MODULE CertificateRegister -------------------------
(***************************************************************************)
(* What the certificate service promises its clients, without stores,      *)
(* awaits or failures.  Every certificate has a truth, which only moves    *)
(* forward.  What the listing shows follows the truth late, never runs     *)
(* ahead of it, and can be taken back only while nobody has been told that *)
(* the certificate is issued.  Certificates implements this register.      *)
(***************************************************************************)
CONSTANT Ids

VARIABLES
    truth,       \* what verification goes by
    shown,       \* what the listing says
    promised,    \* certificates whose issuance was answered with ISSUED
    withdrawn    \* certificates whose revocation was answered with success

vars == <<truth, shown, promised, withdrawn>>

RegisterTypeOK ==
    /\ truth \in [Ids -> {"unknown", "valid", "revoked"}]
    /\ shown \in [Ids -> {"nothing", "pending", "valid", "revoked"}]
    /\ promised \in SUBSET Ids
    /\ withdrawn \in SUBSET Ids

Init ==
    /\ truth = [i \in Ids |-> "unknown"]
    /\ shown = [i \in Ids |-> "nothing"]
    /\ promised = {}
    /\ withdrawn = {}

(* A certificate is known to the register only if it is listed. *)
Register(i) ==
    /\ truth[i] = "unknown"
    /\ shown[i] # "nothing"
    /\ truth' = [truth EXCEPT ![i] = "valid"]
    /\ UNCHANGED <<shown, promised, withdrawn>>

Revoke(i) ==
    /\ truth[i] = "valid"
    /\ truth' = [truth EXCEPT ![i] = "revoked"]
    /\ UNCHANGED <<shown, promised, withdrawn>>

(* Before the promise the listing may waver between what is true so far and *)
(* "pending"; a revocation may be shown and then hidden again.              *)
Show(i, s) ==
    /\ i \notin promised
    /\ s = "valid" => truth[i] # "unknown"
    /\ s = "revoked" => truth[i] = "revoked"
    /\ shown' = [shown EXCEPT ![i] = s]
    /\ UNCHANGED <<truth, promised, withdrawn>>

Promise(i) ==
    /\ i \notin promised
    /\ truth[i] # "unknown"
    /\ shown' = [shown EXCEPT ![i] = "valid"]
    /\ promised' = promised \cup {i}
    /\ UNCHANGED <<truth, withdrawn>>

(* After it, only a revocation changes what is shown, told to a client or *)
(* not.                                                                   *)
Withdraw(i) ==
    /\ truth[i] = "revoked"
    /\ shown' = [shown EXCEPT ![i] = "revoked"]
    /\ withdrawn' \in {withdrawn, withdrawn \cup {i}}
    /\ UNCHANGED <<truth, promised>>

Next ==
    \E i \in Ids :
        \/ Register(i) \/ Revoke(i) \/ Promise(i) \/ Withdraw(i)
        \/ \E s \in {"pending", "valid", "revoked"} : Show(i, s)

Spec == Init /\ [][Next]_vars

=============================================================================
