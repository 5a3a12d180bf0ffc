------------------------------ MODULE MCIdentity ------------------------------
(***************************************************************************)
(* Instances of Identity for TLC.  The names that calls are about and the  *)
(* roles that are asked for are not constants: TLC starts from all of      *)
(* them, and in AboutAnn only the creations may be about somebody else.    *)
(***************************************************************************)
EXTENDS Identity, TLC

CONSTANT ann

AboutAnnInit ==
    /\ Init
    /\ \A x \in Seeds \cup Logins \cup Deactivations \cup Requests : forName[x] = ann

AboutAnn == AboutAnnInit /\ [][Next]_vars /\ Fairness

=============================================================================
