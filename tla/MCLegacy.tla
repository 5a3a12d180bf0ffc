------------------------------- MODULE MCLegacy -------------------------------
(***************************************************************************)
(* Instances of LegacyAssets for TLC.  What the calls are asked is not a   *)
(* constant: TLC starts from every combination.                            *)
(***************************************************************************)
EXTENDS LegacyAssets, TLC

CONSTANTS s1, s2    \* secrets

\* No constant tells the calls apart, and no liveness is checked.
CallSymmetry ==
    Permutations(Registrations) \cup Permutations(Edits) \cup Permutations(Secrets)

=============================================================================
