---------------------------- MODULE MCVerification ----------------------------
(***************************************************************************)
(* Instance of Verification for TLC: two certificates' data, of one roll   *)
(* and registration number and of two years, with a hash of their own.     *)
(***************************************************************************)
EXTENDS Verification, TLC

CONSTANTS c1, c2, kA1, kA3, hA1, hA3

MCKeyOf == [c \in Content |-> "keyA"]
MCYearOf == [c \in Content |-> IF c = kA1 THEN "y2024" ELSE "y2023"]
MCHash == [c \in Content |-> IF c = kA1 THEN hA1 ELSE hA3]
MCEarlier == [i \in Ids |-> {}]

(* The two contents, each with its hash and its year, change places.       *)
SwapContents ==
    [x \in {kA1, kA3, hA1, hA3} |->
        CASE x = kA1 -> kA3 [] x = kA3 -> kA1 [] x = hA1 -> hA3 [] x = hA3 -> hA1]

(* No constant tells one certificate from another, KeyOf, YearOf and Hash  *)
(* tell contents apart only by whether they agree, and no liveness is      *)
(* checked.                                                                *)
Symmetry == Permutations(Ids) \cup {SwapContents}

=============================================================================
