--------------------------- MODULE MCCertificates ---------------------------
(***************************************************************************)
(* Instances of Certificates for TLC.  The contents are distinct, with     *)
(* distinct digests, and share keys: kA1 and kA2 are two certificates of   *)
(* the same roll and registration number.                                  *)
(***************************************************************************)
EXTENDS Certificates, TLC

CONSTANTS c1, c2, c3, c4 \* ids
CONSTANTS kA1, kA2, kB   \* contents

MCKeyOf == [c \in Content |-> IF c = kB THEN "keyB" ELSE "keyA"]
MCHash == [c \in Content |->
             CASE c = kA1 -> "hA1" [] c = kA2 -> "hA2" [] OTHER -> "hB"]

\* Three separate calls of issue().
Separate == [i \in Ids |-> {}]
\* c1 and c2 are the entries of one bulk body, c3 a call of issue().
OneBulk == [i \in Ids |-> IF i = c2 THEN {c1} ELSE {}]
\* c1, c2 and c3 are the entries of one bulk body, c4 a call of issue().
LongBulk == [i \in Ids |->
               CASE i = c2 -> {c1} [] i = c3 -> {c1, c2} [] OTHER -> {}]

=============================================================================
