--------------------------- MODULE AccountRegister ---------------------------
(***************************************************************************)
(* What the accounts promise those who use them, without a CA, awaits or   *)
(* failures.  An account is opened once, with a role, and closed for good  *)
(* unless it is a superadmin's.  Who gets in was entitled to by an account *)
(* that was open, and a request only on the strength of a login: nobody is *)
(* entitled after somebody has been told that the account is closed.       *)
(* Identity implements this register.                                      *)
(***************************************************************************)
CONSTANTS Names, Logins, Requests

VARIABLES
    of,        \* the name that each login and request is about
    standing,  \* the role of an open account
    told,      \* accounts whose closing somebody has been told of
    place      \* how far each login and request has got

vars == <<of, standing, told, place>>

Roles == {"superadmin", "issuer"}
Comers == Logins \cup Requests

Init ==
    /\ of \in [Comers -> Names]
    /\ standing = [n \in Names |-> "none"]
    /\ told = {}
    /\ place = [x \in Comers |-> "outside"]

Open(n, role) ==
    /\ standing[n] = "none"
    /\ standing' = [standing EXCEPT ![n] = role]
    /\ UNCHANGED <<of, told, place>>

(* Closing it again changes nothing, but may be what somebody is told of. *)
Close(n) ==
    /\ standing[n] \in {"issuer", "closed"}
    /\ standing' = [standing EXCEPT ![n] = "closed"]
    /\ told' \in {told, told \cup {n}}
    /\ UNCHANGED <<of, place>>

Move(x, from, to) ==
    /\ place[x] = from
    /\ place' = [place EXCEPT ![x] = to]
    /\ UNCHANGED <<of, standing, told>>

(* A login that was entitled in time may get in late. *)
Entitle(l) == standing[of[l]] \in Roles /\ Move(l, "outside", "entitled")

Enter(l) == Move(l, "entitled", "inside")

Serve(q) ==
    /\ standing[of[q]] \in Roles
    /\ \E l \in Logins : place[l] = "inside" /\ of[l] = of[q]
    /\ Move(q, "outside", "inside")

(* Any of those who are not inside may be refused, many at once. *)
Refuse(xs) ==
    /\ \A x \in xs : place[x] # "inside"
    /\ place' = [x \in Comers |-> IF x \in xs THEN "refused" ELSE place[x]]
    /\ UNCHANGED <<of, standing, told>>

Next ==
    \/ \E n \in Names : Close(n) \/ \E role \in Roles : Open(n, role)
    \/ \E l \in Logins : Entitle(l) \/ Enter(l)
    \/ \E q \in Requests : Serve(q)
    \/ \E xs \in SUBSET Comers : Refuse(xs)

Spec == Init /\ [][Next]_vars

=============================================================================
