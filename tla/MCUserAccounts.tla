--------------------------- MODULE MCUserAccounts ---------------------------
(* Instances of UserAccounts for TLC. *)
EXTENDS UserAccounts, TLC

CONSTANTS l1, l2, a1, a2, r1, s1

RequestSymmetry == Permutations({l1, l2}) \cup Permutations({a1, a2})

\* A bound: one login meets everybody else, two logins meet a refresh and one
\* administrator.
FewAtWork ==
    \/ \E l \in Logins : login[l].pc = "idle"
    \/ /\ \A s \in Startups : startup[s].pc = "idle"
       /\ \E a \in Admins : admin[a].pc = "idle"

AccountsNext ==
    \/ \E l \in Logins : LoginStep(l) /\ FewAtWork'
    \/ \E r \in Refreshes : RefreshStep(r)
    \/ \E a \in Admins : AdminStep(a) /\ FewAtWork'
    \/ \E s \in Startups : StartupStep(s) /\ FewAtWork'

AccountsSpec == Init /\ [][AccountsNext]_vars
=============================================================================
