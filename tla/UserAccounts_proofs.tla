------------------------- MODULE UserAccounts_proofs -------------------------
(* Proofs of the invariants of UserAccounts. *)
EXTENDS UserAccounts, TLAPS

USE DEF Groups

\* A document with a changed role is a document.
LEMMA MappedRoles ==
    ASSUME NEW g \in Groups
    PROVE  MapToRole(g) \in Roles /\ LdapDerivedRole(g) \in Roles
BY RolesAssumption DEF MapToRole, LdapDerivedRole

LEMMA NewUserType ==
    ASSUME NEW id \in Nat, NEW g \in Groups
    PROVE  NewUser(id, g) \in User /\ NewUser(id, g).id = id
BY MappedRoles DEF NewUser, User

\* A login's sync changes neither the id nor what an administrator decided.
LEMMA SyncedAgrees ==
    ASSUME NEW g \in Groups, NEW u \in User
    PROVE  /\ Synced(g, u) \in User
           /\ Synced(g, u).id = u.id
           /\ SameDecision(Synced(g, u), u)
BY MappedRoles DEF Synced, User, SameDecision

\* The migration changes at most an old role name.
LEMMA MigratedAgrees ==
    ASSUME NEW u \in User
    PROVE  /\ Migrated(u) \in User
           /\ Migrated(u).id = u.id
           /\ SameDecision(Migrated(u), u)
BY RolesAssumption DEF Migrated, User, SameDecision, LegacyRoles

\* Who agrees with somebody who agrees with a decision agrees with it.
LEMMA DecisionsCarryOver ==
    ASSUME NEW u \in User, NEW v \in User, NEW w \in User,
           SameDecision(u, v), SameDecision(v, w)
    PROVE  SameDecision(u, w)
BY DEF SameDecision, LegacyRoles, User

\* An administrator's edit changes a document of the same id.
LEMMA EditedType ==
    ASSUME NEW op \in Edits, NEW u \in User, NEW d \in Edited(op, u)
    PROVE  d \in User /\ d.id = u.id
<1>1. LdapDerivedRole(u.groups) \in Roles
      BY MappedRoles DEF User
<1>2. CASE op = "role"
  <2>1. PICK r \in Roles : d = [u EXCEPT !.role = r, !.manual = TRUE]
        BY <1>2 DEF Edited
  <2>2. QED
        BY <2>1 DEF User
<1>3. CASE op = "traded"
  <2>1. PICK r \in Roles : d = [u EXCEPT !.role = r, !.manual = TRUE, !.deviates = FALSE]
        BY <1>3 DEF Edited
  <2>2. QED
        BY <2>1 DEF User
<1>4. CASE op = "rights"
  <2>1. PICK b \in BOOLEAN : d = [u EXCEPT !.deviates = b]
        BY <1>4 DEF Edited
  <2>2. QED
        BY <2>1 DEF User
<1>5. CASE op = "resetRights"
  <2>1. d = [u EXCEPT !.deviates = FALSE]
        BY <1>5 DEF Edited
  <2>2. QED
        BY <2>1 DEF User
<1>6. CASE op = "active"
  <2>1. PICK b \in BOOLEAN : d = [u EXCEPT !.active = b]
        BY <1>6 DEF Edited
  <2>2. QED
        BY <2>1 DEF User
<1>7. CASE op = "resetRole"
  <2>1. d = [u EXCEPT !.role = LdapDerivedRole(u.groups), !.manual = FALSE]
        BY <1>7 DEF Edited
  <2>2. QED
        BY <1>1, <2>1 DEF User
<1>8. QED
      BY <1>2, <1>3, <1>4, <1>5, <1>6, <1>7 DEF Edits

-----------------------------------------------------------------------------
(* The type invariant *)

\* Every id in use was issued.
IdsIssued ==
    /\ Exists => user.id \in 1..issued
    /\ \A l \in Logins : login[l].pc \notin {"idle", "done"} => login[l].copy.id \in 1..issued
    /\ \A a \in Admins : admin[a].pc \notin {"idle", "done"} => admin[a].id \in 1..issued
    /\ \A a \in Admins : admin[a].pc = "write" => admin[a].copy.id \in 1..issued
    /\ \A r \in Refreshes : refresh[r].pc # "idle" => refresh[r].id \in 1..issued

TypeInv == TypeOK /\ IdsIssued

LEMMA ShownIssued ==
    ASSUME TypeInv
    PROVE  Shown \subseteq 1..issued
BY DEF TypeInv, TypeOK, IdsIssued, Shown

\* A write leaves a document of the same id, or none.
LEMMA OverwriteType ==
    ASSUME TypeInv, NEW copy \in User
    PROVE  /\ Overwrite(copy) \in User \cup {NoUser}
           /\ Overwrite(copy) = user \/ Overwrite(copy) = copy
           /\ (Overwrite(copy) # NoUser) <=> Exists
           /\ Exists => Overwrite(copy).id = user.id
BY NoUserAssumption DEF TypeInv, TypeOK, Overwrite, HasRecord, Exists

\* A login that goes on with a document of an issued id, or ends.
LEMMA LoginGoesType ==
    ASSUME TypeInv, NEW l \in Logins, NEW copy \in User, copy.id \in 1..issued,
           NEW pc \in {"create", "sync", "token", "stamp", "store"},
           LoginGoes(l, pc, copy) \/ LoginGoes(l, "done", NoUser)
    PROVE  /\ login' \in [Logins ->
                   [pc : {"idle", "create", "sync", "token", "stamp", "store", "done"},
                    copy : User \cup {NoUser}]]
           /\ \A k \in Logins : login'[k].pc \notin {"idle", "done"} =>
                  login'[k].copy \in User /\ login'[k].copy.id \in 1..issued
<1>1. CASE LoginGoes(l, pc, copy)
      BY <1>1 DEF TypeInv, TypeOK, IdsIssued, LoginGoes
<1>2. CASE LoginGoes(l, "done", NoUser)
      BY <1>2 DEF TypeInv, TypeOK, IdsIssued, LoginGoes
<1>3. QED
      BY <1>1, <1>2

LEMMA InitTypeInv == Init => TypeInv
<1> SUFFICES ASSUME Init PROVE TypeInv
    OBVIOUS
<1>1. user \in User \cup {NoUser} /\ (Exists => user.id \in 1..issued) /\ issued \in Nat
  <2>1. CASE issued = 0 /\ user = NoUser
        BY <2>1 DEF Exists
  <2>2. ASSUME issued = 1, NEW g \in Groups, user = NewUser(1, g)
        PROVE  user \in User /\ user.id = 1
        BY <2>2, NewUserType
  <2>3. ASSUME issued = 1, NEW g \in Groups, NEW r \in Roles, user = [NewUser(1, g) EXCEPT !.role = r]
        PROVE  user \in User /\ user.id = 1
        BY <2>3, NewUserType DEF User
  <2>4. QED
        BY <2>1, <2>2, <2>3 DEF Init, Exists
<1>2. QED
      BY <1>1 DEF Init, TypeInv, TypeOK, IdsIssued

LEMMA NextTypeInv == TypeInv /\ [Next]_vars => TypeInv'
<1> SUFFICES ASSUME TypeInv, [Next]_vars PROVE TypeInv'
    OBVIOUS
<1>1. ASSUME NEW l \in Logins, FindByLdap(l) PROVE TypeInv'
  <2> PICK g \in Groups :
          \/ /\ ~Exists
             /\ issued' = issued + 1
             /\ LoginGoes(l, "create", NewUser(issued', g))
          \/ /\ Exists
             /\ ~user.active
             /\ LoginGoes(l, "done", NoUser)
             /\ UNCHANGED issued
          \/ /\ Exists
             /\ user.active
             /\ \/ LoginGoes(l, "sync", Synced(g, user))
                \/ /\ Synced(g, user) = user
                   /\ LoginGoes(l, "token", user)
             /\ UNCHANGED issued
      BY <1>1 DEF FindByLdap
  <2>1. CASE ~Exists /\ issued' = issued + 1 /\ LoginGoes(l, "create", NewUser(issued', g))
    <3>1. issued' \in Nat /\ NewUser(issued', g) \in User /\ NewUser(issued', g).id = issued + 1
          BY <2>1, NewUserType DEF TypeInv, TypeOK
    <3> DEFINE copy == NewUser(issued', g)
    <3> HIDE DEF copy
    <3>2. QED
          BY <1>1, <2>1, <3>1 DEF FindByLdap, TypeInv, TypeOK, IdsIssued, LoginGoes, Exists, history, copy
  <2>2. CASE Exists /\ LoginGoes(l, "done", NoUser) /\ UNCHANGED issued
        BY <1>1, <2>2 DEF FindByLdap, TypeInv, TypeOK, IdsIssued, LoginGoes, Exists, history
  <2>3. CASE /\ Exists
             /\ \/ LoginGoes(l, "sync", Synced(g, user))
                \/ LoginGoes(l, "token", user)
             /\ UNCHANGED issued
    <3>1. user \in User /\ Synced(g, user) \in User /\ Synced(g, user).id = user.id
          BY <2>3, SyncedAgrees DEF TypeInv, TypeOK, Exists
    <3>2. user.id \in 1..issued
          BY <2>3 DEF TypeInv, IdsIssued
    <3>3. CASE LoginGoes(l, "sync", Synced(g, user))
          BY <1>1, <2>3, <3>1, <3>2, <3>3, LoginGoesType DEF FindByLdap, TypeInv, TypeOK, IdsIssued, Exists, history
    <3>4. CASE LoginGoes(l, "token", user)
          BY <1>1, <2>3, <3>1, <3>2, <3>4, LoginGoesType DEF FindByLdap, TypeInv, TypeOK, IdsIssued, Exists, history
    <3>5. QED
          BY <2>3, <3>3, <3>4
  <2>4. QED
        BY <2>1, <2>2, <2>3
<1>2. ASSUME NEW l \in Logins, FindLocally(l) PROVE TypeInv'
  <2>1. CASE Exists /\ LoginGoes(l, "token", user)
    <3>1. user \in User /\ user.id \in 1..issued
          BY <2>1 DEF TypeInv, TypeOK, IdsIssued, Exists
    <3>2. QED
          BY <1>2, <2>1, <3>1, LoginGoesType DEF FindLocally, TypeInv, TypeOK, IdsIssued, Exists, history
  <2>2. CASE LoginGoes(l, "done", NoUser)
        BY <1>2, <2>2 DEF FindLocally, TypeInv, TypeOK, IdsIssued, LoginGoes, Exists, history
  <2>3. QED
        BY <1>2, <2>1, <2>2 DEF FindLocally
<1>3. ASSUME NEW l \in Logins, Create(l) PROVE TypeInv'
  <2>1. login[l].copy \in User /\ login[l].copy.id \in 1..issued
        BY <1>3 DEF Create, TypeInv, TypeOK, IdsIssued
  <2>2. LoginGoes(l, "token", login[l].copy) \/ LoginGoes(l, "done", NoUser)
        BY <1>3 DEF Create
  <2>3. QED
        BY <1>3, <2>1, <2>2, LoginGoesType DEF Create, TypeInv, TypeOK, IdsIssued, Exists, history
<1>4. ASSUME NEW l \in Logins, Sync(l) PROVE TypeInv'
  <2>1. login[l].copy \in User
        BY <1>4 DEF Sync, TypeInv, TypeOK
  <2>2. QED
        BY <1>4, <2>1, OverwriteType DEF Sync, TypeInv, TypeOK, IdsIssued, LoginGoes, Exists, history
<1>5. ASSUME NEW l \in Logins, Token(l) PROVE TypeInv'
  <2>1. login[l].copy \in User /\ login[l].copy.id \in 1..issued
        BY <1>5 DEF Token, TypeInv, TypeOK, IdsIssued
  <2>2. LoginGoes(l, "stamp", login[l].copy) \/ LoginGoes(l, "done", NoUser)
        BY <1>5 DEF Token
  <2>3. QED
        BY <1>5, <2>1, <2>2, LoginGoesType DEF Token, TypeInv, TypeOK, IdsIssued, Exists, history
<1>6. ASSUME NEW l \in Logins, Stamp(l) PROVE TypeInv'
  <2>1. login[l].copy \in User
        BY <1>6 DEF Stamp, TypeInv, TypeOK
  <2>2. QED
        BY <1>6, <2>1, OverwriteType DEF Stamp, TypeInv, TypeOK, IdsIssued, LoginGoes, Exists, history
<1>7. ASSUME NEW l \in Logins, StoreToken(l) PROVE TypeInv'
      BY <1>7 DEF StoreToken, TypeInv, TypeOK, IdsIssued, LoginGoes, Exists, history
<1>8. ASSUME NEW r \in Refreshes, Consume(r) PROVE TypeInv'
      BY <1>8 DEF Consume, TypeInv, TypeOK, IdsIssued, Exists, history
<1>9. ASSUME NEW r \in Refreshes, LoadRefreshed(r) PROVE TypeInv'
      BY <1>9 DEF LoadRefreshed, TypeInv, TypeOK, IdsIssued, RefreshGoes, Exists, history
<1>10. ASSUME NEW r \in Refreshes, StoreRefreshed(r) PROVE TypeInv'
       BY <1>10 DEF StoreRefreshed, TypeInv, TypeOK, IdsIssued, RefreshGoes, Exists, history
<1>11. ASSUME NEW a \in Admins, LoadForEdit(a) PROVE TypeInv'
  <2> PICK id \in Shown, op \in Edits :
          \/ /\ HasRecord(id)
             /\ \E copy \in Edited(op, user) :
                   admin' = [admin EXCEPT ![a] = [pc |-> "write", op |-> op, id |-> id,
                                                  copy |-> copy]]
          \/ ~HasRecord(id) /\ AdminEnds(a)
      BY <1>11 DEF LoadForEdit
  <2>1. id \in 1..issued
        BY ShownIssued
  <2>2. CASE ~HasRecord(id) /\ AdminEnds(a)
        BY <1>11, <2>2 DEF LoadForEdit, TypeInv, TypeOK, IdsIssued, AdminEnds, Exists, history
  <2>3. ASSUME HasRecord(id),
               NEW copy \in Edited(op, user),
               admin' = [admin EXCEPT ![a] = [pc |-> "write", op |-> op, id |-> id, copy |-> copy]]
        PROVE  TypeInv'
    <3>1. user \in User /\ user.id = id
          BY <2>3 DEF HasRecord, Exists, TypeInv, TypeOK
    <3>2. copy \in User /\ copy.id = id
          BY <2>3, <3>1, EditedType
    <3>3. QED
          BY <1>11, <2>1, <2>3, <3>2 DEF LoadForEdit, TypeInv, TypeOK, IdsIssued, Exists, history
  <2>4. QED
        BY <2>2, <2>3
<1>12. ASSUME NEW a \in Admins, LoadToForget(a) PROVE TypeInv'
  <2> PICK id \in 1..issued :
          \/ admin' = [admin EXCEPT ![a] = [pc |-> "purge", op |-> "forget", id |-> id,
                                            copy |-> NoUser]]
          \/ AdminEnds(a)
      BY <1>12, ShownIssued DEF LoadToForget
  <2>1. CASE admin' = [admin EXCEPT ![a] = [pc |-> "purge", op |-> "forget", id |-> id,
                                            copy |-> NoUser]]
        BY <1>12, <2>1 DEF LoadToForget, TypeInv, TypeOK, IdsIssued, Exists, history
  <2>2. CASE AdminEnds(a)
        BY <1>12, <2>2 DEF LoadToForget, TypeInv, TypeOK, IdsIssued, AdminEnds, Exists, history
  <2>3. QED
        BY <2>1, <2>2
<1>13. ASSUME NEW a \in Admins, Write(a) PROVE TypeInv'
  <2>1. admin[a].copy \in User
        BY <1>13 DEF Write, TypeInv, TypeOK
  <2>2. decided' \in User \cup {NoUser}
        BY <1>13, <2>1 DEF Write, TypeInv, TypeOK
  <2>3. CASE AdminGoes(a, "grants")
        BY <1>13, <2>1, <2>2, <2>3, OverwriteType
        DEF Write, TypeInv, TypeOK, IdsIssued, AdminGoes, Exists, Edits
  <2>4. CASE AdminEnds(a)
        BY <1>13, <2>1, <2>2, <2>4, OverwriteType
        DEF Write, TypeInv, TypeOK, IdsIssued, AdminEnds, Exists, Edits
  <2>5. QED
        BY <1>13, <2>3, <2>4 DEF Write
<1>14. ASSUME NEW a \in Admins, Purge(a) PROVE TypeInv'
  <2>1. CASE AdminGoes(a, "grants")
        BY <1>14, <2>1 DEF Purge, TypeInv, TypeOK, IdsIssued, AdminGoes, Exists, history
  <2>2. CASE AdminEnds(a)
        BY <1>14, <2>2 DEF Purge, TypeInv, TypeOK, IdsIssued, AdminEnds, Exists, history
  <2>3. QED
        BY <1>14, <2>1, <2>2 DEF Purge
<1>15. ASSUME NEW a \in Admins, DeleteGrants(a) PROVE TypeInv'
  <2>1. CASE AdminGoes(a, "tokens")
        BY <1>15, <2>1 DEF DeleteGrants, TypeInv, TypeOK, IdsIssued, AdminGoes, Exists, history
  <2>2. CASE AdminEnds(a)
        BY <1>15, <2>2 DEF DeleteGrants, TypeInv, TypeOK, IdsIssued, AdminEnds, Exists, history
  <2>3. QED
        BY <1>15, <2>1, <2>2 DEF DeleteGrants
<1>16. ASSUME NEW a \in Admins, DeleteTokens(a) PROVE TypeInv'
       BY <1>16 DEF DeleteTokens, TokensAfterForget, TypeInv, TypeOK, IdsIssued, AdminGoes, Exists
<1>17. ASSUME NEW a \in Admins, DeleteUser(a) PROVE TypeInv'
       BY <1>17 DEF DeleteUser, TypeInv, TypeOK, IdsIssued, AdminEnds, Exists
<1>18. ASSUME NEW a \in Admins, PutGrant(a) PROVE TypeInv'
       BY <1>18, ShownIssued DEF PutGrant, TypeInv, TypeOK, IdsIssued, AdminEnds, Exists, history
<1>19. ASSUME NEW s \in Startups, ListUsers(s) PROVE TypeInv'
  <2>1. CASE Exists /\ StartupGoes(s, "write", Migrated(user))
    <3>1. Migrated(user) \in User
          BY <2>1, MigratedAgrees DEF TypeInv, TypeOK, Exists
    <3>2. QED
          BY <1>19, <2>1, <3>1 DEF ListUsers, TypeInv, TypeOK, IdsIssued, StartupGoes, Exists, history
  <2>2. CASE StartupGoes(s, "done", NoUser)
        BY <1>19, <2>2 DEF ListUsers, TypeInv, TypeOK, IdsIssued, StartupGoes, Exists, history
  <2>3. QED
        BY <1>19, <2>1, <2>2 DEF ListUsers
<1>20. ASSUME NEW s \in Startups, WriteMigrated(s) PROVE TypeInv'
  <2>1. startup[s].copy \in User
        BY <1>20 DEF WriteMigrated, TypeInv, TypeOK
  <2>2. QED
        BY <1>20, <2>1, OverwriteType DEF WriteMigrated, TypeInv, TypeOK, IdsIssued, StartupGoes, Exists, history
<1>21. CASE UNCHANGED vars
       BY <1>21 DEF vars, processes, history, TypeInv, TypeOK, IdsIssued, Exists
<1>22. QED
       BY <1>1, <1>2, <1>3, <1>4, <1>5, <1>6, <1>7, <1>8, <1>9, <1>10, <1>11, <1>12, <1>13,
          <1>14, <1>15, <1>16, <1>17, <1>18, <1>19, <1>20, <1>21
       DEF Next, LoginStep, RefreshStep, AdminStep, StartupStep

\* Every variable of the account model keeps its type, and every id in use
\* was issued.
THEOREM TypeCorrect == Spec => []TypeOK
<1>1. TypeInv => TypeOK
      BY DEF TypeInv
<1>2. QED
      BY <1>1, InitTypeInv, NextTypeInv, PTL DEF Spec

-----------------------------------------------------------------------------
(* Decisions *)

\* What a login or a start will write back agrees with the decision.
DecisionInv ==
    decided # NoUser =>
        /\ Exists
        /\ SameDecision(user, decided)
        /\ \A l \in Logins :
              login[l].pc \in {"sync", "token", "stamp"} /\ login[l].copy.id = user.id =>
                  SameDecision(login[l].copy, decided)
        /\ \A s \in Startups :
              startup[s].pc = "write" /\ startup[s].copy.id = user.id =>
                  SameDecision(startup[s].copy, decided)

LEMMA NextDecisionInv == TypeInv /\ DecisionInv /\ [Next]_vars => DecisionInv'
<1> SUFFICES ASSUME TypeInv, DecisionInv, [Next]_vars, decided' # NoUser PROVE DecisionInv'
    BY DEF DecisionInv
<1>1. ASSUME NEW l \in Logins, FindByLdap(l) PROVE DecisionInv'
  <2> PICK g \in Groups :
          \/ ~Exists
          \/ LoginGoes(l, "done", NoUser)
          \/ LoginGoes(l, "sync", Synced(g, user))
          \/ LoginGoes(l, "token", user)
      BY <1>1 DEF FindByLdap
  <2>1. Exists /\ user \in User /\ decided \in User /\ UNCHANGED <<user, startup, decided>>
        BY <1>1 DEF FindByLdap, history, DecisionInv, TypeInv, TypeOK, Exists
  <2>2. SameDecision(Synced(g, user), decided)
        BY <2>1, SyncedAgrees, DecisionsCarryOver DEF DecisionInv
  <2>3. QED
        BY <2>1, <2>2 DEF DecisionInv, LoginGoes, TypeInv, TypeOK, Exists
<1>2. ASSUME NEW l \in Logins, FindLocally(l) PROVE DecisionInv'
  <2>1. UNCHANGED <<user, startup, decided>>
        BY <1>2 DEF FindLocally, history
  <2>2. \A k \in Logins : login'[k] = login[k] \/ login'[k].pc = "done" \/ login'[k].copy = user
        BY <1>2 DEF FindLocally, LoginGoes, TypeInv, TypeOK
  <2>3. QED
        BY <2>1, <2>2 DEF DecisionInv, Exists
<1>3. ASSUME NEW l \in Logins, Create(l) PROVE DecisionInv'
  <2>1. UNCHANGED <<startup, decided>>
        BY <1>3 DEF Create, history
  <2>2. Exists /\ UNCHANGED user
        BY <1>3, <2>1 DEF Create, DecisionInv, Exists
  <2>3. \A k \in Logins : login'[k] = login[k] \/ login'[k].pc = "done"
        BY <1>3, <2>2 DEF Create, LoginGoes, TypeInv, TypeOK
  <2>4. QED
        BY <2>1, <2>2, <2>3 DEF DecisionInv, Exists
<1>4. ASSUME NEW l \in Logins, Sync(l) PROVE DecisionInv'
  <2>1. /\ login[l].copy \in User
        /\ user' = Overwrite(login[l].copy)
        /\ login' = [login EXCEPT ![l] = [pc |-> "token", copy |-> login[l].copy]]
        /\ UNCHANGED <<startup, decided>>
        /\ login[l].pc \in {"sync", "stamp"}
        BY <1>4 DEF Sync, LoginGoes, TypeInv, TypeOK, history
  <2>2. Exists /\ Exists' /\ user'.id = user.id
        BY <2>1, OverwriteType DEF DecisionInv, Exists
  <2>3. SameDecision(user', decided)
        BY <2>1, <2>2 DEF DecisionInv, Overwrite, HasRecord
  <2>4. \A k \in Logins : login'[k].copy = login[k].copy
                           /\ (login'[k].pc \in {"sync", "token", "stamp"} => login[k].pc \in {"sync", "token", "stamp"})
        BY <2>1 DEF TypeInv, TypeOK
  <2>5. QED
        BY <2>1, <2>2, <2>3, <2>4 DEF DecisionInv
<1>5. ASSUME NEW l \in Logins, Token(l) PROVE DecisionInv'
  <2>1. UNCHANGED <<user, startup, decided>> /\ login[l].pc = "token"
        BY <1>5 DEF Token, history
  <2>2. CASE LoginGoes(l, "stamp", login[l].copy)
    <3>1. \A k \in Logins : login'[k].copy = login[k].copy
                             /\ (login'[k].pc \in {"sync", "token", "stamp"} => login[k].pc \in {"sync", "token", "stamp"})
          BY <2>1, <2>2 DEF LoginGoes, TypeInv, TypeOK
    <3>2. QED
          BY <2>1, <3>1 DEF DecisionInv, Exists
  <2>3. CASE LoginGoes(l, "done", NoUser)
    <3>1. \A k \in Logins : login'[k] = login[k] \/ login'[k].pc = "done"
          BY <2>3 DEF LoginGoes, TypeInv, TypeOK
    <3>2. QED
          BY <2>1, <3>1 DEF DecisionInv, Exists
  <2>4. QED
        BY <1>5, <2>2, <2>3 DEF Token
<1>6. ASSUME NEW l \in Logins, Stamp(l) PROVE DecisionInv'
  <2>1. /\ login[l].copy \in User
        /\ user' = Overwrite(login[l].copy)
        /\ login' = [login EXCEPT ![l] = [pc |-> "store", copy |-> login[l].copy]]
        /\ UNCHANGED <<startup, decided>>
        /\ login[l].pc \in {"sync", "stamp"}
        BY <1>6 DEF Stamp, LoginGoes, TypeInv, TypeOK, history
  <2>2. Exists /\ Exists' /\ user'.id = user.id
        BY <2>1, OverwriteType DEF DecisionInv, Exists
  <2>3. SameDecision(user', decided)
        BY <2>1, <2>2 DEF DecisionInv, Overwrite, HasRecord
  <2>4. \A k \in Logins : login'[k].copy = login[k].copy
                           /\ (login'[k].pc \in {"sync", "token", "stamp"} => login[k].pc \in {"sync", "token", "stamp"})
        BY <2>1 DEF TypeInv, TypeOK
  <2>5. QED
        BY <2>1, <2>2, <2>3, <2>4 DEF DecisionInv
<1>7. ASSUME NEW l \in Logins, StoreToken(l) PROVE DecisionInv'
  <2>1. UNCHANGED <<user, startup, decided>>
        BY <1>7 DEF StoreToken, history
  <2>2. \A k \in Logins : login'[k] = login[k] \/ login'[k].pc = "done"
        BY <1>7 DEF StoreToken, LoginGoes, TypeInv, TypeOK
  <2>3. QED
        BY <2>1, <2>2 DEF DecisionInv, Exists
<1>8. ASSUME NEW r \in Refreshes, RefreshStep(r) PROVE DecisionInv'
      BY <1>8 DEF RefreshStep, Consume, LoadRefreshed, StoreRefreshed, DecisionInv, Exists, history
<1>9. ASSUME NEW a \in Admins, Write(a) PROVE DecisionInv'
  <2>1. CASE HasRecord(admin[a].copy.id)
    <3>1. /\ user' = admin[a].copy
          /\ decided' = user'
          /\ user'.id = user.id
          /\ UNCHANGED <<login, startup>>
          /\ Exists'
          BY <1>9, <2>1, NoUserAssumption DEF Write, Overwrite, HasRecord, TypeInv, TypeOK, Exists
    <3>2. /\ \A l \in Logins : ~(login[l].pc \in {"sync", "token", "stamp"} /\ login[l].copy.id = user.id)
          /\ \A s \in Startups : startup[s].pc # "write"
          BY <1>9, <2>1 DEF Write, CopyInFlight
    <3>3. QED
          BY <3>1, <3>2 DEF DecisionInv, SameDecision
  <2>2. CASE ~HasRecord(admin[a].copy.id)
        BY <1>9, <2>2 DEF Write, Overwrite, DecisionInv, Exists
  <2>3. QED
        BY <2>1, <2>2
<1>10. ASSUME NEW a \in Admins, DeleteUser(a) PROVE DecisionInv'
       BY <1>10 DEF DeleteUser, DecisionInv, Exists
<1>11. ASSUME NEW a \in Admins,
              \/ LoadForEdit(a) \/ LoadToForget(a) \/ Purge(a)
              \/ DeleteGrants(a) \/ DeleteTokens(a) \/ PutGrant(a)
       PROVE  DecisionInv'
  <2>1. UNCHANGED <<user, login, startup, decided>>
        BY <1>11 DEF LoadForEdit, LoadToForget, Purge, DeleteGrants, DeleteTokens, PutGrant, history
  <2>2. QED
        BY <2>1 DEF DecisionInv, Exists
<1>12. ASSUME NEW s \in Startups, ListUsers(s) PROVE DecisionInv'
  <2>1. Exists /\ user \in User /\ decided \in User /\ UNCHANGED <<user, login, decided>>
        BY <1>12 DEF ListUsers, history, DecisionInv, TypeInv, TypeOK, Exists
  <2>2. SameDecision(Migrated(user), decided)
        BY <2>1, MigratedAgrees, DecisionsCarryOver DEF DecisionInv
  <2>3. \A t \in Startups : startup'[t].pc = "write" =>
            startup'[t] = startup[t] \/ startup'[t].copy = Migrated(user)
        BY <1>12 DEF ListUsers, StartupGoes, TypeInv, TypeOK
  <2>4. QED
        BY <2>1, <2>2, <2>3 DEF DecisionInv, Exists
<1>13. ASSUME NEW s \in Startups, WriteMigrated(s) PROVE DecisionInv'
  <2>1. /\ startup[s].copy \in User
        /\ startup[s].pc = "write"
        /\ user' = Overwrite(startup[s].copy)
        /\ UNCHANGED <<login, decided>>
        BY <1>13 DEF WriteMigrated, TypeInv, TypeOK, history
  <2>2. Exists /\ Exists' /\ user'.id = user.id
        BY <2>1, OverwriteType DEF DecisionInv, Exists
  <2>3. SameDecision(user', decided)
        BY <2>1, <2>2 DEF DecisionInv, Overwrite, HasRecord
  <2>4. \A t \in Startups : startup'[t].pc = "write" => startup'[t] = startup[t]
        BY <1>13 DEF WriteMigrated, StartupGoes, TypeInv, TypeOK
  <2>5. QED
        BY <2>1, <2>2, <2>3, <2>4 DEF DecisionInv
<1>14. CASE UNCHANGED vars
       BY <1>14 DEF vars, processes, history, DecisionInv, Exists
<1>15. QED
       BY <1>1, <1>2, <1>3, <1>4, <1>5, <1>6, <1>7, <1>8, <1>9, <1>10, <1>11, <1>12, <1>13, <1>14
       DEF Next, LoginStep, AdminStep, StartupStep

\* An administrator's decision written while nobody else holds a copy of the
\* document outlives any number of logins and starts, of any number of requests.
THEOREM QuietDecisionsStand == Spec => []QuietDecisionStands
<1>1. Init => DecisionInv
      BY DEF Init, DecisionInv
<1>2. DecisionInv => QuietDecisionStands
      BY DEF DecisionInv, QuietDecisionStands
<1>3. QED
      BY <1>1, <1>2, InitTypeInv, NextTypeInv, NextDecisionInv, PTL DEF Spec

-----------------------------------------------------------------------------
(* Forgetting *)

\* The ids of documents about to be inserted are new: nobody else has them.
NewIds ==
    /\ Exists => user.id \notin gone
    /\ \A l \in Logins : login[l].pc = "create" =>
          /\ login[l].copy.id \notin gone
          /\ Exists => login[l].copy.id # user.id
          /\ \A k \in Logins \ {l} : login[k].pc = "create" => login[k].copy.id # login[l].copy.id

LEMMA NextNewIds == TypeInv /\ NewIds /\ [Next]_vars => NewIds'
<1> SUFFICES ASSUME TypeInv, NewIds, [Next]_vars PROVE NewIds'
    OBVIOUS
<1>1. ASSUME NEW l \in Logins, FindByLdap(l) PROVE NewIds'
  <2> PICK g \in Groups :
          \/ /\ ~Exists
             /\ issued' = issued + 1
             /\ LoginGoes(l, "create", NewUser(issued', g))
          \/ LoginGoes(l, "done", NoUser)
          \/ LoginGoes(l, "sync", Synced(g, user))
          \/ LoginGoes(l, "token", user)
      BY <1>1 DEF FindByLdap
  <2>1. UNCHANGED <<user, gone>>
        BY <1>1 DEF FindByLdap, history
  <2>2. CASE ~Exists /\ issued' = issued + 1 /\ LoginGoes(l, "create", NewUser(issued', g))
    <3> DEFINE copy == NewUser(issued', g)
    <3>1. copy.id = issued + 1 /\ issued \in Nat
          BY <2>2, NewUserType DEF TypeInv, TypeOK
    <3>2. issued + 1 \notin gone
          BY <3>1 DEF TypeInv, TypeOK
    <3>3. \A k \in Logins : login[k].pc = "create" => login[k].copy.id # issued + 1
          BY <3>1 DEF TypeInv, TypeOK, IdsIssued
    <3> HIDE DEF copy
    <3>4. login' = [login EXCEPT ![l] = [pc |-> "create", copy |-> copy]]
          BY <2>2 DEF LoginGoes, copy
    <3>5. QED
          BY <2>1, <2>2, <3>1, <3>2, <3>3, <3>4 DEF NewIds, TypeInv, TypeOK, Exists
  <2>3. CASE \/ LoginGoes(l, "done", NoUser)
             \/ LoginGoes(l, "sync", Synced(g, user))
             \/ LoginGoes(l, "token", user)
    <3>1. \A k \in Logins : login'[k].pc = "create" => login'[k] = login[k] /\ k # l
          BY <2>3 DEF LoginGoes, TypeInv, TypeOK
    <3>2. QED
          BY <2>1, <3>1 DEF NewIds, Exists
  <2>4. QED
        BY <2>2, <2>3
<1>2. ASSUME NEW l \in Logins, FindLocally(l) PROVE NewIds'
  <2>1. \A k \in Logins : login'[k].pc = "create" => login'[k] = login[k]
        BY <1>2 DEF FindLocally, LoginGoes, TypeInv, TypeOK
  <2>2. QED
        BY <1>2, <2>1 DEF FindLocally, NewIds, Exists, history
<1>3. ASSUME NEW l \in Logins, Create(l) PROVE NewIds'
  <2>1. \A k \in Logins : login'[k].pc = "create" => login'[k] = login[k] /\ k # l
        BY <1>3 DEF Create, LoginGoes, TypeInv, TypeOK
  <2>2. QED
        BY <1>3, <2>1 DEF Create, NewIds, Exists, history
<1>4. ASSUME NEW l \in Logins, Sync(l) \/ Token(l) \/ Stamp(l) \/ StoreToken(l) PROVE NewIds'
  <2>1. \A k \in Logins : login'[k].pc = "create" => login'[k] = login[k]
        BY <1>4 DEF Sync, Token, Stamp, StoreToken, LoginGoes, TypeInv, TypeOK
  <2>2. UNCHANGED gone /\ (Exists' => Exists /\ user'.id = user.id)
        BY <1>4 DEF Sync, Token, Stamp, StoreToken, Overwrite, HasRecord, Exists, history
  <2>3. QED
        BY <2>1, <2>2 DEF NewIds
<1>5. ASSUME NEW r \in Refreshes, RefreshStep(r) PROVE NewIds'
      BY <1>5 DEF RefreshStep, Consume, LoadRefreshed, StoreRefreshed, NewIds, Exists, history
<1>6. ASSUME NEW a \in Admins, Write(a) PROVE NewIds'
  <2>1. UNCHANGED <<login, gone>> /\ (Exists' => Exists /\ user'.id = user.id)
        BY <1>6 DEF Write, Overwrite, HasRecord, Exists
  <2>2. QED
        BY <2>1 DEF NewIds
<1>7. ASSUME NEW a \in Admins, DeleteUser(a) PROVE NewIds'
  <2>1. CASE HasRecord(admin[a].id)
        BY <1>7, <2>1 DEF DeleteUser, HasRecord, NewIds, Exists
  <2>2. CASE ~HasRecord(admin[a].id)
        BY <1>7, <2>2 DEF DeleteUser, NewIds, Exists
  <2>3. QED
        BY <2>1, <2>2
<1>8. ASSUME NEW a \in Admins,
             \/ LoadForEdit(a) \/ LoadToForget(a) \/ Purge(a)
             \/ DeleteGrants(a) \/ DeleteTokens(a) \/ PutGrant(a)
      PROVE  NewIds'
  <2>1. UNCHANGED <<user, login, gone>>
        BY <1>8 DEF LoadForEdit, LoadToForget, Purge, DeleteGrants, DeleteTokens, PutGrant, history
  <2>2. QED
        BY <2>1 DEF NewIds, Exists
<1>9. ASSUME NEW s \in Startups, StartupStep(s) PROVE NewIds'
  <2>1. UNCHANGED <<login, gone>> /\ (Exists' => Exists /\ user'.id = user.id)
        BY <1>9 DEF StartupStep, ListUsers, WriteMigrated, Overwrite, HasRecord, Exists, history
  <2>2. QED
        BY <2>1 DEF NewIds
<1>10. CASE UNCHANGED vars
       BY <1>10 DEF vars, processes, history, NewIds, Exists
<1>11. QED
       BY <1>1, <1>2, <1>3, <1>4, <1>5, <1>6, <1>7, <1>8, <1>9, <1>10 DEF Next, LoginStep, AdminStep

LEMMA InitNewIds == Init => NewIds
BY DEF Init, NewIds

\* The id of a deleted document never has one again, whatever writes were in
\* flight and however often the person returns.
THEOREM ForgottenStayForgotten == Spec => []ForgottenNeverReturns
<1>1. NewIds => ForgottenNeverReturns
      BY DEF NewIds, ForgottenNeverReturns
<1>2. QED
      BY <1>1, InitNewIds, InitTypeInv, NextTypeInv, NextNewIds, PTL DEF Spec

\* Nobody is behind a last check of an erased id.
ErasedInv ==
    \A id \in erased : id \notin tokens /\ ~HasRecord(id) /\ ~TokenInFlight(id)

LEMMA NextErasedInv == TypeInv /\ ErasedInv /\ [Next]_vars => ErasedInv'
<1> SUFFICES ASSUME TypeInv, ErasedInv, [Next]_vars, NEW id \in erased'
             PROVE  id \notin tokens' /\ ~HasRecord(id)' /\ ~TokenInFlight(id)'
    BY DEF ErasedInv
<1> DEFINE Goal == id \notin tokens' /\ ~HasRecord(id)' /\ ~TokenInFlight(id)'
<1>1. ASSUME NEW l \in Logins, FindByLdap(l) PROVE Goal
  <2> PICK g \in Groups :
          \/ /\ ~Exists
             /\ issued' = issued + 1
             /\ LoginGoes(l, "create", NewUser(issued', g))
          \/ LoginGoes(l, "done", NoUser)
          \/ Exists /\ LoginGoes(l, "sync", Synced(g, user))
          \/ Exists /\ LoginGoes(l, "token", user)
      BY <1>1 DEF FindByLdap
  <2>1. UNCHANGED <<user, tokens, refresh, erased>>
        BY <1>1 DEF FindByLdap, history
  <2>2. id \notin tokens /\ ~HasRecord(id) /\ ~TokenInFlight(id) /\ id \in 1..issued
        BY <2>1 DEF ErasedInv, TypeInv, TypeOK
  <2>3. CASE ~Exists /\ issued' = issued + 1 /\ LoginGoes(l, "create", NewUser(issued', g))
    <3> DEFINE copy == NewUser(issued', g)
    <3>1. copy.id = issued + 1 /\ issued \in Nat
          BY <2>3, NewUserType DEF TypeInv, TypeOK
    <3> HIDE DEF copy
    <3>2. login' = [login EXCEPT ![l] = [pc |-> "create", copy |-> copy]]
          BY <2>3 DEF LoginGoes, copy
    <3>3. QED
          BY <2>1, <2>2, <3>1, <3>2 DEF TokenInFlight, HasRecord, Exists, TypeInv, TypeOK
  <2>4. CASE LoginGoes(l, "done", NoUser)
        BY <2>1, <2>2, <2>4 DEF LoginGoes, TokenInFlight, HasRecord, Exists, TypeInv, TypeOK
  <2>5. CASE Exists /\ LoginGoes(l, "sync", Synced(g, user))
    <3>1. Synced(g, user).id # id
          BY <2>2, <2>5, SyncedAgrees DEF HasRecord, Exists, TypeInv, TypeOK
    <3>2. QED
          BY <2>1, <2>2, <2>5, <3>1 DEF LoginGoes, TokenInFlight, HasRecord, Exists, TypeInv, TypeOK
  <2>6. CASE Exists /\ LoginGoes(l, "token", user)
        BY <2>1, <2>2, <2>6 DEF LoginGoes, TokenInFlight, HasRecord, Exists, TypeInv, TypeOK
  <2>7. QED
        BY <2>3, <2>4, <2>5, <2>6
<1>2. ASSUME NEW l \in Logins, FindLocally(l) PROVE Goal
      BY <1>2 DEF FindLocally, ErasedInv, LoginGoes, TokenInFlight, HasRecord, Exists, TypeInv, TypeOK, history
<1>3. ASSUME NEW l \in Logins, Create(l) \/ Sync(l) \/ Token(l) \/ Stamp(l) PROVE Goal
  <2>1. UNCHANGED <<tokens, refresh, erased>>
        BY <1>3 DEF Create, Sync, Token, Stamp, history
  <2>2. login[l].pc \in {"create", "sync", "token", "stamp"}
        BY <1>3 DEF Create, Sync, Token, Stamp
  <2>3. login[l].copy.id # id
        BY <2>1, <2>2 DEF ErasedInv, TokenInFlight
  <2>4. ~HasRecord(id)'
        BY <1>3, <2>1, <2>3 DEF Create, Sync, Token, Stamp, Overwrite, HasRecord, Exists, ErasedInv
  <2>5. \A k \in Logins :
            login'[k] = login[k] \/ login'[k].pc = "done" \/ login'[k].copy.id # id
        BY <1>3, <2>3 DEF Create, Sync, Token, Stamp, LoginGoes, TypeInv, TypeOK
  <2>6. QED
        BY <2>1, <2>4, <2>5 DEF ErasedInv, TokenInFlight
<1>4. ASSUME NEW l \in Logins, StoreToken(l) PROVE Goal
  <2>1. login[l].copy.id # id
        BY <1>4 DEF StoreToken, ErasedInv, TokenInFlight, history
  <2>2. QED
        BY <1>4, <2>1 DEF StoreToken, ErasedInv, LoginGoes, TokenInFlight, HasRecord, Exists, TypeInv, TypeOK, history
<1>5. ASSUME NEW r \in Refreshes, Consume(r) PROVE Goal
      BY <1>5 DEF Consume, ErasedInv, TokenInFlight, HasRecord, Exists, TypeInv, TypeOK, history
<1>6. ASSUME NEW r \in Refreshes, LoadRefreshed(r) PROVE Goal
      BY <1>6 DEF LoadRefreshed, RefreshGoes, ErasedInv, TokenInFlight, HasRecord, Exists, TypeInv, TypeOK, history
<1>7. ASSUME NEW r \in Refreshes, StoreRefreshed(r) PROVE Goal
  <2>1. refresh[r].id # id
        BY <1>7 DEF StoreRefreshed, ErasedInv, TokenInFlight, history
  <2>2. QED
        BY <1>7, <2>1 DEF StoreRefreshed, RefreshGoes, ErasedInv, TokenInFlight, HasRecord, Exists, TypeInv, TypeOK, history
<1>8. ASSUME NEW a \in Admins, Write(a) PROVE Goal
      BY <1>8 DEF Write, Overwrite, ErasedInv, TokenInFlight, HasRecord, Exists
<1>9. ASSUME NEW a \in Admins, DeleteTokens(a) PROVE Goal
  <2>1. UNCHANGED <<user, login, refresh>> /\ tokens' = tokens \ {admin[a].id}
        BY <1>9 DEF DeleteTokens, TokensAfterForget
  <2>2. \/ id \in erased
        \/ id = admin[a].id /\ ~HasRecord(id) /\ ~TokenInFlight(id)
        BY <1>9 DEF DeleteTokens
  <2>3. QED
        BY <2>1, <2>2 DEF ErasedInv, TokenInFlight, HasRecord, Exists
<1>10. ASSUME NEW a \in Admins, DeleteUser(a) PROVE Goal
       BY <1>10 DEF DeleteUser, ErasedInv, TokenInFlight, HasRecord, Exists
<1>11. ASSUME NEW a \in Admins,
              LoadForEdit(a) \/ LoadToForget(a) \/ Purge(a) \/ DeleteGrants(a) \/ PutGrant(a)
       PROVE  Goal
  <2>1. UNCHANGED <<user, tokens, login, refresh, erased>>
        BY <1>11 DEF LoadForEdit, LoadToForget, Purge, DeleteGrants, PutGrant, history
  <2>2. QED
        BY <2>1 DEF ErasedInv, TokenInFlight, HasRecord, Exists
<1>12. ASSUME NEW s \in Startups, ListUsers(s) \/ WriteMigrated(s) PROVE Goal
  <2>1. UNCHANGED <<tokens, login, refresh, erased>> /\ (Exists' => Exists /\ user'.id = user.id)
        BY <1>12 DEF ListUsers, WriteMigrated, Overwrite, HasRecord, Exists, history
  <2>2. QED
        BY <2>1 DEF ErasedInv, TokenInFlight, HasRecord, Exists
<1>13. CASE UNCHANGED vars
       BY <1>13 DEF vars, processes, history, ErasedInv, TokenInFlight, HasRecord, Exists
<1>14. QED
       BY <1>1, <1>2, <1>3, <1>4, <1>5, <1>6, <1>7, <1>8, <1>9, <1>10, <1>11, <1>12, <1>13
       DEF Next, LoginStep, RefreshStep, AdminStep, StartupStep

\* An id whose tokens were removed when its document was gone and no login or
\* refresh of it was behind its last check never has a token or a document again.
THEOREM RetriedForgetFinal == Spec => []RetriedForgetIsFinal
<1>1. Init => ErasedInv
      BY DEF Init, ErasedInv
<1>2. ErasedInv => RetriedForgetIsFinal
      BY DEF ErasedInv, RetriedForgetIsFinal
<1>3. QED
      BY <1>1, <1>2, InitTypeInv, NextTypeInv, NextErasedInv, PTL DEF Spec
=============================================================================
