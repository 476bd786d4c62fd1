---------------------------- MODULE UserAccounts ----------------------------
(***************************************************************************)
(* The account of one person: the document in MongoDB's users collection,  *)
(* the personal grants and the refresh tokens of the ids the person has    *)
(* had, and everyone who changes them: logins (AuthService.login behind    *)
(* POST /api/auth/login), token refreshes, the administrators' requests to *)
(* the admin service (admin_service/routers/users.py), and the migration   *)
(* of old role names that each of the two services runs when it starts     *)
(* (legacy_role_migration.py), while the other one serves.                 *)
(*                                                                         *)
(* Every handler reads the document, awaits, and writes all fields of its  *)
(* copy back ($set without upsert); the code between two database calls is *)
(* one action.  What users.create_index("username", unique=True) forbids   *)
(* fails.  Passwords, display names and time stamps are left out.          *)
(***************************************************************************)
EXTENDS Naturals

CONSTANTS
    Logins, Admins, Refreshes,  \* requests
    Startups,                   \* starts of a service
    Roles,                      \* role names, those AD maps to among them
    NoUser

ASSUME RolesAssumption == {"user", "admin"} \subseteq Roles

\* The person's AD groups: the one named by LDAP_GROUP_ADMIN is not among them,
\* is, or is but for its letter case.
Groups == {"others", "admins", "ADMINS"}

\* Role names of documents from before version 2.  Nothing keeps an administrator
\* from creating roles of these names again.
LegacyRoles == {"operator", "viewer"}

\* LDAPService.map_to_role compares exactly,
MapToRole(groups) == IF groups = "admins" THEN "admin" ELSE "user"

\* A bug: the legacy default of the LDAP mapping, which need not exist any more.
LdapDerivedRoleLegacy(groups) == IF groups = "others" THEN "operator" ELSE "admin"

\* and ldap_derived_role without case.
LdapDerivedRole(groups) == IF groups = "others" THEN "user" ELSE "admin"

\* groups: the stored ldap_groups; deviates: personal raises or denials are
\* stored.
User == [id : Nat, role : Roles, manual : BOOLEAN, active : BOOLEAN,
         groups : Groups, deviates : BOOLEAN]
ASSUME NoUserAssumption == NoUser \notin User

VARIABLES
    user,       \* the document of the username, or NoUser
    issued,     \* number of user ids generated so far
    grants,     \* ids with personal grants
    tokens,     \* ids with refresh tokens
    login, admin, refresh,  \* the state of each request
    startup,    \* the state of each start
    decided,    \* history: the last administrator's decision that nobody
                \* else's copy could overwrite, or NoUser
    gone,       \* history: ids whose document was deleted
    erased      \* history: ids whose tokens went when nobody could add more

processes == <<login, admin, refresh, startup>>
history == <<decided, gone, erased>>
vars == <<user, issued, grants, tokens, processes, history>>

-----------------------------------------------------------------------------
Exists == user # NoUser

HasRecord(id) == Exists /\ user.id = id

NewUser(id, groups) ==
    [id |-> id, role |-> MapToRole(groups), manual |-> FALSE, active |-> TRUE,
     groups |-> groups, deviates |-> FALSE]

Init ==
    /\ \/ /\ issued = 0
          /\ user = NoUser
          /\ tokens = {}
       \/ /\ issued = 1
          /\ \E g \in Groups :
                \/ user = NewUser(1, g)
                \/ \E r \in Roles \cap LegacyRoles : user = [NewUser(1, g) EXCEPT !.role = r]
          /\ tokens \in {{}, {1}}
    /\ grants = {}
    /\ login = [l \in Logins |-> [pc |-> "idle", copy |-> NoUser]]
    /\ admin = [a \in Admins |-> [pc |-> "idle", op |-> "none", id |-> 0, copy |-> NoUser]]
    /\ refresh = [r \in Refreshes |-> [pc |-> "idle", id |-> 0]]
    /\ startup = [s \in Startups |-> [pc |-> "idle", copy |-> NoUser]]
    /\ decided = NoUser
    /\ gone = {}
    /\ erased = {}

\* A bug: the update inserts the document when it is not there.
OverwriteUpsert(copy) == IF Exists /\ user.id # copy.id THEN user ELSE copy

\* MongoUserRepository.update: all fields, and only of a document that is there.
Overwrite(copy) == IF HasRecord(copy.id) THEN copy ELSE user

-----------------------------------------------------------------------------
(* Login *)

LoginGoes(l, pc, copy) == login' = [login EXCEPT ![l] = [pc |-> pc, copy |-> copy]]

\* A bug: the manual flag is not looked at.
SyncedAlways(g, u) == [u EXCEPT !.groups = g, !.role = MapToRole(g)]

\* The facts of LDAP; the role only when it was not assigned by hand.
Synced(g, u) ==
    [u EXCEPT !.groups = g, !.role = IF u.manual THEN u.role ELSE MapToRole(g)]

\* LDAP accepted the person, a member of groups g: get_by_username.  The sync
\* is written when something changed, were it only the display name.
FindByLdap(l) ==
    /\ login[l].pc = "idle"
    /\ \E g \in Groups :
          \/ /\ ~Exists
             /\ issued' = issued + 1
             /\ LoginGoes(l, "create", NewUser(issued', g))
          \/ /\ Exists
             /\ ~user.active
             /\ LoginGoes(l, "done", NoUser)
             /\ UNCHANGED issued
          \/ /\ Exists
             /\ user.active
             /\ \/ LoginGoes(l, "sync", Synced(g, user))
                \/ /\ Synced(g, user) = user
                   /\ LoginGoes(l, "token", user)
             /\ UNCHANGED issued
    /\ UNCHANGED <<user, grants, tokens, admin, refresh, startup, history>>

\* LDAP did not; get_by_username, and the local password is right or not.
FindLocally(l) ==
    /\ login[l].pc = "idle"
    /\ \/ /\ Exists
          /\ user.active
          /\ LoginGoes(l, "token", user)
       \/ LoginGoes(l, "done", NoUser)
    /\ UNCHANGED <<user, issued, grants, tokens, admin, refresh, startup, history>>

\* The first appearance; the username is unique.
Create(l) ==
    /\ login[l].pc = "create"
    /\ \/ /\ ~Exists
          /\ user' = login[l].copy
          /\ LoginGoes(l, "token", login[l].copy)
       \/ /\ Exists
          /\ LoginGoes(l, "done", NoUser)
          /\ UNCHANGED user
    /\ UNCHANGED <<issued, grants, tokens, admin, refresh, startup, history>>

Sync(l) ==
    /\ login[l].pc = "sync"
    /\ user' = Overwrite(login[l].copy)
    /\ LoginGoes(l, "token", login[l].copy)
    /\ UNCHANGED <<issued, grants, tokens, admin, refresh, startup, history>>

\* Group grants are provisioned; create_token raises without the document.
Token(l) ==
    /\ login[l].pc = "token"
    /\ IF HasRecord(login[l].copy.id) THEN LoginGoes(l, "stamp", login[l].copy)
       ELSE LoginGoes(l, "done", NoUser)
    /\ UNCHANGED <<user, issued, grants, tokens, admin, refresh, startup, history>>

\* The copy is written once more, for last_login_at.
Stamp(l) ==
    /\ login[l].pc = "stamp"
    /\ user' = Overwrite(login[l].copy)
    /\ LoginGoes(l, "store", login[l].copy)
    /\ UNCHANGED <<issued, grants, tokens, admin, refresh, startup, history>>

StoreToken(l) ==
    /\ login[l].pc = "store"
    /\ tokens' = tokens \cup {login[l].copy.id}
    /\ LoginGoes(l, "done", NoUser)
    /\ UNCHANGED <<user, issued, grants, admin, refresh, startup, history>>

(* Refresh *)

\* A token that is still stored; it is found, not removed.
Consume(r) ==
    /\ refresh[r].pc = "idle"
    /\ \E id \in tokens : refresh' = [refresh EXCEPT ![r] = [pc |-> "load", id |-> id]]
    /\ UNCHANGED <<user, issued, grants, tokens, login, admin, startup, history>>

RefreshGoes(r, pc) == refresh' = [refresh EXCEPT ![r] = [pc |-> pc, id |-> refresh[r].id]]

LoadRefreshed(r) ==
    /\ refresh[r].pc = "load"
    /\ RefreshGoes(r, IF HasRecord(refresh[r].id) /\ user.active THEN "store" ELSE "done")
    /\ UNCHANGED <<user, issued, grants, tokens, login, admin, startup, history>>

StoreRefreshed(r) ==
    /\ refresh[r].pc = "store"
    /\ tokens' = tokens \cup {refresh[r].id}
    /\ RefreshGoes(r, "done")
    /\ UNCHANGED <<user, issued, grants, login, admin, startup, history>>

-----------------------------------------------------------------------------
(* Administrators *)

AdminGoes(a, pc) ==
    admin' = [admin EXCEPT ![a] = [pc |-> pc, op |-> admin[a].op, id |-> admin[a].id,
                                   copy |-> NoUser]]

AdminEnds(a) ==
    admin' = [admin EXCEPT ![a] = [pc |-> "done", op |-> "none", id |-> 0, copy |-> NoUser]]

\* What each request makes of the document.  "traded" is an assignment that
\* clears the personal deviations.
Edits == {"role", "traded", "rights", "resetRights", "active", "resetRole"}

Edited(op, u) ==
    CASE op = "role"        -> {[u EXCEPT !.role = r, !.manual = TRUE] : r \in Roles}
      [] op = "traded"      -> {[u EXCEPT !.role = r, !.manual = TRUE, !.deviates = FALSE] : r \in Roles}
      [] op = "rights"      -> {[u EXCEPT !.deviates = d] : d \in BOOLEAN}
      [] op = "resetRights" -> {[u EXCEPT !.deviates = FALSE]}
      [] op = "active"      -> {[u EXCEPT !.active = d] : d \in BOOLEAN}
      [] op = "resetRole"   -> {[u EXCEPT !.role = LdapDerivedRole(u.groups), !.manual = FALSE]}

\* The ids an administrator can ask about: those of the users table and the
\* access matrix, on a page that may be old.
Shown == gone \cup tokens \cup grants \cup (IF Exists THEN {user.id} ELSE {})

\* get_by_id answers, and the copy is edited; without a document the request ends.
LoadForEdit(a) ==
    /\ admin[a].pc = "idle"
    /\ \E id \in Shown, op \in Edits :
          \/ /\ HasRecord(id)
             /\ \E copy \in Edited(op, user) :
                   admin' = [admin EXCEPT ![a] = [pc |-> "write", op |-> op, id |-> id,
                                                  copy |-> copy]]
          \/ ~HasRecord(id) /\ AdminEnds(a)
    /\ UNCHANGED <<user, issued, grants, tokens, login, refresh, startup, history>>

\* An id without a document can be forgotten while it has a personal trace.
LoadToForget(a) ==
    /\ admin[a].pc = "idle"
    /\ \E id \in Shown :
          IF HasRecord(id) \/ id \in grants \cup tokens
          THEN admin' = [admin EXCEPT ![a] = [pc |-> "purge", op |-> "forget", id |-> id,
                                              copy |-> NoUser]]
          ELSE AdminEnds(a)
    /\ UNCHANGED <<user, issued, grants, tokens, login, refresh, startup, history>>

\* Somebody else holds a copy of the document that will be written back.
CopyInFlight(a) ==
    \/ \E l \in Logins : login[l].pc \in {"sync", "token", "stamp"} /\ login[l].copy.id = user.id
    \/ \E b \in Admins \ {a} : admin[b].pc = "write"
    \/ \E s \in Startups : startup[s].pc = "write"

Write(a) ==
    LET copy == admin[a].copy IN
    /\ admin[a].pc = "write"
    /\ user' = Overwrite(copy)
    /\ decided' = IF ~HasRecord(copy.id) THEN decided
                  ELSE IF CopyInFlight(a) THEN NoUser ELSE copy
    /\ IF admin[a].op \in {"traded", "resetRights"} THEN AdminGoes(a, "grants") ELSE AdminEnds(a)
    /\ UNCHANGED <<issued, grants, tokens, login, refresh, startup, gone, erased>>

\* The main API stops the person's jobs, or forgetting is aborted.
Purge(a) ==
    /\ admin[a].pc = "purge"
    /\ AdminGoes(a, "grants") \/ AdminEnds(a)
    /\ UNCHANGED <<user, issued, grants, tokens, login, refresh, startup, history>>

DeleteGrants(a) ==
    /\ admin[a].pc = "grants"
    /\ grants' = grants \ {admin[a].id}
    /\ IF admin[a].op = "forget" THEN AdminGoes(a, "tokens") ELSE AdminEnds(a)
    /\ UNCHANGED <<user, issued, tokens, login, refresh, startup, history>>

\* Somebody looked at the document of the id and is about to store a token.
TokenInFlight(id) ==
    \/ \E l \in Logins : login[l].pc \in {"create", "sync", "token", "stamp", "store"} /\ login[l].copy.id = id
    \/ \E r \in Refreshes : refresh[r].pc = "store" /\ refresh[r].id = id

\* A bug: the tokens stay.
TokensKept(id) == tokens

TokensAfterForget(id) == tokens \ {id}

DeleteTokens(a) ==
    LET id == admin[a].id IN
    /\ admin[a].pc = "tokens"
    /\ tokens' = TokensAfterForget(id)
    /\ erased' = IF HasRecord(id) \/ TokenInFlight(id) THEN erased ELSE erased \cup {id}
    /\ AdminGoes(a, "record")
    /\ UNCHANGED <<user, issued, grants, login, refresh, startup, decided, gone>>

DeleteUser(a) ==
    /\ admin[a].pc = "record"
    /\ IF HasRecord(admin[a].id)
       THEN user' = NoUser /\ decided' = NoUser /\ gone' = gone \cup {admin[a].id}
       ELSE UNCHANGED <<user, decided, gone>>
    /\ AdminEnds(a)
    /\ UNCHANGED <<issued, grants, tokens, login, refresh, startup, erased>>

\* PUT /api/access/grant: nobody looks whether the person is still there.
PutGrant(a) ==
    /\ admin[a].pc = "idle"
    /\ \E id \in Shown : grants' = grants \cup {id}
    /\ AdminEnds(a)
    /\ UNCHANGED <<user, issued, tokens, login, refresh, startup, history>>

-----------------------------------------------------------------------------
(* Starts *)

StartupGoes(s, pc, copy) == startup' = [startup EXCEPT ![s] = [pc |-> pc, copy |-> copy]]

\* operator and viewer are collapsed into user; manual_role=false, which is
\* stamped on everybody else, is what their documents are read with anyway.
Migrated(u) == IF u.role \in LegacyRoles THEN [u EXCEPT !.role = "user"] ELSE u

\* migrate_legacy_roles lists all users.
ListUsers(s) ==
    /\ startup[s].pc = "idle"
    /\ IF Exists /\ (user.role \in LegacyRoles \/ ~user.manual)
       THEN StartupGoes(s, "write", Migrated(user))
       ELSE StartupGoes(s, "done", NoUser)
    /\ UNCHANGED <<user, issued, grants, tokens, login, admin, refresh, history>>

\* Those listed before this one are written first.
WriteMigrated(s) ==
    /\ startup[s].pc = "write"
    /\ user' = Overwrite(startup[s].copy)
    /\ StartupGoes(s, "done", NoUser)
    /\ UNCHANGED <<issued, grants, tokens, login, admin, refresh, history>>

-----------------------------------------------------------------------------
LoginStep(l) ==
    \/ FindByLdap(l) \/ FindLocally(l) \/ Create(l) \/ Sync(l)
    \/ Token(l) \/ Stamp(l) \/ StoreToken(l)

RefreshStep(r) == Consume(r) \/ LoadRefreshed(r) \/ StoreRefreshed(r)

AdminStep(a) ==
    \/ LoadForEdit(a) \/ LoadToForget(a) \/ Write(a) \/ Purge(a)
    \/ DeleteGrants(a) \/ DeleteTokens(a) \/ DeleteUser(a) \/ PutGrant(a)

StartupStep(s) == ListUsers(s) \/ WriteMigrated(s)

Next ==
    \/ \E l \in Logins : LoginStep(l)
    \/ \E r \in Refreshes : RefreshStep(r)
    \/ \E a \in Admins : AdminStep(a)
    \/ \E s \in Startups : StartupStep(s)

Spec == Init /\ [][Next]_vars

-----------------------------------------------------------------------------
TypeOK ==
    /\ user \in User \cup {NoUser}
    /\ issued \in Nat
    /\ grants \subseteq 1..issued
    /\ tokens \subseteq 1..issued
    /\ login \in [Logins ->
            [pc : {"idle", "create", "sync", "token", "stamp", "store", "done"},
             copy : User \cup {NoUser}]]
    /\ \A l \in Logins : login[l].pc \notin {"idle", "done"} => login[l].copy \in User
    /\ admin \in [Admins ->
            [pc : {"idle", "write", "purge", "grants", "tokens", "record", "done"},
             op : Edits \cup {"forget", "none"}, id : Nat, copy : User \cup {NoUser}]]
    /\ \A a \in Admins : admin[a].pc = "write" => admin[a].copy \in User
    /\ refresh \in [Refreshes -> [pc : {"idle", "load", "store", "done"}, id : Nat]]
    /\ startup \in [Startups -> [pc : {"idle", "write", "done"}, copy : User \cup {NoUser}]]
    /\ \A s \in Startups : startup[s].pc = "write" => startup[s].copy \in User
    /\ decided \in User \cup {NoUser}
    /\ gone \subseteq 1..issued
    /\ erased \subseteq 1..issued

\* What an administrator decides about: not a role that follows AD.  An old role
\* name becomes "user" at the next start, assigned by hand or not.
SameDecision(u, v) ==
    /\ <<u.id, u.manual, u.active, u.deviates>> = <<v.id, v.manual, v.active, v.deviates>>
    /\ v.manual => u.role = v.role \/ (v.role \in LegacyRoles /\ u.role = "user")

\* An administrator's decision written while nobody else holds a copy of the
\* document stands until an administrator changes it, whatever logins and starts
\* follow
\* (auth_service.py:125-126, "A manually assigned role always survives an AD
\* login"; users.py:3-5).
QuietDecisionStands == decided # NoUser => Exists /\ SameDecision(user, decided)

\* A forgotten id never has a document again: no write in flight brings it
\* back, and a person who returns gets a new id (users.py:559-570).
ForgottenNeverReturns == Exists => user.id \notin gone

\* Forgetting is safe to retry (users.py:561-564): once it has removed the
\* tokens of an id without a document, with no login or refresh of the id
\* behind its last check, the id never has a token or a document again.
RetriedForgetIsFinal == \A id \in erased : id \notin tokens /\ ~HasRecord(id)

\* "A manually assigned role always survives an AD login"
\* (auth_service.py:125-126): no step of a login changes it.
ManualRoleSurvivesLogin ==
    [][Exists /\ Exists' /\ user'.id = user.id /\ user.manual /\ UNCHANGED <<admin, startup>> =>
        user'.manual /\ user'.role = user.role]_vars

=============================================================================
