---------------------------- MODULE AccessLevels ----------------------------
(***************************************************************************)
(* Who may do what in a glossary collection: the resolver that computes a  *)
(* user's level on a collection from the grant documents                   *)
(* (glossary_access_resolver.py), the explanation of that level shown to   *)
(* administrators, and the access matrix of the admin service, which shows *)
(* and edits the documents (routers/access.py).                            *)
(*                                                                         *)
(* One user and one collection are followed; the documents on it are the   *)
(* state, and the administrators' edits are the steps.  Two spellings of a *)
(* group's name are two subjects with one fold, as casefold compares them. *)
(* A user loaded with a role that RoleType does not know carries two role  *)
(* names, its own and that of RoleType.VIEWER (auth_repository.py:60-86),  *)
(* and has the documents of both.                                          *)
(***************************************************************************)
EXTENDS Integers, FiniteSets, FiniteSetsExt

CONSTANTS Spellings,   \* spellings of AD group names
          Fold,        \* [Spellings -> folded names]
          CustomRole,  \* a role that administrators made
          BaseRole,    \* what RoleType has in its place: the legacy role "viewer"
          UserId,      \* the user's id
          EditLevels,  \* levels an administrator chooses from
          NoGrant      \* no document for a subject

\* The names of the three kinds of subjects are of different types in the
\* documents, and "default", "none" and "admin" name no subject's document.
ASSUME AccessAssumption ==
    /\ EditLevels \subseteq 0..3 /\ NoGrant \notin 0..3
    /\ UserId \notin {CustomRole, BaseRole}
    /\ {CustomRole, BaseRole, UserId} \cap Spellings = {}
    /\ {"default", "none", "admin"}
           \cap (Spellings \cup {CustomRole, BaseRole, UserId}) = {}

VARIABLES acGrants,    \* [Subjects -> level of its document on the collection, or NoGrant]
          acOthers,    \* whether documents on other collections exist
          acUser,      \* the user: their groups and role, whether they are an administrator
          acDefault,   \* whether the collection is "default", which everyone reads
          acEnvMap     \* the groups GLOSSARY_COLLECTION_MAP gives the collection to

acVars == <<acGrants, acOthers, acUser, acDefault, acEnvMap>>

NONE == 0
ADD == 2
MODIFY == 3
AccessVIEW == 1
AccessLevelSet == NONE..MODIFY
Unrestricted == MODIFY + 1     \* resolve_levels answers None to an administrator

RoleSubjects == {CustomRole, BaseRole}
Subjects == Spellings \cup RoleSubjects \cup {UserId}
DocsOf(grants) == {s \in Subjects : grants[s] # NoGrant}

AtLeast(a, b) == IF a >= b THEN a ELSE b

\* casefold, on groups only: a grant matches a group the login reported.
SameGroup(a, b) == a \in Spellings /\ b \in Spellings /\ Fold[a] = Fold[b]

\* _role_names_of: the role as stored, and the value of the role's enum member.
RoleNamesOf(user) == {user.role, BaseRole}

\* find_grants_for_subjects: the documents of the user's groups, roles and id.
MatchingDocs(user, grants) ==
    {s \in DocsOf(grants) : \/ s \in RoleNamesOf(user) \cup {UserId}
                            \/ \E g \in user.groups : SameGroup(s, g)}

\* _grants_configured: while no document exists at all, the environment decides.
Configured(grants) == DocsOf(grants) # {} \/ acOthers

FloorDefault(level) == IF acDefault THEN AtLeast(level, AccessVIEW) ELSE level

\* _resolve_legacy and _levels_from_legacy: the map compares names as written.
LegacyLevel(user) ==
    FloorDefault(IF user.groups \cap acEnvMap # {} THEN MODIFY ELSE NONE)

Strongest(grants, docs) == Max({grants[s] : s \in docs} \cup {NONE})

\* resolve_levels: role and groups combine to their maximum, a document of the
\* user replaces it, up or down, and default keeps its floor.
ResolveLevel(user, grants, personal) ==
    IF user.admin THEN Unrestricted
    ELSE IF ~Configured(grants) THEN LegacyLevel(user)
    ELSE LET docs == MatchingDocs(user, grants)
         IN  FloorDefault(IF personal /\ UserId \in docs THEN grants[UserId]
                          ELSE Strongest(grants, docs \ {UserId}))

\* can_access with LEVEL_REQUIRED.
CanAccess(user, grants, required) == ResolveLevel(user, grants, TRUE) >= required

\* The documents of the role and the groups that decide.
\* Mutant: a document of the role decides whatever the groups say.
InheritedRoleFirst(grants, docs) ==
    IF RoleSubjects \cap docs # {} THEN RoleSubjects \cap docs
    ELSE {s \in docs : grants[s] = Strongest(grants, docs)}
Inherited(grants, docs) ==
    LET top == {s \in docs : grants[s] = Strongest(grants, docs)}
    IN  IF RoleSubjects \cap top # {} THEN RoleSubjects \cap top ELSE top

\* resolve_levels_with_sources: the same level, and the document it comes from.
\* Between a role and a group of the same level the role is named; among roles
\* or groups of one level any may be.
Sourced(level, source) == [level |-> level, source |-> source]
SourcesOf(user, grants, personal) ==
    LET docs == MatchingDocs(user, grants)
        chosen == IF personal /\ UserId \in docs THEN {Sourced(grants[UserId], UserId)}
                  ELSE IF docs \ {UserId} = {}
                  THEN {Sourced(NONE, IF acDefault THEN "default" ELSE "none")}
                  ELSE {Sourced(grants[s], s) : s \in Inherited(grants, docs \ {UserId})}
    IN  IF user.admin THEN {Sourced(Unrestricted, "admin")}
        ELSE IF ~Configured(grants)
        THEN {Sourced(LegacyLevel(user), s) :
                s \in IF user.groups \cap acEnvMap # {} THEN user.groups \cap acEnvMap
                      ELSE {IF acDefault THEN "default" ELSE "none"}}
        ELSE {Sourced(FloorDefault(c.level), c.source) : c \in chosen}

(* ---- the access matrix ---- *)

\* _group_aware_cell_flags: the cell of a group is the maximum over its spellings.
\* Mutant: a cell knows its own spelling only.
CellDocsExact(grants, s) == DocsOf(grants) \cap {s}
CellDocs(grants, s) ==
    {t \in DocsOf(grants) : t = s \/ SameGroup(t, s)}
MatrixCell(grants, s) == Strongest(grants, CellDocs(grants, s))

\* A group that a user reports has a row when a document names it, in whatever
\* spelling, or when its name is a collection's.
GroupSubjectVisible(grants, s, named) == named \/ CellDocs(grants, s) # {}

\* The rows: the roles that are listed (the store has them and they are not
\* hidden), the users, the visible groups of users, and the roles and groups that
\* only documents name.  A group has one row, with the spelling seen first.
FirstSeen(names, s) == CHOOSE t \in names : SameGroup(t, s)
MatrixRows(user, grants, named, listed) ==
    LET theirs == {g \in user.groups : GroupSubjectVisible(grants, g, named)}
        others == {s \in DocsOf(grants) \cap Spellings : ~\E g \in theirs : SameGroup(g, s)}
    IN  listed \cup (RoleSubjects \cap DocsOf(grants)) \cup {UserId}
            \cup {FirstSeen(theirs, g) : g \in theirs}
            \cup {FirstSeen(others, s) : s \in others}
\* Mutant: the deletion looks at one spelling only.
GroupHasEffectiveRightsExact(grants, s) == s \in DocsOf(grants) /\ grants[s] >= AccessVIEW
GroupHasEffectiveRights(grants, s) ==
    \E t \in CellDocs(grants, s) : grants[t] >= AccessVIEW

(* ---- the administrators' edits ---- *)

\* An administrator's groups and second role are not looked at.
AllUsers == [groups : SUBSET Spellings, role : RoleSubjects, admin : {FALSE}]
            \cup {[groups |-> {}, role |-> BaseRole, admin |-> TRUE]}

AccessInit ==
    /\ acGrants = [s \in Subjects |-> NoGrant]
    /\ acOthers \in BOOLEAN /\ acDefault \in BOOLEAN
    /\ acUser \in AllUsers
    /\ acEnvMap \in {{}} \cup {{g} : g \in Spellings}
    /\ acOthers => acEnvMap = {}     \* the map would not be looked at

\* PUT /grant: create or replace one document.
UpsertGrant(s, level) ==
    /\ acGrants' = [acGrants EXCEPT ![s] = level]
    /\ UNCHANGED <<acOthers, acUser, acDefault, acEnvMap>>

\* DELETE /grant: the document of exactly this subject.
DeleteGrant(s) ==
    /\ acGrants[s] # NoGrant
    /\ acGrants' = [acGrants EXCEPT ![s] = NoGrant]
    /\ UNCHANGED <<acOthers, acUser, acDefault, acEnvMap>>

\* DELETE /groups: every document of every spelling, unless one still grants
\* something, here or (elsewhere) on another collection: then 409 and nothing.
DeleteGroup(g, elsewhere) ==
    /\ ~elsewhere /\ ~GroupHasEffectiveRights(acGrants, g)
    /\ CellDocs(acGrants, g) # {}
    /\ acGrants' = [s \in Subjects |-> IF s \in CellDocs(acGrants, g) THEN NoGrant
                                       ELSE acGrants[s]]
    /\ UNCHANGED <<acOthers, acUser, acDefault, acEnvMap>>

AccessNext ==
    \/ \E s \in Subjects, level \in EditLevels : UpsertGrant(s, level)
    \/ \E s \in Subjects : DeleteGrant(s)
    \/ \E g \in Spellings, elsewhere \in {acOthers, FALSE} : DeleteGroup(g, elsewhere)

AccessSpec == AccessInit /\ [][AccessNext]_acVars

(* ---- properties ---- *)

\* The types of the access documents and of the user they are resolved for.
AccessTypeOK ==
    /\ acGrants \in [Subjects -> AccessLevelSet \cup {NoGrant}]
    /\ acOthers \in BOOLEAN /\ acDefault \in BOOLEAN
    /\ acUser \in AllUsers /\ acEnvMap \subseteq Spellings

\* What the administrators' dialog explains is what is enforced: the level of
\* resolve_levels_with_sources is the level of resolve_levels, with and without
\* the personal documents, and a subject it names as the source holds a document
\* of that level (or, below the floor of "default", a lower one).
SourcesExplainTheLevel ==
    \A personal \in BOOLEAN : \A x \in SourcesOf(acUser, acGrants, personal) :
        /\ x.level = ResolveLevel(acUser, acGrants, personal)
        /\ x.source \in Subjects /\ Configured(acGrants) =>
               /\ acGrants[x.source] # NoGrant
               /\ x.level = FloorDefault(acGrants[x.source])

\* "The level shown is the maximum, which is exactly what access enforcement
\* would apply to the group's members" (access.py:83-85): without a personal
\* document, a user has the greatest level that the matrix shows in the rows of
\* their groups and of both their role names, the stored one and, beside a custom
\* role, that of the legacy role (glossary_access_resolver.py:103-110); no row that
\* decides is left out, whichever roles are listed.
MatrixShowsWhatIsEnforced ==
    Configured(acGrants) /\ ~acUser.admin =>
        \A named \in BOOLEAN, listed \in SUBSET RoleSubjects :
            LET theirs == {s \in MatrixRows(acUser, acGrants, named, listed) :
                             s \in RoleNamesOf(acUser) \/ \E g \in acUser.groups : SameGroup(s, g)}
            IN  ResolveLevel(acUser, acGrants, FALSE) =
                    FloorDefault(Max({MatrixCell(acGrants, s) : s \in theirs} \cup {NONE}))

\* "So a deletion can never silently revoke access somebody is using": deleting
\* a group changes nobody's level, as long as one document is left (acUser is
\* any user).
GroupDeletionRevokesNothing ==
    [][(\E g \in Spellings, elsewhere \in {acOthers, FALSE} : DeleteGroup(g, elsewhere))
         /\ Configured(acGrants')
       => ResolveLevel(acUser, acGrants', TRUE) = ResolveLevel(acUser, acGrants, TRUE)]_acVars
=============================================================================
