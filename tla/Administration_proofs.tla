------------------------ MODULE Administration_proofs ------------------------
(***************************************************************************)
(* Proofs about what administrators and editors do beside the jobs: the    *)
(* levels that grants resolve to (AccessLevels), the glossary entries      *)
(* (GlossaryEntries) and the limiter in front of the logins (RateLimiter). *)
(* The three share no state, and so do their parts below.                  *)
(***************************************************************************)
EXTENDS MCAdministration, ConfigStore_proofs, WellFoundedInduction

-----------------------------------------------------------------------------
(* ---- AccessLevels, for any names, groups and documents ---- *)

\* The three properties hold of every state of the right types.  They rest on
\* one fact: the strongest of some documents is the one number that is no less
\* than any of their levels and is one of them, or none at all (StrongestIs,
\* StrongestOnly).

\* The levels of the documents on the collection.
Documents == [Subjects -> AccessLevelSet \cup {NoGrant}]

\* The greatest of some levels.
LEMMA MaxIs ==
    ASSUME NEW S \in SUBSET (0..3), S # {}
    PROVE  Max(S) \in S /\ \A x \in S : x <= Max(S)
  <1>1. \E m \in S : \A x \in S : m >= x
    <2>1. CASE 3 \in S
      BY <2>1
    <2>2. CASE 3 \notin S /\ 2 \in S
      BY <2>2
    <2>3. CASE 3 \notin S /\ 2 \notin S /\ 1 \in S
      BY <2>3
    <2>4. CASE 3 \notin S /\ 2 \notin S /\ 1 \notin S
      <3>1. \A x \in S : x = 0
        BY <2>4
      <3>2. 0 \in S
        BY <3>1
      <3>3. QED
        BY <3>1, <3>2
    <2>5. QED
      BY <2>1, <2>2, <2>3, <2>4
  <1>2. QED
    BY <1>1 DEF Max

\* The names of a user's roles are roles.
LEMMA UserRoles ==
    ASSUME NEW u \in AllUsers
    PROVE  RoleNamesOf(u) \subseteq RoleSubjects
  <1>1. BaseRole \in RoleSubjects
    BY DEF RoleSubjects
  <1>2. CASE u \in [groups : SUBSET Spellings, role : RoleSubjects, admin : {FALSE}]
    <2>1. u.role \in RoleSubjects
      BY <1>2
    <2>2. QED
      BY <1>1, <2>1 DEF RoleNamesOf
  <1>3. CASE u = [groups |-> {}, role |-> BaseRole, admin |-> TRUE]
    <2>1. u.role = BaseRole
      BY <1>3
    <2>2. QED
      BY <1>1, <2>1 DEF RoleNamesOf
  <1>4. QED
    BY <1>2, <1>3 DEF AllUsers

\* A document has a level.
LEMMA DocLevel ==
    ASSUME NEW grants \in Documents, NEW s \in DocsOf(grants)
    PROVE  s \in Subjects /\ grants[s] \in 0..3
  BY DEF Documents, DocsOf, AccessLevelSet, NONE, MODIFY

\* The strongest of some documents is no less than any of them, and one of them
\* unless it is no level at all.
LEMMA StrongestIs ==
    ASSUME NEW grants \in Documents, NEW docs \in SUBSET DocsOf(grants)
    PROVE  /\ Strongest(grants, docs) \in 0..3
           /\ \A s \in docs : grants[s] <= Strongest(grants, docs)
           /\ \/ Strongest(grants, docs) = 0
              \/ \E s \in docs : grants[s] = Strongest(grants, docs)
  <1> DEFINE S == {grants[s] : s \in docs} \cup {NONE}
  <1>1. S \in SUBSET (0..3) /\ S # {}
    BY DocLevel DEF NONE
  <1>2. Max(S) \in S /\ \A x \in S : x <= Max(S)
    <2> HIDE DEF S
    <2>1. QED
      BY <1>1, MaxIs
  <1>3. Strongest(grants, docs) = Max(S)
    BY DEF Strongest
  <1>4. Max(S) \in 0..3
    BY <1>1, <1>2
  <1>5. \A s \in docs : grants[s] \in S
    OBVIOUS
  <1>6. Max(S) = 0 \/ \E s \in docs : grants[s] = Max(S)
    BY <1>2 DEF NONE
  <1>7. QED
    BY <1>2, <1>3, <1>4, <1>5, <1>6

\* No other number is so.
LEMMA StrongestOnly ==
    ASSUME NEW grants \in Documents, NEW docs \in SUBSET DocsOf(grants), NEW m \in 0..3,
           \A s \in docs : grants[s] <= m,
           m = 0 \/ \E s \in docs : grants[s] = m
    PROVE  Strongest(grants, docs) = m
  <1> DEFINE top == Strongest(grants, docs)
  <1>1. /\ top \in 0..3 /\ \A s \in docs : grants[s] <= top
        /\ top = 0 \/ \E s \in docs : grants[s] = top
    BY StrongestIs
  <1> HIDE DEF top
  <1>2. top <= m
    BY <1>1
  <1>3. m <= top
    BY <1>1
  <1>4. top = m
    BY <1>1, <1>2, <1>3
  <1>5. QED
    BY <1>4 DEF top

-----------------------------------------------------------------------------
(***************************************************************************)
(* The types                                                               *)
(***************************************************************************)

\* The state keeps its types.
THEOREM AccessTypeCorrect == AccessSpec => []AccessTypeOK
  <1>1. AccessInit => AccessTypeOK
    BY DEF AccessInit, AccessTypeOK
  <1>2. AccessTypeOK /\ [AccessNext]_acVars => AccessTypeOK'
    <2> SUFFICES ASSUME AccessTypeOK, [AccessNext]_acVars
                 PROVE  AccessTypeOK'
      OBVIOUS
    <2>1. ASSUME NEW s \in Subjects, NEW level \in EditLevels, UpsertGrant(s, level)
          PROVE  AccessTypeOK'
      <3>1. level \in AccessLevelSet
        BY AccessAssumption DEF AccessLevelSet, NONE, MODIFY
      <3>2. QED
        BY <2>1, <3>1 DEF UpsertGrant, AccessTypeOK
    <2>2. ASSUME NEW s \in Subjects, DeleteGrant(s)
          PROVE  AccessTypeOK'
      BY <2>2 DEF DeleteGrant, AccessTypeOK
    <2>3. ASSUME NEW g \in Spellings, NEW elsewhere, DeleteGroup(g, elsewhere)
          PROVE  AccessTypeOK'
      BY <2>3 DEF DeleteGroup, AccessTypeOK
    <2>4. CASE UNCHANGED acVars
      BY <2>4 DEF acVars, AccessTypeOK
    <2>5. QED
      BY <2>1, <2>2, <2>3, <2>4 DEF AccessNext
  <1>3. QED
    BY <1>1, <1>2, PTL DEF AccessSpec

-----------------------------------------------------------------------------
(***************************************************************************)
(* What is explained and shown is what is enforced                         *)
(***************************************************************************)

\* Whatever the documents are, the level a user is explained is the level they
\* have.
LEMMA TypesExplain == AccessTypeOK => SourcesExplainTheLevel
  <1> SUFFICES ASSUME AccessTypeOK, NEW personal \in BOOLEAN,
                      NEW x \in SourcesOf(acUser, acGrants, personal)
               PROVE  /\ x.level = ResolveLevel(acUser, acGrants, personal)
                      /\ x.source \in Subjects /\ Configured(acGrants) =>
                             /\ acGrants[x.source] # NoGrant
                             /\ x.level = FloorDefault(acGrants[x.source])
    BY DEF SourcesExplainTheLevel
  <1> DEFINE docs == MatchingDocs(acUser, acGrants)
             rest == docs \ {UserId}
  <1>1. acGrants \in Documents
    BY DEF AccessTypeOK, Documents
  <1>2. docs \subseteq DocsOf(acGrants)
    BY DEF MatchingDocs
  <1>3. "default" \notin Subjects /\ "none" \notin Subjects /\ "admin" \notin Subjects
    BY AccessAssumption DEF Subjects, RoleSubjects
  <1>4. CASE acUser.admin
    BY <1>3, <1>4 DEF SourcesOf, ResolveLevel, Sourced
  <1>5. CASE ~acUser.admin /\ ~Configured(acGrants)
    BY <1>5 DEF SourcesOf, ResolveLevel, Sourced
  <1>6. CASE ~acUser.admin /\ Configured(acGrants)
    <2>1. ResolveLevel(acUser, acGrants, personal) =
            FloorDefault(IF personal /\ UserId \in docs THEN acGrants[UserId]
                         ELSE Strongest(acGrants, rest))
      BY <1>6 DEF ResolveLevel
    <2>2. CASE personal /\ UserId \in docs
      <3>1. x = Sourced(FloorDefault(acGrants[UserId]), UserId)
        BY <1>6, <2>2 DEF SourcesOf, Sourced
      <3>2. acGrants[UserId] # NoGrant
        BY <1>2, <2>2 DEF DocsOf
      <3>3. QED
        BY <2>1, <2>2, <3>1, <3>2 DEF Sourced
    <2>3. CASE ~(personal /\ UserId \in docs) /\ rest = {}
      <3>1. x = Sourced(FloorDefault(NONE), IF acDefault THEN "default" ELSE "none")
        BY <1>6, <2>3 DEF SourcesOf, Sourced
      <3>2. Strongest(acGrants, rest) = NONE
        <4>1. /\ {} \in SUBSET DocsOf(acGrants) /\ 0 \in 0..3
              /\ \A s \in {} : acGrants[s] <= 0
          OBVIOUS
        <4>2. Strongest(acGrants, {}) = 0
          BY <1>1, <4>1, StrongestOnly
        <4>3. QED
          BY <2>3, <4>2 DEF NONE
      <3>3. x.level = ResolveLevel(acUser, acGrants, personal)
        BY <2>1, <2>3, <3>1, <3>2 DEF Sourced
      <3>4. x.source \notin Subjects
        BY <1>3, <3>1 DEF Sourced
      <3>5. QED
        BY <3>3, <3>4
    <2>4. CASE ~(personal /\ UserId \in docs) /\ rest # {}
      <3>1. PICK s \in Inherited(acGrants, rest) :
                x = Sourced(FloorDefault(acGrants[s]), s)
        BY <1>6, <2>4 DEF SourcesOf, Sourced
      <3>2. s \in rest /\ acGrants[s] = Strongest(acGrants, rest)
        BY <3>1 DEF Inherited
      <3>3. acGrants[s] # NoGrant
        BY <1>2, <3>2 DEF DocsOf
      <3>4. QED
        BY <2>1, <2>4, <3>1, <3>2, <3>3 DEF Sourced
    <2>5. QED
      BY <2>2, <2>3, <2>4
  <1>7. QED
    BY <1>4, <1>5, <1>6

\* In every reachable state the dialog explains the level that is enforced.
THEOREM ExplainedIsEnforced == AccessSpec => []SourcesExplainTheLevel
  BY TypesExplain, AccessTypeCorrect, PTL

\* Whatever the documents are, the rows of a user's role and groups show the
\* level they have without a document of their own.
LEMMA TypesShow == AccessTypeOK => MatrixShowsWhatIsEnforced
  <1> SUFFICES ASSUME AccessTypeOK, Configured(acGrants), ~acUser.admin,
                      NEW named \in BOOLEAN, NEW listed \in SUBSET RoleSubjects
               PROVE  LET theirs == {s \in MatrixRows(acUser, acGrants, named, listed) :
                                      \/ s \in RoleNamesOf(acUser)
                                      \/ \E g \in acUser.groups : SameGroup(s, g)}
                      IN  ResolveLevel(acUser, acGrants, FALSE) =
                            FloorDefault(Max({MatrixCell(acGrants, s) : s \in theirs} \cup {NONE}))
    BY DEF MatrixShowsWhatIsEnforced
  <1> DEFINE rows == MatrixRows(acUser, acGrants, named, listed)
             theirs == {s \in rows : s \in RoleNamesOf(acUser)
                                       \/ \E g \in acUser.groups : SameGroup(s, g)}
             rest == MatchingDocs(acUser, acGrants) \ {UserId}
             level == Strongest(acGrants, rest)
             cells == {MatrixCell(acGrants, s) : s \in theirs} \cup {NONE}
             shown == {g \in acUser.groups : GroupSubjectVisible(acGrants, g, named)}
  <1>1. acGrants \in Documents
    BY DEF AccessTypeOK, Documents
  <1>2. \A s : s \in rest <=>
            s \in DocsOf(acGrants) /\ (\/ s \in RoleNamesOf(acUser)
                                       \/ \E g \in acUser.groups : SameGroup(s, g))
    <2>1. RoleNamesOf(acUser) \subseteq RoleSubjects
      BY UserRoles DEF AccessTypeOK
    <2>2. UserId \notin RoleSubjects /\ UserId \notin Spellings
      BY AccessAssumption DEF RoleSubjects
    <2>3. UserId \notin RoleNamesOf(acUser)
      BY <2>1, <2>2
    <2>4. QED
      BY <2>2, <2>3 DEF MatchingDocs, SameGroup
  <1>3. /\ level \in 0..3 /\ \A s \in rest : acGrants[s] <= level
        /\ level = 0 \/ \E s \in rest : acGrants[s] = level
    <2>1. rest \in SUBSET DocsOf(acGrants)
      BY <1>2
    <2>2. QED
      BY <1>1, <2>1, StrongestIs
  <1>4. \A s : /\ MatrixCell(acGrants, s) \in 0..3
               /\ \A t \in CellDocs(acGrants, s) : acGrants[t] <= MatrixCell(acGrants, s)
               /\ \/ MatrixCell(acGrants, s) = 0
                  \/ \E t \in CellDocs(acGrants, s) : acGrants[t] = MatrixCell(acGrants, s)
    <2>1. \A s : CellDocs(acGrants, s) \in SUBSET DocsOf(acGrants)
      BY DEF CellDocs
    <2>2. QED
      BY <1>1, <2>1, StrongestIs DEF MatrixCell
  <1>5. ASSUME NEW s \in theirs
        PROVE  MatrixCell(acGrants, s) <= level
    <2>1. RoleSubjects \cap Spellings = {}
      BY AccessAssumption DEF RoleSubjects
    <2>2. ASSUME NEW t \in CellDocs(acGrants, s)
          PROVE  t \in rest
      <3>1. t \in DocsOf(acGrants) /\ (t = s \/ SameGroup(t, s))
        BY <2>2 DEF CellDocs
      <3>2. CASE s \in RoleNamesOf(acUser)
        <4>1. s \notin Spellings
          BY <2>1, <3>2, UserRoles DEF AccessTypeOK
        <4>2. t = s
          BY <3>1, <4>1 DEF SameGroup
        <4>3. QED
          BY <1>2, <3>1, <3>2, <4>2
      <3>3. CASE \E g \in acUser.groups : SameGroup(s, g)
        BY <1>2, <3>1, <3>3 DEF SameGroup
      <3>4. QED
        BY <3>2, <3>3
    <2>3. QED
      BY <1>3, <1>4, <2>2
  <1>6. RoleNamesOf(acUser) \subseteq RoleSubjects
    BY UserRoles DEF AccessTypeOK
  <1>7. level = 0 \/ \E s \in theirs : level <= MatrixCell(acGrants, s)
    <2>1. CASE level = 0
      BY <2>1
    <2>2. ASSUME NEW t \in rest, acGrants[t] = level
          PROVE  \E s \in theirs : level <= MatrixCell(acGrants, s)
      <3>1. CASE t \in RoleNamesOf(acUser)
        <4>1. t \in CellDocs(acGrants, t)
          BY <1>2 DEF CellDocs
        <4>2. t \in theirs
          BY <1>2, <1>6, <3>1 DEF MatrixRows
        <4>3. QED
          BY <1>4, <2>2, <4>1, <4>2
      <3>2. CASE t \notin RoleNamesOf(acUser)
        <4>1. PICK g \in acUser.groups : SameGroup(t, g)
          BY <1>2, <3>2
        <4>2. t \in CellDocs(acGrants, g)
          BY <1>2, <4>1 DEF CellDocs
        <4>3. g \in shown /\ SameGroup(g, g)
          BY <4>1, <4>2 DEF GroupSubjectVisible, SameGroup
        <4>4. FirstSeen(shown, g) \in shown /\ SameGroup(FirstSeen(shown, g), g)
          BY <4>3 DEF FirstSeen
        <4>5. FirstSeen(shown, g) \in rows
          BY <4>3 DEF MatrixRows
        <4>6. FirstSeen(shown, g) \in theirs
          BY <4>1, <4>4, <4>5
        <4>7. t \in CellDocs(acGrants, FirstSeen(shown, g))
          BY <1>2, <4>1, <4>4 DEF CellDocs, SameGroup
        <4>8. QED
          BY <1>4, <2>2, <4>6, <4>7
      <3>3. QED
        BY <3>1, <3>2
    <2>3. QED
      BY <1>3, <2>1, <2>2
  <1>8. cells \in SUBSET (0..3) /\ level \in cells /\ \A x \in cells : x <= level
    <2>1. \A x \in cells : x = 0 \/ \E s \in theirs : x = MatrixCell(acGrants, s)
      BY DEF NONE
    <2>2. 0 \in cells /\ \A s \in theirs : MatrixCell(acGrants, s) \in cells
      BY DEF NONE
    <2> HIDE DEF cells, theirs, level
    <2>3. cells \in SUBSET (0..3) /\ \A x \in cells : x <= level
      BY <1>3, <1>4, <1>5, <2>1
    <2>4. CASE level = 0
      BY <2>2, <2>3, <2>4
    <2>5. ASSUME NEW s \in theirs, level <= MatrixCell(acGrants, s)
          PROVE  level \in cells
      <3>1. MatrixCell(acGrants, s) \in cells /\ MatrixCell(acGrants, s) <= level
        BY <1>5, <2>2
      <3>2. level = MatrixCell(acGrants, s)
        BY <1>3, <1>4, <2>5, <3>1
      <3>3. QED
        BY <3>1, <3>2
    <2>6. QED
      BY <1>7, <2>3, <2>4, <2>5
  <1>9. Max(cells) = level
    <2> HIDE DEF cells, level
    <2>1. Max(cells) \in cells /\ \A x \in cells : x <= Max(cells)
      BY <1>8, MaxIs
    <2>2. Max(cells) \in 0..3 /\ level \in 0..3 /\ level <= Max(cells) /\ Max(cells) <= level
      BY <1>8, <2>1
    <2>3. QED
      BY <2>2
  <1>10. ResolveLevel(acUser, acGrants, FALSE) = FloorDefault(level)
    BY DEF ResolveLevel
  <1>11. QED
    BY <1>9, <1>10

\* In every reachable state the matrix shows what is enforced.
THEOREM ShownIsEnforced == AccessSpec => []MatrixShowsWhatIsEnforced
  BY TypesShow, AccessTypeCorrect, PTL

-----------------------------------------------------------------------------
(***************************************************************************)
(* Deleting a group                                                        *)
(***************************************************************************)

\* The documents that a deletion takes granted nothing, so nobody loses a level.
LEMMA DeletionKeepsLevels ==
    ASSUME AccessTypeOK, NEW g \in Spellings, NEW elsewhere, DeleteGroup(g, elsewhere),
           Configured(acGrants'), NEW u \in AllUsers
    PROVE  ResolveLevel(u, acGrants', TRUE) = ResolveLevel(u, acGrants, TRUE)
  <1> DEFINE gone == CellDocs(acGrants, g)
             before == MatchingDocs(u, acGrants)
             after == MatchingDocs(u, acGrants')
  <1>1. /\ ~GroupHasEffectiveRights(acGrants, g)
        /\ acGrants' = [s \in Subjects |-> IF s \in gone THEN NoGrant ELSE acGrants[s]]
    BY DEF DeleteGroup
  <1>2. acGrants \in Documents /\ acGrants' \in Documents
    BY <1>1 DEF AccessTypeOK, Documents
  <1>3. DocsOf(acGrants') = DocsOf(acGrants) \ gone
    BY <1>1 DEF DocsOf
  <1>4. UserId \notin gone /\ UserId \in Subjects
    BY AccessAssumption DEF CellDocs, SameGroup, Subjects
  <1>5. \A s \in gone : s \in DocsOf(acGrants) /\ acGrants[s] = 0
    <2>1. \A s \in gone : s \in DocsOf(acGrants) /\ ~(acGrants[s] >= 1)
      BY <1>1 DEF GroupHasEffectiveRights, CellDocs, AccessVIEW
    <2>2. QED
      BY <1>2, <2>1, DocLevel
  <1>6. \A s \in DocsOf(acGrants') : acGrants'[s] = acGrants[s]
    BY <1>1, <1>3 DEF DocsOf
  <1>7. Configured(acGrants)
    BY <1>3 DEF Configured
  <1>8. after = before \ gone
    BY <1>3 DEF MatchingDocs
  <1>9. Strongest(acGrants', after \ {UserId}) = Strongest(acGrants, before \ {UserId})
    <2> DEFINE m == Strongest(acGrants, before \ {UserId})
    <2>1. before \ {UserId} \in SUBSET DocsOf(acGrants)
      BY DEF MatchingDocs
    <2>2. /\ m \in 0..3 /\ \A s \in before \ {UserId} : acGrants[s] <= m
          /\ m = 0 \/ \E s \in before \ {UserId} : acGrants[s] = m
      BY <1>2, <2>1, StrongestIs
    <2>3. after \ {UserId} \in SUBSET DocsOf(acGrants')
      BY DEF MatchingDocs
    <2>4. \A s \in after \ {UserId} : acGrants'[s] <= m
      BY <1>6, <1>8, <2>2, <2>3
    <2>5. m = 0 \/ \E s \in after \ {UserId} : acGrants'[s] = m
      <3>1. \A s \in before \ {UserId} : s \in gone => acGrants[s] = 0
        BY <1>5
      <3>2. QED
        BY <1>6, <1>8, <2>2, <2>3, <3>1
    <2> HIDE DEF m, after
    <2>6. Strongest(acGrants', after \ {UserId}) = m
      BY <1>2, <2>2, <2>3, <2>4, <2>5, StrongestOnly
    <2>7. QED
      BY <2>6 DEF m
  <1>10. UserId \in after <=> UserId \in before
    BY <1>4, <1>8
  <1>11. UserId \in after => acGrants'[UserId] = acGrants[UserId]
    BY <1>6 DEF MatchingDocs
  <1> HIDE DEF before, after
  <1>12. QED
    BY <1>7, <1>9, <1>10, <1>11 DEF ResolveLevel, before, after

\* No deletion of a group changes what anybody may do.
THEOREM DeletionRevokesNothing == AccessSpec => GroupDeletionRevokesNothing
  <1>1. AccessTypeOK /\ [AccessNext]_acVars =>
          [(\E g \in Spellings, elsewhere \in {acOthers, FALSE} : DeleteGroup(g, elsewhere))
              /\ Configured(acGrants')
            => ResolveLevel(acUser, acGrants', TRUE) = ResolveLevel(acUser, acGrants, TRUE)]_acVars
    BY DeletionKeepsLevels DEF AccessTypeOK
  <1>2. QED
    BY <1>1, AccessTypeCorrect, PTL DEF AccessSpec, GroupDeletionRevokesNothing

-----------------------------------------------------------------------------
(* ---- GlossaryEntries, for any requests, collections and words ---- *)

\* Two rows that share a word need a race or a missing table.

\* A request has exactly the fields of one.
RequestShape(q) ==
    q = [op |-> q.op, stage |-> q.stage, collection |-> q.collection, id |-> q.id,
         todo |-> q.todo, force |-> q.force, seen |-> q.seen]

\* What a request about to write has seen holds none of its words, its own row
\* aside.
Looked(q) ==
    q.stage = "write" /\ q.op # "delete" =>
        \A x \in q.seen : x[2] # OwnId(q) => ~SharesAWord(x[3], Head(q.todo))

RequestOK(q) ==
    /\ RequestShape(q) /\ q.collection \in AllCollections
    /\ q.stage = "find" => q.op \in {"update", "delete"}
    /\ Looked(q)

RequestsOK ==
    /\ glRequest = [r \in GlossaryRequests |-> glRequest[r]]
    /\ \A r \in GlossaryRequests : RequestOK(glRequest[r])

\* Ids start at 1, which no created row's check excludes.
RowsOK ==
    /\ glRows = [c \in AllCollections |-> glRows[c]]
    /\ glNext = [c \in AllCollections |-> glNext[c]]
    /\ \A c \in AllCollections : /\ glNext[c] \in Nat \ {0}
                                 /\ \A row \in glRows[c] : row.id \in Nat \ {0}

RaceInv == RequestsOK /\ RowsOK /\ DuplicatesNeedARace

-----------------------------------------------------------------------------
\* The words of two entries are compared in both directions alike.
LEMMA SharingIsSymmetric == \A a, b : SharesAWord(a, b) <=> SharesAWord(b, a)
  BY DEF SharesAWord

\* Requests that do not write are fine.
LEMMA EndedOK ==
    ASSUME NEW q, NEW stage, stage \notin {"write", "find"}
    PROVE  RequestOK(Ended(q, stage))
  BY DEF RequestOK, RequestShape, Looked, Ended, Over, Request, AllCollections

\* A request that goes on keeps its operation and its collection.
LEMMA GoesOnOK ==
    ASSUME NEW q, RequestOK(q), NEW stage, NEW todo, NEW seen, stage # "find",
           stage = "write" /\ q.op # "delete" =>
               \A x \in seen : x[2] # OwnId(q) => ~SharesAWord(x[3], Head(todo))
    PROVE  RequestOK(GoesOn(q, stage, todo, seen))
<1>1. OwnId(GoesOn(q, stage, todo, seen)) = OwnId(q)
  BY DEF OwnId, GoesOn
<1> DEFINE entry == Head(todo)
<1>2. Head(GoesOn(q, stage, todo, seen).todo) = entry
  BY DEF GoesOn
<1> HIDE DEF entry
<1> QED
  BY <1>1, <1>2 DEF RequestOK, RequestShape, Looked, GoesOn, entry

LEMMA NextRowOK ==
    ASSUME NEW q, RequestOK(q)
    PROVE  RequestOK(NextRow(q)) /\ RequestOK(Refuse(q)) /\ RequestOK(Crash(q))
<1>1. RequestOK(NextRow(q))
  <2>1. CASE Len(q.todo) = 1
    BY <2>1, EndedOK DEF NextRow
  <2>2. CASE Len(q.todo) # 1
    <3> DEFINE rest == Tail(q.todo)
    <3>1. NextRow(q) = GoesOn(q, "check", rest, {})
      BY <2>2 DEF NextRow
    <3> HIDE DEF rest
    <3> QED
      BY <3>1, GoesOnOK
  <2> QED
    BY <2>1, <2>2
<1> QED
  BY <1>1, EndedOK DEF Refuse, Crash

\* A step that replaces one request by a sound one and writes nothing.
LEMMA StepsKeep ==
    ASSUME RaceInv, NEW r \in GlossaryRequests, NEW q, RequestOK(q), Steps(r, q)
    PROVE  RaceInv'
<1>1. glRequest' = [glRequest EXCEPT ![r] = q]
  BY DEF Steps
<1>2. RequestsOK'
  BY <1>1 DEF RaceInv, RequestsOK
<1>3. UNCHANGED <<glRows, glNext>>
  BY DEF Steps, OnlyRequests
<1> QED
  BY <1>2, <1>3 DEF RaceInv, RowsOK, DuplicatesNeedARace

\* What a request arrives with.
LEMMA ArrivalKeeps ==
    ASSUME RaceInv, NEW r \in GlossaryRequests, NEW c \in AllCollections,
           \/ \E op, level : Forbid(r, op, level)
           \/ \E entry, force : CreateEntry(r, c, entry, force)
           \/ \E file : ImportFile(r, c, file)
           \/ \E id, entry, force : UpdateEntry(r, c, id, entry, force)
           \/ \E id : DeleteEntry(r, c, id)
    PROVE  RaceInv'
<1>1. \A op, stage, id, todo, force :
        stage # "write" /\ (stage = "find" => op \in {"update", "delete"})
          => RequestOK(Request(op, stage, c, id, todo, force))
  BY DEF RequestOK, RequestShape, Looked, Request
<1>2. \A op, stage : stage \notin {"write", "find"} => RequestOK(Over(op, stage))
  BY DEF RequestOK, RequestShape, Looked, Over, Request, AllCollections
<1>3. \E q : Steps(r, q) /\ RequestOK(q)
  <2>1. CASE \E op, level : Forbid(r, op, level)
    BY <1>2, <2>1 DEF Forbid, Arrives
  <2>2. CASE \E entry, force : CreateEntry(r, c, entry, force)
    BY <1>1, <2>2 DEF CreateEntry, Arrives
  <2>3. CASE \E file : ImportFile(r, c, file)
    <3>1. PICK file : ImportFile(r, c, file)
      BY <2>3
    <3> DEFINE rows == Deduplicated(file)
    <3>2. \/ Steps(r, Request("import", "check", c, 0, rows, FALSE))
          \/ Steps(r, Over("import", "missing"))
      BY <3>1 DEF ImportFile, Arrives
    <3> HIDE DEF rows
    <3> QED
      BY <1>1, <1>2, <3>2
  <2>4. CASE \E id, entry, force : UpdateEntry(r, c, id, entry, force)
    BY <1>1, <2>4 DEF UpdateEntry, Arrives
  <2>5. CASE \E id : DeleteEntry(r, c, id)
    BY <1>1, <2>5 DEF DeleteEntry, Arrives
  <2> QED
    BY <2>1, <2>2, <2>3, <2>4, <2>5
<1> QED
  BY <1>3, StepsKeep

\* A check that finds no duplicate has looked.
LEMMA CheckKeeps ==
    ASSUME RaceInv, NEW r \in GlossaryRequests, CheckDuplicate(r)
    PROVE  RaceInv'
<1> DEFINE q == glRequest[r]
           entry == Head(q.todo)
<1>1. RequestOK(q)
  BY DEF RaceInv, RequestsOK
<1>2. CASE Steps(r, Refuse(q))
  BY <1>1, <1>2, NextRowOK, StepsKeep
<1>3. CASE \E c : /\ Duplicates(glRows[c], entry, OwnId(q)) = {}
                  /\ Steps(r, GoesOn(q, "write", q.todo, Contents(c)))
  <2>1. PICK c : /\ Duplicates(glRows[c], entry, OwnId(q)) = {}
                 /\ Steps(r, GoesOn(q, "write", q.todo, Contents(c)))
    BY <1>3
  <2>2. \A x \in Contents(c) : x[2] # OwnId(q) => ~SharesAWord(x[3], entry)
    <3> SUFFICES ASSUME NEW row \in glRows[c], row.id # OwnId(q), SharesAWord(row.entry, entry)
                 PROVE  FALSE
      BY DEF Contents
    <3> QED
      BY <2>1 DEF Duplicates
  <2> QED
    BY <1>1, <2>1, <2>2, GoesOnOK, StepsKeep
<1>4. \/ Steps(r, Refuse(q))
      \/ \E c : /\ Duplicates(glRows[c], entry, OwnId(q)) = {}
                /\ Steps(r, GoesOn(q, "write", q.todo, Contents(c)))
  BY DEF CheckDuplicate
<1> QED
  BY <1>2, <1>3, <1>4

\* A row written after a check of the table as it stands shares no word with
\* the others.
LEMMA InsertKeeps ==
    ASSUME RaceInv, NEW r \in GlossaryRequests, InsertEntry(r)
    PROVE  RaceInv'
<1> DEFINE q == glRequest[r]
           c == q.collection
           entry == Head(q.todo)
           sound == CurrentCheck(q)
           row == [id |-> glNext[c], entry |-> entry, sound |-> sound]
<1>1. /\ RequestOK(q) /\ c \in AllCollections
      /\ q.stage = "write" /\ q.op \in {"create", "import"}
      /\ glRows' = [glRows EXCEPT ![c] = @ \cup {row}]
      /\ glNext' = [glNext EXCEPT ![c] = @ + 1]
      /\ glRequest' = [glRequest EXCEPT ![r] = IF q.op = "import" THEN NextRow(q)
                                               ELSE Ended(q, "answered")]
  BY DEF InsertEntry, RaceInv, RequestsOK, RequestOK
<1>2. RequestsOK'
  <2>1. RequestOK(NextRow(q)) /\ RequestOK(Ended(q, "answered"))
    BY <1>1, NextRowOK, EndedOK
  <2> HIDE DEF q
  <2> QED
    BY <1>1, <2>1 DEF RaceInv, RequestsOK
<1>3. sound => \A a \in glRows[c] : ~SharesAWord(a.entry, entry)
  <2>1. OwnId(q) = 0
    BY <1>1 DEF OwnId
  <2>2. \A x \in q.seen : x[2] # 0 => ~SharesAWord(x[3], entry)
    BY <1>1, <2>1 DEF RequestOK, Looked
  <2>3. \A a \in glRows[c] : a.id # 0
    BY <1>1 DEF RaceInv, RowsOK
  <2>4. sound => \A a \in glRows[c] : ~SharesAWord(a.entry, entry)
    <3> SUFFICES ASSUME sound, NEW a \in glRows[c], SharesAWord(a.entry, entry)
                 PROVE  FALSE
      OBVIOUS
    <3>1. <<c, a.id, a.entry>> \in q.seen
      BY DEF CurrentCheck, Contents
    <3> HIDE DEF q, c, entry
    <3> QED
      BY <2>2, <2>3, <3>1
  <2> QED
    BY <2>4
<1> HIDE DEF q, c, entry, sound
<1>4. RowsOK'
  <2>1. row.id = glNext[c] /\ glNext[c] \in Nat \ {0}
    BY <1>1 DEF RaceInv, RowsOK
  <2>2. glNext[c] + 1 \in Nat \ {0}
    BY <2>1
  <2> HIDE DEF row
  <2>3. /\ glRows' = [d \in AllCollections |-> glRows'[d]]
        /\ glNext' = [d \in AllCollections |-> glNext'[d]]
    BY <1>1 DEF RaceInv, RowsOK
  <2>4. \A d \in AllCollections : glNext'[d] \in Nat \ {0}
    BY <1>1, <2>2 DEF RaceInv, RowsOK
  <2>5. \A d \in AllCollections : \A a \in glRows'[d] : a \in glRows[d] \/ a = row
    BY <1>1 DEF RaceInv, RowsOK
  <2>6. \A d \in AllCollections : \A a \in glRows'[d] : a.id \in Nat \ {0}
    BY <2>1, <2>5 DEF RaceInv, RowsOK
  <2> QED
    BY <2>3, <2>4, <2>6 DEF RowsOK
<1>5. DuplicatesNeedARace'
  <2> SUFFICES ASSUME NEW d \in AllCollections, NEW a \in glRows'[d], NEW b \in glRows'[d],
                      a # b, SharesAWord(a.entry, b.entry), a.sound, b.sound
               PROVE  FALSE
    BY DEF DuplicatesNeedARace
  <2>1. d # c => a \in glRows[d] /\ b \in glRows[d]
    BY <1>1 DEF RaceInv, RowsOK
  <2>2. d = c => a \in glRows[c] \cup {row} /\ b \in glRows[c] \cup {row}
    BY <1>1 DEF RaceInv, RowsOK
  <2>3. row.entry = entry /\ row.sound = sound
    OBVIOUS
  <2> HIDE DEF row
  <2> QED
    BY <1>3, <2>1, <2>2, <2>3, SharingIsSymmetric DEF RaceInv, DuplicatesNeedARace
<1> QED
  BY <1>2, <1>4, <1>5 DEF RaceInv

\* A rewritten row may share words with the row it replaces only.
LEMMA RewriteKeeps ==
    ASSUME RaceInv, NEW r \in GlossaryRequests, RewriteEntry(r)
    PROVE  RaceInv'
<1> DEFINE q == glRequest[r]
           c == q.collection
           entry == Head(q.todo)
           sound == CurrentCheck(q)
           old == {row \in glRows[c] : row.id = q.id}
           new == [id |-> q.id, entry |-> entry, sound |-> sound]
<1>1. /\ RequestOK(q) /\ c \in AllCollections
      /\ q.stage = "write" /\ q.op = "update"
      /\ glRows' = [glRows EXCEPT ![c] = IF old = {} THEN @ ELSE (@ \ old) \cup {new}]
      /\ glNext' = glNext
  BY DEF RewriteEntry, RaceInv, RequestsOK, RequestOK
<1>2. RequestsOK'
  <2>1. RequestOK(GoesOn(q, "read", NoRows, {}))
    BY <1>1, GoesOnOK
  <2>2. glRequest' = [glRequest EXCEPT ![r] = GoesOn(q, "read", NoRows, {})]
    BY DEF RewriteEntry
  <2> QED
    BY <2>1, <2>2 DEF RaceInv, RequestsOK
<1>3. sound => \A a \in glRows[c] \ old : ~SharesAWord(a.entry, entry)
  <2>1. OwnId(q) = q.id
    BY <1>1 DEF OwnId
  <2>2. \A x \in q.seen : x[2] # q.id => ~SharesAWord(x[3], entry)
    BY <1>1, <2>1 DEF RequestOK, Looked
  <2>3. SUFFICES ASSUME sound, NEW a \in glRows[c], a.id # q.id, SharesAWord(a.entry, entry)
                 PROVE  FALSE
    OBVIOUS
  <2>4. <<c, a.id, a.entry>> \in q.seen
    BY <2>3 DEF CurrentCheck, Contents
  <2> HIDE DEF q, c, entry
  <2> QED
    BY <2>2, <2>3, <2>4
<1>4. old # {} => q.id \in Nat \ {0}
  BY <1>1 DEF RaceInv, RowsOK
<1>5. new.id = q.id /\ new.entry = entry /\ new.sound = sound
  OBVIOUS
<1> HIDE DEF q, c, entry, sound, old, new
<1>6. RowsOK'
  BY <1>1, <1>4, <1>5 DEF RaceInv, RowsOK
<1>7. DuplicatesNeedARace'
  <2> SUFFICES ASSUME NEW d \in AllCollections, NEW a \in glRows'[d], NEW b \in glRows'[d],
                      a # b, SharesAWord(a.entry, b.entry), a.sound, b.sound
               PROVE  FALSE
    BY DEF DuplicatesNeedARace
  <2>1. d # c \/ old = {} => a \in glRows[d] /\ b \in glRows[d]
    BY <1>1 DEF RaceInv, RowsOK
  <2>2. d = c /\ old # {} => /\ a \in (glRows[c] \ old) \cup {new}
                            /\ b \in (glRows[c] \ old) \cup {new}
    BY <1>1 DEF RaceInv, RowsOK
  <2> QED
    BY <1>3, <1>5, <2>1, <2>2, SharingIsSymmetric DEF RaceInv, DuplicatesNeedARace
<1> QED
  BY <1>2, <1>6, <1>7 DEF RaceInv

\* Fewer rows share fewer words.
LEMMA RemoveKeeps ==
    ASSUME RaceInv, NEW r \in GlossaryRequests, RemoveEntry(r)
    PROVE  RaceInv'
<1> DEFINE q == glRequest[r]
           c == q.collection
<1>1. /\ c \in AllCollections /\ glNext' = glNext
      /\ glRows' = [glRows EXCEPT ![c] = {row \in @ : row.id # q.id}]
      /\ glRequest' = [glRequest EXCEPT ![r] = Ended(q, "answered")]
  BY DEF RemoveEntry, RaceInv, RequestsOK, RequestOK
<1>2. RequestOK(Ended(q, "answered"))
  BY EndedOK
<1> HIDE DEF q, c
<1>3. \A d \in AllCollections : glRows'[d] \subseteq glRows[d]
  BY <1>1 DEF RaceInv, RowsOK
<1>4. RequestsOK'
  BY <1>1, <1>2 DEF RaceInv, RequestsOK
<1>5. RowsOK'
  BY <1>1, <1>3 DEF RaceInv, RowsOK
<1>6. DuplicatesNeedARace'
  BY <1>3 DEF RaceInv, DuplicatesNeedARace
<1> QED
  BY <1>4, <1>5, <1>6 DEF RaceInv

\* The steps that only read, or that fail.
LEMMA ReadingKeeps ==
    ASSUME RaceInv, NEW r \in GlossaryRequests, FindEntry(r) \/ ReadBack(r) \/ DatabaseFails(r)
    PROVE  RaceInv'
<1> DEFINE q == glRequest[r]
<1>1. RequestOK(q)
  BY DEF RaceInv, RequestsOK
<1>2. CASE FindEntry(r)
  <2> DEFINE found == GoesOn(q, IF q.op = "update" THEN "check" ELSE "write", q.todo, {})
  <2>1. RequestOK(found)
    BY <1>1, GoesOnOK
  <2>2. Steps(r, Ended(q, "failed")) \/ Steps(r, Ended(q, "missing")) \/ Steps(r, found)
    BY <1>2 DEF FindEntry
  <2> QED
    BY <2>1, <2>2, EndedOK, StepsKeep
<1>3. CASE ReadBack(r)
  <2>1. \E stage \in {"answered", "missing"} : Steps(r, Ended(q, stage))
    BY <1>3 DEF ReadBack
  <2> QED
    BY <2>1, EndedOK, StepsKeep
<1>4. CASE DatabaseFails(r)
  <2>1. Steps(r, Crash(q)) /\ RequestOK(Crash(q))
    BY <1>1, <1>4, NextRowOK DEF DatabaseFails
  <2> QED
    BY <2>1, StepsKeep
<1> QED
  BY <1>2, <1>3, <1>4

LEMMA GlossaryStep == RaceInv /\ [GlossaryNext]_glVars => RaceInv'
<1> SUFFICES ASSUME RaceInv, [GlossaryNext]_glVars PROVE RaceInv'
  OBVIOUS
<1>1. CASE UNCHANGED glVars
  BY <1>1 DEF glVars, RaceInv, RequestsOK, RowsOK, DuplicatesNeedARace
<1>2. CASE GlossaryNext
  <2>1. PICK r \in GlossaryRequests :
          \/ \E c \in AllCollections :
                \/ \E op, level : Forbid(r, op, level)
                \/ \E entry, force : CreateEntry(r, c, entry, force)
                \/ \E file : ImportFile(r, c, file)
                \/ \E id, entry, force : UpdateEntry(r, c, id, entry, force)
                \/ \E id : DeleteEntry(r, c, id)
          \/ HandleRequest(r)
    <3>1. AllCollections # {}
      BY DEF AllCollections
    <3> QED
      BY <1>2, <3>1 DEF GlossaryNext
  <2> QED
    BY <2>1, ArrivalKeeps, CheckKeeps, InsertKeeps, RewriteKeeps, RemoveKeeps, ReadingKeeps
       DEF HandleRequest
<1> QED
  BY <1>1, <1>2

\* No request is under way at the start, and no table has two rows.
LEMMA GlossaryStart == GlossaryInit => RaceInv
<1> SUFFICES ASSUME GlossaryInit PROVE RaceInv
  OBVIOUS
<1>1. RequestsOK
  BY DEF GlossaryInit, RequestsOK, RequestOK, RequestShape, Looked, Unborn, Request, AllCollections
<1>2. PICK filled \in {{}, glTables}, entry \in Entries :
        /\ glRows = [c \in AllCollections |->
              IF c \in filled THEN {[id |-> 1, entry |-> entry, sound |-> TRUE]} ELSE {}]
        /\ glNext = [c \in AllCollections |-> IF c \in filled THEN 2 ELSE 1]
  BY DEF GlossaryInit
<1>3. RowsOK
  BY <1>2 DEF RowsOK
<1>4. DuplicatesNeedARace
  BY <1>2 DEF DuplicatesNeedARace
<1> QED
  BY <1>1, <1>3, <1>4 DEF RaceInv

\* Two rows of a collection share a word only if one of them was written after a
\* check that had read another table, or this one before somebody changed it
\* (glossary_service.py:221-250, mysql_glossary_repository.py).
THEOREM DuplicatesOnlyByRace == GlossarySpec => []DuplicatesNeedARace
<1>1. RaceInv => DuplicatesNeedARace
  BY DEF RaceInv
<1> QED
  BY <1>1, GlossaryStart, GlossaryStep, PTL DEF GlossarySpec

-----------------------------------------------------------------------------
(***************************************************************************)
(* The rows an import accepts from a file                                  *)
(***************************************************************************)

\* What one more row of a file makes of the accepted ones.
Accepted(rows, entry) ==
    IF \E i \in DOMAIN rows : SharesAWord(rows[i], entry) THEN rows ELSE Append(rows, entry)

\* f has what is accepted of the rows of a file at any places.
AcceptsRows(f, file, places) ==
    f = [s \in SUBSET places |->
            IF s = {} THEN <<>> ELSE Accepted(f[s \ {Max(s)}], file[Max(s)])]

\* The fold of an import is a function of the places of the file's rows.
LEMMA DeduplicatedIs ==
    ASSUME NEW file
    PROVE  Deduplicated(file) = (CHOOSE f : AcceptsRows(f, file, DOMAIN file))[DOMAIN file]
  BY DEF Deduplicated, FoldLeft, MapThenFoldSet, AcceptsRows, Accepted

\* What goes on from one number to the next goes on to all of them.
LEMMA NumbersBelow ==
    ASSUME NEW N \in SUBSET Nat, 0 \in N, \A m \in N : m + 1 \in N
    PROVE  N = Nat
<1> DEFINE T == Nat \ N
<1> SUFFICES ASSUME T # {} PROVE FALSE
  OBVIOUS
<1>1. PICK x \in T : \A y \in T : ~(<<y, x>> \in OpToRel(<, Nat))
  <2> HIDE DEF T
  <2>1. T \subseteq Nat
    BY DEF T
  <2> QED
    BY <2>1, NatLessThanWellFounded, WFMin
<1>2. x \in Nat /\ x # 0
  OBVIOUS
<1>3. x - 1 \in Nat /\ x - 1 < x /\ (x - 1) + 1 = x
  BY <1>2
<1>4. <<x - 1, x>> \in OpToRel(<, Nat)
  BY <1>2, <1>3 DEF OpToRel
<1>5. x - 1 \in N
  BY <1>1, <1>3, <1>4
<1> QED
  BY <1>3, <1>5

\* The last of some places, and the places before it.
LEMMA LastOf ==
    ASSUME NEW m \in Nat, NEW s \in SUBSET (1..(m + 1)), m + 1 \in s
    PROVE  Max(s) = m + 1 /\ s \ {m + 1} \in SUBSET (1..m)
<1>1. m + 1 \in s /\ \A y \in s : m + 1 >= y
  OBVIOUS
<1>2. \A x \in s : (\A y \in s : x >= y) => x = m + 1
  OBVIOUS
<1>3. Max(s) = m + 1
  BY <1>1, <1>2 DEF Max
<1> QED
  BY <1>3

\* There is such a function, however long the file.
LEMMA AllAreAccepted ==
    ASSUME NEW file, NEW n \in Nat PROVE \E f : AcceptsRows(f, file, 1..n)
<1> DEFINE N == {m \in Nat : \E f : AcceptsRows(f, file, 1..m)}
<1>1. 0 \in N
  <2>1. \A s \in SUBSET (1..0) : s = {}
    OBVIOUS
  <2>2. AcceptsRows([s \in SUBSET (1..0) |-> <<>>], file, 1..0)
    BY <2>1 DEF AcceptsRows
  <2> QED
    BY <2>2
<1>2. ASSUME NEW m \in N PROVE m + 1 \in N
  <2>1. PICK f : AcceptsRows(f, file, 1..m)
    OBVIOUS
  <2> DEFINE g == [s \in SUBSET (1..(m + 1)) |->
                      IF m + 1 \notin s THEN f[s] ELSE Accepted(f[s \ {m + 1}], file[m + 1])]
  <2>2. ASSUME NEW s \in SUBSET (1..(m + 1))
        PROVE  g[s] = IF s = {} THEN <<>> ELSE Accepted(g[s \ {Max(s)}], file[Max(s)])
    <3>1. CASE m + 1 \in s
      <4>1. Max(s) = m + 1 /\ s \ {m + 1} \in SUBSET (1..m)
        BY <3>1, LastOf
      <4>2. g[s \ {m + 1}] = f[s \ {m + 1}]
        BY <4>1
      <4>3. g[s] = Accepted(f[s \ {m + 1}], file[m + 1])
        BY <3>1
      <4> HIDE DEF g
      <4> QED
        BY <3>1, <4>1, <4>2, <4>3
    <3>2. CASE m + 1 \notin s
      <4>1. s \in SUBSET (1..m)
        BY <3>2
      <4>2. g[s] = f[s]
        BY <3>2
      <4>3. g[s \ {Max(s)}] = f[s \ {Max(s)}]
        BY <3>2
      <4>4. f[s] = IF s = {} THEN <<>> ELSE Accepted(f[s \ {Max(s)}], file[Max(s)])
        BY <2>1, <4>1 DEF AcceptsRows
      <4> HIDE DEF g
      <4> QED
        BY <4>2, <4>3, <4>4
    <3> QED
      BY <3>1, <3>2
  <2>3. g = [s \in SUBSET (1..(m + 1)) |-> g[s]]
    OBVIOUS
  <2> HIDE DEF g
  <2>4. AcceptsRows(g, file, 1..(m + 1))
    BY <2>2, <2>3 DEF AcceptsRows
  <2> QED
    BY <2>4
<1> HIDE DEF N
<1>3. N = Nat
  <2>1. N \in SUBSET Nat
    BY DEF N
  <2> QED
    BY <1>1, <1>2, <2>1, NumbersBelow
<1> QED
  BY <1>3 DEF N

\* The rows accepted so far are entries, and there are some after the first.
LEMMA AcceptedType ==
    ASSUME NEW rows \in Seq(Entries), NEW entry \in Entries
    PROVE  Accepted(rows, entry) \in Seq(Entries) /\ Accepted(rows, entry) # <<>>
<1> HIDE DEF Entries
<1>1. CASE \E i \in DOMAIN rows : SharesAWord(rows[i], entry)
  <2>1. rows # <<>>
    BY <1>1
  <2> QED
    BY <1>1, <2>1 DEF Accepted
<1>2. CASE ~\E i \in DOMAIN rows : SharesAWord(rows[i], entry)
  BY <1>2, AppendProperties DEF Accepted
<1> QED
  BY <1>1, <1>2

\* Of a file with rows, an import adds some.
LEMMA DeduplicatedType ==
    ASSUME NEW n \in Nat, n > 0, NEW file \in [1..n -> Entries]
    PROVE  Deduplicated(file) \in Seq(Entries) /\ Deduplicated(file) # <<>>
<1> DEFINE f == CHOOSE f : AcceptsRows(f, file, DOMAIN file)
<1>1. DOMAIN file = 1..n
  OBVIOUS
<1>2. AcceptsRows(f, file, 1..n)
  BY <1>1, AllAreAccepted
<1> HIDE DEF f
<1> DEFINE N == {m \in Nat : m <= n => \A s \in SUBSET (1..m) :
                    f[s] \in Seq(Entries) /\ (s # {} => f[s] # <<>>)}
<1>3. \A s \in SUBSET (1..n) :
        f[s] = IF s = {} THEN <<>> ELSE Accepted(f[s \ {Max(s)}], file[Max(s)])
  BY <1>2 DEF AcceptsRows
<1>4. 0 \in N
  <2>1. \A s \in SUBSET (1..0) : s = {}
    OBVIOUS
  <2>2. <<>> \in Seq(Entries) /\ {} \in SUBSET (1..n)
    OBVIOUS
  <2>3. f[{}] = <<>>
    BY <1>3, <2>2
  <2> QED
    BY <2>1, <2>2, <2>3
<1>5. ASSUME NEW m \in N PROVE m + 1 \in N
  <2> SUFFICES ASSUME m + 1 <= n, NEW s \in SUBSET (1..(m + 1))
               PROVE  f[s] \in Seq(Entries) /\ (s # {} => f[s] # <<>>)
    OBVIOUS
  <2>1. CASE m + 1 \in s
    <3>1. Max(s) = m + 1 /\ s \ {m + 1} \in SUBSET (1..m)
      BY <2>1, LastOf
    <3>2. f[s \ {m + 1}] \in Seq(Entries)
      BY <3>1
    <3>3. s \in SUBSET (1..n) /\ file[m + 1] \in Entries
      OBVIOUS
    <3>4. f[s] = Accepted(f[s \ {m + 1}], file[m + 1])
      BY <1>3, <2>1, <3>1, <3>3
    <3> QED
      BY <3>2, <3>3, <3>4, AcceptedType
  <2>2. CASE m + 1 \notin s
    <3>1. s \in SUBSET (1..m)
      BY <2>2
    <3> QED
      BY <3>1
  <2> QED
    BY <2>1, <2>2
<1> HIDE DEF N
<1>6. N = Nat
  <2>1. N \in SUBSET Nat
    BY DEF N
  <2> QED
    BY <1>4, <1>5, <2>1, NumbersBelow
<1>7. f[1..n] \in Seq(Entries) /\ f[1..n] # <<>>
  <2>1. n \in N /\ 1..n # {}
    BY <1>6
  <2> QED
    BY <2>1 DEF N
<1>8. Deduplicated(file) = f[1..n]
  BY <1>1, DeduplicatedIs DEF f
<1> QED
  BY <1>7, <1>8

-----------------------------------------------------------------------------
(***************************************************************************)
(* The types of the rows and of the requests                               *)
(***************************************************************************)

\* What a request is about, at each of its stages.
AtRow(q) == q.op = "update" /\ q.stage \in {"find", "check", "write"}
HasTodo(q) == q.stage = "check" \/ (q.stage = "write" /\ q.op # "delete")
GlossaryStages ==
    {"unborn", "find", "check", "write", "read", "answered", "refused", "missing", "failed"}

\* A request has the rows, and the id, that its stage goes on with.
EntryRequest(q) ==
    /\ RequestShape(q) /\ q.op \in Operations \cup {"none"} /\ q.stage \in GlossaryStages
    /\ q.collection \in AllCollections
    /\ q.todo \in Seq(Entries) /\ (HasTodo(q) \/ AtRow(q) => q.todo # <<>>)
    /\ AtRow(q) => q.id \in RowIds
    /\ q.op = "import" => q.stage \notin {"find", "read"}
    /\ q.stage = "find" => q.op \in {"update", "delete"}
    /\ q.stage = "check" => q.op # "delete"

\* The rows of a table, and the id its next row gets, which is past the bound only
\* when the table is full.
RowTypes ==
    \A c \in AllCollections :
        /\ \A row \in glRows[c] : row.id \in RowIds /\ row.entry \in Entries
        /\ glNext[c] \in 1..MaxRowId + 1
EntriesInv == RowTypes /\ \A r \in GlossaryRequests : EntryRequest(glRequest[r])

\* The stages above are the ones of the type invariant.
LEMMA EntriesSuffice == EntriesInv => GlossaryTypeOK
  BY DEF EntriesInv, RowTypes, EntryRequest, GlossaryStages, GlossaryTypeOK

\* No entry, and one entry, are sequences of entries.
LEMMA NoEntries == <<>> \in Seq(Entries) /\ \A e \in Entries : <<e>> \in Seq(Entries) /\ <<e>> # <<>>
<1> HIDE DEF Entries
<1> QED
  OBVIOUS

\* The requests that end, and those that go on.
LEMMA OverTyped ==
    ASSUME NEW op \in Operations \cup {"none"},
           NEW stage \in {"unborn", "answered", "refused", "missing", "failed"}
    PROVE  EntryRequest(Over(op, stage))
<1> DEFINE q == Over(op, stage)
<1>1. /\ q.op = op /\ q.stage = stage /\ q.collection \in AllCollections /\ q.todo = <<>>
      /\ RequestShape(q)
  BY DEF Over, Request, NoRows, AllCollections, RequestShape
<1> HIDE DEF q
<1>2. EntryRequest(q)
  BY <1>1, NoEntries DEF EntryRequest, HasTodo, AtRow, GlossaryStages
<1> QED
  BY <1>2 DEF q

LEMMA EndedTyped ==
    ASSUME NEW q, EntryRequest(q), NEW stage \in {"answered", "refused", "missing", "failed"}
    PROVE  EntryRequest(Ended(q, stage))
  BY OverTyped DEF Ended, EntryRequest

\* A request that goes on has what its next stage needs.
LEMMA GoesOnTyped ==
    ASSUME NEW q, EntryRequest(q), NEW stage \in {"check", "write", "read"}, NEW todo \in Seq(Entries),
           NEW seen,
           stage = "read" => q.op # "import",
           stage = "check" => q.op # "delete" /\ todo # <<>>,
           stage = "write" => q.op = "delete" \/ todo # <<>>,
           q.op = "update" => q.id \in RowIds
    PROVE  EntryRequest(GoesOn(q, stage, todo, seen))
<1> DEFINE t == GoesOn(q, stage, todo, seen)
<1>1. /\ t.op = q.op /\ t.stage = stage /\ t.collection = q.collection /\ t.todo = todo
      /\ t.id = q.id /\ RequestShape(t)
  BY DEF GoesOn, RequestShape
<1> HIDE DEF t
<1>2. EntryRequest(t)
  BY <1>1 DEF EntryRequest, HasTodo, AtRow, GlossaryStages
<1> QED
  BY <1>2 DEF t

\* An import goes on with its next row, and a refused or crashed request ends or does.
LEMMA NextRowTyped ==
    ASSUME NEW q, EntryRequest(q), q.stage \in {"find", "check", "write", "read"}
    PROVE  /\ q.op = "import" => EntryRequest(NextRow(q))
           /\ q.stage = "check" => EntryRequest(Refuse(q))
           /\ EntryRequest(Crash(q))
<1>1. ASSUME q.op = "import" PROVE EntryRequest(NextRow(q))
  <2>1. q.todo \in Seq(Entries) /\ q.todo # <<>>
    BY <1>1 DEF EntryRequest, HasTodo
  <2>2. CASE Len(q.todo) = 1
    BY <2>2, EndedTyped DEF NextRow
  <2>3. CASE Len(q.todo) # 1
    <3>1. Tail(q.todo) \in Seq(Entries) /\ Tail(q.todo) # <<>>
      <4> HIDE DEF Entries
      <4>1. Tail(q.todo) \in Seq(Entries) /\ Len(Tail(q.todo)) = Len(q.todo) - 1
        BY <2>1, HeadTailProperties
      <4>2. Len(q.todo) \in Nat /\ Len(<<>>) = 0
        BY <2>1
      <4>3. Len(Tail(q.todo)) # 0
        BY <2>3, <4>1, <4>2
      <4> QED
        BY <4>1, <4>2, <4>3
    <3> QED
      BY <1>1, <2>3, <3>1, GoesOnTyped DEF NextRow
  <2> QED
    BY <2>2, <2>3
<1>2. EntryRequest(Ended(q, "refused")) /\ EntryRequest(Ended(q, "failed"))
  BY EndedTyped
<1> QED
  BY <1>1, <1>2 DEF Refuse, Crash

\* A step that replaces one request keeps the types.
LEMMA StepsTyped ==
    ASSUME RaceInv, EntriesInv, NEW r \in GlossaryRequests, NEW q, EntryRequest(q),
           glRequest' = [glRequest EXCEPT ![r] = q], RowTypes'
    PROVE  EntriesInv'
<1>1. \A x \in GlossaryRequests : EntryRequest(glRequest'[x])
  BY DEF RaceInv, RequestsOK, EntriesInv
<1>2. \A x \in GlossaryRequests : EntryRequest(glRequest[x])'
  BY <1>1 DEF EntryRequest, HasTodo, AtRow, RequestShape
<1> QED
  BY <1>2 DEF EntriesInv

\* A step that changes no table keeps the types of the tables.
LEMMA RowsStand ==
    ASSUME EntriesInv, OnlyRequests PROVE RowTypes'
  BY DEF EntriesInv, RowTypes, OnlyRequests

\* A request arrives.
LEMMA ArrivalTyped ==
    ASSUME RaceInv, EntriesInv, NEW r \in GlossaryRequests, NEW c \in AllCollections,
           \/ \E op \in Operations : \E level : Forbid(r, op, level)
           \/ \E entry \in Entries : \E force : CreateEntry(r, c, entry, force)
           \/ \E file \in Files : ImportFile(r, c, file)
           \/ \E id \in RowIds, entry \in Entries : \E force : UpdateEntry(r, c, id, entry, force)
           \/ \E id : DeleteEntry(r, c, id)
    PROVE  EntriesInv'
<1> DEFINE Result(q) == EntryRequest(q) /\ glRequest' = [glRequest EXCEPT ![r] = q] /\ OnlyRequests
<1>1. \A q : Arrives(r, q) => glRequest' = [glRequest EXCEPT ![r] = q] /\ OnlyRequests
  BY DEF Arrives, Steps
<1>2. ASSUME NEW op \in Operations, NEW stage \in {"check", "find"}, NEW id, NEW todo \in Seq(Entries),
             NEW force,
             op = "import" => stage # "find",
             stage = "find" => op \in {"update", "delete"},
             stage = "check" => op # "delete" /\ todo # <<>>,
             op = "update" => todo # <<>> /\ id \in RowIds
      PROVE  EntryRequest(Request(op, stage, c, id, todo, force))
  <2> DEFINE t == Request(op, stage, c, id, todo, force)
  <2>1. /\ t.op = op /\ t.stage = stage /\ t.collection = c /\ t.todo = todo /\ t.id = id
        /\ RequestShape(t)
    BY DEF Request, RequestShape
  <2> HIDE DEF t
  <2>2. EntryRequest(t)
    BY <1>2, <2>1 DEF EntryRequest, HasTodo, AtRow, GlossaryStages
  <2> QED
    BY <2>2 DEF t
<1>3. {"create", "import", "update", "delete"} \subseteq Operations
  BY DEF Operations, RequiredLevel
<1>4. ASSUME NEW op \in Operations, NEW level, Forbid(r, op, level) PROVE \E q : Result(q)
  BY <1>1, <1>4, OverTyped DEF Forbid
<1>5. ASSUME NEW entry \in Entries, NEW force, CreateEntry(r, c, entry, force) PROVE \E q : Result(q)
  <2>1. <<entry>> \in Seq(Entries) /\ <<entry>> # <<>>
    BY NoEntries
  <2>2. EntryRequest(Request("create", "check", c, 0, <<entry>>, force))
    BY <1>2, <1>3, <2>1
  <2> QED
    BY <1>1, <1>5, <2>2 DEF CreateEntry
<1>6. ASSUME NEW file \in Files, ImportFile(r, c, file) PROVE \E q : Result(q)
  <2>1. PICK n \in 1..2 : file \in [1..n -> Entries]
    BY DEF Files
  <2>2. Deduplicated(file) \in Seq(Entries) /\ Deduplicated(file) # <<>>
    BY <2>1, DeduplicatedType
  <2>3. EntryRequest(Request("import", "check", c, 0, Deduplicated(file), FALSE))
    BY <1>2, <1>3, <2>2
  <2>4. EntryRequest(Over("import", "missing"))
    BY <1>3, OverTyped
  <2> QED
    BY <1>1, <1>6, <2>3, <2>4 DEF ImportFile
<1>7. ASSUME NEW id \in RowIds, NEW entry \in Entries, NEW force, UpdateEntry(r, c, id, entry, force)
      PROVE  \E q : Result(q)
  <2>1. <<entry>> \in Seq(Entries) /\ <<entry>> # <<>>
    BY NoEntries
  <2>2. EntryRequest(Request("update", "find", c, id, <<entry>>, force))
    BY <1>2, <1>3, <2>1
  <2> QED
    BY <1>1, <1>7, <2>2 DEF UpdateEntry
<1>8. ASSUME NEW id, DeleteEntry(r, c, id) PROVE \E q : Result(q)
  <2>1. EntryRequest(Request("delete", "find", c, id, NoRows, FALSE))
    BY <1>2, <1>3, NoEntries DEF NoRows
  <2> QED
    BY <1>1, <1>8, <2>1 DEF DeleteEntry
<1>9. PICK q : Result(q)
  BY <1>4, <1>5, <1>6, <1>7, <1>8
<1> QED
  BY <1>9, RowsStand, StepsTyped

\* A request is handled.
LEMMA HandledTyped ==
    ASSUME RaceInv, EntriesInv, NEW r \in GlossaryRequests, HandleRequest(r)
    PROVE  EntriesInv'
<1> DEFINE q == glRequest[r]
           c == q.collection
<1>1. EntryRequest(q) /\ c \in AllCollections /\ RowTypes
  BY DEF EntriesInv, EntryRequest
<1>2. ASSUME NEW t, EntryRequest(t), Steps(r, t) PROVE EntriesInv'
  BY <1>2, RowsStand, StepsTyped DEF Steps
<1>3. ASSUME FindEntry(r) PROVE EntriesInv'
  <2>1. q.stage = "find" /\ q.todo \in Seq(Entries) /\ q.op \in {"update", "delete"}
    BY <1>1, <1>3 DEF FindEntry, EntryRequest
  <2>2. q.op = "update" => q.id \in RowIds /\ q.todo # <<>>
    BY <1>1, <2>1 DEF EntryRequest, AtRow
  <2>3. \A stage \in {"failed", "missing"} : EntryRequest(Ended(q, stage))
    BY <1>1, EndedTyped
  <2>4. EntryRequest(GoesOn(q, IF q.op = "update" THEN "check" ELSE "write", q.todo, {}))
    <3> HIDE DEF q
    <3> QED
      BY <1>1, <2>1, <2>2, GoesOnTyped
  <2> QED
    BY <1>2, <1>3, <2>3, <2>4 DEF FindEntry
<1>4. ASSUME CheckDuplicate(r) PROVE EntriesInv'
  <2>1. q.stage = "check" /\ q.todo \in Seq(Entries) /\ q.todo # <<>>
    BY <1>1, <1>4 DEF CheckDuplicate, EntryRequest, HasTodo
  <2>2. q.op = "update" => q.id \in RowIds
    BY <1>1, <2>1 DEF EntryRequest, AtRow
  <2>3. EntryRequest(Refuse(q))
    BY <1>1, <2>1, NextRowTyped
  <2>4. \A seen : EntryRequest(GoesOn(q, "write", q.todo, seen))
    <3> HIDE DEF q
    <3> QED
      BY <1>1, <2>1, <2>2, GoesOnTyped
  <2> QED
    BY <1>2, <1>4, <2>3, <2>4 DEF CheckDuplicate
<1>5. ASSUME InsertEntry(r) PROVE EntriesInv'
  <2> DEFINE row == [id |-> glNext[c], entry |-> Head(q.todo), sound |-> CurrentCheck(q)]
  <2>1. q.stage = "write" /\ q.op \in {"create", "import"} /\ glNext[c] <= MaxRowId
    BY <1>5 DEF InsertEntry
  <2>2. q.todo \in Seq(Entries) /\ q.todo # <<>>
    BY <1>1, <2>1 DEF EntryRequest, HasTodo
  <2>3. Head(q.todo) \in Entries
    <3> HIDE DEF Entries, q
    <3> QED
      BY <2>2, HeadTailProperties
  <2>4. row.id \in RowIds /\ row.entry \in Entries /\ glNext[c] + 1 \in 1..MaxRowId + 1
    BY <1>1, <2>1, <2>3, GlossaryAssumption DEF RowTypes, RowIds, GlossaryAssumption
  <2>5. /\ glRows' = [glRows EXCEPT ![c] = @ \cup {row}]
        /\ glNext' = [glNext EXCEPT ![c] = @ + 1]
    BY <1>5 DEF InsertEntry
  <2> HIDE DEF row
  <2>6. RowTypes'
    BY <1>1, <2>4, <2>5 DEF RowTypes, RaceInv, RowsOK
  <2>7. PICK t : EntryRequest(t) /\ glRequest' = [glRequest EXCEPT ![r] = t]
    <3>1. EntryRequest(Ended(q, "answered")) /\ (q.op = "import" => EntryRequest(NextRow(q)))
      BY <1>1, <2>1, EndedTyped, NextRowTyped
    <3> QED
      BY <1>5, <3>1 DEF InsertEntry
  <2> QED
    BY <2>6, <2>7, StepsTyped
<1>6. ASSUME RewriteEntry(r) PROVE EntriesInv'
  <2> DEFINE old == {row \in glRows[c] : row.id = q.id}
             new == [id |-> q.id, entry |-> Head(q.todo), sound |-> CurrentCheck(q)]
  <2>1. q.stage = "write" /\ q.op = "update"
    BY <1>6 DEF RewriteEntry
  <2>2. q.todo \in Seq(Entries) /\ q.todo # <<>> /\ q.id \in RowIds
    BY <1>1, <2>1 DEF EntryRequest, HasTodo, AtRow
  <2>3. Head(q.todo) \in Entries
    <3> HIDE DEF Entries, q
    <3> QED
      BY <2>2, HeadTailProperties
  <2>4. new.id \in RowIds /\ new.entry \in Entries
    BY <2>2, <2>3
  <2>5. /\ glRows' = [glRows EXCEPT ![c] = IF old = {} THEN @ ELSE (@ \ old) \cup {new}]
        /\ UNCHANGED glNext
    BY <1>6 DEF RewriteEntry
  <2> HIDE DEF old, new
  <2>6. RowTypes'
    BY <1>1, <2>4, <2>5 DEF RowTypes, RaceInv, RowsOK
  <2>7. EntryRequest(GoesOn(q, "read", NoRows, {}))
    <3> HIDE DEF q
    <3> QED
      BY <1>1, <2>1, <2>2, NoEntries, GoesOnTyped DEF NoRows
  <2>8. glRequest' = [glRequest EXCEPT ![r] = GoesOn(q, "read", NoRows, {})]
    BY <1>6 DEF RewriteEntry
  <2> QED
    BY <2>6, <2>7, <2>8, StepsTyped
<1>7. ASSUME ReadBack(r) PROVE EntriesInv'
  <2>1. \A stage \in {"answered", "missing"} : EntryRequest(Ended(q, stage))
    BY <1>1, EndedTyped
  <2> QED
    BY <1>2, <1>7, <2>1 DEF ReadBack
<1>8. ASSUME RemoveEntry(r) PROVE EntriesInv'
  <2>1. /\ glRows' = [glRows EXCEPT ![c] = {row \in @ : row.id # q.id}]
        /\ UNCHANGED glNext
        /\ glRequest' = [glRequest EXCEPT ![r] = Ended(q, "answered")]
    BY <1>8 DEF RemoveEntry
  <2>2. RowTypes'
    BY <1>1, <2>1 DEF RowTypes, RaceInv, RowsOK
  <2> QED
    BY <1>1, <2>1, <2>2, EndedTyped, StepsTyped
<1>9. ASSUME DatabaseFails(r) PROVE EntriesInv'
  <2>1. q.stage \in {"find", "check", "write", "read"} /\ Steps(r, Crash(q))
    BY <1>9 DEF DatabaseFails
  <2> QED
    BY <1>1, <1>2, <2>1, NextRowTyped
<1> QED
  BY <1>3, <1>4, <1>5, <1>6, <1>7, <1>8, <1>9 DEF HandleRequest

\* The first tables and requests have the types.
LEMMA EntriesInit == GlossaryInit => EntriesInv
<1> SUFFICES ASSUME GlossaryInit PROVE EntriesInv
  OBVIOUS
<1>1. \A r \in GlossaryRequests : EntryRequest(glRequest[r])
  <2>1. Unborn = Over("none", "unborn")
    BY DEF Unborn, Over
  <2> QED
    BY <2>1, OverTyped DEF GlossaryInit
<1>2. RowTypes
  <2>1. 1 \in RowIds /\ 1 \in 1..MaxRowId + 1 /\ 2 \in 1..MaxRowId + 1
    BY GlossaryAssumption DEF GlossaryAssumption, RowIds
  <2>2. PICK filled \in {{}, glTables}, entry \in Entries :
          /\ glRows = [c \in AllCollections |->
                IF c \in filled THEN {[id |-> 1, entry |-> entry, sound |-> TRUE]} ELSE {}]
          /\ glNext = [c \in AllCollections |-> IF c \in filled THEN 2 ELSE 1]
    BY DEF GlossaryInit
  <2> HIDE DEF Entries
  <2> QED
    BY <2>1, <2>2 DEF RowTypes
<1> QED
  BY <1>1, <1>2 DEF EntriesInv

\* Every step keeps them.
LEMMA EntriesInductive == RaceInv /\ EntriesInv /\ [GlossaryNext]_glVars => EntriesInv'
<1> SUFFICES ASSUME RaceInv, EntriesInv, [GlossaryNext]_glVars PROVE EntriesInv'
  OBVIOUS
<1>1. CASE UNCHANGED glVars
  BY <1>1 DEF glVars, EntriesInv, RowTypes
<1>2. ASSUME NEW r \in GlossaryRequests, NEW op \in Operations, NEW level, Forbid(r, op, level)
      PROVE  EntriesInv'
  <2>1. DefaultCollection \in AllCollections
    BY DEF AllCollections
  <2> QED
    BY <1>2, <2>1, ArrivalTyped
<1> QED
  BY <1>1, <1>2, ArrivalTyped, HandledTyped DEF GlossaryNext

\* The rows of every table, the id its next row gets, and the state of every request
\* keep their types, for any collections, words and requests.  A request never
\* writes a row it does not have: the ones an import accepted from a file are
\* some (app.py:1318-1335).
THEOREM GlossaryTypeCorrect == GlossarySpec => []GlossaryTypeOK
<1>1. GlossaryInit => RaceInv /\ EntriesInv
  BY GlossaryStart, EntriesInit
<1>2. RaceInv /\ EntriesInv /\ [GlossaryNext]_glVars => RaceInv' /\ EntriesInv'
  BY GlossaryStep, EntriesInductive
<1> QED
  BY <1>1, <1>2, EntriesSuffice, PTL DEF GlossarySpec

-----------------------------------------------------------------------------
(* ---- RateLimiter, for any addresses, limits and windows ---- *)

\* What the limiter has forgotten is out of the window (Forgotten), so the
\* requests it still counts are those within the window, and it is full exactly
\* when the MaxRequests-th from the end is one of them (FullIff).  The properties
\* follow from that.

-----------------------------------------------------------------------------
(***************************************************************************)
(* The invariant                                                           *)
(***************************************************************************)

Times(a) == 1..Len(rlAllowed[a])

KeptWereAllowed == \A a \in Addresses : rlKept[a] \subseteq Times(a)
InThePast == \A a \in Addresses : \A i \in Times(a) : rlAllowed[a][i] <= rlNow
InOrder == \A a \in Addresses : \A i, j \in Times(a) : i <= j => rlAllowed[a][i] <= rlAllowed[a][j]
Forgotten == \A a \in Addresses : \A i \in Times(a) :
                i \notin rlKept[a] => rlAllowed[a][i] + Window <= rlNow

\* The limiter's memory agrees with the requests it let through.
MemoryInv == RateTypeOK /\ KeptWereAllowed /\ InThePast /\ InOrder /\ Forgotten

\* The first of the last MaxRequests requests of those that were let through
\* until there were n of them.
Earliest(n) == n - MaxRequests + 1

\* What a refused request was told, in terms of the requests it was told from.
ToldInv ==
    \A a \in Addresses :
        LET told == rlTold[a]
            wait == rlAllowed[a][Earliest(told.count)] + Window - told.at
        IN  told # NeverTold =>
                /\ told.at <= rlNow
                /\ MaxRequests <= told.count /\ told.count <= Len(rlAllowed[a])
                /\ told.seconds = wait \div TicksPerSecond

RateInv == MemoryInv /\ RateBounded /\ ToldInv

\* What Append makes of a sequence of times.
LEMMA AppendType ==
    ASSUME NEW s \in Seq(Nat), NEW n \in Nat
    PROVE  /\ Append(s, n) \in Seq(Nat)
           /\ Len(s) \in Nat /\ Len(Append(s, n)) = Len(s) + 1
           /\ \A i \in 1..Len(s) : Append(s, n)[i] = s[i]
           /\ Append(s, n)[Len(s) + 1] = n
  OBVIOUS

\* The numbers of an interval, which may be empty.
LEMMA IntervalSize ==
    ASSUME NEW m \in Int, NEW n \in Int, m <= n + 1
    PROVE  IsFiniteSet(m..n) /\ Cardinality(m..n) = n - m + 1
  <1>1. /\ IsFiniteSet(m..n)
        /\ Cardinality(m..n) = IF m > n THEN 0 ELSE n - m + 1
    BY FS_Interval
  <1>2. QED
    BY <1>1

\* The length and the times of an address's requests are numbers.
LEMMA TimesType ==
    ASSUME RateTypeOK, NEW a \in Addresses
    PROVE  /\ Len(rlAllowed[a]) \in Nat
           /\ \A i \in Times(a) : rlAllowed[a][i] \in Nat
           /\ DOMAIN rlAllowed[a] = Times(a)
  BY DEF RateTypeOK, Times

-----------------------------------------------------------------------------
(***************************************************************************)
(* What the limiter counts                                                 *)
(***************************************************************************)

\* After a cleanup the limiter has the requests within the window.
LEMMA CleanedIsWindow ==
    ASSUME MemoryInv, NEW a \in Addresses
    PROVE  /\ Cleaned(a) \subseteq Times(a)
           /\ \A i \in Times(a) : i \in Cleaned(a) <=> rlAllowed[a][i] > rlNow - Window
           /\ IsFiniteSet(Cleaned(a)) /\ Cardinality(Cleaned(a)) \in Nat
  <1>1. Len(rlAllowed[a]) \in Nat /\ rlNow \in Nat /\ Window \in Nat
        /\ \A i \in Times(a) : rlAllowed[a][i] \in Nat
    BY TimesType, RateAssumption DEF MemoryInv, RateTypeOK
  <1>2. Cleaned(a) \subseteq Times(a)
    BY DEF Cleaned, MemoryInv, KeptWereAllowed
  <1>3. \A i \in Times(a) : i \in Cleaned(a) <=> rlAllowed[a][i] > rlNow - Window
    BY <1>1 DEF Cleaned, MemoryInv, KeptWereAllowed, Forgotten
  <1>4. IsFiniteSet(Times(a))
    <2>1. 1 \in Int /\ Len(rlAllowed[a]) \in Int /\ 1 <= Len(rlAllowed[a]) + 1
      BY <1>1
    <2>2. QED
      BY <2>1, IntervalSize DEF Times
  <1>5. IsFiniteSet(Cleaned(a))
    BY <1>2, <1>4, FS_Subset
  <1>6. QED
    BY <1>2, <1>3, <1>5, FS_CardinalityType

\* It is full exactly when the last MaxRequests of all requests are among them.
LEMMA FullIff ==
    ASSUME MemoryInv, NEW a \in Addresses
    PROVE  LET n == Len(rlAllowed[a])
           IN  Full(a) <=> n >= MaxRequests /\ rlAllowed[a][Earliest(n)] > rlNow - Window
  <1> DEFINE s == rlAllowed[a]
             n == Len(s)
             C == Cleaned(a)
             first == Earliest(n)
             cutoff == rlNow - Window
  <1>1. n \in Nat /\ cutoff \in Int /\ MaxRequests \in Nat \ {0} /\ \A i \in 1..n : s[i] \in Nat
    BY TimesType, RateAssumption DEF MemoryInv, RateTypeOK, Times
  <1>2. \A i, j \in 1..n : i <= j => s[i] <= s[j]
    BY DEF MemoryInv, InOrder, Times
  <1>3. /\ C \subseteq 1..n
        /\ \A i \in 1..n : i \in C <=> s[i] > cutoff
        /\ IsFiniteSet(C) /\ Cardinality(C) \in Nat
    BY CleanedIsWindow DEF Times
  <1>4. /\ Full(a) <=> Cardinality(C) >= MaxRequests
        /\ first = n - MaxRequests + 1
    BY DEF Full, Earliest
  <1> HIDE DEF s, n, C, first, cutoff
  <1>5. CASE n < MaxRequests
    <2>1. 1 \in Int /\ n \in Int /\ 1 <= n + 1 /\ n - 1 + 1 = n
      BY <1>1
    <2>2. IsFiniteSet(1..n) /\ Cardinality(1..n) = n
      BY <2>1, IntervalSize
    <2>3. Cardinality(C) <= n
      BY <1>3, <2>2, FS_Subset
    <2>4. QED
      BY <1>1, <1>3, <1>4, <1>5, <2>3 DEF s, n, first, cutoff
  <1>6. CASE n >= MaxRequests
    <2>1. first \in 1..n /\ first \in Int /\ n \in Int /\ n - first + 1 = MaxRequests
      BY <1>1, <1>4, <1>6
    <2>2. s[first] \in Nat
      BY <1>1, <2>1
    <2>3. ASSUME s[first] > cutoff PROVE Cardinality(C) >= MaxRequests
      <3>1. ASSUME NEW i \in first..n PROVE i \in C
        <4>1. i \in 1..n /\ first <= i
          BY <1>1, <2>1
        <4>2. s[first] <= s[i] /\ s[i] \in Nat
          BY <1>1, <1>2, <2>1, <4>1
        <4>3. s[i] > cutoff
          BY <1>1, <2>2, <2>3, <4>2
        <4>4. QED
          BY <1>3, <4>1, <4>3
      <3>2. first <= n + 1
        BY <2>1
      <3>3. Cardinality(first..n) = MaxRequests
        BY <2>1, <3>2, IntervalSize
      <3>4. Cardinality(first..n) <= Cardinality(C)
        BY <1>3, <3>1, FS_Subset
      <3>5. QED
        BY <3>3, <3>4
    <2>4. ASSUME ~(s[first] > cutoff) PROVE Cardinality(C) < MaxRequests
      <3>1. ASSUME NEW i \in C PROVE i \in (first + 1)..n
        <4>1. i \in 1..n /\ s[i] > cutoff /\ s[i] \in Nat
          BY <1>1, <1>3
        <4>2. ~(i <= first)
          <5>1. SUFFICES ASSUME i <= first PROVE FALSE
            OBVIOUS
          <5>2. s[i] <= s[first]
            BY <1>2, <2>1, <4>1, <5>1
          <5>3. QED
            BY <1>1, <2>2, <2>4, <4>1, <5>2
        <4>3. QED
          BY <2>1, <4>1, <4>2
      <3>2. /\ first + 1 \in Int /\ n \in Int /\ first + 1 <= n + 1
            /\ n - (first + 1) + 1 = MaxRequests - 1
        BY <2>1
      <3>3. IsFiniteSet((first + 1)..n) /\ Cardinality((first + 1)..n) = MaxRequests - 1
        BY <3>2, IntervalSize
      <3>4. Cardinality(C) <= MaxRequests - 1
        BY <3>1, <3>3, FS_Subset
      <3>5. QED
        BY <1>1, <1>3, <3>4
    <2>5. Full(a) <=> n >= MaxRequests /\ s[first] > cutoff
      BY <1>1, <1>3, <1>4, <1>6, <2>3, <2>4
    <2>6. QED
      BY <2>5 DEF s, n, first, cutoff
  <1>7. QED
    BY <1>1, <1>5, <1>6

\* The oldest request of a full limiter is the first of the last MaxRequests.
LEMMA OldestIsEarliest ==
    ASSUME RateInv, NEW a \in Addresses, Full(a)
    PROVE  Oldest(Cleaned(a)) = Earliest(Len(rlAllowed[a]))
  <1> DEFINE s == rlAllowed[a]
             n == Len(s)
             C == Cleaned(a)
             first == Earliest(n)
  <1>1. n \in Nat /\ rlNow \in Nat /\ Window \in Nat /\ MaxRequests \in Nat \ {0}
        /\ DOMAIN s = 1..n /\ \A i \in 1..n : s[i] \in Nat
    BY TimesType, RateAssumption DEF RateInv, MemoryInv, RateTypeOK, Times
  <1>2. MemoryInv /\ n >= MaxRequests /\ s[first] > rlNow - Window
    BY FullIff DEF RateInv
  <1>3. first \in 1..n /\ first \in C
    <2>1. first = n - MaxRequests + 1
      BY DEF Earliest
    <2>2. \A i \in 1..n : i \in C <=> s[i] > rlNow - Window
      BY <1>2, CleanedIsWindow DEF Times
    <2> HIDE DEF s, n, C, first
    <2>3. first \in 1..n
      BY <1>1, <1>2, <2>1
    <2> QED
      BY <1>2, <2>2, <2>3
  <1>4. ASSUME NEW i \in C
        PROVE  first <= i
    <2>1. i \in 1..n /\ s[i] > rlNow - Window
      BY <1>2, CleanedIsWindow DEF Times
    <2>2. SUFFICES ASSUME i + MaxRequests \in 1..n PROVE FALSE
      <3>1. first = n - MaxRequests + 1
        BY DEF Earliest
      <3> HIDE DEF n, first
      <3>2. ~(i + MaxRequests \in 1..n) => first <= i
        BY <1>1, <2>1, <3>1
      <3> QED
        BY <3>2
    <2>3. s[i + MaxRequests] >= s[i] + Window
      BY <1>1, <2>1, <2>2 DEF RateInv, RateBounded
    <2>4. s[i + MaxRequests] <= rlNow
      BY <1>2, <2>2 DEF MemoryInv, InThePast, Times
    <2>5. QED
      BY <1>1, <2>1, <2>2, <2>3, <2>4
  <1>5. \A i \in C : i \in Nat
    BY <1>1, <1>2, CleanedIsWindow DEF Times
  <1>6. \A i \in C : (\A j \in C : i <= j) => i = first
    BY <1>1, <1>3, <1>4, <1>5
  <1>7. QED
    BY <1>3, <1>4, <1>6 DEF Oldest

-----------------------------------------------------------------------------
(***************************************************************************)
(* The steps                                                               *)
(***************************************************************************)

\* A limiter that has seen nothing satisfies the invariant.
LEMMA InitRateInv == RateInit => RateInv
  <1> SUFFICES ASSUME RateInit
               PROVE  RateInv
    OBVIOUS
  <1>1. /\ rlNow = 0 /\ rlAsking = {}
        /\ \A a \in Addresses : rlAllowed[a] = <<>> /\ rlKept[a] = {} /\ rlTold[a] = NeverTold
    BY DEF RateInit
  <1>2. \A a \in Addresses : Times(a) = {} /\ DOMAIN rlAllowed[a] = {}
    BY <1>1 DEF Times
  <1>3. RateTypeOK
    <2>1. <<>> \in Seq(Nat) /\ NeverTold \in [at : Nat, seconds : Int, count : Nat]
      BY DEF NeverTold
    <2>2. QED
      BY <2>1 DEF RateInit, RateTypeOK
  <1>4. MemoryInv
    BY <1>1, <1>2, <1>3 DEF MemoryInv, KeptWereAllowed, InThePast, InOrder, Forgotten
  <1>5. QED
    BY <1>1, <1>2, <1>4 DEF RateInv, RateBounded, ToldInv

\* A request that is let through.
LEMMA PassKeepsInv ==
    ASSUME RateInv, NEW a \in Addresses, IsAllowed(a), ~Full(a)
    PROVE  RateInv'
  <1> DEFINE s == rlAllowed[a]
             n == Len(s)
             C == Cleaned(a)
  <1>1. /\ rlAllowed' = [rlAllowed EXCEPT ![a] = Append(s, rlNow)]
        /\ rlKept' = [rlKept EXCEPT ![a] = C \cup {n + 1}]
        /\ UNCHANGED <<rlNow, rlAsking, rlTold>>
    BY DEF IsAllowed
  <1>2. /\ n \in Nat /\ rlNow \in Nat /\ Window \in Nat /\ MaxRequests \in Nat \ {0}
        /\ s \in Seq(Nat) /\ DOMAIN s = 1..n /\ \A i \in 1..n : s[i] \in Nat
    BY TimesType, RateAssumption DEF RateInv, MemoryInv, RateTypeOK, Times
  <1>3. /\ C \subseteq 1..n
        /\ \A i \in 1..n : i \in C <=> s[i] > rlNow - Window
    BY CleanedIsWindow DEF RateInv, Times
  <1>4. \A b \in Addresses : b # a => /\ rlAllowed'[b] = rlAllowed[b] /\ rlKept'[b] = rlKept[b]
                                     /\ Times(b)' = Times(b)
    BY <1>1 DEF RateInv, MemoryInv, RateTypeOK, Times
  <1>5. /\ rlAllowed'[a] \in Seq(Nat) /\ Len(rlAllowed'[a]) = n + 1
        /\ \A i \in 1..n : rlAllowed'[a][i] = s[i]
        /\ rlAllowed'[a][n + 1] = rlNow
        /\ rlKept'[a] = C \cup {n + 1}
        /\ Times(a)' = 1..(n + 1) /\ DOMAIN rlAllowed'[a] = 1..(n + 1)
    <2>1. rlAllowed'[a] = Append(s, rlNow) /\ rlKept'[a] = C \cup {n + 1}
      BY <1>1 DEF RateInv, MemoryInv, RateTypeOK
    <2>2. QED
      BY <1>2, <2>1, AppendType DEF Times
  <1> HIDE DEF C, n, s
  <1>a. \A i \in 1..(n + 1) : i \in 1..n \/ i = n + 1
    BY <1>2
  <1>b. \A i \in 1..n : i \in 1..(n + 1) /\ i < n + 1 /\ i \in Nat
    BY <1>2
  <1>6. RateTypeOK'
    <2>1. C \cup {n + 1} \in SUBSET Nat
      BY <1>2, <1>3
    <2>2. Append(s, rlNow) \in Seq(Nat)
      BY <1>2
    <2>3. QED
      BY <1>1, <2>1, <2>2 DEF RateInv, MemoryInv, RateTypeOK
  <1>7. KeptWereAllowed'
    <2>1. rlKept'[a] \subseteq 1..(n + 1)
      BY <1>2, <1>3, <1>5, <1>b
    <2>2. QED
      BY <1>4, <1>5, <2>1 DEF RateInv, MemoryInv, KeptWereAllowed
  <1>8. InThePast'
    <2>1. \A i \in 1..n : s[i] <= rlNow
      BY DEF RateInv, MemoryInv, InThePast, Times, n, s
    <2>2. ASSUME NEW i \in 1..(n + 1)
          PROVE  rlAllowed'[a][i] <= rlNow
      <3>1. CASE i \in 1..n
        BY <1>5, <2>1, <3>1
      <3>2. CASE i = n + 1
        BY <1>2, <1>5, <3>2
      <3>3. QED
        BY <1>a, <3>1, <3>2
    <2>3. QED
      BY <1>1, <1>4, <1>5, <2>2 DEF RateInv, MemoryInv, InThePast
  <1>9. InOrder'
    <2>1. /\ \A i \in 1..n : s[i] <= rlNow
          /\ \A i, j \in 1..n : i <= j => s[i] <= s[j]
      BY DEF RateInv, MemoryInv, InThePast, InOrder, Times, n, s
    <2>2. ASSUME NEW i \in 1..(n + 1), NEW j \in 1..(n + 1), i <= j
          PROVE  rlAllowed'[a][i] <= rlAllowed'[a][j]
      <3>1. CASE j = n + 1
        <4>1. rlAllowed'[a][i] <= rlNow
          <5>1. CASE i \in 1..n
            BY <1>5, <2>1, <5>1
          <5>2. CASE i = n + 1
            BY <1>2, <1>5, <5>2
          <5>3. QED
            BY <1>a, <5>1, <5>2
        <4>2. QED
          BY <1>5, <3>1, <4>1
      <3>2. CASE j \in 1..n
        <4>1. i \in 1..n
          BY <1>2, <1>a, <1>b, <2>2, <3>2
        <4>2. QED
          BY <1>5, <2>1, <2>2, <3>2, <4>1
      <3>3. QED
        BY <1>a, <3>1, <3>2
    <2>3. QED
      BY <1>1, <1>4, <1>5, <2>2 DEF RateInv, MemoryInv, InOrder
  <1>10. Forgotten'
    <2>1. \A i \in 1..(n + 1) : i \notin rlKept'[a] => rlAllowed'[a][i] + Window <= rlNow
      <3>1. SUFFICES ASSUME NEW i \in 1..(n + 1), i \notin C, i # n + 1
                     PROVE  rlAllowed'[a][i] + Window <= rlNow
        BY <1>5
      <3>2. i \in 1..n
        BY <1>a, <3>1
      <3>3. s[i] \in Nat /\ ~(s[i] > rlNow - Window) /\ rlAllowed'[a][i] = s[i]
        BY <1>2, <1>3, <1>5, <3>1, <3>2
      <3>4. QED
        BY <1>2, <3>3
    <2>2. QED
      BY <1>1, <1>4, <1>5, <2>1 DEF RateInv, MemoryInv, Forgotten
  <1>11. RateBounded'
    <2>1. ASSUME NEW i \in 1..(n + 1), i + MaxRequests \in 1..(n + 1)
          PROVE  rlAllowed'[a][i + MaxRequests] >= rlAllowed'[a][i] + Window
      <3>1. i \in 1..n
        BY <1>2, <2>1
      <3>2. CASE i + MaxRequests \in 1..n
        <4>1. s[i + MaxRequests] >= s[i] + Window
          BY <1>2, <3>1, <3>2 DEF RateInv, RateBounded, s
        <4>2. QED
          BY <1>5, <3>1, <3>2, <4>1
      <3>3. CASE i + MaxRequests = n + 1
        <4>1. n >= MaxRequests /\ Earliest(n) = i
          BY <1>2, <3>1, <3>3 DEF Earliest
        <4>2. ~(s[i] > rlNow - Window)
          BY <4>1, FullIff DEF RateInv, n, s
        <4>3. QED
          <5>1. rlAllowed'[a][i + MaxRequests] = rlNow /\ rlAllowed'[a][i] = s[i]
            BY <1>5, <3>1, <3>3
          <5>2. s[i] \in Nat /\ ~(s[i] > rlNow - Window)
            BY <1>2, <3>1, <4>2
          <5>3. QED
            BY <1>2, <5>1, <5>2
      <3>4. QED
        BY <1>2, <2>1, <3>2, <3>3
    <2>2. \A i, k \in 1..(n + 1) :
            k = i + MaxRequests => rlAllowed'[a][k] >= rlAllowed'[a][i] + Window
      BY <2>1
    <2>3. QED
      BY <1>4, <1>5, <2>2 DEF RateInv, RateBounded
  <1>12. ToldInv'
    <2>1. ASSUME NEW b \in Addresses, rlTold[b] # NeverTold
          PROVE  LET told == rlTold[b]
                     wait == rlAllowed'[b][Earliest(told.count)] + Window - told.at
                 IN  /\ told.at <= rlNow
                     /\ MaxRequests <= told.count /\ told.count <= Len(rlAllowed'[b])
                     /\ told.seconds = wait \div TicksPerSecond
      <3>1. CASE b # a
        BY <1>4, <2>1, <3>1 DEF RateInv, ToldInv
      <3>2. CASE b = a
        <4>1. /\ rlTold[a].at <= rlNow
              /\ MaxRequests <= rlTold[a].count /\ rlTold[a].count <= n
              /\ rlTold[a].seconds =
                    (s[Earliest(rlTold[a].count)] + Window - rlTold[a].at) \div TicksPerSecond
              /\ rlTold[a].count \in Nat
          BY <2>1, <3>2 DEF RateInv, ToldInv, MemoryInv, RateTypeOK, n, s
        <4>2. Earliest(rlTold[a].count) \in 1..n
          <5> DEFINE c == rlTold[a].count
          <5>1. c \in Nat /\ MaxRequests <= c /\ c <= n
            BY <4>1
          <5> HIDE DEF c
          <5>2. c - MaxRequests + 1 \in 1..n
            BY <1>2, <5>1
          <5>3. QED
            BY <5>2 DEF Earliest, c
        <4>3. rlAllowed'[a][Earliest(rlTold[a].count)] = s[Earliest(rlTold[a].count)]
          BY <1>5, <4>2
        <4>4. rlTold[a].count <= Len(rlAllowed'[a])
          BY <1>2, <1>5, <4>1
        <4>5. QED
          BY <3>2, <4>1, <4>3, <4>4
      <3>3. QED
        BY <3>1, <3>2
    <2>2. QED
      BY <1>1, <2>1 DEF ToldInv
  <1>13. QED
    BY <1>6, <1>7, <1>8, <1>9, <1>10, <1>11, <1>12 DEF RateInv, MemoryInv

\* Forgetting the requests out of the window, as a refusal and its answer do.
LEMMA CleaningKeepsMemory ==
    ASSUME RateInv, NEW a \in Addresses,
           rlKept' = [rlKept EXCEPT ![a] = Cleaned(a)],
           UNCHANGED <<rlNow, rlAllowed>>, rlAsking' \subseteq Addresses,
           rlTold' \in [Addresses -> [at : Nat, seconds : Int, count : Nat]]
    PROVE  MemoryInv' /\ RateBounded'
  <1>1. /\ Cleaned(a) \subseteq Times(a)
        /\ \A i \in Times(a) : i \in Cleaned(a) <=> rlAllowed[a][i] > rlNow - Window
    BY CleanedIsWindow DEF RateInv
  <1>2. /\ rlNow \in Nat /\ Window \in Nat /\ Times(a) \subseteq Nat
        /\ \A i \in Times(a) : rlAllowed[a][i] \in Nat
    BY TimesType, RateAssumption DEF RateInv, MemoryInv, RateTypeOK, Times
  <1>3. /\ rlKept'[a] = Cleaned(a)
        /\ \A b \in Addresses : b # a => rlKept'[b] = rlKept[b]
        /\ \A b \in Addresses : Times(b)' = Times(b) /\ rlAllowed'[b] = rlAllowed[b]
    BY DEF RateInv, MemoryInv, RateTypeOK, Times
  <1>4. RateTypeOK'
    <2>1. Cleaned(a) \in SUBSET Nat
      BY <1>1, <1>2
    <2>2. QED
      BY <2>1 DEF RateInv, MemoryInv, RateTypeOK
  <1>5. KeptWereAllowed'
    BY <1>1, <1>3 DEF RateInv, MemoryInv, KeptWereAllowed
  <1>6. InThePast' /\ InOrder'
    BY <1>3 DEF RateInv, MemoryInv, InThePast, InOrder
  <1>7. Forgotten'
    <2>1. \A i \in Times(a) : i \notin Cleaned(a) => rlAllowed[a][i] + Window <= rlNow
      BY <1>1, <1>2
    <2>2. QED
      BY <1>3, <2>1 DEF RateInv, MemoryInv, Forgotten
  <1>8. RateBounded'
    BY <1>3 DEF RateInv, RateBounded
  <1>9. QED
    BY <1>4, <1>5, <1>6, <1>7, <1>8 DEF MemoryInv

\* A request that is refused.
LEMMA RefusalKeepsInv ==
    ASSUME RateInv, NEW a \in Addresses, IsAllowed(a), Full(a)
    PROVE  RateInv'
  <1>1. /\ rlKept' = [rlKept EXCEPT ![a] = Cleaned(a)]
        /\ rlAsking' = {a} /\ UNCHANGED <<rlNow, rlAllowed, rlTold>>
    BY DEF IsAllowed
  <1>2. /\ rlAsking' \subseteq Addresses
        /\ rlTold' \in [Addresses -> [at : Nat, seconds : Int, count : Nat]]
    BY <1>1 DEF RateInv, MemoryInv, RateTypeOK
  <1>3. MemoryInv' /\ RateBounded'
    BY <1>1, <1>2, CleaningKeepsMemory
  <1>4. ToldInv'
    BY <1>1 DEF RateInv, ToldInv
  <1>5. QED
    BY <1>3, <1>4 DEF RateInv

\* The answer to a refused request.
LEMMA AnswerKeepsInv ==
    ASSUME RateInv, NEW a \in Addresses, GetRetryAfter(a)
    PROVE  RateInv'
  <1> DEFINE n == Len(rlAllowed[a])
             answer == IF Full(a)
                       THEN [at |-> rlNow, seconds |-> Wait(a) \div TicksPerSecond, count |-> n]
                       ELSE NeverTold
  <1>1. /\ rlKept' = [rlKept EXCEPT ![a] = Cleaned(a)]
        /\ rlTold' = [rlTold EXCEPT ![a] = answer]
        /\ rlAsking' = {} /\ UNCHANGED <<rlNow, rlAllowed>>
    BY DEF GetRetryAfter
  <1>2. /\ n \in Nat /\ rlNow \in Nat /\ Window \in Nat /\ MaxRequests \in Nat \ {0}
        /\ TicksPerSecond \in Nat \ {0}
        /\ \A i \in 1..n : rlAllowed[a][i] \in Nat
    BY TimesType, RateAssumption DEF RateInv, MemoryInv, RateTypeOK, Times
  <1>3. Full(a) => /\ n >= MaxRequests /\ rlAllowed[a][Earliest(n)] \in Nat
                   /\ Wait(a) = rlAllowed[a][Earliest(n)] + Window - rlNow
    <2>1. SUFFICES ASSUME Full(a)
                   PROVE  /\ n >= MaxRequests /\ rlAllowed[a][Earliest(n)] \in Nat
                          /\ Wait(a) = rlAllowed[a][Earliest(n)] + Window - rlNow
      OBVIOUS
    <2>2. n >= MaxRequests /\ Oldest(Cleaned(a)) = Earliest(n)
      BY <2>1, FullIff, OldestIsEarliest DEF RateInv
    <2>3. Earliest(n) \in 1..n
      BY <1>2, <2>2 DEF Earliest
    <2>4. rlAllowed[a][Earliest(n)] \in Nat
      BY <1>2, <2>3
    <2>5. Wait(a) = Window - (rlNow - rlAllowed[a][Earliest(n)])
      BY <2>2 DEF Wait
    <2>6. QED
      BY <1>2, <2>2, <2>4, <2>5
  <1>4. answer \in [at : Nat, seconds : Int, count : Nat]
    <2>1. CASE Full(a)
      <3>1. Wait(a) \in Int
        BY <1>2, <1>3, <2>1
      <3>2. Wait(a) \div TicksPerSecond \in Int
        BY <1>2, <3>1
      <3>3. QED
        BY <1>2, <2>1, <3>2
    <2>2. CASE ~Full(a)
      BY <2>2 DEF NeverTold
    <2>3. QED
      BY <2>1, <2>2
  <1> HIDE DEF answer
  <1>5. rlTold' \in [Addresses -> [at : Nat, seconds : Int, count : Nat]]
    BY <1>1, <1>4 DEF RateInv, MemoryInv, RateTypeOK
  <1>6. MemoryInv' /\ RateBounded'
    BY <1>1, <1>5, CleaningKeepsMemory
  <1>7. /\ rlTold'[a] = answer
        /\ \A b \in Addresses : b # a => rlTold'[b] = rlTold[b]
    BY <1>1 DEF RateInv, MemoryInv, RateTypeOK
  <1>8. answer # NeverTold =>
          /\ answer.at = rlNow /\ MaxRequests <= answer.count /\ answer.count = n
          /\ answer.seconds =
                (rlAllowed[a][Earliest(answer.count)] + Window - answer.at) \div TicksPerSecond
    BY <1>2, <1>3 DEF answer
  <1>9. ToldInv'
    <2>1. \A b \in Addresses : b # a => rlAllowed'[b] = rlAllowed[b] /\ rlTold'[b] = rlTold[b]
      BY <1>1, <1>7
    <2>2. rlAllowed'[a] = rlAllowed[a] /\ rlNow' = rlNow
      BY <1>1
    <2>3. QED
      BY <1>2, <1>7, <1>8, <2>1, <2>2 DEF RateInv, ToldInv
  <1>10. QED
    BY <1>6, <1>9 DEF RateInv

\* Time passes.
LEMMA TickKeepsInv ==
    ASSUME RateInv, ClockTicks
    PROVE  RateInv'
  <1>1. rlNow' = rlNow + 1 /\ UNCHANGED <<rlAllowed, rlKept, rlAsking, rlTold>>
    BY DEF ClockTicks
  <1>2. /\ rlNow \in Nat /\ Window \in Nat
        /\ \A b \in Addresses : \A i \in Times(b) : rlAllowed[b][i] \in Nat
        /\ \A b \in Addresses : rlTold[b].at \in Nat
    BY TimesType, RateAssumption DEF RateInv, MemoryInv, RateTypeOK
  <1>3. \A b \in Addresses : Times(b)' = Times(b)
    BY <1>1 DEF Times
  <1>4. RateTypeOK' /\ KeptWereAllowed' /\ InOrder'
    BY <1>1, <1>3 DEF RateInv, MemoryInv, RateTypeOK, KeptWereAllowed, InOrder
  <1>5. InThePast'
    BY <1>1, <1>2, <1>3 DEF RateInv, MemoryInv, InThePast
  <1>6. Forgotten'
    BY <1>1, <1>2, <1>3 DEF RateInv, MemoryInv, Forgotten
  <1>7. RateBounded'
    BY <1>1 DEF RateInv, RateBounded
  <1>8. ToldInv'
    BY <1>1, <1>2 DEF RateInv, ToldInv
  <1>9. QED
    BY <1>4, <1>5, <1>6, <1>7, <1>8 DEF RateInv, MemoryInv

\* Every step keeps the invariant.
LEMMA NextRateInv == RateInv /\ [RateNext]_rlVars => RateInv'
  <1> SUFFICES ASSUME RateInv, [RateNext]_rlVars
               PROVE  RateInv'
    OBVIOUS
  <1>1. ASSUME NEW a \in Addresses, IsAllowed(a)
        PROVE  RateInv'
    BY <1>1, PassKeepsInv, RefusalKeepsInv
  <1>2. ASSUME NEW a \in Addresses, GetRetryAfter(a)
        PROVE  RateInv'
    BY <1>2, AnswerKeepsInv
  <1>3. CASE ClockTicks
    BY <1>3, TickKeepsInv
  <1>4. CASE UNCHANGED rlVars
    BY <1>4 DEF rlVars, RateInv, MemoryInv, RateTypeOK, KeptWereAllowed, InThePast, InOrder,
                Forgotten, Times, RateBounded, ToldInv
  <1>5. QED
    BY <1>1, <1>2, <1>3, <1>4 DEF RateNext

\* The invariant holds in every state.
LEMMA RateInvariant == RateSpec => []RateInv
  BY InitRateInv, NextRateInv, PTL DEF RateSpec

-----------------------------------------------------------------------------
(***************************************************************************)
(* The seconds a refused request is told                                   *)
(***************************************************************************)

\* Whole seconds are at most the ticks waited for, and more than them with one
\* second more.
LEMMA WholeSeconds ==
    ASSUME NEW w \in Int, NEW t \in Nat \ {0}
    PROVE  /\ w \div t \in Int
           /\ (w \div t) * t <= w /\ w < ((w \div t) + 1) * t
  <1>1. w = t * (w \div t) + (w % t) /\ w % t \in 0..(t - 1) /\ w \div t \in Int
    OBVIOUS
  <1>2. QED
    BY <1>1

\* What was told is honest, because the request that has to leave the window is
\* still the first of the last MaxRequests when nothing was let through since,
\* and is followed by MaxRequests others that are within the window when
\* something was.
LEMMA ToldIsHonest == RateInv => RetryHonest
  <1> SUFFICES ASSUME RateInv, NEW a \in Addresses, rlTold[a] # NeverTold
               PROVE  LET told == rlTold[a]
                      IN  /\ rlNow < told.at + told.seconds * TicksPerSecond => Full(a)
                          /\ rlNow >= told.at + (told.seconds + 1) * TicksPerSecond
                             /\ Len(rlAllowed[a]) = told.count => ~Full(a)
    BY DEF RetryHonest
  <1> DEFINE at == rlTold[a].at
             c == rlTold[a].count
             n == Len(rlAllowed[a])
             s == rlAllowed[a]
             w == s[Earliest(c)] + Window - at
  <1>1. /\ n \in Nat /\ rlNow \in Nat /\ Window \in Nat /\ MaxRequests \in Nat \ {0}
        /\ TicksPerSecond \in Nat \ {0} /\ at \in Nat /\ c \in Nat
        /\ \A i \in 1..n : s[i] \in Nat
    BY TimesType, RateAssumption DEF RateInv, MemoryInv, RateTypeOK, Times
  <1>2. MaxRequests <= c /\ c <= n /\ rlTold[a].seconds = w \div TicksPerSecond
    BY DEF RateInv, ToldInv
  <1>3. Full(a) <=> n >= MaxRequests /\ s[Earliest(n)] > rlNow - Window
    BY FullIff DEF RateInv
  <1>4. \A i, j \in 1..n : i <= j => s[i] <= s[j]
    BY DEF RateInv, MemoryInv, InOrder, Times
  <1> HIDE DEF at, c, n, s
  <1>5. Earliest(c) \in 1..n /\ Earliest(n) \in 1..n /\ Earliest(c) <= Earliest(n)
    BY <1>1, <1>2 DEF Earliest
  <1>6. s[Earliest(c)] \in Nat /\ s[Earliest(n)] \in Nat /\ s[Earliest(c)] <= s[Earliest(n)]
    BY <1>1, <1>4, <1>5
  <1>7. w \in Int
    BY <1>1, <1>6
  <1>8. w = s[Earliest(c)] + Window - at
    OBVIOUS
  <1> HIDE DEF w
  <1> DEFINE seconds == w \div TicksPerSecond
  <1>9. /\ seconds \in Int
        /\ seconds * TicksPerSecond <= w /\ w < (seconds + 1) * TicksPerSecond
    BY <1>1, <1>7, WholeSeconds
  <1>10. /\ seconds * TicksPerSecond \in Int /\ (seconds + 1) * TicksPerSecond \in Int
    BY <1>1, <1>9
  <1> HIDE DEF seconds
  <1>11. ASSUME rlNow < at + seconds * TicksPerSecond
         PROVE  Full(a)
    <2>1. rlNow < at + w
      BY <1>1, <1>7, <1>9, <1>10, <1>11
    <2>2. s[Earliest(n)] > rlNow - Window
      BY <1>1, <1>6, <1>7, <1>8, <2>1
    <2>3. QED
      BY <1>1, <1>2, <1>3, <2>2
  <1>12. ASSUME rlNow >= at + (seconds + 1) * TicksPerSecond, n = c
         PROVE  ~Full(a)
    <2>1. rlNow > at + w
      BY <1>1, <1>7, <1>9, <1>10, <1>12
    <2>2. ~(s[Earliest(n)] > rlNow - Window)
      BY <1>1, <1>6, <1>7, <1>8, <1>12, <2>1
    <2>3. QED
      BY <1>3, <2>2
  <1>13. QED
    BY <1>2, <1>11, <1>12 DEF at, c, n, seconds

-----------------------------------------------------------------------------
(***************************************************************************)
(* The theorems                                                            *)
(***************************************************************************)

\* The state of the limiter keeps its types.
THEOREM RateTypeCorrect == RateSpec => []RateTypeOK
  <1>1. RateInv => RateTypeOK
    BY DEF RateInv, MemoryInv
  <1>2. QED
    BY <1>1, RateInvariant, PTL

\* No window of an address ever has more than MaxRequests requests let through.
THEOREM AtMostMaxRequests == RateSpec => []RateBounded
  <1>1. RateInv => RateBounded
    BY DEF RateInv
  <1>2. QED
    BY <1>1, RateInvariant, PTL

\* Coming back before the told seconds are over is always refused, coming back a
\* second after them is not.
THEOREM RetryAfterHonest == RateSpec => []RetryHonest
  BY ToldIsHonest, RateInvariant, PTL
-----------------------------------------------------------------------------
(* ---- all of them together ---- *)

\* A part that stays is in an initial state of its own.
LEMMA ConfigStaysInitial == ConfigStays => ConfigInit
<1> SUFFICES ASSUME ConfigStays PROVE ConfigInit
  OBVIOUS
<1>1. Keys("roles") = RoleNames
  BY DEF Keys
<1>2. cfKind \in Kinds /\ cfDb \in FirstDb(cfKind)
  BY <1>1 DEF ConfigStays, Kinds, FirstDb
<1>3. cfTouched = [k \in Keys(cfKind) \cap GroupKeys |-> 0]
  BY <1>1 DEF ConfigStays
<1>4. \E warm \in {{}, Procs} :
         cfCache = [p \in Procs |-> IF p \in warm THEN WarmCache ELSE EmptyCache]
  <2>1. cfCache = [p \in Procs |-> IF p \in {} THEN WarmCache ELSE EmptyCache]
    BY DEF ConfigStays
  <2> QED
    BY <2>1
<1> QED
  BY <1>2, <1>3, <1>4 DEF ConfigStays, ConfigInit

LEMMA AccessStaysInitial == AccessStays => AccessInit
  BY DEF AccessStays, AccessInit, AllUsers

LEMMA GlossaryStaysInitial == GlossaryStays => GlossaryInit
<1> SUFFICES ASSUME GlossaryStays PROVE GlossaryInit
  OBVIOUS
<1>1. PICK entry : entry \in Entries
  <2>1. PICK w : w \in Words
    BY WordsAssumption
  <2>2. [c \in Columns |-> w] \in Entries
    BY <2>1 DEF Entries
  <2> QED
    BY <2>2
<1>2. \E filled \in {{}, glTables}, e \in Entries :
          /\ glRows = [c \in AllCollections |->
                IF c \in filled THEN {[id |-> 1, entry |-> e, sound |-> TRUE]} ELSE {}]
          /\ glNext = [c \in AllCollections |-> IF c \in filled THEN 2 ELSE 1]
  <2>1. /\ glRows = [c \in AllCollections |->
               IF c \in {} THEN {[id |-> 1, entry |-> entry, sound |-> TRUE]} ELSE {}]
        /\ glNext = [c \in AllCollections |-> IF c \in {} THEN 2 ELSE 1]
    BY DEF GlossaryStays
  <2> HIDE DEF Entries
  <2> QED
    BY <1>1, <2>1
<1> QED
  BY <1>2 DEF GlossaryStays, GlossaryInit

LEMMA PartsStart ==
    AdministrationInit => ConfigInit /\ AccessInit /\ GlossaryInit /\ RateInit
  BY ConfigStaysInitial, AccessStaysInitial, GlossaryStaysInitial DEF AdministrationInit

LEMMA PartsStep ==
    [AdministrationNext]_partVars =>
        /\ [ConfigNext]_cfVars /\ [AccessNext]_acVars /\ [GlossaryNext]_glVars /\ [RateNext]_rlVars
  BY DEF AdministrationNext, Runs, partVars

\* What an administrator's part does in a behaviour of all of them is a behaviour
\* of that part's own specification: what is proved of the store, the levels, the
\* entries and the limiter above holds of them together.
THEOREM PartsRunAsSpecified ==
    AdministrationSpec => ConfigSpec /\ AccessSpec /\ GlossarySpec /\ RateSpec
  BY PartsStart, PartsStep, PTL
     DEF AdministrationSpec, ConfigSpec, AccessSpec, GlossarySpec, RateSpec

\* The types of all four parts.
THEOREM AdministrationTypesCorrect == AdministrationSpec => []AdministrationTypeOK
<1>1. ConfigTypeOK /\ AccessTypeOK /\ GlossaryTypeOK /\ RateTypeOK => AdministrationTypeOK
  BY DEF AdministrationTypeOK
<1> QED
  BY <1>1, PartsRunAsSpecified, ConfigTypeCorrect, AccessTypeCorrect, GlossaryTypeCorrect,
     RateTypeCorrect, PTL

=============================================================================
