---------------------------- MODULE ConfigStore ----------------------------
(***************************************************************************)
(* The runtime configuration: the roles and grants collections in MongoDB, *)
(* the cache each process keeps of them (role_config.py), the version key  *)
(* in Redis that tells the processes of a change (admin_config_version.py),*)
(* and the requests that read and write them: the access and role routers  *)
(* of the admin service, the provisioning of group grants, the seeding.    *)
(*                                                                         *)
(* RoleConfigStore and GrantStore are two instances of one cache class     *)
(* that share nothing but the version key.  A behaviour follows one of the *)
(* two collections, cfKind, in every process; the other collection shows   *)
(* only as bumps of the shared key (OtherBump).  A request is a coroutine: *)
(* it gives up control where the code awaits MongoDB or Redis, so several  *)
(* requests of one process interleave on the same cache.                   *)
(***************************************************************************)
EXTENDS Integers, FiniteSets, SequencesExt

CONSTANTS MainProcs,    \* replicas of the main API, which provisions group grants
          AdminProcs,   \* replicas of the admin service, which edits roles and grants
          Requests,     \* coroutines that may be in flight at once
          GrantKeys,    \* (subject type, subject, collection) triples
          SubjectOf,    \* [GrantKeys -> subjects]
          PutLevels,    \* levels an administrator chooses from
          GroupKeys,    \* keys of a group whose folded name is a collection's id
          SeedGrants,   \* sequence of <<key, level>> of GLOSSARY_COLLECTION_MAP
          RoleNames,    \* names of roles
          BuiltinRoles, \* the roles that are seeded and protected
          Absent,       \* no document
          NoVersion,    \* no version observed yet
          Idle,         \* value of a field that a request does not use
          TTL,          \* life of a cache, in ticks
          CallMax,      \* longest time a call to MongoDB or Redis takes, in ticks
          VersionTTL,   \* life of the version key, in ticks
          MaxClock,     \* bound: ticks
          MaxEvents     \* [Kinds -> bound: requests and faults together]

ASSUME ConfigAssumption ==
    /\ GroupKeys \subseteq GrantKeys /\ BuiltinRoles \subseteq RoleNames
    /\ IsFiniteSet(BuiltinRoles) /\ IsFiniteSet(GrantKeys)
    /\ SeedGrants \in Seq(GrantKeys \X (0..3))
    /\ SubjectOf \in [GrantKeys -> {SubjectOf[k] : k \in GrantKeys}]
    /\ MainProcs \cap AdminProcs = {} /\ PutLevels \subseteq 0..3
    /\ TTL \in Nat \ {0} /\ CallMax \in Nat /\ VersionTTL \in Nat
    /\ MaxClock \in Nat \ {0} /\ MaxEvents \in [{"grants", "roles"} -> Nat]
    /\ NoVersion \notin Nat /\ Absent \notin 0..3 /\ Absent # "role"

\* The version key lives an hour (_VERSION_TTL_SECONDS), a cache half a minute
\* (DEFAULT_CACHE_TTL_SECONDS): it is gone only when no cache of its time is left.
ASSUME VersionOutlivesCaches == VersionTTL >= TTL + CallMax

VARIABLES
    cfKind,     \* which collection this behaviour follows
    cfDb,       \* its documents in MongoDB
    cfGen,      \* number of writes MongoDB has applied
    cfTouched,  \* [provisioned key -> tick of its last write]
    cfVersion,  \* admin_config_version in Redis, 0 when absent
    cfBumped,   \* tick of the last bump
    cfCache,    \* [process -> its cached snapshot, its age and observed version]
    cfReq,      \* [request -> what the coroutine is doing]
    cfDue,      \* [process -> generation that a read starting now has to return]
    cfServed,   \* what this step returned to a reader: its age, and whether it
                \* missed a write that was due
    cfClock, cfLeft

cfMongo == <<cfDb, cfGen, cfTouched>>
cfRedis == <<cfVersion, cfBumped>>
cfVars == <<cfKind, cfDb, cfGen, cfTouched, cfVersion, cfBumped, cfCache, cfReq,
            cfDue, cfServed, cfClock, cfLeft>>

Procs == MainProcs \cup AdminProcs
Levels == 0..3
VIEW == 1
Kinds == {"grants", "roles"}
Keys(kind) == IF kind = "grants" THEN GrantKeys ELSE RoleNames
Values(kind) == {Absent} \cup IF kind = "grants" THEN Levels ELSE {"role"}
Present(content) == {k \in DOMAIN content : content[k] # Absent}

\* What a store holds when MongoDB cannot be read: no grants, DEFAULT_ROLES.
Fallback(kind) ==
    IF kind = "grants" THEN [k \in GrantKeys |-> Absent]
    ELSE [n \in RoleNames |-> IF n \in BuiltinRoles THEN "role" ELSE Absent]

\* Both services resolve access and seed on start; the main API provisions at
\* start, on a login and on the sweep; the routers of the admin service edit.
GrantEdits == {"put", "remove", "dropsubject", "dropgroup"}
RoleEdits == {"create", "update", "delete"}
Ops(p, kind) ==
    {"read", "seed"} \cup
    IF p \in AdminProcs THEN (IF kind = "grants" THEN GrantEdits ELSE RoleEdits)
    ELSE IF kind = "grants" THEN {"provision"} ELSE {}

(* ---- the writes a request makes once it has read what it needs ---- *)

Write(keys, val, mode) == [keys |-> keys, val |-> val, mode |-> mode]

\* Mutant: an update that creates what it does not find.
EffectiveUpsert(w, content) ==
    w.mode = "insert" => w.keys \cap Present(content) = {}

\* update_one without upsert leaves a missing document missing, insert_one
\* meets the unique index when the document is there.
Effective(w, content) ==
    /\ w.mode = "insert" => w.keys \cap Present(content) = {}
    /\ w.mode = "update" => w.keys \subseteq Present(content)
Applied(w, content) ==
    IF Effective(w, content) THEN [k \in DOMAIN content |->
        IF k \in w.keys THEN w.val ELSE content[k]] ELSE content

SameSubject(key) == {k \in GrantKeys : SubjectOf[k] = SubjectOf[key]}

\* delete_group: nothing while a document of the group grants something, else
\* each of its documents is deleted in turn.
GroupDeletions(key, content) ==
    LET held == SameSubject(key) \cap Present(content)
    IN  IF \E k \in held : content[k] >= VIEW THEN <<>>
        ELSE [i \in 1..Cardinality(held) |-> Write({SetToSeq(held)[i]}, Absent, "delete")]

\* Mutant: a document of level 0 is taken for none.
ProvisionsRevoked(content) ==
    LET missing == {k \in GroupKeys : content[k] \in {Absent, 0}}
    IN  [i \in 1..Cardinality(missing) |-> Write({SetToSeq(missing)[i]}, VIEW, "upsert")]

\* provision_groups: a level-1 document for every matching pair that has none.
Provisions(content) ==
    LET missing == GroupKeys \ Present(content)
    IN  [i \in 1..Cardinality(missing) |-> Write({SetToSeq(missing)[i]}, VIEW, "upsert")]

Seeds(content) ==
    IF cfKind = "grants"
    THEN IF Present(content) # {} THEN <<>>
         ELSE [i \in DOMAIN SeedGrants |-> Write({SeedGrants[i][1]}, SeedGrants[i][2], "upsert")]
    ELSE LET missing == BuiltinRoles \ Present(content)
         IN  [i \in 1..Cardinality(missing) |-> Write({SetToSeq(missing)[i]}, "role", "insert")]

\* The writes of a request, from the snapshot it read (or the collection
\* itself, for the requests that read none).  A role update reads twice, the
\* router's find_role and the store's get_role; both have to find the role.
Plan(op, key, val, content) ==
    CASE op = "read"        -> <<>>
      [] op = "put"         -> <<Write({key}, val, "upsert")>>
      [] op = "remove"      -> <<Write({key}, Absent, "delete")>>
      [] op = "dropsubject" -> <<Write(SameSubject(key), Absent, "delete")>>
      [] op = "dropgroup"   -> GroupDeletions(key, content)
      [] op = "provision"   -> Provisions(content)
      [] op = "seed"        -> Seeds(content)
      [] op = "create"      -> IF content[key] = Absent
                               THEN <<Write({key}, "role", "insert")>> ELSE <<>>
      [] op = "update"      -> IF content[key] # Absent /\ key \notin BuiltinRoles
                               THEN <<Write({key}, "role", "update")>> ELSE <<>>
      [] op = "delete"      -> IF content[key] # Absent /\ key \notin BuiltinRoles
                               THEN <<Write({key}, Absent, "delete")>> ELSE <<>>

NothingServed == [age |-> 0, missed |-> FALSE]
Spend == cfLeft > 0 /\ cfLeft' = cfLeft - 1
NoAnswer == cfServed' = NothingServed /\ UNCHANGED cfKind
ReadsCache(op) == op \in {"read", "dropgroup", "provision", "create", "update", "delete"}

(* ---- the cache of a process ---- *)

Snapshot(content, gen, at, ok) == [content |-> content, gen |-> gen, at |-> at, ok |-> ok]
EmptyCache == [has |-> FALSE, snap |-> Snapshot(Fallback(cfKind), 0, 0, FALSE),
               loadedAt |-> 0, observed |-> NoVersion]

\* Mutant: fresh for one tick too long.
IsFreshTooLong(c) == c.loadedAt > 0 /\ cfClock - c.loadedAt <= TTL
IsFresh(c) == c.loadedAt > 0 /\ cfClock - c.loadedAt < TTL
Stored(c, snap) ==
    [has |-> TRUE, snap |-> snap, loadedAt |-> cfClock, observed |-> c.observed]
\* Mutant: the writer's own cache is left to the version.
ResetCacheNever(c) == c
ResetCache(c) == [has |-> c.has, snap |-> c.snap, loadedAt |-> 0, observed |-> NoVersion]

NoRequest == [proc |-> Idle, op |-> Idle, key |-> Idle, pc |-> "idle",
              todo |-> <<>>, snap |-> Idle, due |-> 0, since |-> 0, read |-> Idle]
\* Request q goes on to another stage.
Staged(q, pc, snap, since, read) ==
    [proc |-> q.proc, op |-> q.op, key |-> q.key, pc |-> pc, todo |-> q.todo,
     snap |-> snap, due |-> q.due, since |-> since, read |-> read]
\* It suspends now, in a call to MongoDB or Redis.
Suspended(q, pc) == Staged(q, pc, q.snap, cfClock, q.read)
\* It suspends in a write, and needs nothing else of what it read.
Writing(q, todo, read) ==
    [proc |-> q.proc, op |-> IF q.op \in {"provision", "seed"} THEN q.op ELSE "edit",
     key |-> Idle, pc |-> "write", todo |-> todo, snap |-> Idle, due |-> 0,
     since |-> cfClock, read |-> read]
Running(p, pcs) == {r \in Requests : cfReq[r].proc = p /\ cfReq[r].pc \in pcs}
LoadInFlight(p) == Running(p, {"load", "loaded"}) # {}

\* Where _ensure_loaded suspends first on the cache c: in MongoDB when it has
\* nothing fresh, otherwise in Redis to compare the version.
Enter(c) == IF ~c.has \/ ~IsFresh(c) THEN "load" ELSE "version"

\* The request has its snapshot: it computes its writes without suspending, and
\* either is done or suspends in the first of them.
Serve(r, snap, clean) ==
    LET q == cfReq[r]
        again == q.op = "update" /\ q.read = Idle /\ Plan(q.op, q.key, Idle, snap.content) # <<>>
        todo == Plan(q.op, q.key, Idle, snap.content)
    IN  /\ cfServed' = [age |-> cfClock - snap.at,
                        missed |-> clean /\ snap.ok /\ snap.gen < q.due]
        /\ cfReq' = [cfReq EXCEPT ![r] =
              IF again THEN Staged(q, Enter(cfCache'[q.proc]), Idle, cfClock, snap.at)
              ELSE IF todo = <<>> THEN NoRequest
              ELSE Writing(q, todo, IF q.op = "provision" /\ snap.ok THEN snap.at ELSE Idle)]

(* ---- the specification ---- *)

\* What a deployment starts from: nothing yet, or what a past seeding or an
\* administrator left.
FirstDb(kind) == {[k \in Keys(kind) |-> Absent],
                  IF kind = "roles" THEN [n \in RoleNames |-> "role"]
                  ELSE [k \in GrantKeys |-> IF k \in GroupKeys THEN 0 ELSE Absent]}

\* The processes have just started, or have served reads for a while.
WarmCache == [has |-> TRUE, snap |-> Snapshot(cfDb, 0, 1, TRUE), loadedAt |-> 1,
              observed |-> cfVersion]

ConfigInit ==
    /\ cfKind \in Kinds
    /\ cfDb \in FirstDb(cfKind)
    /\ cfGen = 0 /\ cfTouched = [k \in Keys(cfKind) \cap GroupKeys |-> 0]
    /\ cfVersion = 1 /\ cfBumped = 1
    /\ \E warm \in {{}, Procs} :
          cfCache = [p \in Procs |-> IF p \in warm THEN WarmCache ELSE EmptyCache]
    /\ cfReq = [r \in Requests |-> NoRequest]
    /\ cfDue = [p \in Procs |-> 0]
    /\ cfServed = NothingServed
    /\ cfClock = 1 /\ cfLeft = MaxEvents[cfKind]

\* A request arrives at process p and runs to its first await.  The seeding is
\* part of the start of a process, which serves nothing before.
Begin(r, p, op, key, val) ==
    /\ cfReq[r].pc = "idle" /\ Spend
    /\ op = "seed" => ~cfCache[p].has /\ \A x \in Requests : cfReq[x].proc # p
    /\ IF op = "put" THEN val \in PutLevels ELSE val = Idle
    /\ op \in {"read", "provision", "seed"} => key = CHOOSE k \in Keys(cfKind) : TRUE
    /\ LET q == [proc |-> p, op |-> op, key |-> key, pc |-> Enter(cfCache[p]), todo |-> <<>>,
                 snap |-> Idle, due |-> cfDue[p], since |-> cfClock, read |-> Idle]
       IN  cfReq' = [cfReq EXCEPT ![r] =
             IF ReadsCache(op) THEN q
             ELSE IF op = "seed" THEN Suspended(q, "count")
             ELSE Writing(q, Plan(op, key, val, cfDb), Idle)]
    /\ NoAnswer /\ UNCHANGED <<cfMongo, cfRedis, cfCache, cfDue, cfClock>>

\* _version_changed: Redis answers.  The first version a cache sees is only
\* noted; a different one makes the request load, and is noted before it does.
VersionAnswer(r) ==
    LET q == cfReq[r]
        c == cfCache[q.proc]
    IN  /\ q.pc = "version"
        /\ IF c.observed \notin {NoVersion, cfVersion}
           THEN /\ cfReq' = [cfReq EXCEPT ![r] = Suspended(q, "load")]
                /\ cfCache' = [cfCache EXCEPT ![q.proc].observed = cfVersion]
                /\ cfServed' = NothingServed
           ELSE /\ cfCache' = [cfCache EXCEPT ![q.proc].observed = cfVersion]
                /\ Serve(r, c.snap, ~LoadInFlight(q.proc) /\ c.loadedAt > 0)
        /\ UNCHANGED <<cfKind, cfMongo, cfRedis, cfDue, cfClock, cfLeft>>

\* Redis is down: the cache is served as it is.
VersionUnavailable(r) ==
    LET q == cfReq[r]
    IN  /\ q.pc = "version" /\ Spend
        /\ UNCHANGED cfCache
        /\ Serve(r, cfCache[q.proc].snap, FALSE)
        /\ UNCHANGED <<cfKind, cfMongo, cfRedis, cfDue, cfClock>>

Loaded(q, snap) == Staged(q, "loaded", snap, q.since, q.read)
\* MongoDB answers find_all, or fails and the fallback takes its place; an empty
\* roles collection is replaced by the fallback too.
LoadAnswer(r) ==
    LET q == cfReq[r]
        read == IF cfKind = "roles" /\ Present(cfDb) = {} THEN Fallback(cfKind) ELSE cfDb
    IN  /\ q.pc = "load"
        /\ \/ /\ cfReq' = [cfReq EXCEPT ![r] = Loaded(q, Snapshot(read, cfGen, cfClock, TRUE))]
              /\ UNCHANGED cfLeft
           \/ /\ Spend
              /\ cfReq' = [cfReq EXCEPT ![r] =
                                Loaded(q, Snapshot(Fallback(cfKind), cfGen, cfClock, FALSE))]
        /\ NoAnswer /\ UNCHANGED <<cfMongo, cfRedis, cfCache, cfDue, cfClock>>

\* The coroutine resumes: it stores what it loaded, whatever happened to the
\* cache meanwhile, dates it now, and returns it.
LoadDone(r) ==
    LET q == cfReq[r]
    IN  /\ q.pc = "loaded"
        /\ cfCache' = [cfCache EXCEPT ![q.proc] = Stored(@, q.snap)]
        /\ Serve(r, q.snap, TRUE)
        /\ UNCHANGED <<cfKind, cfMongo, cfRedis, cfDue, cfClock, cfLeft>>

\* seed_grants counts, seed_roles lists, what MongoDB holds; no cache is asked.
SeedCount(r) ==
    LET q == cfReq[r]
        todo == Seeds(cfDb)
    IN  /\ q.pc = "count"
        /\ cfReq' = [cfReq EXCEPT ![r] = IF todo = <<>> THEN NoRequest
                        ELSE Writing(q, todo, Idle)]
        /\ NoAnswer /\ UNCHANGED <<cfMongo, cfRedis, cfCache, cfDue, cfClock, cfLeft>>

\* Mutant: the end of the writes is not noticed.
NextWriteEndless(q) == Writing(q, Tail(q.todo), q.read)
NextWrite(q) ==
    IF Len(q.todo) = 1 THEN NoRequest ELSE Writing(q, Tail(q.todo), q.read)

\* MongoDB applies the next write.  A store then resets its own cache before it
\* bumps the version; the seeding writes to the repositories and tells nobody.
\* An insert that meets the unique index ends the request with an error.
ApplyWrite(r) ==
    LET q == cfReq[r]
        w == Head(q.todo)
        done == Effective(w, cfDb)
    IN  /\ q.pc = "write"
        /\ cfDb' = Applied(w, cfDb)
        /\ cfGen' = IF done THEN cfGen + 1 ELSE cfGen
        /\ cfTouched' = [k \in DOMAIN cfTouched |->
                            IF done /\ k \in w.keys THEN cfClock ELSE cfTouched[k]]
        /\ IF w.mode = "insert" /\ ~done
           THEN /\ cfReq' = [cfReq EXCEPT ![r] = NoRequest]
                /\ UNCHANGED <<cfCache, cfDue>>
           ELSE IF q.op = "seed"
           THEN /\ cfReq' = [cfReq EXCEPT ![r] = NextWrite(q)]
                /\ UNCHANGED <<cfCache, cfDue>>
           ELSE /\ cfReq' = [cfReq EXCEPT ![r] = Suspended(q, "bump")]
                /\ cfCache' = [cfCache EXCEPT ![q.proc] = ResetCache(@)]
                /\ cfDue' = [cfDue EXCEPT ![q.proc] =
                                IF LoadInFlight(q.proc) THEN @ ELSE cfGen']
        /\ NoAnswer /\ UNCHANGED <<cfRedis, cfClock, cfLeft>>

\* MongoDB refuses: the request ends with an error, with its earlier writes made.
WriteFails(r) ==
    /\ cfReq[r].pc \in {"write", "count"} /\ Spend
    /\ cfReq' = [cfReq EXCEPT ![r] = NoRequest]
    /\ NoAnswer /\ UNCHANGED <<cfMongo, cfRedis, cfCache, cfDue, cfClock>>

\* A new version reaches every cache that has seen the old one and is not being
\* loaded at this moment: its next read has to load.
BumpVersion ==
    /\ cfVersion' = cfVersion + 1 /\ cfBumped' = cfClock
    /\ cfDue' = [p \in Procs |-> IF cfCache[p].observed = cfVersion /\ ~LoadInFlight(p)
                                 THEN cfGen ELSE cfDue[p]]

\* The bump of _notify_write; its failure is logged and ignored.
Bump(r) ==
    LET q == cfReq[r]
    IN  /\ q.pc = "bump"
        /\ \/ BumpVersion /\ UNCHANGED cfLeft
           \/ /\ Spend
              /\ UNCHANGED <<cfRedis, cfDue>>
        /\ cfReq' = [cfReq EXCEPT ![r] = NextWrite(q)]
        /\ NoAnswer /\ UNCHANGED <<cfMongo, cfCache, cfClock>>

\* A write to the other collection bumps the same key.
OtherBump ==
    /\ Spend
    /\ BumpVersion
    /\ NoAnswer /\ UNCHANGED <<cfMongo, cfCache, cfReq, cfClock>>

\* Redis drops the key when nothing has been written for its whole life.
VersionExpires ==
    /\ cfVersion > 0 /\ cfClock - cfBumped >= VersionTTL
    /\ cfVersion' = 0
    /\ NoAnswer /\ UNCHANGED <<cfMongo, cfBumped, cfCache, cfReq, cfDue, cfClock, cfLeft>>

\* A process dies and starts again with an empty cache.
Restart(p) ==
    /\ Spend
    /\ cfCache' = [cfCache EXCEPT ![p] = EmptyCache]
    /\ cfReq' = [r \in Requests |-> IF cfReq[r].proc = p THEN NoRequest ELSE cfReq[r]]
    /\ NoAnswer /\ UNCHANGED <<cfMongo, cfRedis, cfDue, cfClock>>

\* Time passes, but never so much that a call is outstanding for over CallMax.
Tick ==
    /\ cfClock < MaxClock
    /\ \A r \in Requests : cfReq[r].pc # "idle" => cfClock - cfReq[r].since < CallMax
    /\ cfClock' = cfClock + 1
    /\ NoAnswer /\ UNCHANGED <<cfMongo, cfRedis, cfCache, cfReq, cfDue, cfLeft>>

RequestStep(r) ==
    \/ \E p \in Procs, key \in Keys(cfKind), val \in PutLevels \cup {Idle} :
          \E op \in Ops(p, cfKind) : Begin(r, p, op, key, val)
    \/ VersionAnswer(r) \/ VersionUnavailable(r) \/ LoadAnswer(r) \/ LoadDone(r)
    \/ SeedCount(r) \/ ApplyWrite(r) \/ WriteFails(r) \/ Bump(r)

ConfigNext == \/ \E r \in Requests : RequestStep(r)
              \/ \E p \in Procs : Restart(p)
              \/ OtherBump \/ VersionExpires \/ Tick

ConfigSpec == ConfigInit /\ [][ConfigNext]_cfVars

(* ---- properties ---- *)

\* The types of the variables.
RequestType(q) ==
    /\ q.proc \in Procs \cup {Idle} /\ q.due \in Nat /\ q.since \in Nat
    /\ q.pc \in {"idle", "load", "loaded", "version", "count", "write", "bump"}
    /\ q.pc = "idle" <=> q = NoRequest
    /\ q.pc \in {"write", "bump"} <=> q.todo # <<>>
    /\ \A i \in DOMAIN q.todo : q.todo[i].keys \subseteq Keys(cfKind)

\* The types of the configuration store's variables (role_config.py,
\* admin_config_version.py, mongo_config_repository.py).
ConfigTypeOK ==
    /\ cfKind \in Kinds
    /\ cfDb \in [Keys(cfKind) -> Values(cfKind)]
    /\ cfGen \in Nat /\ cfVersion \in Nat /\ cfBumped \in Nat
    /\ cfTouched \in [Keys(cfKind) \cap GroupKeys -> 0..MaxClock]
    /\ \A p \in Procs : /\ cfCache[p].loadedAt \in 0..MaxClock
                         /\ cfCache[p].observed \in Nat \cup {NoVersion}
                         /\ cfCache[p].snap.content \in [Keys(cfKind) -> Values(cfKind)]
                         /\ cfDue[p] \in 0..cfGen
    /\ \A r \in Requests : RequestType(cfReq[r])
    /\ cfClock \in 1..MaxClock /\ cfLeft \in 0..MaxEvents[cfKind]

\* No read of the configuration returns documents that MongoDB held longer ago
\* than the life of the cache and the two calls that surround it, whatever
\* versions are missed, bumps lost and loads stored out of order: "a stale read
\* is bounded by the TTL".
StaleReadsBounded == cfServed.age <= TTL - 1 + 2 * CallMax

\* A write is seen by the first read of a process that starts after it was
\* announced, when the process had seen the version before it (or wrote itself),
\* was not loading at that moment, and neither Redis nor MongoDB fails the read.
AnnouncedWriteIsRead == ~cfServed.missed

\* provision_groups overwrites a document only if somebody wrote it within the
\* time in which its cached view of the grants may be out of date, or if the
\* grants could not be loaded; an older decision of an administrator stands.
OldDecisionStands ==
    \A r \in Requests :
        LET q == cfReq[r]
        IN  q.op = "provision" /\ q.pc = "write" /\ q.read # Idle =>
              \A k \in Head(q.todo).keys : cfDb[k] # Absent =>
                 cfClock - cfTouched[k] <= TTL - 1 + CallMax * (1 + 2 * Cardinality(GroupKeys))

\* A role that an administrator deleted is not brought back by an edit that read
\* it before: only creating it (or seeding a built-in one) makes it exist, and a
\* built-in role never stops existing.
RolesKeepTheirLife ==
    [][cfKind = "roles" =>
         /\ \A n \in Present(cfDb') \ Present(cfDb) :
               \E r \in Requests : cfReq[r].pc = "write" /\ Head(cfReq[r].todo).mode = "insert"
         /\ Present(cfDb) \ Present(cfDb') \subseteq RoleNames \ BuiltinRoles]_cfVars
=============================================================================
