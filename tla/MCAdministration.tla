-------------------------- MODULE MCAdministration --------------------------
(***************************************************************************)
(* What administrators and editors do beside the jobs, checked in one run: *)
(* the store of roles and grants, the levels they resolve to, the glossary *)
(* entries, and the limiter in front of their logins.  A behaviour is one  *)
(* of one part, chosen at the start, while the others stay in an initial   *)
(* state of theirs.                                                        *)
(***************************************************************************)
EXTENDS ConfigStore, AccessLevels, GlossaryEntries, RateLimiter, TLC

CONSTANTS main, admin, q1, q2, k1, g1, b1, n1, ga, gA, gb, role, viewer, user,
          e1, e2, w1, w2

VARIABLE part

partVars == <<part, cfVars, acVars, glVars, rlVars>>

MCMaxEvents == "grants" :> 3 @@ "roles" :> 2
MCSubjectOf == k1 :> g1
MCSeedGrants == <<<<k1, 3>>>>
MCFold == ga :> 1 @@ gA :> 1 @@ gb :> 2
MCDetected == w1 :> "ru" @@ w2 :> "en"
\* Permutations of both kinds of requests: no action tells one from another.
Interchangeable ==
    {f @@ g : f \in Permutations(Requests), g \in Permutations(GlossaryRequests)}

\* A table that stays may be one that has an entry.
ASSUME WordsAssumption == Words # {}

(* ---- the initial state in which a part stays ---- *)

ConfigStays ==
    /\ cfKind = "roles" /\ cfDb = [n \in RoleNames |-> Absent] /\ cfGen = 0
    /\ cfTouched = [n \in RoleNames \cap GroupKeys |-> 0]
    /\ cfVersion = 1 /\ cfBumped = 1 /\ cfCache = [p \in Procs |-> EmptyCache]
    /\ cfReq = [r \in Requests |-> NoRequest] /\ cfDue = [p \in Procs |-> 0]
    /\ cfServed = NothingServed /\ cfClock = 1 /\ cfLeft = MaxEvents[cfKind]
AccessStays ==
    /\ acGrants = [s \in Subjects |-> NoGrant] /\ acOthers = FALSE /\ acDefault = FALSE
    /\ acUser = [groups |-> {}, role |-> BaseRole, admin |-> TRUE] /\ acEnvMap = {}
GlossaryStays ==
    /\ glTables = {DefaultCollection} /\ glRows = [c \in AllCollections |-> {}]
    /\ glNext = [c \in AllCollections |-> 1]
    /\ glRequest = [r \in GlossaryRequests |-> Unborn]

\* A bound: the environment's map names one group at most, always in the same
\* spelling, with which the user's groups are compared exactly.
MapBound == acEnvMap \subseteq {ga}

AdministrationInit ==
    /\ part \in {"config", "access", "glossary", "rate"}
    /\ IF part = "config" THEN ConfigInit ELSE ConfigStays
    /\ IF part = "access" THEN AccessInit /\ MapBound ELSE AccessStays
    /\ IF part = "glossary" THEN GlossaryInit ELSE GlossaryStays
    /\ RateInit

(* ---- one part runs ---- *)

Runs(p) == part = p /\ UNCHANGED part

AdministrationNext ==
    \/ Runs("config") /\ ConfigNext /\ UNCHANGED <<acVars, glVars, rlVars>>
    \/ Runs("access") /\ AccessNext /\ UNCHANGED <<cfVars, glVars, rlVars>>
    \/ Runs("glossary") /\ GlossaryNext /\ UNCHANGED <<cfVars, acVars, rlVars>>
    \/ Runs("rate") /\ RateNext /\ UNCHANGED <<cfVars, acVars, glVars>>

AdministrationSpec == AdministrationInit /\ [][AdministrationNext]_partVars

\* The type invariants of the parts (each module names the code it models).
AdministrationTypeOK == ConfigTypeOK /\ AccessTypeOK /\ GlossaryTypeOK /\ RateTypeOK
=============================================================================
