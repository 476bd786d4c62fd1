------------------------- MODULE ConfigStore_proofs -------------------------
(***************************************************************************)
(* Proofs about ConfigStore for any processes, requests, keys, lives of    *)
(* the cache and times of a call: how old a read may be; that a write that *)
(* was announced is read; that roles only come by an insertion and go by   *)
(* the deletion of an unprotected one; that provisioning overwrites no old *)
(* decision; and the types of the store.                                   *)
(***************************************************************************)
EXTENDS ConfigStore, FiniteSetTheorems, SequenceTheorems, TLAPS

-----------------------------------------------------------------------------
(* ---- how old a read may be ---- *)

\* A request has exactly the fields of one.
IsRequest(q) ==
    q = [proc |-> q.proc, op |-> q.op, key |-> q.key, pc |-> q.pc, todo |-> q.todo,
         snap |-> q.snap, due |-> q.due, since |-> q.since, read |-> q.read]

\* A request is in a call since CallMax at most; what it holds was read since.
Timely(q, now) ==
    /\ IsRequest(q)
    /\ q.pc # "idle" => /\ q.proc \in Procs
                        /\ q.since \in Nat /\ q.since <= now /\ now - q.since <= CallMax
    /\ q.pc = "loaded" => q.snap.at \in Nat /\ q.since <= q.snap.at /\ q.snap.at <= now

IsCache(c) ==
    c = [has |-> c.has, snap |-> c.snap, loadedAt |-> c.loadedAt, observed |-> c.observed]

\* A cache dates what it holds by the end of the call that read it.
Dated(c, now) ==
    /\ IsCache(c)
    /\ c.loadedAt \in Nat /\ c.loadedAt <= now
    /\ c.snap.at \in Nat /\ c.snap.at <= now
    /\ c.loadedAt > 0 => c.snap.at >= c.loadedAt - CallMax

\* A cache that a request at q compares with the version is not older than a
\* fresh one was when the request asked.
WasFresh(q, c) == q.pc = "version" => c.snap.at >= q.since - (TTL - 1) - CallMax

StaleInv ==
    /\ cfClock \in Nat
    /\ cfReq = [r \in Requests |-> cfReq[r]]
    /\ cfCache = [p \in Procs |-> cfCache[p]]
    /\ \A r \in Requests : Timely(cfReq[r], cfClock)
    /\ \A p \in Procs : Dated(cfCache[p], cfClock)
    /\ \A r \in Requests : WasFresh(cfReq[r], cfCache[cfReq[r].proc])
    /\ StaleReadsBounded

\* The caches of a step that does not set them back in time.
CachesAdvance ==
    /\ cfCache' = [p \in Procs |-> cfCache'[p]]
    /\ \A p \in Procs : /\ Dated(cfCache'[p], cfClock)
                        /\ \/ cfCache'[p].snap.at = cfCache[p].snap.at
                           \/ cfCache'[p].snap.at >= cfClock - CallMax

\* The constants that the arithmetic is about.
LEMMA Numbers == TTL \in Nat \ {0} /\ CallMax \in Nat
  BY ConfigAssumption DEF ConfigAssumption

\* A step that moves one request and lets time stand.
LEMMA RequestMoves ==
    ASSUME StaleInv, NEW r \in Requests, NEW q, Timely(q, cfClock),
           cfReq' = [cfReq EXCEPT ![r] = q], UNCHANGED cfClock,
           CachesAdvance, WasFresh(q, cfCache'[q.proc]), StaleReadsBounded'
    PROVE  StaleInv'
<1>1. cfReq' = [x \in Requests |-> cfReq'[x]] /\ \A x \in Requests : Timely(cfReq'[x], cfClock')
  BY DEF StaleInv
<1>2. cfCache' = [p \in Procs |-> cfCache'[p]] /\ \A p \in Procs : Dated(cfCache'[p], cfClock')
  BY DEF CachesAdvance
<1>3. ASSUME NEW x \in Requests PROVE WasFresh(cfReq'[x], cfCache'[cfReq'[x].proc])
  <2>1. CASE x = r
    BY <2>1 DEF StaleInv
  <2>2. CASE x # r
    <3> DEFINE y == cfReq[x]
               p == cfReq[x].proc
    <3>1. cfReq'[x] = y
      BY <2>2 DEF StaleInv
    <3>2. SUFFICES ASSUME y.pc = "version"
                   PROVE  cfCache'[p].snap.at >= y.since - (TTL - 1) - CallMax
      BY <3>1 DEF WasFresh
    <3>3. /\ p \in Procs /\ y.since \in Nat /\ y.since <= cfClock /\ cfClock \in Nat
          /\ cfCache[p].snap.at >= y.since - (TTL - 1) - CallMax
      BY <3>2 DEF StaleInv, Timely, WasFresh
    <3>4. cfCache'[p].snap.at \in Nat /\ cfCache[p].snap.at \in Nat
      BY <3>3 DEF StaleInv, Dated, CachesAdvance
    <3>5. \/ cfCache'[p].snap.at = cfCache[p].snap.at
          \/ cfCache'[p].snap.at >= cfClock - CallMax
      BY <3>3 DEF CachesAdvance
    <3> HIDE DEF y, p
    <3> QED
      BY <3>3, <3>4, <3>5, Numbers
  <2> QED
    BY <2>1, <2>2
<1> QED
  BY <1>1, <1>2, <1>3 DEF StaleInv

\* Caches that stand still advance.
LEMMA CachesStand == ASSUME StaleInv, UNCHANGED cfCache PROVE CachesAdvance
  BY DEF StaleInv, CachesAdvance

\* No answer is not old.
LEMMA NothingIsFresh == ASSUME cfServed' = NothingServed PROVE StaleReadsBounded'
  BY Numbers DEF StaleReadsBounded, NothingServed

LEMMA NoRequestTimely == Timely(NoRequest, cfClock) /\ \A c : WasFresh(NoRequest, c)
  BY DEF Timely, IsRequest, NoRequest, WasFresh

\* A request that suspends now is in time.
LEMMA SuspendedTimely ==
    ASSUME StaleInv, NEW q, Timely(q, cfClock), q.pc # "idle", NEW pc, pc \notin {"loaded"}
    PROVE  /\ Timely(Suspended(q, pc), cfClock)
           /\ Suspended(q, pc).proc = q.proc /\ Suspended(q, pc).pc = pc
           /\ Suspended(q, pc).since = cfClock
<1>1. cfClock \in Nat /\ cfClock - cfClock <= CallMax /\ q.proc \in Procs
  BY Numbers DEF StaleInv, Timely
<1> QED
  BY <1>1 DEF Timely, IsRequest, Suspended, Staged

LEMMA WritingTimely ==
    ASSUME StaleInv, NEW q, q.proc \in Procs, NEW todo, NEW read
    PROVE  /\ Timely(Writing(q, todo, read), cfClock)
           /\ \A c : WasFresh(Writing(q, todo, read), c)
<1>1. cfClock \in Nat /\ cfClock - cfClock <= CallMax
  BY Numbers DEF StaleInv
<1> QED
  BY <1>1 DEF Timely, IsRequest, Writing, WasFresh

\* Where a request enters a cache that it has to compare, the cache is fresh.
LEMMA EntersFresh ==
    ASSUME StaleInv, NEW c, Dated(c, cfClock), NEW q, q.pc = Enter(c), q.since = cfClock
    PROVE  WasFresh(q, c) /\ Enter(c) \in {"load", "version"}
<1>1. Enter(c) \in {"load", "version"} /\ (Enter(c) = "version" => IsFresh(c))
  BY DEF Enter
<1>2. ASSUME IsFresh(c) PROVE c.snap.at >= cfClock - (TTL - 1) - CallMax
  BY <1>2, Numbers DEF IsFresh, Dated, StaleInv
<1> QED
  BY <1>1, <1>2 DEF WasFresh

\* What a request leaves when it is served a snapshot that is not too old.
LEMMA ServeKeeps ==
    ASSUME StaleInv, NEW r \in Requests, NEW snap, NEW clean, Serve(r, snap, clean),
           cfReq[r].pc # "idle", CachesAdvance, UNCHANGED cfClock,
           snap.at \in Nat, cfClock - snap.at <= TTL - 1 + 2 * CallMax
    PROVE  StaleInv'
<1> DEFINE q == cfReq[r]
           p == q.proc
<1>1. Timely(q, cfClock) /\ p \in Procs /\ q.pc # "idle"
  BY DEF StaleInv, Timely
<1>2. StaleReadsBounded'
  BY DEF Serve, StaleReadsBounded
<1>3. \/ cfReq' = [cfReq EXCEPT ![r] =
                        Staged(q, Enter(cfCache'[p]), Idle, cfClock, snap.at)]
      \/ cfReq' = [cfReq EXCEPT ![r] = NoRequest]
      \/ \E todo, read : cfReq' = [cfReq EXCEPT ![r] = Writing(q, todo, read)]
  BY DEF Serve
<1> HIDE DEF q, p
<1>4. CASE cfReq' = [cfReq EXCEPT ![r] =
                        Staged(q, Enter(cfCache'[p]), Idle, cfClock, snap.at)]
  <2> DEFINE e == Enter(cfCache'[p])
             t == Staged(q, e, Idle, cfClock, snap.at)
  <2>1. Dated(cfCache'[p], cfClock)
    BY <1>1 DEF CachesAdvance
  <2>2. e \in {"load", "version"}
    BY DEF Enter
  <2>3. t.proc = p /\ t.pc = e /\ t.since = cfClock /\ IsRequest(t)
    BY DEF p, Staged, IsRequest
  <2>4. cfReq' = [cfReq EXCEPT ![r] = t]
    BY <1>4
  <2>5. cfClock \in Nat /\ cfClock - cfClock <= CallMax
    BY Numbers DEF StaleInv
  <2> HIDE DEF t
  <2>6. Timely(t, cfClock)
    BY <1>1, <2>2, <2>3, <2>5 DEF Timely
  <2>7. WasFresh(t, cfCache'[t.proc])
    BY <2>1, <2>3, EntersFresh
  <2> QED
    BY <1>2, <2>4, <2>6, <2>7, RequestMoves
<1>5. CASE cfReq' = [cfReq EXCEPT ![r] = NoRequest]
  BY <1>2, <1>5, NoRequestTimely, RequestMoves
<1>6. CASE \E todo, read : cfReq' = [cfReq EXCEPT ![r] = Writing(q, todo, read)]
  <2>1. PICK todo, read : cfReq' = [cfReq EXCEPT ![r] = Writing(q, todo, read)]
    BY <1>6
  <2>2. q.proc \in Procs
    BY <1>1 DEF p
  <2>3. Timely(Writing(q, todo, read), cfClock) /\ \A c : WasFresh(Writing(q, todo, read), c)
    BY <2>2, WritingTimely
  <2> QED
    BY <1>2, <2>1, <2>3, RequestMoves
<1> QED
  BY <1>3, <1>4, <1>5, <1>6

\* Every step of a request leaves no older cache and no older request.
LEMMA BeginKeeps ==
    ASSUME StaleInv, NEW r \in Requests, NEW p \in Procs, NEW op, NEW key, NEW val,
           Begin(r, p, op, key, val)
    PROVE  StaleInv'
<1> DEFINE q == [proc |-> p, op |-> op, key |-> key, pc |-> Enter(cfCache[p]), todo |-> <<>>,
                 snap |-> Idle, due |-> cfDue[p], since |-> cfClock, read |-> Idle]
<1>1. UNCHANGED <<cfClock, cfCache>> /\ StaleReadsBounded' /\ CachesAdvance
  BY NothingIsFresh, CachesStand DEF Begin, NoAnswer
<1>2. cfClock \in Nat /\ cfClock - cfClock <= CallMax
  BY Numbers DEF StaleInv
<1>3. Dated(cfCache[p], cfClock) /\ q.proc = p /\ q.pc = Enter(cfCache[p]) /\ q.since = cfClock
  BY DEF StaleInv
<1>4. WasFresh(q, cfCache[p]) /\ q.pc \in {"load", "version"}
  BY <1>3, EntersFresh
<1>5. Timely(q, cfClock)
  BY <1>2, <1>4 DEF Timely, IsRequest
<1>6. \/ cfReq' = [cfReq EXCEPT ![r] = q]
      \/ cfReq' = [cfReq EXCEPT ![r] = Suspended(q, "count")]
      \/ \E todo, read : cfReq' = [cfReq EXCEPT ![r] = Writing(q, todo, read)]
  BY DEF Begin
<1>7. q.proc = p /\ q.proc \in Procs /\ q.pc # "idle"
  BY <1>3, <1>4
<1> HIDE DEF q
<1>8. CASE cfReq' = [cfReq EXCEPT ![r] = q]
  BY <1>1, <1>4, <1>5, <1>7, <1>8, RequestMoves
<1>9. CASE cfReq' = [cfReq EXCEPT ![r] = Suspended(q, "count")]
  <2>1. Timely(Suspended(q, "count"), cfClock) /\ Suspended(q, "count").pc = "count"
    BY <1>5, <1>7, SuspendedTimely
  <2> QED
    BY <1>1, <1>9, <2>1, RequestMoves DEF WasFresh
<1>10. CASE \E todo, read : cfReq' = [cfReq EXCEPT ![r] = Writing(q, todo, read)]
  <2>1. PICK todo, read : cfReq' = [cfReq EXCEPT ![r] = Writing(q, todo, read)]
    BY <1>10
  <2>2. Timely(Writing(q, todo, read), cfClock) /\ \A c : WasFresh(Writing(q, todo, read), c)
    BY <1>7, WritingTimely
  <2> QED
    BY <1>1, <2>1, <2>2, RequestMoves
<1> QED
  BY <1>6, <1>8, <1>9, <1>10

\* A cache whose observed version alone changes is dated as before.
LEMMA ObservingAdvances ==
    ASSUME StaleInv, NEW p \in Procs, NEW version,
           cfCache' = [cfCache EXCEPT ![p].observed = version]
    PROVE  CachesAdvance /\ cfCache'[p].snap = cfCache[p].snap
<1>1. Dated(cfCache[p], cfClock) /\ IsCache(cfCache[p])
  BY DEF StaleInv, Dated
<1>2. cfCache'[p] = [has |-> cfCache[p].has, snap |-> cfCache[p].snap,
                     loadedAt |-> cfCache[p].loadedAt, observed |-> version]
  BY <1>1 DEF StaleInv, IsCache
<1>3. Dated(cfCache'[p], cfClock) /\ cfCache'[p].snap = cfCache[p].snap
  BY <1>1, <1>2 DEF Dated, IsCache
<1>4. \A x \in Procs : x # p => cfCache'[x] = cfCache[x]
  BY DEF StaleInv
<1> QED
  BY <1>3, <1>4 DEF StaleInv, CachesAdvance

\* What a request compared with the version is not too old to serve.
LEMMA ComparedIsServable ==
    ASSUME StaleInv, NEW r \in Requests, cfReq[r].pc = "version"
    PROVE  LET at == cfCache[cfReq[r].proc].snap.at
           IN  at \in Nat /\ cfClock - at <= TTL - 1 + 2 * CallMax
<1> DEFINE q == cfReq[r]
           at == cfCache[q.proc].snap.at
<1>1. /\ q.proc \in Procs /\ q.since \in Nat /\ cfClock \in Nat
      /\ cfClock - q.since <= CallMax /\ at >= q.since - (TTL - 1) - CallMax
  BY DEF StaleInv, Timely, WasFresh
<1>2. at \in Nat
  BY <1>1 DEF StaleInv, Dated
<1> QED
  BY <1>1, <1>2, Numbers

LEMMA VersionKeeps ==
    ASSUME StaleInv, NEW r \in Requests, VersionAnswer(r) \/ VersionUnavailable(r)
    PROVE  StaleInv'
<1> DEFINE q == cfReq[r]
           c == cfCache[q.proc]
<1>1. q.pc = "version" /\ UNCHANGED cfClock
  BY DEF VersionAnswer, VersionUnavailable
<1>2. Timely(q, cfClock) /\ q.proc \in Procs
  BY <1>1 DEF StaleInv, Timely
<1>3. c.snap.at \in Nat /\ cfClock - c.snap.at <= TTL - 1 + 2 * CallMax
  BY <1>1, ComparedIsServable
<1>4. CASE VersionUnavailable(r)
  BY <1>1, <1>3, <1>4, CachesStand, ServeKeeps DEF VersionUnavailable
<1>5. CASE VersionAnswer(r)
  <2>1. CachesAdvance
    BY <1>2, <1>5, ObservingAdvances DEF VersionAnswer
  <2>2. CASE Serve(r, c.snap, ~LoadInFlight(q.proc) /\ c.loadedAt > 0)
    BY <1>1, <1>3, <2>1, <2>2, ServeKeeps
  <2>3. CASE cfReq' = [cfReq EXCEPT ![r] = Suspended(q, "load")] /\ cfServed' = NothingServed
    <3>1. Timely(Suspended(q, "load"), cfClock) /\ Suspended(q, "load").pc = "load"
      BY <1>1, <1>2, SuspendedTimely
    <3> QED
      BY <1>1, <2>1, <2>3, <3>1, NothingIsFresh, RequestMoves DEF WasFresh
  <2> QED
    BY <1>5, <2>2, <2>3 DEF VersionAnswer
<1> QED
  BY <1>4, <1>5

LEMMA LoadAnswerKeeps ==
    ASSUME StaleInv, NEW r \in Requests, LoadAnswer(r) PROVE StaleInv'
<1> DEFINE q == cfReq[r]
<1>1. q.pc = "load" /\ UNCHANGED <<cfClock, cfCache>> /\ StaleReadsBounded' /\ CachesAdvance
  BY NothingIsFresh, CachesStand DEF LoadAnswer, NoAnswer
<1>2. \E content, ok :
        cfReq' = [cfReq EXCEPT ![r] = Loaded(q, Snapshot(content, cfGen, cfClock, ok))]
  BY DEF LoadAnswer
<1>3. PICK content, ok :
        cfReq' = [cfReq EXCEPT ![r] = Loaded(q, Snapshot(content, cfGen, cfClock, ok))]
  BY <1>2
<1> DEFINE t == Loaded(q, Snapshot(content, cfGen, cfClock, ok))
<1>4. /\ t.proc = q.proc /\ t.pc = "loaded" /\ t.since = q.since /\ t.snap.at = cfClock
      /\ IsRequest(t)
  BY DEF Loaded, Staged, Snapshot, IsRequest
<1>5. Timely(q, cfClock) /\ cfClock \in Nat
  BY DEF StaleInv
<1>6. cfReq' = [cfReq EXCEPT ![r] = t]
  BY <1>3
<1> HIDE DEF t, q
<1>7. Timely(t, cfClock) /\ WasFresh(t, cfCache'[t.proc])
  BY <1>1, <1>4, <1>5 DEF Timely, WasFresh
<1> QED
  BY <1>1, <1>6, <1>7, RequestMoves

LEMMA LoadDoneKeeps ==
    ASSUME StaleInv, NEW r \in Requests, LoadDone(r) PROVE StaleInv'
<1> DEFINE q == cfReq[r]
           p == q.proc
           c == Stored(cfCache[p], q.snap)
<1>1. q.pc = "loaded" /\ UNCHANGED cfClock /\ Serve(r, q.snap, TRUE)
  BY DEF LoadDone
<1>2. /\ p \in Procs /\ q.snap.at \in Nat /\ q.snap.at <= cfClock /\ cfClock \in Nat
      /\ q.since \in Nat /\ cfClock - q.since <= CallMax /\ q.since <= q.snap.at
  BY <1>1 DEF StaleInv, Timely
<1>3. q.snap.at >= cfClock - CallMax /\ cfClock - q.snap.at <= TTL - 1 + 2 * CallMax
  <2> HIDE DEF q
  <2> QED
    BY <1>2, Numbers
<1>4. Dated(c, cfClock) /\ c.snap.at = q.snap.at
  BY <1>2, <1>3 DEF Dated, IsCache, Stored
<1>5. cfCache' = [cfCache EXCEPT ![p] = c]
  BY DEF LoadDone
<1> HIDE DEF c
<1>6. CachesAdvance
  BY <1>2, <1>3, <1>4, <1>5 DEF StaleInv, CachesAdvance
<1> QED
  BY <1>1, <1>2, <1>3, <1>6, ServeKeeps

\* The write of a request ends it, or leaves it suspended again.
LEMMA NextWriteTimely ==
    ASSUME StaleInv, NEW q, q.proc \in Procs
    PROVE  Timely(NextWrite(q), cfClock) /\ \A c : WasFresh(NextWrite(q), c)
  BY NoRequestTimely, WritingTimely DEF NextWrite

LEMMA WritesKeep ==
    ASSUME StaleInv, NEW r \in Requests,
           SeedCount(r) \/ ApplyWrite(r) \/ WriteFails(r) \/ Bump(r)
    PROVE  StaleInv'
<1> DEFINE q == cfReq[r]
<1>1. q.pc \in {"count", "write", "bump"} /\ UNCHANGED cfClock /\ StaleReadsBounded'
  BY NothingIsFresh DEF SeedCount, ApplyWrite, WriteFails, Bump, NoAnswer
<1>2. Timely(q, cfClock) /\ q.proc \in Procs
  BY <1>1 DEF StaleInv, Timely
<1>3. CachesAdvance
  <2>1. \/ UNCHANGED cfCache
        \/ cfCache' = [cfCache EXCEPT ![q.proc] = ResetCache(@)]
    BY DEF SeedCount, ApplyWrite, WriteFails, Bump
  <2>2. CASE cfCache' = [cfCache EXCEPT ![q.proc] = ResetCache(@)]
    <3> DEFINE p == q.proc
    <3>1. cfCache'[p] = ResetCache(cfCache[p])
      BY <1>2, <2>2 DEF StaleInv
    <3>2. Dated(cfCache[p], cfClock)
      BY <1>2 DEF StaleInv
    <3>3. Dated(cfCache'[p], cfClock) /\ cfCache'[p].snap = cfCache[p].snap
      BY <3>1, <3>2, Numbers DEF Dated, IsCache, ResetCache, StaleInv
    <3>4. \A x \in Procs : x # p => cfCache'[x] = cfCache[x]
      BY <2>2 DEF StaleInv
    <3> QED
      BY <2>2, <3>3, <3>4 DEF StaleInv, CachesAdvance
  <2> QED
    BY <2>1, <2>2, CachesStand
<1>4. \/ cfReq' = [cfReq EXCEPT ![r] = NoRequest]
      \/ \E todo : cfReq' = [cfReq EXCEPT ![r] = Writing(q, todo, Idle)]
      \/ cfReq' = [cfReq EXCEPT ![r] = Suspended(q, "bump")]
      \/ cfReq' = [cfReq EXCEPT ![r] = NextWrite(q)]
  BY DEF SeedCount, ApplyWrite, WriteFails, Bump
<1>5. CASE cfReq' = [cfReq EXCEPT ![r] = NoRequest]
  BY <1>1, <1>3, <1>5, NoRequestTimely, RequestMoves
<1>6. CASE \E todo : cfReq' = [cfReq EXCEPT ![r] = Writing(q, todo, Idle)]
  <2>1. PICK todo : cfReq' = [cfReq EXCEPT ![r] = Writing(q, todo, Idle)]
    BY <1>6
  <2>2. Timely(Writing(q, todo, Idle), cfClock) /\ \A c : WasFresh(Writing(q, todo, Idle), c)
    BY <1>2, WritingTimely
  <2> QED
    BY <1>1, <1>3, <2>1, <2>2, RequestMoves
<1>7. CASE cfReq' = [cfReq EXCEPT ![r] = Suspended(q, "bump")]
  <2>1. Timely(Suspended(q, "bump"), cfClock) /\ Suspended(q, "bump").pc = "bump"
    BY <1>1, <1>2, SuspendedTimely
  <2> QED
    BY <1>1, <1>3, <1>7, <2>1, RequestMoves DEF WasFresh
<1>8. CASE cfReq' = [cfReq EXCEPT ![r] = NextWrite(q)]
  <2>1. Timely(NextWrite(q), cfClock) /\ \A c : WasFresh(NextWrite(q), c)
    BY <1>1, <1>2, NextWriteTimely
  <2> QED
    BY <1>1, <1>3, <1>8, <2>1, RequestMoves
<1> QED
  BY <1>4, <1>5, <1>6, <1>7, <1>8

\* A process that starts again loses its requests with its cache.
LEMMA RestartKeeps ==
    ASSUME StaleInv, NEW p \in Procs, Restart(p) PROVE StaleInv'
<1>1. UNCHANGED cfClock /\ StaleReadsBounded' /\ cfClock \in Nat
  BY NothingIsFresh DEF Restart, NoAnswer, StaleInv
<1>2. cfCache' = [cfCache EXCEPT ![p] = EmptyCache] /\ Dated(EmptyCache, cfClock)
  BY DEF Restart, EmptyCache, Snapshot, Dated, IsCache, StaleInv
<1>3. cfCache' = [x \in Procs |-> cfCache'[x]] /\ \A x \in Procs : Dated(cfCache'[x], cfClock)
  BY <1>2 DEF StaleInv
<1>4. cfReq' = [r \in Requests |-> IF cfReq[r].proc = p THEN NoRequest ELSE cfReq[r]]
  BY DEF Restart
<1>5. ASSUME NEW r \in Requests
      PROVE  Timely(cfReq'[r], cfClock) /\ WasFresh(cfReq'[r], cfCache'[cfReq'[r].proc])
  <2>1. CASE cfReq[r].proc = p
    BY <1>4, <2>1, NoRequestTimely
  <2>2. CASE cfReq[r].proc # p
    <3>1. cfReq'[r] = cfReq[r]
      BY <1>4, <2>2
    <3>2. cfReq[r].pc = "version" => cfCache'[cfReq[r].proc] = cfCache[cfReq[r].proc]
      BY <1>2, <2>2 DEF StaleInv, Timely
    <3> QED
      BY <3>1, <3>2 DEF StaleInv, WasFresh
  <2> QED
    BY <2>1, <2>2
<1> QED
  BY <1>1, <1>3, <1>4, <1>5 DEF StaleInv

LEMMA TickKeeps == ASSUME StaleInv, Tick PROVE StaleInv'
<1>1. /\ cfClock \in Nat /\ cfClock' = cfClock + 1 /\ UNCHANGED <<cfReq, cfCache>>
      /\ StaleReadsBounded'
  BY NothingIsFresh DEF Tick, NoAnswer, StaleInv
<1>2. ASSUME NEW r \in Requests PROVE Timely(cfReq[r], cfClock')
  <2>1. Timely(cfReq[r], cfClock) /\ (cfReq[r].pc # "idle" => cfClock - cfReq[r].since < CallMax)
    BY DEF StaleInv, Tick
  <2> QED
    BY <1>1, <2>1, Numbers DEF Timely
<1>3. ASSUME NEW p \in Procs PROVE Dated(cfCache[p], cfClock')
  <2>1. Dated(cfCache[p], cfClock)
    BY DEF StaleInv
  <2> QED
    BY <1>1, <2>1 DEF Dated
<1> QED
  BY <1>1, <1>2, <1>3 DEF StaleInv

LEMMA StandingKeeps ==
    ASSUME StaleInv, UNCHANGED <<cfReq, cfCache, cfClock>>,
           cfServed' = NothingServed \/ UNCHANGED cfServed
    PROVE  StaleInv'
<1>1. StaleReadsBounded'
  BY NothingIsFresh DEF StaleInv, StaleReadsBounded
<1> QED
  BY <1>1 DEF StaleInv

LEMMA StaleInit == ConfigInit => StaleInv
<1> SUFFICES ASSUME ConfigInit PROVE StaleInv
  OBVIOUS
<1>1. cfClock = 1 /\ cfReq = [r \in Requests |-> NoRequest] /\ cfServed = NothingServed
  BY DEF ConfigInit
<1>2. Dated(WarmCache, 1) /\ Dated(EmptyCache, 1)
  BY Numbers DEF WarmCache, EmptyCache, Snapshot, Dated, IsCache
<1>3. /\ cfCache = [p \in Procs |-> cfCache[p]]
      /\ \A p \in Procs : cfCache[p] \in {WarmCache, EmptyCache}
  BY DEF ConfigInit
<1>4. StaleReadsBounded
  BY <1>1, Numbers DEF StaleReadsBounded, NothingServed
<1>5. \A r \in Requests : Timely(cfReq[r], cfClock) /\ WasFresh(cfReq[r], cfCache[cfReq[r].proc])
  BY <1>1, NoRequestTimely
<1> QED
  BY <1>1, <1>2, <1>3, <1>4, <1>5 DEF StaleInv

\* No step makes a cache or a request older than that.
LEMMA StaleInductive == StaleInv /\ [ConfigNext]_cfVars => StaleInv'
<1> SUFFICES ASSUME StaleInv, [ConfigNext]_cfVars PROVE StaleInv'
  OBVIOUS
<1>1. ASSUME NEW r \in Requests, RequestStep(r) PROVE StaleInv'
  BY <1>1, BeginKeeps, VersionKeeps, LoadAnswerKeeps, LoadDoneKeeps, WritesKeep DEF RequestStep
<1>2. ASSUME NEW p \in Procs, Restart(p) PROVE StaleInv'
  BY <1>2, RestartKeeps
<1>3. CASE OtherBump \/ VersionExpires
  BY <1>3, StandingKeeps DEF OtherBump, VersionExpires, NoAnswer
<1>4. CASE Tick
  BY <1>4, TickKeeps
<1>5. CASE UNCHANGED cfVars
  BY <1>5, StandingKeeps DEF cfVars
<1> QED
  BY <1>1, <1>2, <1>3, <1>4, <1>5 DEF ConfigNext

\* A stale read is bounded by the TTL (role_config.py, admin_config_version.py),
\* for any life of the cache, any length of a call, and any processes: the two
\* calls around the TTL, the load's and the version's, are all that adds to it.
THEOREM StaleReadsAreBounded == ConfigSpec => []StaleReadsBounded
<1>1. StaleInv => StaleReadsBounded
  BY DEF StaleInv
<1> QED
  BY StaleInit, StaleInductive, <1>1, PTL DEF ConfigSpec

-----------------------------------------------------------------------------
(* ---- a write that was announced is read ---- *)

\* A request knows no more than what is due; what it has loaded is not behind
\* that; and a cache that it compares was fresh when it asked, or was reset.
DueKnown(q, due, c) ==
    /\ q.pc # "idle" => q.due \in Nat /\ q.due <= due
    /\ q.pc = "loaded" => q.snap.gen \in Nat /\ (q.snap.ok => q.snap.gen >= due)
    /\ q.pc = "version" => c.loadedAt = 0 \/ q.since - c.loadedAt < TTL

KnownInv == \A r \in Requests : DueKnown(cfReq[r], cfDue[cfReq[r].proc], cfCache[cfReq[r].proc])

\* A cache that misses a write that is due, with no load on the way, has seen an
\* older version than the present one, or is from before the key's last life.
Behind(p) ==
    LET c == cfCache[p]
    IN  c.loadedAt > 0 /\ c.snap.ok /\ c.snap.gen < cfDue[p] /\ ~LoadInFlight(p)
WillLoad(c) ==
    /\ c.observed \in Nat /\ c.loadedAt <= cfBumped
    /\ c.observed < cfVersion \/ cfClock - c.loadedAt >= VersionTTL

ReloadInv == \A p \in Procs : Behind(p) => WillLoad(cfCache[p])

CountersOK ==
    /\ cfGen \in Nat /\ cfVersion \in Nat /\ cfBumped \in Nat /\ cfBumped <= cfClock
    /\ cfDue = [p \in Procs |-> cfDue[p]]
    /\ \A p \in Procs : /\ cfDue[p] \in Nat /\ cfDue[p] <= cfGen
                        /\ cfCache[p].snap.gen \in Nat
                        /\ cfCache[p].observed \in Nat \cup {NoVersion}

AnnouncedInv == CountersOK /\ KnownInv /\ ReloadInv /\ AnnouncedWriteIsRead

\* What is due grows, but not while the process loads.
DuesGrow ==
    \A p \in Procs : /\ cfDue'[p] \in Nat /\ cfDue[p] <= cfDue'[p]
                     /\ LoadInFlight(p) => cfDue'[p] = cfDue[p]
\* A cache keeps its date, is reset, or is loaded now.
CachesRedated == \A p \in Procs : cfCache'[p].loadedAt \in {0, cfClock, cfCache[p].loadedAt}
FlightsLast == \A p \in Procs : LoadInFlight(p) => LoadInFlight(p)'

\* A request that is not loading, or goes on loading, ends no load.
LEMMA FlightsGoOn ==
    ASSUME StaleInv, NEW r \in Requests, NEW q, cfReq' = [cfReq EXCEPT ![r] = q],
           \/ cfReq[r].pc \notin {"load", "loaded"}
           \/ q.pc \in {"load", "loaded"} /\ q.proc = cfReq[r].proc
    PROVE  FlightsLast
<1> SUFFICES ASSUME NEW p \in Procs, NEW x \in Requests,
                    cfReq[x].proc = p, cfReq[x].pc \in {"load", "loaded"}
             PROVE  cfReq'[x].proc = p /\ cfReq'[x].pc \in {"load", "loaded"}
  BY DEF FlightsLast, LoadInFlight, Running
<1>1. CASE x = r
  BY <1>1 DEF StaleInv
<1>2. CASE x # r
  BY <1>2 DEF StaleInv
<1> QED
  BY <1>1, <1>2

\* What becomes of what the requests know when one of them moves.
LEMMA KnownKeeps ==
    ASSUME StaleInv, AnnouncedInv, NEW r \in Requests, NEW q,
           cfReq' = [cfReq EXCEPT ![r] = q], DuesGrow, CachesRedated,
           DueKnown(q, cfDue'[q.proc], cfCache'[q.proc])
    PROVE  KnownInv'
<1> SUFFICES ASSUME NEW x \in Requests
             PROVE  DueKnown(cfReq'[x], cfDue'[cfReq'[x].proc], cfCache'[cfReq'[x].proc])
  BY DEF KnownInv
<1>1. CASE x = r
  BY <1>1 DEF StaleInv
<1>2. CASE x # r
  <2> DEFINE y == cfReq[x]
             p == y.proc
  <2>1. cfReq'[x] = y
    BY <1>2 DEF StaleInv
  <2>2. CASE y.pc = "idle"
    BY <2>1, <2>2 DEF DueKnown
  <2>3. CASE y.pc # "idle"
    <3>1. Timely(y, cfClock) /\ p \in Procs /\ cfClock \in Nat
      BY <2>3 DEF StaleInv, Timely
    <3>2. DueKnown(y, cfDue[p], cfCache[p])
      BY DEF AnnouncedInv, KnownInv
    <3>3. cfDue'[p] \in Nat /\ cfDue[p] <= cfDue'[p] /\ cfDue[p] \in Nat
      BY <3>1 DEF DuesGrow, AnnouncedInv, CountersOK
    <3>4. y.pc = "loaded" => cfDue'[p] = cfDue[p]
      BY <3>1 DEF DuesGrow, LoadInFlight, Running
    <3>5. cfCache'[p].loadedAt \in {0, cfClock, cfCache[p].loadedAt}
      BY <3>1 DEF CachesRedated
    <3>6. y.since \in Nat /\ y.since <= cfClock
      BY <2>3, <3>1 DEF Timely
    <3> HIDE DEF y, p
    <3>7. y.due \in Nat /\ y.due <= cfDue'[p]
      BY <2>3, <3>2, <3>3 DEF DueKnown
    <3>8. y.pc = "version" => cfCache'[p].loadedAt = 0 \/ y.since - cfCache'[p].loadedAt < TTL
      BY <3>1, <3>2, <3>5, <3>6, Numbers DEF DueKnown
    <3> QED
      BY <2>1, <3>2, <3>4, <3>7, <3>8 DEF DueKnown, p
  <2> QED
    BY <2>2, <2>3
<1> QED
  BY <1>1, <1>2

\* A process whose cache and what is due stand still reloads as before.
LEMMA ReloadKeeps ==
    ASSUME StaleInv, AnnouncedInv, NEW p \in Procs, LoadInFlight(p) => LoadInFlight(p)',
           cfDue'[p] = cfDue[p], cfCache'[p].snap = cfCache[p].snap,
           cfCache'[p].loadedAt = cfCache[p].loadedAt,
           cfCache'[p].observed = cfCache[p].observed
              \/ (cfCache[p].observed \in {NoVersion, cfVersion} /\ cfVersion' = cfVersion
                    /\ cfCache'[p].observed = cfVersion),
           cfVersion' \in Nat, cfVersion' >= cfVersion, cfClock' \in Nat, cfClock' >= cfClock,
           cfBumped' \in Nat, cfBumped' >= cfBumped
    PROVE  (Behind(p) => WillLoad(cfCache[p]))'
<1> SUFFICES ASSUME Behind(p)' PROVE WillLoad(cfCache[p])'
  OBVIOUS
<1> DEFINE c == cfCache[p]
           d == cfCache'[p]
<1>1. Behind(p)
  BY DEF Behind
<1>2. WillLoad(c)
  BY <1>1 DEF AnnouncedInv, ReloadInv
<1>3. /\ c.observed \in Nat /\ c.loadedAt <= cfBumped
      /\ c.observed < cfVersion \/ cfClock - c.loadedAt >= VersionTTL
  BY <1>2 DEF WillLoad
<1>4. NoVersion \notin Nat /\ cfVersion \in Nat /\ cfBumped \in Nat /\ VersionTTL \in Nat
  BY ConfigAssumption DEF ConfigAssumption, AnnouncedInv, CountersOK
<1>5. d.observed = c.observed
  BY <1>3, <1>4
<1>6. c.loadedAt \in Nat /\ cfClock \in Nat /\ d.loadedAt = c.loadedAt
  BY DEF StaleInv, Dated
<1> HIDE DEF c, d
<1>7. /\ d.observed \in Nat /\ d.loadedAt <= cfBumped'
      /\ d.observed < cfVersion' \/ cfClock' - d.loadedAt >= VersionTTL
  BY <1>3, <1>4, <1>5, <1>6
<1> QED
  BY <1>7 DEF WillLoad, d

\* A step that moves one request.
LEMMA AnnouncedMove ==
    ASSUME StaleInv, AnnouncedInv, NEW r \in Requests, NEW q,
           cfReq' = [cfReq EXCEPT ![r] = q], DuesGrow, CachesRedated,
           DueKnown(q, cfDue'[q.proc], cfCache'[q.proc]),
           CountersOK', ReloadInv', AnnouncedWriteIsRead'
    PROVE  AnnouncedInv'
  BY KnownKeeps DEF AnnouncedInv

\* One that leaves caches, versions and what is due alone.
LEMMA QuietMove ==
    ASSUME StaleInv, AnnouncedInv, NEW r \in Requests, NEW q,
           cfReq' = [cfReq EXCEPT ![r] = q], DueKnown(q, cfDue[q.proc], cfCache[q.proc]),
           FlightsLast, UNCHANGED <<cfDue, cfCache, cfVersion, cfBumped, cfGen, cfClock>>,
           AnnouncedWriteIsRead'
    PROVE  AnnouncedInv'
<1>1. DuesGrow /\ CachesRedated
  BY DEF DuesGrow, CachesRedated, AnnouncedInv, CountersOK
<1>2. CountersOK'
  BY DEF AnnouncedInv, CountersOK
<1>3. ASSUME NEW p \in Procs PROVE (Behind(p) => WillLoad(cfCache[p]))'
  <2>1. /\ cfVersion \in Nat /\ cfVersion >= cfVersion /\ cfClock \in Nat /\ cfClock >= cfClock
        /\ cfBumped \in Nat /\ cfBumped >= cfBumped
    BY DEF AnnouncedInv, CountersOK, StaleInv
  <2> QED
    BY <2>1, ReloadKeeps DEF FlightsLast
<1> QED
  BY <1>1, <1>2, <1>3, AnnouncedMove DEF ReloadInv

LEMMA NothingMissed == ASSUME cfServed' = NothingServed PROVE AnnouncedWriteIsRead'
  BY DEF AnnouncedWriteIsRead, NothingServed

LEMMA ServedMissed ==
    ASSUME NEW r \in Requests, NEW snap, NEW clean, Serve(r, snap, clean),
           ~(clean /\ snap.ok /\ snap.gen < cfReq[r].due)
    PROVE  AnnouncedWriteIsRead'
  BY DEF Serve, AnnouncedWriteIsRead

\* What a request needs nothing of any more is known.
LEMMA NoRequestKnown == \A due, c : DueKnown(NoRequest, due, c)
  BY DEF DueKnown, NoRequest

LEMMA WritingKnown ==
    ASSUME NEW q, NEW todo, NEW read, NEW due \in Nat, NEW c
    PROVE  DueKnown(Writing(q, todo, read), due, c)
  BY DEF DueKnown, Writing

LEMMA NextWriteKnown ==
    ASSUME NEW q, NEW due \in Nat, NEW c PROVE DueKnown(NextWrite(q), due, c)
  BY NoRequestKnown, WritingKnown DEF NextWrite

\* A request that enters a cache now, or goes on to wait for something else.
LEMMA StagedKnown ==
    ASSUME StaleInv, NEW q, NEW due \in Nat, q.due \in Nat, q.due <= due, NEW c, c.loadedAt \in Nat,
           NEW pc, pc \in {Enter(c), "load", "count", "bump"}, NEW snap, NEW read
    PROVE  DueKnown(Staged(q, pc, snap, cfClock, read), due, c)
<1>1. Enter(c) \in {"load", "version"} /\ (Enter(c) = "version" => IsFresh(c))
  BY DEF Enter
<1>2. IsFresh(c) => cfClock - c.loadedAt < TTL
  BY DEF IsFresh
<1>3. pc = "version" => IsFresh(c)
  BY <1>1
<1>4. pc # "loaded"
  BY <1>1
<1> QED
  BY <1>2, <1>3, <1>4 DEF DueKnown, Staged

\* What a request leaves when it is served.
LEMMA ServedKnown ==
    ASSUME StaleInv, AnnouncedInv, NEW r \in Requests, NEW snap, NEW clean,
           Serve(r, snap, clean), cfReq[r].pc # "idle", UNCHANGED cfDue,
           \A p \in Procs : cfCache'[p].loadedAt \in Nat
    PROVE  \E q : /\ cfReq' = [cfReq EXCEPT ![r] = q]
                  /\ DueKnown(q, cfDue'[q.proc], cfCache'[q.proc])
                  /\ q.pc \in {"load", "loaded"} => q.proc = cfReq[r].proc
<1> DEFINE q == cfReq[r]
           p == q.proc
<1>1. p \in Procs /\ q.due \in Nat /\ q.due <= cfDue[p] /\ cfDue[p] \in Nat
  BY DEF StaleInv, Timely, AnnouncedInv, CountersOK, KnownInv, DueKnown
<1>2. \/ cfReq' = [cfReq EXCEPT ![r] =
                        Staged(q, Enter(cfCache'[p]), Idle, cfClock, snap.at)]
      \/ cfReq' = [cfReq EXCEPT ![r] = NoRequest]
      \/ \E todo, read : cfReq' = [cfReq EXCEPT ![r] = Writing(q, todo, read)]
  BY DEF Serve
<1>3. CASE cfReq' = [cfReq EXCEPT ![r] =
                        Staged(q, Enter(cfCache'[p]), Idle, cfClock, snap.at)]
  <2> DEFINE t == Staged(q, Enter(cfCache'[p]), Idle, cfClock, snap.at)
  <2>1. DueKnown(t, cfDue[p], cfCache'[p])
    BY <1>1, StagedKnown
  <2>2. t.proc = p
    BY DEF Staged
  <2> HIDE DEF t
  <2> QED
    BY <1>3, <2>1, <2>2 DEF t
<1>4. CASE cfReq' = [cfReq EXCEPT ![r] = NoRequest]
  <2>1. NoRequest.pc = "idle"
    BY DEF NoRequest
  <2> QED
    BY <1>4, <2>1, NoRequestKnown
<1>5. CASE \E todo, read : cfReq' = [cfReq EXCEPT ![r] = Writing(q, todo, read)]
  <2>1. PICK todo, read : cfReq' = [cfReq EXCEPT ![r] = Writing(q, todo, read)]
    BY <1>5
  <2> DEFINE t == Writing(q, todo, read)
  <2>2. t.proc = p
    BY DEF Writing
  <2>3. DueKnown(t, cfDue[p], cfCache'[p])
    BY <1>1, WritingKnown
  <2> HIDE DEF t
  <2> QED
    BY <2>1, <2>2, <2>3 DEF t
<1> QED
  BY <1>2, <1>3, <1>4, <1>5

LEMMA BeginAnnounced ==
    ASSUME StaleInv, AnnouncedInv, NEW r \in Requests, NEW p \in Procs, NEW op, NEW key, NEW val,
           Begin(r, p, op, key, val)
    PROVE  AnnouncedInv'
<1> DEFINE q == [proc |-> p, op |-> op, key |-> key, pc |-> Enter(cfCache[p]), todo |-> <<>>,
                 snap |-> Idle, due |-> cfDue[p], since |-> cfClock, read |-> Idle]
<1>1. /\ UNCHANGED <<cfDue, cfCache, cfVersion, cfBumped, cfGen, cfClock>>
      /\ AnnouncedWriteIsRead' /\ cfReq[r].pc = "idle"
  BY NothingMissed DEF Begin, NoAnswer, cfRedis, cfMongo
<1>2. cfDue[p] \in Nat /\ cfCache[p].loadedAt \in Nat /\ cfDue[p] <= cfDue[p]
  BY DEF AnnouncedInv, CountersOK, StaleInv, Dated
<1>3. /\ q = Staged(q, Enter(cfCache[p]), Idle, cfClock, Idle) /\ q.due = cfDue[p] /\ q.proc = p
      /\ q.pc = Enter(cfCache[p])
  BY DEF Staged
<1>4. \/ cfReq' = [cfReq EXCEPT ![r] = q]
      \/ cfReq' = [cfReq EXCEPT ![r] = Suspended(q, "count")]
      \/ \E todo, read : cfReq' = [cfReq EXCEPT ![r] = Writing(q, todo, read)]
  BY DEF Begin
<1> HIDE DEF q
<1>5. ASSUME NEW t, cfReq' = [cfReq EXCEPT ![r] = t], t.proc = p, DueKnown(t, cfDue[p], cfCache[p])
      PROVE  AnnouncedInv'
  BY <1>1, <1>5, FlightsGoOn, QuietMove
<1>6. DueKnown(q, cfDue[p], cfCache[p])
  BY <1>2, <1>3, StagedKnown
<1>7. DueKnown(Suspended(q, "count"), cfDue[p], cfCache[p]) /\ Suspended(q, "count").proc = p
  <2>1. Suspended(q, "count").proc = p
    BY <1>3 DEF Suspended, Staged
  <2> QED
    BY <1>2, <1>3, <2>1, StagedKnown DEF Suspended
<1>8. \A todo, read : /\ DueKnown(Writing(q, todo, read), cfDue[p], cfCache[p])
                      /\ Writing(q, todo, read).proc = p
  <2>1. \A todo, read : Writing(q, todo, read).proc = p
    BY <1>3 DEF Writing
  <2> QED
    BY <1>2, <2>1, WritingKnown
<1> QED
  BY <1>3, <1>4, <1>5, <1>6, <1>7, <1>8

\* The cache a request compares is no older than the version key may be.
LEMMA ComparedInTime ==
    ASSUME StaleInv, AnnouncedInv, NEW r \in Requests, cfReq[r].pc = "version",
           cfCache[cfReq[r].proc].loadedAt > 0
    PROVE  cfClock - cfCache[cfReq[r].proc].loadedAt < VersionTTL
<1> DEFINE q == cfReq[r]
           at == cfCache[q.proc].loadedAt
<1>1. /\ q.proc \in Procs /\ q.since \in Nat /\ cfClock \in Nat /\ cfClock - q.since <= CallMax
  BY DEF StaleInv, Timely
<1>2. at \in Nat /\ at > 0 /\ (at = 0 \/ q.since - at < TTL)
  BY <1>1 DEF StaleInv, Dated, AnnouncedInv, KnownInv, DueKnown
<1>3. VersionTTL \in Nat /\ VersionTTL >= TTL + CallMax
  BY VersionOutlivesCaches, ConfigAssumption DEF ConfigAssumption
<1> HIDE DEF q, at
<1>4. cfClock - at < VersionTTL
  BY <1>1, <1>2, <1>3, Numbers
<1> QED
  BY <1>4 DEF at, q

\* What a request finds unchanged by the version is not behind.
LEMMA ComparedMissesNothing ==
    ASSUME StaleInv, AnnouncedInv, NEW r \in Requests, cfReq[r].pc = "version",
           cfCache[cfReq[r].proc].observed \in {NoVersion, cfVersion}
    PROVE  LET c == cfCache[cfReq[r].proc]
           IN  ~(/\ ~LoadInFlight(cfReq[r].proc) /\ c.loadedAt > 0
                 /\ c.snap.ok /\ c.snap.gen < cfReq[r].due)
<1> DEFINE q == cfReq[r]
           p == q.proc
           c == cfCache[p]
<1> SUFFICES ASSUME ~LoadInFlight(p), c.loadedAt > 0, c.snap.ok, c.snap.gen < q.due PROVE FALSE
  OBVIOUS
<1>1. p \in Procs /\ q.due \in Nat /\ q.due <= cfDue[p]
  BY DEF StaleInv, Timely, AnnouncedInv, KnownInv, DueKnown
<1>2. c.snap.gen \in Nat /\ cfDue[p] \in Nat
  BY <1>1 DEF AnnouncedInv, CountersOK
<1>3. c.snap.gen < cfDue[p]
  BY <1>1, <1>2
<1>4. WillLoad(c)
  BY <1>1, <1>3 DEF Behind, AnnouncedInv, ReloadInv
<1>5. cfClock - c.loadedAt < VersionTTL
  BY ComparedInTime
<1>6. /\ cfVersion \in Nat /\ c.observed \in Nat /\ VersionTTL \in Nat /\ NoVersion \notin Nat
      /\ cfClock \in Nat /\ c.loadedAt \in Nat
  BY <1>1, <1>4, ConfigAssumption DEF ConfigAssumption, AnnouncedInv, CountersOK, WillLoad,
     StaleInv, Dated
<1>7. c.observed = cfVersion
  BY <1>6
<1> HIDE DEF c, p, q
<1> QED
  BY <1>4, <1>5, <1>6, <1>7 DEF WillLoad

\* Where a cache notes the present version, everything else stands.
LEMMA ObservingReloads ==
    ASSUME StaleInv, AnnouncedInv, NEW p \in Procs,
           cfCache' = [cfCache EXCEPT ![p].observed = cfVersion],
           UNCHANGED <<cfDue, cfVersion, cfBumped, cfGen, cfClock>>, FlightsLast,
           LoadInFlight(p)' \/ cfCache[p].observed \in {NoVersion, cfVersion}
    PROVE  CountersOK' /\ ReloadInv' /\ CachesRedated /\ DuesGrow
           /\ \A x \in Procs : cfCache'[x].loadedAt \in Nat
<1>1. IsCache(cfCache[p])
  BY DEF StaleInv, Dated
<1>2. cfCache'[p] = [has |-> cfCache[p].has, snap |-> cfCache[p].snap,
                     loadedAt |-> cfCache[p].loadedAt, observed |-> cfVersion]
  BY <1>1 DEF StaleInv, IsCache
<1>3. \A x \in Procs : x # p => cfCache'[x] = cfCache[x]
  BY DEF StaleInv
<1>4. CountersOK'
  BY <1>2, <1>3 DEF AnnouncedInv, CountersOK
<1>5. /\ cfVersion' \in Nat /\ cfVersion' >= cfVersion /\ cfClock' \in Nat /\ cfClock' >= cfClock
      /\ cfBumped' \in Nat /\ cfBumped' >= cfBumped
  BY DEF AnnouncedInv, CountersOK, StaleInv
<1>6. ASSUME NEW x \in Procs PROVE (Behind(x) => WillLoad(cfCache[x]))'
  <2>1. CASE x # p
    BY <1>3, <1>5, <2>1, ReloadKeeps DEF FlightsLast
  <2>2. CASE x = p /\ LoadInFlight(p)'
    BY <2>2 DEF Behind
  <2>3. CASE x = p /\ cfCache[p].observed \in {NoVersion, cfVersion}
    BY <1>2, <1>5, <2>3, ReloadKeeps DEF FlightsLast
  <2> QED
    BY <2>1, <2>2, <2>3
<1>7. CachesRedated /\ \A x \in Procs : cfCache'[x].loadedAt \in Nat
  BY <1>2, <1>3 DEF CachesRedated, StaleInv, Dated
<1>8. DuesGrow
  BY DEF DuesGrow, AnnouncedInv, CountersOK
<1> QED
  BY <1>4, <1>6, <1>7, <1>8 DEF ReloadInv

LEMMA VersionAnnounced ==
    ASSUME StaleInv, AnnouncedInv, NEW r \in Requests, VersionAnswer(r) PROVE AnnouncedInv'
<1> DEFINE q == cfReq[r]
<1>0. PICK p \in Procs : p = q.proc
  BY DEF VersionAnswer, StaleInv, Timely
<1> DEFINE c == cfCache[p]
<1>1. /\ q.pc = "version" /\ cfCache' = [cfCache EXCEPT ![p].observed = cfVersion]
      /\ UNCHANGED <<cfDue, cfVersion, cfBumped, cfGen, cfClock>>
  BY <1>0 DEF VersionAnswer, cfRedis, cfMongo
<1>2. p \in Procs /\ q.due \in Nat /\ q.due <= cfDue[p] /\ cfDue[p] \in Nat /\ c.loadedAt \in Nat
  BY <1>0, <1>1 DEF StaleInv, Timely, Dated, AnnouncedInv, CountersOK, KnownInv, DueKnown
<1>3. CASE c.observed \notin {NoVersion, cfVersion}
  <2> DEFINE t == Suspended(q, "load")
  <2>1. cfReq' = [cfReq EXCEPT ![r] = t] /\ AnnouncedWriteIsRead'
    BY <1>0, <1>3, NothingMissed DEF VersionAnswer
  <2>2. t.proc = p /\ t.pc = "load" /\ DueKnown(t, cfDue[p], c)
    BY <1>0, <1>2, StagedKnown DEF Suspended, Staged
  <2>3. DueKnown(t, cfDue[p], cfCache'[p])
    BY <2>2 DEF DueKnown
  <2> HIDE DEF t
  <2>4. FlightsLast
    BY <1>1, <2>1, <2>2, FlightsGoOn
  <2>5. LoadInFlight(p)'
    <3>1. cfReq'[r] = t
      BY <2>1 DEF StaleInv
    <3> QED
      BY <2>2, <3>1 DEF LoadInFlight, Running
  <2>6. CountersOK' /\ ReloadInv' /\ CachesRedated /\ DuesGrow
    BY <1>1, <1>2, <2>4, <2>5, ObservingReloads
  <2>7. DueKnown(t, cfDue'[t.proc], cfCache'[t.proc])
    BY <1>1, <2>2, <2>3
  <2> QED
    BY <2>1, <2>6, <2>7, AnnouncedMove
<1>4. CASE c.observed \in {NoVersion, cfVersion}
  <2>1. Serve(r, c.snap, ~LoadInFlight(p) /\ c.loadedAt > 0)
    BY <1>0, <1>4 DEF VersionAnswer
  <2>2. AnnouncedWriteIsRead'
    <3>1. ~((~LoadInFlight(p) /\ c.loadedAt > 0) /\ c.snap.ok /\ c.snap.gen < q.due)
      BY <1>0, <1>1, <1>4, ComparedMissesNothing
    <3> QED
      BY <2>1, <3>1, ServedMissed
  <2>3. \A x \in Procs : cfCache'[x].loadedAt \in Nat
    <3>1. IsCache(c) /\ cfCache = [x \in Procs |-> cfCache[x]]
      BY <1>2 DEF StaleInv, Dated
    <3>2. \A x \in Procs : cfCache[x].loadedAt \in Nat
      BY DEF StaleInv, Dated
    <3> QED
      BY <1>1, <1>2, <3>1, <3>2 DEF IsCache
  <2>4. PICK t : /\ cfReq' = [cfReq EXCEPT ![r] = t]
                 /\ DueKnown(t, cfDue'[t.proc], cfCache'[t.proc])
    BY <1>1, <2>1, <2>3, ServedKnown
  <2>5. FlightsLast
    BY <1>1, <2>4, FlightsGoOn
  <2>6. CountersOK' /\ ReloadInv' /\ CachesRedated /\ DuesGrow
    BY <1>1, <1>2, <1>4, <2>5, ObservingReloads
  <2> QED
    BY <2>2, <2>4, <2>6, AnnouncedMove
<1> QED
  BY <1>3, <1>4

\* Redis down, a load that is answered, a seeding that looks, a write that fails.
LEMMA UnavailableAnnounced ==
    ASSUME StaleInv, AnnouncedInv, NEW r \in Requests, VersionUnavailable(r) PROVE AnnouncedInv'
<1>1. /\ cfReq[r].pc = "version" /\ Serve(r, cfCache[cfReq[r].proc].snap, FALSE)
      /\ UNCHANGED <<cfDue, cfCache, cfVersion, cfBumped, cfGen, cfClock>>
  BY DEF VersionUnavailable, cfRedis, cfMongo
<1>2. AnnouncedWriteIsRead'
  BY <1>1, ServedMissed
<1>3. \A x \in Procs : cfCache'[x].loadedAt \in Nat
  BY <1>1 DEF StaleInv, Dated
<1>4. PICK t : /\ cfReq' = [cfReq EXCEPT ![r] = t]
               /\ DueKnown(t, cfDue'[t.proc], cfCache'[t.proc])
  BY <1>1, <1>3, ServedKnown
<1>5. DueKnown(t, cfDue[t.proc], cfCache[t.proc])
  BY <1>1, <1>4
<1>6. FlightsLast
  BY <1>1, <1>4, FlightsGoOn
<1> QED
  BY <1>1, <1>2, <1>4, <1>5, <1>6, QuietMove

LEMMA LoadAnswerAnnounced ==
    ASSUME StaleInv, AnnouncedInv, NEW r \in Requests, LoadAnswer(r) PROVE AnnouncedInv'
<1> DEFINE q == cfReq[r]
           p == q.proc
<1>1. /\ q.pc = "load" /\ AnnouncedWriteIsRead'
      /\ UNCHANGED <<cfDue, cfCache, cfVersion, cfBumped, cfGen, cfClock>>
  BY NothingMissed DEF LoadAnswer, NoAnswer, cfRedis, cfMongo
<1>2. /\ p \in Procs /\ q.due \in Nat /\ q.due <= cfDue[p] /\ cfDue[p] \in Nat /\ cfGen \in Nat
      /\ cfDue[p] <= cfGen
  BY <1>1 DEF StaleInv, Timely, AnnouncedInv, CountersOK, KnownInv, DueKnown
<1>3. \E content, ok :
        cfReq' = [cfReq EXCEPT ![r] = Loaded(q, Snapshot(content, cfGen, cfClock, ok))]
  BY DEF LoadAnswer
<1>4. PICK content, ok :
        cfReq' = [cfReq EXCEPT ![r] = Loaded(q, Snapshot(content, cfGen, cfClock, ok))]
  BY <1>3
<1> DEFINE t == Loaded(q, Snapshot(content, cfGen, cfClock, ok))
<1>5. t.proc = p /\ t.pc = "loaded" /\ t.due = q.due /\ t.snap.gen = cfGen
  BY DEF Loaded, Staged, Snapshot
<1>6. cfReq' = [cfReq EXCEPT ![r] = t]
  BY <1>4
<1> HIDE DEF t
<1>7. DueKnown(t, cfDue[p], cfCache[p])
  BY <1>2, <1>5 DEF DueKnown
<1>8. FlightsLast
  BY <1>5, <1>6, FlightsGoOn
<1> QED
  BY <1>1, <1>5, <1>6, <1>7, <1>8, QuietMove

LEMMA WriteAbandonedAnnounced ==
    ASSUME StaleInv, AnnouncedInv, NEW r \in Requests, SeedCount(r) \/ WriteFails(r)
    PROVE  AnnouncedInv'
<1> DEFINE q == cfReq[r]
<1>1. /\ q.pc \in {"write", "count"} /\ AnnouncedWriteIsRead'
      /\ UNCHANGED <<cfDue, cfCache, cfVersion, cfBumped, cfGen, cfClock>>
  BY NothingMissed DEF SeedCount, WriteFails, NoAnswer, cfRedis, cfMongo
<1>2. \/ cfReq' = [cfReq EXCEPT ![r] = NoRequest]
      \/ \E todo : cfReq' = [cfReq EXCEPT ![r] = Writing(q, todo, Idle)]
  BY DEF SeedCount, WriteFails
<1>3. ASSUME NEW t, cfReq' = [cfReq EXCEPT ![r] = t], DueKnown(t, cfDue[t.proc], cfCache[t.proc])
      PROVE  AnnouncedInv'
  BY <1>1, <1>3, FlightsGoOn, QuietMove
<1>4. q.proc \in Procs /\ cfDue[q.proc] \in Nat
  BY <1>1 DEF StaleInv, Timely, AnnouncedInv, CountersOK
<1>5. ASSUME NEW todo PROVE LET t == Writing(q, todo, Idle)
                            IN  DueKnown(t, cfDue[t.proc], cfCache[t.proc])
  <2>1. Writing(q, todo, Idle).proc = q.proc
    BY DEF Writing
  <2> QED
    BY <1>4, <2>1, WritingKnown
<1> QED
  BY <1>2, <1>3, <1>5, NoRequestKnown

\* A step of one process's request leaves the loads of the others.
LEMMA FlightsElsewhere ==
    ASSUME StaleInv, NEW r \in Requests, NEW q, cfReq' = [cfReq EXCEPT ![r] = q],
           NEW x \in Procs, x # cfReq[r].proc
    PROVE  LoadInFlight(x) => LoadInFlight(x)'
<1> SUFFICES ASSUME NEW y \in Requests, cfReq[y].proc = x, cfReq[y].pc \in {"load", "loaded"}
             PROVE  cfReq'[y].proc = x /\ cfReq'[y].pc \in {"load", "loaded"}
  BY DEF LoadInFlight, Running
<1>1. y # r
  OBVIOUS
<1> QED
  BY <1>1 DEF StaleInv

LEMMA LoadDoneAnnounced ==
    ASSUME StaleInv, AnnouncedInv, NEW r \in Requests, LoadDone(r) PROVE AnnouncedInv'
<1> DEFINE q == cfReq[r]
<1>0. PICK p \in Procs : p = q.proc
  BY DEF LoadDone, StaleInv, Timely
<1>1. /\ q.pc = "loaded" /\ cfCache' = [cfCache EXCEPT ![p] = Stored(cfCache[p], q.snap)]
      /\ Serve(r, q.snap, TRUE)
      /\ UNCHANGED <<cfDue, cfVersion, cfBumped, cfGen, cfClock>>
  BY <1>0 DEF LoadDone, cfRedis, cfMongo
<1>2. /\ q.due \in Nat /\ q.due <= cfDue[p] /\ cfDue[p] \in Nat
      /\ q.snap.gen \in Nat /\ (q.snap.ok => q.snap.gen >= cfDue[p])
  BY <1>0, <1>1 DEF StaleInv, Timely, AnnouncedInv, CountersOK, KnownInv, DueKnown
<1>3. AnnouncedWriteIsRead'
  <2>1. ~(TRUE /\ q.snap.ok /\ q.snap.gen < q.due)
    <3> HIDE DEF q
    <3> QED
      BY <1>2
  <2> QED
    BY <1>1, <2>1, ServedMissed
<1>4. /\ cfCache'[p].snap = q.snap /\ cfCache'[p].loadedAt = cfClock
      /\ cfCache'[p].observed = cfCache[p].observed
      /\ \A x \in Procs : x # p => cfCache'[x] = cfCache[x]
  BY <1>1 DEF StaleInv, Stored
<1>5. CachesRedated /\ \A x \in Procs : cfCache'[x].loadedAt \in Nat
  BY <1>4 DEF CachesRedated, StaleInv, Dated
<1>6. DuesGrow /\ CountersOK'
  BY <1>1, <1>2, <1>4 DEF DuesGrow, AnnouncedInv, CountersOK
<1>7. PICK t : /\ cfReq' = [cfReq EXCEPT ![r] = t]
               /\ DueKnown(t, cfDue'[t.proc], cfCache'[t.proc])
  BY <1>1, <1>5, ServedKnown
<1>8. ASSUME NEW x \in Procs PROVE (Behind(x) => WillLoad(cfCache[x]))'
  <2>1. CASE x = p
    <3>1. ~(cfCache'[x].snap.ok /\ cfCache'[x].snap.gen < cfDue'[x])
      BY <1>1, <1>2, <1>4, <2>1
    <3> QED
      BY <3>1 DEF Behind
  <2>2. CASE x # p
    <3>1. LoadInFlight(x) => LoadInFlight(x)'
      BY <1>0, <1>7, <2>2, FlightsElsewhere
    <3>2. /\ cfVersion' \in Nat /\ cfVersion' >= cfVersion /\ cfClock' \in Nat
          /\ cfClock' >= cfClock /\ cfBumped' \in Nat /\ cfBumped' >= cfBumped
      BY <1>1 DEF AnnouncedInv, CountersOK, StaleInv
    <3> QED
      BY <1>1, <1>4, <2>2, <3>1, <3>2, ReloadKeeps
  <2> QED
    BY <2>1, <2>2
<1> QED
  BY <1>3, <1>5, <1>6, <1>7, <1>8, AnnouncedMove DEF ReloadInv

LEMMA ApplyAnnounced ==
    ASSUME StaleInv, AnnouncedInv, NEW r \in Requests, ApplyWrite(r) PROVE AnnouncedInv'
<1> DEFINE q == cfReq[r]
<1>0. PICK p \in Procs : p = q.proc
  BY DEF ApplyWrite, StaleInv, Timely
<1>1. /\ q.pc = "write" /\ AnnouncedWriteIsRead'
      /\ UNCHANGED <<cfVersion, cfBumped, cfClock>> /\ cfGen' \in {cfGen, cfGen + 1}
  BY NothingMissed DEF ApplyWrite, NoAnswer, cfRedis
<1>2. /\ q.due \in Nat /\ q.due <= cfDue[p] /\ cfDue[p] \in Nat /\ cfDue[p] <= cfGen
      /\ cfGen \in Nat /\ cfGen' \in Nat /\ cfGen <= cfGen'
  <2>1. cfGen \in Nat
    BY DEF AnnouncedInv, CountersOK
  <2>2. cfGen' \in Nat /\ cfGen <= cfGen'
    BY <1>1, <2>1
  <2> QED
    BY <1>0, <1>1, <2>1, <2>2
       DEF StaleInv, Timely, AnnouncedInv, CountersOK, KnownInv, DueKnown
<1>3. CASE /\ \/ cfReq' = [cfReq EXCEPT ![r] = NoRequest]
              \/ cfReq' = [cfReq EXCEPT ![r] = NextWrite(q)]
           /\ UNCHANGED <<cfCache, cfDue>>
  <2>1. PICK t : /\ cfReq' = [cfReq EXCEPT ![r] = t]
                 /\ t \in {NoRequest, NextWrite(q)}
    BY <1>3
  <2>2. \A due \in Nat : \A c : DueKnown(t, due, c)
    BY <2>1, NoRequestKnown, NextWriteKnown
  <2>3. t.pc = "idle" \/ t.proc = p
    BY <1>0, <2>1 DEF NoRequest, NextWrite, Writing
  <2>4. DueKnown(t, cfDue'[t.proc], cfCache'[t.proc])
    BY <1>2, <1>3, <2>2, <2>3 DEF DueKnown
  <2>5. FlightsLast
    BY <1>1, <2>1, FlightsGoOn
  <2>6. DuesGrow /\ CachesRedated
    BY <1>3 DEF DuesGrow, CachesRedated, AnnouncedInv, CountersOK
  <2>7. CountersOK'
    <3>1. ASSUME NEW x \in Procs PROVE cfDue'[x] \in Nat /\ cfDue'[x] <= cfGen'
      BY <1>2, <1>3 DEF AnnouncedInv, CountersOK
    <3> QED
      BY <1>1, <1>2, <1>3, <3>1 DEF AnnouncedInv, CountersOK
  <2>8. ASSUME NEW x \in Procs PROVE (Behind(x) => WillLoad(cfCache[x]))'
    <3>1. /\ cfVersion' \in Nat /\ cfVersion' >= cfVersion /\ cfClock' \in Nat
          /\ cfClock' >= cfClock /\ cfBumped' \in Nat /\ cfBumped' >= cfBumped
      BY <1>1 DEF AnnouncedInv, CountersOK, StaleInv
    <3> QED
      BY <1>3, <2>5, <3>1, ReloadKeeps DEF FlightsLast
  <2> QED
    BY <1>1, <2>1, <2>4, <2>6, <2>7, <2>8, AnnouncedMove DEF ReloadInv
<1>4. CASE /\ cfReq' = [cfReq EXCEPT ![r] = Suspended(q, "bump")]
           /\ cfCache' = [cfCache EXCEPT ![p] = ResetCache(cfCache[p])]
           /\ cfDue' = [cfDue EXCEPT ![p] = IF LoadInFlight(p) THEN cfDue[p] ELSE cfGen']
  <2> DEFINE t == Suspended(q, "bump")
  <2>1. /\ cfCache'[p].loadedAt = 0 /\ cfCache'[p].snap = cfCache[p].snap
        /\ cfCache'[p].observed = NoVersion
        /\ \A x \in Procs : x # p => cfCache'[x] = cfCache[x]
    BY <1>4 DEF StaleInv, ResetCache
  <2>2. /\ cfDue' = [x \in Procs |-> cfDue'[x]]
        /\ cfDue'[p] = (IF LoadInFlight(p) THEN cfDue[p] ELSE cfGen')
        /\ \A x \in Procs : x # p => cfDue'[x] = cfDue[x]
    BY <1>4 DEF AnnouncedInv, CountersOK
  <2>3. cfDue'[p] \in Nat /\ cfDue[p] <= cfDue'[p] /\ cfDue'[p] <= cfGen'
    BY <1>2, <2>2
  <2>4. ASSUME NEW x \in Procs, x # p
        PROVE  cfDue'[x] \in Nat /\ cfDue[x] <= cfDue'[x] /\ cfDue'[x] <= cfGen'
    BY <1>2, <2>2, <2>4 DEF AnnouncedInv, CountersOK
  <2>5. DuesGrow
    BY <2>2, <2>3, <2>4 DEF DuesGrow
  <2>6. CachesRedated /\ \A x \in Procs : cfCache'[x].loadedAt \in Nat
    BY <2>1 DEF CachesRedated, StaleInv, Dated
  <2>7. CountersOK'
    <3>1. ASSUME NEW x \in Procs
          PROVE  /\ cfDue'[x] \in Nat /\ cfDue'[x] <= cfGen' /\ cfCache'[x].snap.gen \in Nat
                 /\ cfCache'[x].observed \in Nat \cup {NoVersion}
      BY <2>1, <2>3, <2>4 DEF AnnouncedInv, CountersOK
    <3> QED
      BY <1>1, <1>2, <2>2, <3>1 DEF AnnouncedInv, CountersOK
  <2>8. t.proc = p /\ t.pc = "bump" /\ DueKnown(t, cfDue'[p], cfCache'[p])
    <3>1. q.due <= cfDue'[p]
      BY <1>2, <2>3
    <3>2. t.proc = p /\ t.pc = "bump" /\ t.due = q.due
      BY <1>0 DEF Suspended, Staged
    <3> HIDE DEF t
    <3> QED
      BY <1>2, <3>1, <3>2 DEF DueKnown
  <2> HIDE DEF t
  <2>9. cfReq' = [cfReq EXCEPT ![r] = t]
    BY <1>4 DEF t
  <2>10. FlightsLast
    BY <1>1, <2>9, FlightsGoOn
  <2>11. ASSUME NEW x \in Procs PROVE (Behind(x) => WillLoad(cfCache[x]))'
    <3>1. CASE x = p
      BY <2>1, <3>1 DEF Behind
    <3>2. CASE x # p
      <4>1. /\ cfVersion' \in Nat /\ cfVersion' >= cfVersion /\ cfClock' \in Nat
            /\ cfClock' >= cfClock /\ cfBumped' \in Nat /\ cfBumped' >= cfBumped
        BY <1>1 DEF AnnouncedInv, CountersOK, StaleInv
      <4> QED
        BY <2>1, <2>2, <2>10, <3>2, <4>1, ReloadKeeps DEF FlightsLast
    <3> QED
      BY <3>1, <3>2
  <2> QED
    BY <1>1, <2>5, <2>6, <2>7, <2>8, <2>9, <2>11, AnnouncedMove DEF ReloadInv
<1> QED
  BY <1>0, <1>3, <1>4 DEF ApplyWrite

\* A new version makes those reload that have seen the old one.
LEMMA BumpReloads ==
    ASSUME StaleInv, AnnouncedInv, BumpVersion, UNCHANGED <<cfGen, cfCache, cfClock>>, FlightsLast
    PROVE  CountersOK' /\ ReloadInv' /\ DuesGrow
<1>1. /\ cfVersion' = cfVersion + 1 /\ cfBumped' = cfClock
      /\ cfDue' = [p \in Procs |-> IF cfCache[p].observed = cfVersion /\ ~LoadInFlight(p)
                                   THEN cfGen ELSE cfDue[p]]
  BY DEF BumpVersion
<1>2. cfGen \in Nat /\ cfVersion \in Nat /\ cfClock \in Nat /\ cfBumped \in Nat /\ cfBumped <= cfClock
  BY DEF AnnouncedInv, CountersOK, StaleInv
<1>3. ASSUME NEW p \in Procs
      PROVE  /\ cfDue'[p] \in Nat /\ cfDue[p] <= cfDue'[p] /\ cfDue'[p] <= cfGen
             /\ LoadInFlight(p) => cfDue'[p] = cfDue[p]
             /\ cfDue'[p] = cfDue[p] \/ (cfCache[p].observed = cfVersion /\ ~LoadInFlight(p))
  <2>1. cfDue[p] \in Nat /\ cfDue[p] <= cfGen
    BY DEF AnnouncedInv, CountersOK
  <2> QED
    BY <1>1, <1>2, <2>1
<1>4. DuesGrow
  BY <1>3 DEF DuesGrow
<1>5. CountersOK'
  BY <1>1, <1>2, <1>3 DEF AnnouncedInv, CountersOK
<1>6. ASSUME NEW p \in Procs PROVE (Behind(p) => WillLoad(cfCache[p]))'
  <2>1. cfVersion' >= cfVersion /\ cfClock' >= cfClock /\ cfBumped' >= cfBumped
    BY <1>1, <1>2
  <2>2. CASE cfDue'[p] = cfDue[p]
    BY <1>1, <1>2, <2>1, <2>2, ReloadKeeps DEF FlightsLast
  <2>3. CASE cfCache[p].observed = cfVersion /\ ~LoadInFlight(p)
    <3>1. cfCache'[p] = cfCache[p] /\ cfCache[p].loadedAt <= cfClock
      BY DEF StaleInv, Dated
    <3>2. cfVersion < cfVersion'
      BY <1>1, <1>2
    <3> QED
      BY <1>1, <1>2, <2>3, <3>1, <3>2 DEF WillLoad
  <2> QED
    BY <1>3, <2>2, <2>3
<1> QED
  BY <1>4, <1>5, <1>6 DEF ReloadInv

\* What the requests know when none of them moves.
LEMMA KnownStands ==
    ASSUME StaleInv, AnnouncedInv, UNCHANGED <<cfReq, cfCache>>, DuesGrow
    PROVE  KnownInv'
<1> SUFFICES ASSUME NEW r \in Requests
             PROVE  DueKnown(cfReq[r], cfDue'[cfReq[r].proc], cfCache[cfReq[r].proc])
  BY DEF KnownInv
<1>1. DueKnown(cfReq[r], cfDue[cfReq[r].proc], cfCache[cfReq[r].proc])
  BY DEF AnnouncedInv, KnownInv
<1>2. CASE cfReq[r].pc = "idle"
  BY <1>2 DEF DueKnown
<1>3. CASE cfReq[r].pc # "idle"
  <2> DEFINE p == cfReq[r].proc
  <2>1. p \in Procs
    BY <1>3 DEF StaleInv, Timely
  <2>2. cfDue'[p] \in Nat /\ cfDue[p] <= cfDue'[p] /\ cfDue[p] \in Nat
    BY <2>1 DEF DuesGrow, AnnouncedInv, CountersOK
  <2>3. cfReq[r].pc = "loaded" => cfDue'[p] = cfDue[p]
    BY <2>1 DEF DuesGrow, LoadInFlight, Running
  <2> HIDE DEF p
  <2>4. cfReq[r].due \in Nat /\ cfReq[r].due <= cfDue'[p]
    BY <1>1, <1>3, <2>2 DEF DueKnown, p
  <2> QED
    BY <1>1, <2>3, <2>4 DEF DueKnown, p
<1> QED
  BY <1>2, <1>3

LEMMA BumpAnnounced ==
    ASSUME StaleInv, AnnouncedInv, NEW r \in Requests, Bump(r) PROVE AnnouncedInv'
<1> DEFINE q == cfReq[r]
           t == NextWrite(q)
<1>1. /\ q.pc = "bump" /\ AnnouncedWriteIsRead' /\ cfReq' = [cfReq EXCEPT ![r] = t]
      /\ UNCHANGED <<cfGen, cfCache, cfClock>>
      /\ BumpVersion \/ UNCHANGED <<cfDue, cfVersion, cfBumped>>
  BY NothingMissed DEF Bump, NoAnswer, cfMongo, cfRedis
<1>2. FlightsLast
  BY <1>1, FlightsGoOn
<1>3. q.proc \in Procs
  BY <1>1 DEF StaleInv, Timely
<1>4. t.pc = "idle" \/ t.proc = q.proc
  BY DEF NoRequest, NextWrite, Writing
<1>5. \A due \in Nat : \A c : DueKnown(t, due, c)
  BY NextWriteKnown
<1> HIDE DEF t
<1>6. CASE BumpVersion
  <2>1. CountersOK' /\ ReloadInv' /\ DuesGrow
    BY <1>1, <1>2, <1>6, BumpReloads
  <2>2. CachesRedated
    BY <1>1 DEF CachesRedated
  <2>3. DueKnown(t, cfDue'[t.proc], cfCache'[t.proc])
    BY <1>3, <1>4, <1>5, <2>1 DEF DueKnown, DuesGrow
  <2> QED
    BY <1>1, <2>1, <2>2, <2>3, AnnouncedMove
<1>7. CASE UNCHANGED <<cfDue, cfVersion, cfBumped>>
  <2>1. DueKnown(t, cfDue[t.proc], cfCache[t.proc])
    BY <1>3, <1>4, <1>5 DEF DueKnown, AnnouncedInv, CountersOK
  <2> QED
    BY <1>1, <1>2, <1>7, <2>1, QuietMove
<1> QED
  BY <1>1, <1>6, <1>7

LEMMA OtherBumpAnnounced == ASSUME StaleInv, AnnouncedInv, OtherBump PROVE AnnouncedInv'
<1>1. BumpVersion /\ UNCHANGED <<cfGen, cfCache, cfClock, cfReq>> /\ AnnouncedWriteIsRead'
  BY NothingMissed DEF OtherBump, NoAnswer, cfMongo
<1>2. FlightsLast
  BY <1>1 DEF FlightsLast, LoadInFlight, Running
<1>3. CountersOK' /\ ReloadInv' /\ DuesGrow
  BY <1>1, <1>2, BumpReloads
<1> QED
  BY <1>1, <1>3, KnownStands DEF AnnouncedInv

\* The key goes when every cache that it could mislead is too old to compare.
LEMMA ExpiryAnnounced == ASSUME StaleInv, AnnouncedInv, VersionExpires PROVE AnnouncedInv'
<1>1. /\ UNCHANGED <<cfGen, cfCache, cfClock, cfReq, cfDue, cfBumped>> /\ AnnouncedWriteIsRead'
      /\ cfVersion' = 0 /\ cfClock - cfBumped >= VersionTTL
  BY NothingMissed DEF VersionExpires, NoAnswer, cfMongo
<1>2. DuesGrow /\ CountersOK'
  BY <1>1 DEF DuesGrow, AnnouncedInv, CountersOK
<1>3. ASSUME NEW p \in Procs, Behind(p)' PROVE WillLoad(cfCache[p])'
  <2>1. Behind(p)
    BY <1>1, <1>3 DEF Behind, LoadInFlight, Running
  <2>2. WillLoad(cfCache[p])
    BY <2>1 DEF AnnouncedInv, ReloadInv
  <2> DEFINE at == cfCache[p].loadedAt
  <2>3. /\ at \in Nat /\ cfClock \in Nat /\ cfBumped \in Nat /\ at <= cfBumped
        /\ cfCache[p].observed \in Nat /\ VersionTTL \in Nat
    BY <2>2, ConfigAssumption
       DEF WillLoad, StaleInv, Dated, AnnouncedInv, CountersOK, ConfigAssumption
  <2> HIDE DEF at
  <2>4. cfClock - at >= VersionTTL
    BY <1>1, <2>3
  <2> QED
    BY <1>1, <2>3, <2>4 DEF WillLoad, at
<1> QED
  BY <1>1, <1>2, <1>3, KnownStands DEF AnnouncedInv, ReloadInv

LEMMA TimeAnnounced ==
    ASSUME StaleInv, AnnouncedInv, AnnouncedWriteIsRead',
           UNCHANGED <<cfGen, cfCache, cfReq, cfDue, cfBumped, cfVersion>>,
           cfClock' = cfClock + 1 \/ UNCHANGED cfClock
    PROVE  AnnouncedInv'
<1>1. cfClock \in Nat /\ cfBumped \in Nat /\ cfBumped <= cfClock /\ cfVersion \in Nat
  BY DEF StaleInv, AnnouncedInv, CountersOK
<1>2. cfClock' \in Nat /\ cfClock' >= cfClock /\ cfBumped' <= cfClock'
  BY <1>1
<1>3. DuesGrow /\ CountersOK'
  BY <1>2 DEF DuesGrow, AnnouncedInv, CountersOK
<1>4. ASSUME NEW p \in Procs PROVE (Behind(p) => WillLoad(cfCache[p]))'
  <2>1. LoadInFlight(p) => LoadInFlight(p)'
    BY DEF LoadInFlight, Running
  <2>2. cfVersion' \in Nat /\ cfVersion' >= cfVersion /\ cfBumped' \in Nat /\ cfBumped' >= cfBumped
    BY <1>1
  <2> QED
    BY <1>2, <2>1, <2>2, ReloadKeeps
<1> QED
  BY <1>3, <1>4, KnownStands DEF AnnouncedInv, ReloadInv

\* A process that starts again has seen no version and holds nothing.
LEMMA RestartAnnounced ==
    ASSUME StaleInv, AnnouncedInv, NEW p \in Procs, Restart(p) PROVE AnnouncedInv'
<1>1. /\ UNCHANGED <<cfGen, cfClock, cfDue, cfBumped, cfVersion>> /\ AnnouncedWriteIsRead'
      /\ cfCache' = [cfCache EXCEPT ![p] = EmptyCache]
      /\ cfReq' = [r \in Requests |-> IF cfReq[r].proc = p THEN NoRequest ELSE cfReq[r]]
  BY NothingMissed DEF Restart, NoAnswer, cfMongo, cfRedis
<1>2. /\ cfCache'[p].loadedAt = 0 /\ cfCache'[p].snap.gen = 0 /\ cfCache'[p].observed = NoVersion
      /\ \A x \in Procs : x # p => cfCache'[x] = cfCache[x]
  BY <1>1 DEF StaleInv, EmptyCache, Snapshot
<1>3. CountersOK'
  BY <1>1, <1>2 DEF AnnouncedInv, CountersOK
<1>4. ASSUME NEW r \in Requests
      PROVE  DueKnown(cfReq'[r], cfDue'[cfReq'[r].proc], cfCache'[cfReq'[r].proc])
  <2>1. CASE cfReq[r].proc = p
    BY <1>1, <2>1, NoRequestKnown
  <2>2. CASE cfReq[r].proc # p
    <3>1. cfReq'[r] = cfReq[r] /\ DueKnown(cfReq[r], cfDue[cfReq[r].proc], cfCache[cfReq[r].proc])
      BY <1>1, <2>2 DEF AnnouncedInv, KnownInv
    <3>2. cfReq[r].pc # "idle" => cfCache'[cfReq[r].proc] = cfCache[cfReq[r].proc]
      BY <1>2, <2>2 DEF StaleInv, Timely
    <3> QED
      BY <1>1, <3>1, <3>2 DEF DueKnown
  <2> QED
    BY <2>1, <2>2
<1>5. ASSUME NEW x \in Procs PROVE (Behind(x) => WillLoad(cfCache[x]))'
  <2>1. CASE x = p
    BY <1>2, <2>1 DEF Behind
  <2>2. CASE x # p
    <3>1. LoadInFlight(x) => LoadInFlight(x)'
      BY <1>1, <2>2 DEF LoadInFlight, Running
    <3>2. /\ cfVersion' \in Nat /\ cfVersion' >= cfVersion /\ cfClock' \in Nat
          /\ cfClock' >= cfClock /\ cfBumped' \in Nat /\ cfBumped' >= cfBumped
      BY <1>1 DEF AnnouncedInv, CountersOK, StaleInv
    <3> QED
      BY <1>1, <1>2, <2>2, <3>1, <3>2, ReloadKeeps
  <2> QED
    BY <2>1, <2>2
<1> QED
  BY <1>1, <1>3, <1>4, <1>5 DEF AnnouncedInv, KnownInv, ReloadInv

LEMMA AnnouncedInit == ConfigInit => AnnouncedInv
<1> SUFFICES ASSUME ConfigInit PROVE AnnouncedInv
  OBVIOUS
<1>1. /\ cfClock = 1 /\ cfGen = 0 /\ cfVersion = 1 /\ cfBumped = 1 /\ cfDue = [p \in Procs |-> 0]
      /\ cfReq = [r \in Requests |-> NoRequest] /\ cfServed = NothingServed
      /\ \A p \in Procs : cfCache[p] \in {WarmCache, EmptyCache}
  BY DEF ConfigInit
<1>2. \A p \in Procs : cfCache[p].snap.gen = 0 /\ cfCache[p].observed \in {cfVersion, NoVersion}
  BY <1>1 DEF WarmCache, EmptyCache, Snapshot
<1>3. CountersOK
  BY <1>1, <1>2 DEF CountersOK
<1>4. KnownInv
  BY <1>1, NoRequestKnown DEF KnownInv
<1>5. ReloadInv
  BY <1>1, <1>2 DEF ReloadInv, Behind
<1>6. AnnouncedWriteIsRead
  BY <1>1 DEF AnnouncedWriteIsRead, NothingServed
<1> QED
  BY <1>3, <1>4, <1>5, <1>6 DEF AnnouncedInv

\* Every step keeps what is known of the versions, the loads and what is due.
LEMMA AnnouncedInductive == StaleInv /\ AnnouncedInv /\ [ConfigNext]_cfVars => AnnouncedInv'
<1> SUFFICES ASSUME StaleInv, AnnouncedInv, [ConfigNext]_cfVars PROVE AnnouncedInv'
  OBVIOUS
<1>1. ASSUME NEW r \in Requests, RequestStep(r) PROVE AnnouncedInv'
  BY <1>1, BeginAnnounced, VersionAnnounced, UnavailableAnnounced, LoadAnswerAnnounced,
     LoadDoneAnnounced, WriteAbandonedAnnounced, ApplyAnnounced, BumpAnnounced DEF RequestStep
<1>2. ASSUME NEW p \in Procs, Restart(p) PROVE AnnouncedInv'
  BY <1>2, RestartAnnounced
<1>3. CASE OtherBump \/ VersionExpires
  BY <1>3, OtherBumpAnnounced, ExpiryAnnounced
<1>4. CASE Tick
  BY <1>4, TimeAnnounced, NothingMissed DEF Tick, NoAnswer, cfMongo, cfRedis
<1>5. CASE UNCHANGED cfVars
  <2>1. AnnouncedWriteIsRead'
    BY <1>5 DEF cfVars, AnnouncedInv, AnnouncedWriteIsRead
  <2> QED
    BY <1>5, <2>1, TimeAnnounced DEF cfVars
<1> QED
  BY <1>1, <1>2, <1>3, <1>4, <1>5 DEF ConfigNext

\* A write is seen by the first read of a process that starts after the bump of
\* the version, when the process had seen the version before it or wrote itself,
\* was not loading at that moment, and nothing fails the read (_version_changed,
\* _notify_write), for any processes, requests and lives: a cache that misses it
\* has seen an older version, and one of the key's last life is not compared.
THEOREM AnnouncedWritesAreRead == ConfigSpec => []AnnouncedWriteIsRead
<1>1. AnnouncedInv => AnnouncedWriteIsRead
  BY DEF AnnouncedInv
<1> QED
  BY StaleInit, StaleInductive, AnnouncedInit, AnnouncedInductive, <1>1, PTL DEF ConfigSpec

-----------------------------------------------------------------------------
(* ---- the life of a role ---- *)

\* The writes a request on roles makes: it inserts or updates a role, or
\* deletes one that is not built in.
RoleWrites ==
    [keys : SUBSET RoleNames, val : {"role"}, mode : {"insert", "update"}]
    \cup [keys : SUBSET (RoleNames \ BuiltinRoles), val : {Absent}, mode : {"delete"}]

\* A request on roles, and what it still has to write.
OnRoles(q) ==
    /\ IsRequest(q)
    /\ q.todo \in Seq(RoleWrites)
    /\ q.pc \in {"load", "loaded", "version"} =>
          q.op \in {"read", "create", "update", "delete"} /\ q.key \in RoleNames
    /\ q.pc \in {"write", "bump"} => q.todo # <<>>

RolesInv ==
    cfKind = "roles" =>
        /\ DOMAIN cfDb = RoleNames
        /\ cfReq = [r \in Requests |-> cfReq[r]]
        /\ \A r \in Requests : OnRoles(cfReq[r])

\* The order in which a finite set is written lists its elements.
LEMMA SequenceOfSet ==
    ASSUME NEW S, IsFiniteSet(S), NEW i \in 1..Cardinality(S)
    PROVE  SetToSeq(S)[i] \in S
<1>1. PICK n \in Nat : ExistsBijection(1..n, S)
  BY FS_NatBijection
<1>2. n = Cardinality(S)
  BY <1>1, FS_CountingElements
<1>3. PICK f : f \in Bijection(1..n, S)
  BY <1>1 DEF ExistsBijection
<1>4. f \in [1..n -> S] /\ \A a, b \in 1..n : f[a] = f[b] => a = b
  BY <1>3 DEF Bijection, Injection, IsInjective
<1>5. \E g \in [1..Cardinality(S) -> S] : IsInjective(g)
  BY <1>2, <1>4 DEF IsInjective
<1>6. SetToSeq(S) \in [1..Cardinality(S) -> S]
  BY <1>5 DEF SetToSeq
<1> QED
  BY <1>6

\* Sequences of a set: a function on an interval, and what is left of one.
LEMMA SequenceOf ==
    ASSUME NEW T, NEW n \in Nat, NEW f, f = [i \in 1..n |-> f[i]], \A i \in 1..n : f[i] \in T
    PROVE  f \in Seq(T)
  OBVIOUS

LEMMA RestOf ==
    ASSUME NEW T, NEW s \in Seq(T), s # <<>>, Len(s) # 1
    PROVE  Tail(s) \in Seq(T) /\ Tail(s) # <<>>
<1>1. Tail(s) \in Seq(T) /\ Len(Tail(s)) = Len(s) - 1 /\ Len(s) # 1
  BY HeadTailProperties
<1>2. Len(s) \in Nat
  OBVIOUS
<1>3. Len(Tail(s)) # 0
  BY <1>1, <1>2
<1>4. Len(<<>>) = 0
  OBVIOUS
<1> QED
  BY <1>1, <1>3, <1>4

LEMMA NoRequestOnRoles == OnRoles(NoRequest)
<1>1. <<>> \in Seq(RoleWrites)
  OBVIOUS
<1> QED
  BY <1>1 DEF OnRoles, IsRequest, NoRequest

\* What a request on roles plans to write.
LEMMA PlansOnRoles ==
    ASSUME cfKind = "roles", NEW op \in {"read", "create", "update", "delete"},
           NEW key \in RoleNames, NEW content
    PROVE  Plan(op, key, Idle, content) \in Seq(RoleWrites)
<1>1. <<>> \in Seq(RoleWrites)
  OBVIOUS
<1>2. /\ Write({key}, "role", "insert") \in RoleWrites
      /\ Write({key}, "role", "update") \in RoleWrites
      /\ key \notin BuiltinRoles => Write({key}, Absent, "delete") \in RoleWrites
  BY DEF Write, RoleWrites
<1>3. \A w \in RoleWrites : <<w>> \in Seq(RoleWrites)
  OBVIOUS
<1> HIDE DEF RoleWrites
<1>4. CASE op = "read"
  BY <1>1, <1>4 DEF Plan
<1>5. CASE op = "create"
  BY <1>1, <1>2, <1>3, <1>5 DEF Plan
<1>6. CASE op = "update"
  BY <1>1, <1>2, <1>3, <1>6 DEF Plan
<1>7. CASE op = "delete"
  BY <1>1, <1>2, <1>3, <1>7 DEF Plan
<1> QED
  BY <1>4, <1>5, <1>6, <1>7

\* What the seeding of the roles writes.
LEMMA SeedsOnRoles ==
    ASSUME cfKind = "roles", NEW content PROVE Seeds(content) \in Seq(RoleWrites)
<1> DEFINE missing == BuiltinRoles \ Present(content)
<1>1. IsFiniteSet(missing) /\ missing \subseteq RoleNames
  BY FS_Difference, ConfigAssumption DEF ConfigAssumption
<1>2. Cardinality(missing) \in Nat
  BY <1>1, FS_CardinalityType
<1>3. \A i \in 1..Cardinality(missing) : SetToSeq(missing)[i] \in RoleNames
  BY <1>1, SequenceOfSet
<1>4. Seeds(content) = [i \in 1..Cardinality(missing) |->
                            Write({SetToSeq(missing)[i]}, "role", "insert")]
  BY DEF Seeds
<1> HIDE DEF missing
<1>5. \A i \in 1..Cardinality(missing) :
        Write({SetToSeq(missing)[i]}, "role", "insert") \in RoleWrites
  BY <1>3 DEF Write, RoleWrites
<1> DEFINE seeds == Seeds(content)
<1>6. seeds = [i \in 1..Cardinality(missing) |-> seeds[i]]
  BY <1>4
<1>7. \A i \in 1..Cardinality(missing) : seeds[i] \in RoleWrites
  BY <1>4, <1>5
<1> HIDE DEF seeds
<1>8. seeds \in Seq(RoleWrites)
  BY <1>2, <1>6, <1>7, SequenceOf
<1> QED
  BY <1>8 DEF seeds

\* A request that writes something of its plan.
LEMMA WritingOnRoles ==
    ASSUME NEW q, NEW todo \in Seq(RoleWrites), todo # <<>>, NEW read
    PROVE  OnRoles(Writing(q, todo, read))
  BY DEF OnRoles, IsRequest, Writing

LEMMA StagedOnRoles ==
    ASSUME NEW q, OnRoles(q), NEW pc, NEW snap, NEW since, NEW read,
           \/ pc = "count"
           \/ pc \in {"load", "loaded", "version"} /\ q.pc \in {"load", "loaded", "version"}
           \/ pc = "bump" /\ q.pc = "write"
    PROVE  OnRoles(Staged(q, pc, snap, since, read))
  BY DEF OnRoles, IsRequest, Staged

LEMMA NextWriteOnRoles ==
    ASSUME NEW q, OnRoles(q), q.pc \in {"write", "bump"}
    PROVE  OnRoles(NextWrite(q))
<1>1. q.todo \in Seq(RoleWrites) /\ q.todo # <<>>
  BY DEF OnRoles
<1> HIDE DEF RoleWrites
<1>2. CASE Len(q.todo) = 1
  BY <1>2, NoRequestOnRoles DEF NextWrite
<1>3. CASE Len(q.todo) # 1
  <2>1. Tail(q.todo) \in Seq(RoleWrites) /\ Tail(q.todo) # <<>>
    BY <1>1, <1>3, RestOf
  <2> QED
    BY <1>3, <2>1, WritingOnRoles DEF NextWrite
<1> QED
  BY <1>2, <1>3

\* What becomes of the request of a step.
LEMMA RequestOnRoles ==
    ASSUME RolesInv, cfKind = "roles", NEW r \in Requests, RequestStep(r)
    PROVE  \E q : OnRoles(q) /\ cfReq' = [cfReq EXCEPT ![r] = q]
<1> DEFINE c == cfReq[r]
<1>1. OnRoles(c)
  BY DEF RolesInv
<1>2. ASSUME NEW snap, NEW clean, Serve(r, snap, clean), c.pc \in {"load", "loaded", "version"}
      PROVE  \E q : OnRoles(q) /\ cfReq' = [cfReq EXCEPT ![r] = q]
  <2> DEFINE todo == Plan(c.op, c.key, Idle, snap.content)
             e == Enter(cfCache'[c.proc])
  <2>1. todo \in Seq(RoleWrites)
    BY <1>1, <1>2, PlansOnRoles DEF OnRoles
  <2>2. \/ cfReq' = [cfReq EXCEPT ![r] = Staged(c, e, Idle, cfClock, snap.at)]
        \/ cfReq' = [cfReq EXCEPT ![r] = NoRequest]
        \/ todo # <<>> /\ \E read : cfReq' = [cfReq EXCEPT ![r] = Writing(c, todo, read)]
    BY <1>2 DEF Serve
  <2>3. e \in {"load", "version"}
    BY DEF Enter
  <2> HIDE DEF e, todo, c
  <2>4. OnRoles(Staged(c, e, Idle, cfClock, snap.at))
    BY <1>1, <1>2, <2>3, StagedOnRoles
  <2>5. todo # <<>> => \A read : OnRoles(Writing(c, todo, read))
    BY <2>1, WritingOnRoles
  <2> QED
    BY <2>2, <2>4, <2>5, NoRequestOnRoles
<1>3. ASSUME NEW p \in Procs, NEW key \in RoleNames, NEW val, NEW op \in Ops(p, "roles"),
             Begin(r, p, op, key, val)
      PROVE  \E q : OnRoles(q) /\ cfReq' = [cfReq EXCEPT ![r] = q]
  <2> DEFINE e == Enter(cfCache[p])
             q == [proc |-> p, op |-> op, key |-> key, pc |-> e, todo |-> <<>>,
                   snap |-> Idle, due |-> cfDue[p], since |-> cfClock, read |-> Idle]
  <2>1. op \in {"read", "seed", "create", "update", "delete"}
    BY DEF Ops, RoleEdits
  <2>2. e \in {"load", "version"}
    BY DEF Enter
  <2>3. <<>> \in Seq(RoleWrites)
    OBVIOUS
  <2>4. cfReq' = [cfReq EXCEPT ![r] = IF op # "seed" THEN q ELSE Suspended(q, "count")]
    BY <1>3, <2>1 DEF Begin, ReadsCache
  <2> HIDE DEF e, RoleWrites
  <2>5. op # "seed" => OnRoles(q)
    BY <2>1, <2>2, <2>3 DEF OnRoles, IsRequest
  <2>6. OnRoles(Suspended(q, "count"))
    BY <2>3 DEF OnRoles, IsRequest, Suspended, Staged
  <2> QED
    BY <2>4, <2>5, <2>6
<1>4. CASE \E p \in Procs, key \in Keys(cfKind), val \in PutLevels \cup {Idle} :
              \E op \in Ops(p, cfKind) : Begin(r, p, op, key, val)
  BY <1>3, <1>4 DEF Keys
<1>5. CASE VersionAnswer(r) \/ VersionUnavailable(r)
  <2>1. c.pc = "version"
    BY <1>5 DEF VersionAnswer, VersionUnavailable
  <2>2. \/ cfReq' = [cfReq EXCEPT ![r] = Suspended(c, "load")]
        \/ \E snap, clean : Serve(r, snap, clean)
    BY <1>5 DEF VersionAnswer, VersionUnavailable
  <2>3. OnRoles(Suspended(c, "load"))
    BY <1>1, <2>1, StagedOnRoles DEF Suspended
  <2> QED
    BY <1>2, <2>1, <2>2, <2>3
<1>6. CASE LoadAnswer(r)
  <2>1. c.pc = "load" /\ \E snap : cfReq' = [cfReq EXCEPT ![r] = Loaded(c, snap)]
    BY <1>6 DEF LoadAnswer
  <2>2. \A snap : OnRoles(Loaded(c, snap))
    BY <1>1, <2>1, StagedOnRoles DEF Loaded
  <2> QED
    BY <2>1, <2>2
<1>7. CASE LoadDone(r)
  BY <1>2, <1>7 DEF LoadDone
<1>8. CASE SeedCount(r)
  BY <1>8, SeedsOnRoles, WritingOnRoles, NoRequestOnRoles DEF SeedCount
<1>9. CASE ApplyWrite(r)
  <2>1. /\ c.pc = "write"
        /\ \/ cfReq' = [cfReq EXCEPT ![r] = NoRequest]
           \/ cfReq' = [cfReq EXCEPT ![r] = NextWrite(c)]
           \/ cfReq' = [cfReq EXCEPT ![r] = Suspended(c, "bump")]
    BY <1>9 DEF ApplyWrite
  <2>2. OnRoles(Suspended(c, "bump")) /\ OnRoles(NextWrite(c))
    BY <1>1, <2>1, StagedOnRoles, NextWriteOnRoles DEF Suspended
  <2> QED
    BY <2>1, <2>2, NoRequestOnRoles
<1>10. CASE WriteFails(r)
  BY <1>10, NoRequestOnRoles DEF WriteFails
<1>11. CASE Bump(r)
  BY <1>1, <1>11, NextWriteOnRoles DEF Bump
<1> QED
  BY <1>4, <1>5, <1>6, <1>7, <1>8, <1>9, <1>10, <1>11 DEF RequestStep

\* No step changes the collection that is followed, and what MongoDB holds
\* changes only by the next write of a request.
LEMMA RequestsWrite ==
    ASSUME NEW r \in Requests, RequestStep(r)
    PROVE  /\ UNCHANGED cfKind
           /\ \/ UNCHANGED cfDb
              \/ cfReq[r].pc = "write" /\ cfDb' = Applied(Head(cfReq[r].todo), cfDb)
<1>1. ASSUME NEW p, NEW op, NEW key, NEW val, Begin(r, p, op, key, val)
      PROVE  UNCHANGED <<cfKind, cfDb>>
  BY <1>1 DEF Begin, NoAnswer, cfMongo
<1>2. VersionAnswer(r) \/ VersionUnavailable(r) => UNCHANGED <<cfKind, cfDb>>
  BY DEF VersionAnswer, VersionUnavailable, cfMongo
<1>3. LoadAnswer(r) \/ LoadDone(r) => UNCHANGED <<cfKind, cfDb>>
  BY DEF LoadAnswer, LoadDone, NoAnswer, cfMongo
<1>4. SeedCount(r) \/ WriteFails(r) \/ Bump(r) => UNCHANGED <<cfKind, cfDb>>
  BY DEF SeedCount, WriteFails, Bump, NoAnswer, cfMongo
<1>5. ApplyWrite(r) => /\ UNCHANGED cfKind /\ cfReq[r].pc = "write"
                       /\ cfDb' = Applied(Head(cfReq[r].todo), cfDb)
  BY DEF ApplyWrite, NoAnswer
<1> QED
  BY <1>1, <1>2, <1>3, <1>4, <1>5 DEF RequestStep

LEMMA StepsWrite ==
    ASSUME [ConfigNext]_cfVars
    PROVE  /\ UNCHANGED cfKind
           /\ \/ UNCHANGED cfDb
              \/ \E r \in Requests : /\ cfReq[r].pc = "write"
                                     /\ cfDb' = Applied(Head(cfReq[r].todo), cfDb)
<1>1. ASSUME NEW p \in Procs, Restart(p) PROVE UNCHANGED <<cfKind, cfDb>>
  BY <1>1 DEF Restart, NoAnswer, cfMongo
<1>2. OtherBump \/ VersionExpires \/ Tick => UNCHANGED <<cfKind, cfDb>>
  BY DEF OtherBump, VersionExpires, Tick, NoAnswer, cfMongo
<1>3. UNCHANGED cfVars => UNCHANGED <<cfKind, cfDb>>
  BY DEF cfVars
<1> QED
  BY <1>1, <1>2, <1>3, RequestsWrite DEF ConfigNext

\* A step on roles writes what its request has to write, or nothing.
LEMMA StepsWriteRoles ==
    ASSUME RolesInv, cfKind = "roles", [ConfigNext]_cfVars
    PROVE  /\ cfKind' = "roles" /\ DOMAIN cfDb' = RoleNames
           /\ cfDb' # cfDb =>
                \E r \in Requests : /\ cfReq[r].pc = "write" /\ Head(cfReq[r].todo) \in RoleWrites
                                    /\ cfDb' = Applied(Head(cfReq[r].todo), cfDb)
<1>1. UNCHANGED cfKind
  BY StepsWrite
<1>2. \/ UNCHANGED cfDb
      \/ \E r \in Requests : cfReq[r].pc = "write" /\ cfDb' = Applied(Head(cfReq[r].todo), cfDb)
  BY StepsWrite
<1>3. ASSUME NEW r \in Requests, cfReq[r].pc = "write" PROVE Head(cfReq[r].todo) \in RoleWrites
  <2>1. cfReq[r].todo \in Seq(RoleWrites) /\ cfReq[r].todo # <<>>
    BY <1>3 DEF RolesInv, OnRoles
  <2> HIDE DEF RoleWrites
  <2> QED
    BY <2>1
<1>4. DOMAIN cfDb' = RoleNames
  BY <1>2 DEF RolesInv, Applied
<1> QED
  BY <1>1, <1>2, <1>3, <1>4

\* A role comes to be only by an insertion, which meets the unique index when
\* the role is there, and goes only when an administrator deletes one that is
\* not built in (routers/roles.py, config_seeder.py, mongo_config_repository.py),
\* for any roles, processes and requests.
THEOREM RolesLive == ConfigSpec => RolesKeepTheirLife
<1>1. ConfigInit => RolesInv
  <2> SUFFICES ASSUME ConfigInit, cfKind = "roles" PROVE RolesInv
    BY DEF RolesInv
  <2>1. DOMAIN cfDb = RoleNames
    BY DEF ConfigInit, FirstDb, Keys
  <2> QED
    BY <2>1, NoRequestOnRoles DEF ConfigInit, RolesInv
<1>2. RolesInv /\ [ConfigNext]_cfVars => RolesInv'
  <2> SUFFICES ASSUME RolesInv, [ConfigNext]_cfVars, cfKind' = "roles" PROVE RolesInv'
    BY DEF RolesInv
  <2>1. cfKind = "roles"
    BY StepsWrite
  <2>2. DOMAIN cfDb' = RoleNames
    BY <2>1, StepsWriteRoles
  <2>3. ASSUME NEW r \in Requests, NEW q, OnRoles(q), cfReq' = [cfReq EXCEPT ![r] = q]
        PROVE  RolesInv'
    BY <2>1, <2>2, <2>3 DEF RolesInv, OnRoles, IsRequest
  <2>4. ASSUME NEW r \in Requests, RequestStep(r) PROVE RolesInv'
    BY <2>1, <2>3, <2>4, RequestOnRoles
  <2>5. ASSUME NEW p \in Procs, Restart(p) PROVE RolesInv'
    <3>1. cfReq' = [r \in Requests |-> IF cfReq[r].proc = p THEN NoRequest ELSE cfReq[r]]
      BY <2>5 DEF Restart
    <3>2. \A r \in Requests : OnRoles(cfReq'[r])
      BY <2>1, <3>1, NoRequestOnRoles DEF RolesInv
    <3> QED
      BY <2>2, <3>1, <3>2 DEF RolesInv, OnRoles, IsRequest
  <2>6. CASE UNCHANGED cfReq
    BY <2>1, <2>2, <2>6 DEF RolesInv, OnRoles, IsRequest
  <2> QED
    BY <2>4, <2>5, <2>6 DEF ConfigNext, cfVars, OtherBump, VersionExpires, Tick
<1>3. RolesInv /\ [ConfigNext]_cfVars =>
        (cfKind = "roles" =>
            /\ \A n \in Present(cfDb') \ Present(cfDb) :
                  \E r \in Requests : cfReq[r].pc = "write" /\ Head(cfReq[r].todo).mode = "insert"
            /\ Present(cfDb) \ Present(cfDb') \subseteq RoleNames \ BuiltinRoles)
  <2> SUFFICES ASSUME RolesInv, [ConfigNext]_cfVars, cfKind = "roles", cfDb' # cfDb
               PROVE  /\ \A n \in Present(cfDb') \ Present(cfDb) :
                            \E r \in Requests : /\ cfReq[r].pc = "write"
                                                /\ Head(cfReq[r].todo).mode = "insert"
                      /\ Present(cfDb) \ Present(cfDb') \subseteq RoleNames \ BuiltinRoles
    OBVIOUS
  <2>1. PICK r \in Requests : /\ cfReq[r].pc = "write" /\ Head(cfReq[r].todo) \in RoleWrites
                              /\ cfDb' = Applied(Head(cfReq[r].todo), cfDb)
    BY StepsWriteRoles
  <2> DEFINE w == Head(cfReq[r].todo)
  <2>2. /\ DOMAIN cfDb = RoleNames /\ w \in RoleWrites
        /\ Effective(w, cfDb)
        /\ cfDb' = [k \in DOMAIN cfDb |-> IF k \in w.keys THEN w.val ELSE cfDb[k]]
    BY <2>1 DEF RolesInv, Applied
  <2>3. SUFFICES /\ Present(cfDb') \ Present(cfDb) # {} => w.mode = "insert"
                 /\ Present(cfDb) \ Present(cfDb') \subseteq RoleNames \ BuiltinRoles
    BY <2>1
  <2> HIDE DEF w
  <2>4. CASE w.mode = "delete"
    <3>1. w.val = Absent /\ w.keys \subseteq RoleNames \ BuiltinRoles
      BY <2>2, <2>4 DEF RoleWrites
    <3> QED
      BY <2>2, <3>1 DEF Present
  <2>5. CASE w.mode \in {"insert", "update"}
    <3>1. w.val = "role" /\ (w.mode = "update" => w.keys \subseteq Present(cfDb))
      BY <2>2, <2>5 DEF RoleWrites, Effective
    <3>2. Present(cfDb) \subseteq Present(cfDb')
      BY <2>2, <3>1, ConfigAssumption DEF Present, ConfigAssumption
    <3>3. ASSUME w.mode = "update", NEW k \in Present(cfDb') PROVE k \in Present(cfDb)
      BY <2>2, <3>1, <3>3 DEF Present
    <3> QED
      BY <2>5, <3>2, <3>3
  <2>6. w.mode \in {"insert", "update", "delete"}
    BY <2>2 DEF RoleWrites
  <2> QED
    BY <2>4, <2>5, <2>6
<1> QED
  BY <1>1, <1>2, <1>3, PTL DEF ConfigSpec, RolesKeepTheirLife

-----------------------------------------------------------------------------
(* ---- an older decision of an administrator stands ---- *)

\* A key that had no document at a time has none yet, or was written since.
Unwritten(k, at) == cfDb[k] = Absent \/ cfTouched[k] >= at

\* What was loaded was so when it was read.
SnapTrue(s) ==
    s.ok => /\ GroupKeys \subseteq DOMAIN s.content
            /\ \A k \in GroupKeys : s.content[k] = Absent => Unwritten(k, s.at)

\* The documents that a provisioning, which read its grants at a time, may write.
Missing(at) == {w \in {Write({k}, VIEW, "upsert") : k \in GroupKeys} :
                    \A k \in w.keys : Unwritten(k, at)}

\* How old what it read may be when it has made n writes: each takes two calls.
Groups == Cardinality(GroupKeys)
Budget(n) == TTL - 1 + CallMax * (2 + 2 * n)

Provisioning(q) == q.op = "provision" /\ q.pc \in {"write", "bump"} /\ q.read # Idle
InBudget(q) ==
    /\ q.read \in Nat /\ q.since \in Nat /\ q.read <= q.since
    /\ Len(q.todo) <= Groups
    /\ q.since - q.read <= Budget(Groups - Len(q.todo)) + IF q.pc = "bump" THEN CallMax ELSE 0
Decided(q) ==
    /\ q.pc = "loaded" => SnapTrue(q.snap)
    /\ Provisioning(q) => InBudget(q) /\ q.todo # <<>> /\ q.todo \in Seq(Missing(q.read))

DecidedInv ==
    /\ \A r \in Requests : cfReq[r].op = "provision" /\ cfReq[r].pc # "idle" => cfKind = "grants"
    /\ cfKind = "grants" =>
         /\ DOMAIN cfDb = GrantKeys
         /\ cfTouched = [k \in GroupKeys |-> cfTouched[k]] /\ \A k \in GroupKeys : cfTouched[k] \in Nat
         /\ \A p \in Procs : SnapTrue(cfCache[p].snap)
         /\ \A r \in Requests : Decided(cfReq[r])

LEMMA GroupsCount == IsFiniteSet(GroupKeys) /\ GroupKeys \subseteq GrantKeys /\ Groups \in Nat
<1>1. IsFiniteSet(GroupKeys) /\ GroupKeys \subseteq GrantKeys
  BY FS_Subset, ConfigAssumption DEF ConfigAssumption
<1> QED
  BY <1>1, FS_CardinalityType DEF Groups

\* Each write that is made adds two calls, and the last is made in time.
LEMMA BudgetGrows ==
    ASSUME NEW n \in Nat
    PROVE  /\ Budget(n) \in Int /\ Budget(n) + 2 * CallMax = Budget(n + 1)
           /\ Budget(0) = TTL - 1 + 2 * CallMax /\ Budget(0) <= Budget(n)
<1>1. CallMax * (2 + 2 * n) = 2 * CallMax + 2 * (CallMax * n) /\ CallMax * n \in Nat
  BY Numbers
<1>2. CallMax * (2 + 2 * (n + 1)) = 4 * CallMax + 2 * (CallMax * n)
  BY Numbers
<1> QED
  BY <1>1, <1>2, Numbers DEF Budget

LEMMA BudgetSuffices ==
    ASSUME NEW n \in Nat, n < Groups
    PROVE  Budget(n) + CallMax <= TTL - 1 + CallMax * (1 + 2 * Groups)
<1>1. CallMax * (2 + 2 * n) = 2 * CallMax + 2 * (CallMax * n) /\ CallMax * n \in Nat
  BY Numbers
<1>2. CallMax * (1 + 2 * Groups) = CallMax + 2 * (CallMax * Groups) /\ CallMax * Groups \in Nat
  BY Numbers, GroupsCount
<1>3. CallMax * Groups >= CallMax * n + CallMax
  <2>1. PICK m \in Nat : Groups = n + 1 + m
    <3>1. Groups - n - 1 \in Nat /\ Groups = n + 1 + (Groups - n - 1)
      BY GroupsCount
    <3> QED
      BY <3>1
  <2>2. CallMax * (n + 1 + m) = CallMax * n + CallMax + CallMax * m /\ CallMax * m \in Nat
    BY Numbers
  <2> QED
    BY <1>1, <2>1, <2>2, Numbers
<1> QED
  BY <1>1, <1>2, <1>3, Numbers DEF Budget

\* What a provisioning plans is missing in what it read.
LEMMA ProvisionsAreMissing ==
    ASSUME NEW s, SnapTrue(s), s.ok
    PROVE  /\ Provisions(s.content) \in Seq(Missing(s.at))
           /\ Len(Provisions(s.content)) <= Groups
<1> DEFINE lacking == GroupKeys \ Present(s.content)
           plan == Provisions(s.content)
<1>1. IsFiniteSet(lacking) /\ Cardinality(lacking) <= Groups
  BY GroupsCount, FS_Difference, FS_Subset DEF Groups
<1>2. Cardinality(lacking) \in Nat
  BY <1>1, FS_CardinalityType
<1>3. \A k \in lacking : Unwritten(k, s.at)
  BY DEF SnapTrue, Present
<1>4. \A i \in 1..Cardinality(lacking) : SetToSeq(lacking)[i] \in lacking
  BY <1>1, SequenceOfSet
<1>5. plan = [i \in 1..Cardinality(lacking) |-> Write({SetToSeq(lacking)[i]}, VIEW, "upsert")]
  BY DEF Provisions
<1>6. \A k \in lacking : Write({k}, VIEW, "upsert") \in Missing(s.at)
  BY <1>3 DEF Missing, Write
<1> HIDE DEF lacking, plan, Missing
<1>7. plan = [i \in 1..Cardinality(lacking) |-> plan[i]]
  BY <1>5
<1>8. \A i \in 1..Cardinality(lacking) : plan[i] \in Missing(s.at)
  BY <1>4, <1>5, <1>6
<1>9. plan \in Seq(Missing(s.at))
  BY <1>2, <1>7, <1>8, SequenceOf
<1>10. Len(plan) = Cardinality(lacking)
  BY <1>2, <1>5
<1> QED
  BY <1>1, <1>9, <1>10 DEF plan

\* A request that writes nothing it provisions, or loads nothing.
LEMMA OtherwiseDecided ==
    ASSUME NEW q, ~Provisioning(q), q.pc # "loaded" PROVE Decided(q)
  BY DEF Decided

LEMMA NoRequestDecided == Decided(NoRequest)
  BY OtherwiseDecided DEF Provisioning, NoRequest

\* A provisioning that begins to write.
LEMMA ServedDecided ==
    ASSUME StaleInv, NEW r \in Requests, NEW snap, NEW clean, Serve(r, snap, clean),
           SnapTrue(snap), snap.at \in Nat, snap.at <= cfClock,
           cfClock - snap.at <= TTL - 1 + 2 * CallMax
    PROVE  \E q : /\ cfReq' = [cfReq EXCEPT ![r] = q] /\ Decided(q)
                  /\ q.op = "provision" /\ q.pc # "idle" => cfReq[r].op = "provision"
<1> DEFINE q == cfReq[r]
           todo == Plan(q.op, q.key, Idle, snap.content)
           read == IF q.op = "provision" /\ snap.ok THEN snap.at ELSE Idle
           t == Writing(q, todo, read)
           e == Enter(cfCache'[q.proc])
           s == Staged(q, e, Idle, cfClock, snap.at)
<1>1. \/ cfReq' = [cfReq EXCEPT ![r] = s]
      \/ cfReq' = [cfReq EXCEPT ![r] = NoRequest]
      \/ cfReq' = [cfReq EXCEPT ![r] = t] /\ todo # <<>>
  BY DEF Serve
<1>2. CASE cfReq' = [cfReq EXCEPT ![r] = s]
  <2>1. e \in {"load", "version"}
    BY DEF Enter
  <2>2. s.pc = e /\ s.op = q.op
    BY DEF Staged
  <2> HIDE DEF s, e
  <2>3. Decided(s)
    BY <2>1, <2>2, OtherwiseDecided DEF Provisioning
  <2> QED
    BY <1>2, <2>2, <2>3
<1>3. CASE cfReq' = [cfReq EXCEPT ![r] = NoRequest]
  <2>1. NoRequest.pc = "idle"
    BY DEF NoRequest
  <2> QED
    BY <1>3, <2>1, NoRequestDecided
<1>4. CASE cfReq' = [cfReq EXCEPT ![r] = t] /\ todo # <<>>
  <2>1. /\ t.op = (IF q.op \in {"provision", "seed"} THEN q.op ELSE "edit")
        /\ t.pc = "write" /\ t.todo = todo /\ t.read = read /\ t.since = cfClock
    BY DEF Writing
  <2>2. ASSUME Provisioning(t) PROVE InBudget(t) /\ t.todo # <<>> /\ t.todo \in Seq(Missing(t.read))
    <3>1. q.op = "provision" /\ read # Idle
      BY <2>1, <2>2 DEF Provisioning
    <3>2. snap.ok /\ read = snap.at
      BY <3>1
    <3>3. todo = Provisions(snap.content)
      BY <3>1 DEF Plan
    <3>4. todo \in Seq(Missing(read)) /\ Len(todo) <= Groups
      BY <3>2, <3>3, ProvisionsAreMissing
    <3> DEFINE n == Len(todo)
    <3>5. n \in Nat /\ Groups \in Nat
      BY <3>4, GroupsCount
    <3> HIDE DEF t, todo, read, n
    <3>6. Groups - n \in Nat
      BY <3>4, <3>5 DEF n
    <3>7. Budget(0) <= Budget(Groups - n) /\ Budget(0) = TTL - 1 + 2 * CallMax
          /\ Budget(Groups - n) \in Int
      BY <3>6, BudgetGrows
    <3>8. cfClock \in Nat
      BY DEF StaleInv
    <3>9. cfClock - snap.at <= Budget(Groups - n)
      BY <3>7, <3>8, Numbers
    <3> QED
      BY <1>4, <2>1, <3>2, <3>4, <3>7, <3>8, <3>9 DEF InBudget, n
  <2> HIDE DEF t
  <2>3. Decided(t)
    BY <2>1, <2>2 DEF Decided
  <2>4. t.op = "provision" => q.op = "provision"
    BY <2>1
  <2> QED
    BY <1>4, <2>3, <2>4
<1> QED
  BY <1>1, <1>2, <1>3, <1>4

\* A step leaves the documents and their times, or makes one write now.
LEMMA StepsTouch ==
    ASSUME [ConfigNext]_cfVars
    PROVE  \/ UNCHANGED <<cfDb, cfTouched>>
           \/ /\ UNCHANGED cfClock
              /\ \E w : /\ cfDb' = Applied(w, cfDb)
                        /\ cfTouched' = [k \in DOMAIN cfTouched |->
                              IF Effective(w, cfDb) /\ k \in w.keys THEN cfClock ELSE cfTouched[k]]
<1>1. ASSUME NEW r \in Requests, NEW p, NEW op, NEW key, NEW val, Begin(r, p, op, key, val)
      PROVE  UNCHANGED <<cfDb, cfTouched>>
  BY <1>1 DEF Begin, cfMongo
<1>2. ASSUME NEW r \in Requests,
             \/ VersionAnswer(r) \/ VersionUnavailable(r) \/ LoadAnswer(r) \/ LoadDone(r)
             \/ SeedCount(r) \/ WriteFails(r) \/ Bump(r)
      PROVE  UNCHANGED <<cfDb, cfTouched>>
  BY <1>2 DEF VersionAnswer, VersionUnavailable, LoadAnswer, LoadDone, SeedCount, WriteFails,
     Bump, cfMongo
<1>3. ASSUME NEW r \in Requests, ApplyWrite(r)
      PROVE  /\ UNCHANGED cfClock
             /\ \E w : /\ cfDb' = Applied(w, cfDb)
                       /\ cfTouched' = [k \in DOMAIN cfTouched |->
                              IF Effective(w, cfDb) /\ k \in w.keys THEN cfClock ELSE cfTouched[k]]
  BY <1>3 DEF ApplyWrite
<1>4. ASSUME NEW p \in Procs, Restart(p) PROVE UNCHANGED <<cfDb, cfTouched>>
  BY <1>4 DEF Restart, cfMongo
<1>5. OtherBump \/ VersionExpires \/ Tick \/ UNCHANGED cfVars => UNCHANGED <<cfDb, cfTouched>>
  BY DEF OtherBump, VersionExpires, Tick, cfVars, cfMongo
<1> QED
  BY <1>1, <1>2, <1>3, <1>4, <1>5 DEF ConfigNext, RequestStep

\* What was unwritten stays so or is written now.
LEMMA UnwrittenKeeps ==
    ASSUME StaleInv, StaleInv', DecidedInv, cfKind = "grants", [ConfigNext]_cfVars
    PROVE  /\ DOMAIN cfDb' = GrantKeys
           /\ cfTouched' = [k \in GroupKeys |-> cfTouched'[k]]
           /\ \A k \in GroupKeys : cfTouched'[k] \in Nat
           /\ \A k \in GroupKeys : \A at \in Nat :
                 at <= cfClock' /\ Unwritten(k, at) => Unwritten(k, at)'
<1>1. /\ DOMAIN cfDb = GrantKeys /\ cfTouched = [k \in GroupKeys |-> cfTouched[k]]
      /\ \A k \in GroupKeys : cfTouched[k] \in Nat
      /\ cfClock \in Nat
  BY DEF DecidedInv, StaleInv
<1>2. CASE UNCHANGED <<cfDb, cfTouched>>
  BY <1>1, <1>2 DEF Unwritten
<1>3. ASSUME UNCHANGED cfClock, NEW w, cfDb' = Applied(w, cfDb),
             cfTouched' = [k \in DOMAIN cfTouched |->
                  IF Effective(w, cfDb) /\ k \in w.keys THEN cfClock ELSE cfTouched[k]]
      PROVE  /\ DOMAIN cfDb' = GrantKeys
             /\ cfTouched' = [k \in GroupKeys |-> cfTouched'[k]]
             /\ \A k \in GroupKeys : cfTouched'[k] \in Nat
             /\ \A k \in GroupKeys : \A at \in Nat :
                   at <= cfClock' /\ Unwritten(k, at) => Unwritten(k, at)'
  <2>1. DOMAIN cfDb' = GrantKeys
    BY <1>1, <1>3 DEF Applied
  <2>2. /\ cfTouched' = [k \in GroupKeys |-> cfTouched'[k]]
        /\ \A k \in GroupKeys : cfTouched'[k] \in Nat
    BY <1>1, <1>3
  <2>3. ASSUME NEW k \in GroupKeys, NEW at \in Nat, at <= cfClock', Unwritten(k, at)
        PROVE  Unwritten(k, at)'
    <3>1. k \in GrantKeys /\ k \in DOMAIN cfTouched
      BY <1>1, GroupsCount
    <3>2. CASE Effective(w, cfDb) /\ k \in w.keys
      BY <1>3, <2>3, <3>1, <3>2 DEF Unwritten
    <3>3. CASE ~(Effective(w, cfDb) /\ k \in w.keys)
      <4>1. cfTouched'[k] = cfTouched[k]
        BY <1>3, <3>1, <3>3
      <4>2. cfDb'[k] = cfDb[k]
        BY <1>1, <1>3, <3>1, <3>3 DEF Applied
      <4> QED
        BY <2>3, <4>1, <4>2 DEF Unwritten
    <3> QED
      BY <3>2, <3>3
  <2> QED
    BY <2>1, <2>2, <2>3
<1> QED
  BY <1>2, <1>3, StepsTouch

\* So what a snapshot and a request decided stays true.
LEMMA SnapStaysTrue ==
    ASSUME StaleInv, StaleInv', DecidedInv, cfKind = "grants", [ConfigNext]_cfVars,
           NEW s, SnapTrue(s), s.at \in Nat, s.at <= cfClock'
    PROVE  SnapTrue(s)'
<1>1. \A k \in GroupKeys : Unwritten(k, s.at) => Unwritten(k, s.at)'
  BY UnwrittenKeeps
<1> QED
  BY <1>1 DEF SnapTrue

LEMMA DecidedStays ==
    ASSUME StaleInv, StaleInv', DecidedInv, cfKind = "grants", [ConfigNext]_cfVars,
           NEW q, Decided(q), Timely(q, cfClock')
    PROVE  Decided(q)'
<1>1. q.pc = "loaded" => SnapTrue(q.snap)'
  BY SnapStaysTrue DEF Decided, Timely
<1>2. ASSUME Provisioning(q)
      PROVE  InBudget(q) /\ q.todo # <<>> /\ (q.todo \in Seq(Missing(q.read)))'
  <2>1. InBudget(q) /\ q.todo # <<>> /\ q.todo \in Seq(Missing(q.read))
    BY <1>2 DEF Decided
  <2>2. q.read \in Nat /\ q.since \in Nat /\ q.read <= q.since
    BY <2>1 DEF InBudget
  <2>3. q.since <= cfClock' /\ cfClock' \in Nat
    BY <1>2 DEF Timely, Provisioning, StaleInv
  <2>4. q.read <= cfClock'
    BY <2>2, <2>3
  <2>5. \A k \in GroupKeys : Unwritten(k, q.read) => Unwritten(k, q.read)'
    BY <2>2, <2>4, UnwrittenKeeps
  <2> DEFINE M == Missing(q.read)
             N == Missing(q.read)'
  <2>6. M \subseteq N
    BY <2>5 DEF Missing, Write
  <2> HIDE DEF M, N
  <2>7. q.todo \in Seq(N)
    BY <2>1, <2>6 DEF M
  <2> QED
    BY <2>1, <2>7 DEF N
<1> QED
  BY <1>1, <1>2 DEF Decided, Provisioning, InBudget

\* What becomes of the request of a step.
LEMMA NextWriteDecided ==
    ASSUME StaleInv, NEW q, Decided(q), Timely(q, cfClock), q.pc \in {"write", "bump"}
    PROVE  /\ q.pc = "bump" \/ ~Provisioning(q) => Decided(NextWrite(q))
           /\ NextWrite(q).op = "provision" /\ NextWrite(q).pc # "idle" => q.op = "provision"
           /\ NextWrite(q).pc # "loaded"
<1> DEFINE t == NextWrite(q)
<1>1. CASE Len(q.todo) = 1
  BY <1>1, NoRequestDecided DEF NextWrite, NoRequest
<1>2. CASE Len(q.todo) # 1
  <2>1. t = Writing(q, Tail(q.todo), q.read)
    BY <1>2 DEF NextWrite
  <2>2. /\ t.op = (IF q.op \in {"provision", "seed"} THEN q.op ELSE "edit") /\ t.pc = "write"
        /\ t.todo = Tail(q.todo) /\ t.read = q.read /\ t.since = cfClock
    BY <2>1 DEF Writing
  <2> HIDE DEF t
  <2>3. ASSUME Provisioning(t), q.pc = "bump"
        PROVE  InBudget(t) /\ t.todo # <<>> /\ t.todo \in Seq(Missing(t.read))
    <3>1. Provisioning(q)
      BY <2>2, <2>3 DEF Provisioning
    <3>2. InBudget(q) /\ q.todo # <<>> /\ q.todo \in Seq(Missing(q.read))
      BY <3>1 DEF Decided
    <3> DEFINE M == Missing(q.read)
               n == Len(q.todo)
               m == Len(Tail(q.todo))
    <3> HIDE DEF M
    <3>3. Tail(q.todo) \in Seq(M) /\ Tail(q.todo) # <<>>
      BY <1>2, <3>2, RestOf DEF M
    <3>4. m = n - 1 /\ m \in Nat /\ n \in Nat
      BY <3>2, <3>3, HeadTailProperties DEF M
    <3>5. /\ q.read \in Nat /\ q.since \in Nat /\ q.read <= q.since /\ n <= Groups
          /\ q.since - q.read <= Budget(Groups - n) + CallMax
      BY <2>3, <3>2 DEF InBudget
    <3>6. cfClock \in Nat /\ q.since <= cfClock /\ cfClock - q.since <= CallMax
      BY DEF StaleInv, Timely
    <3> HIDE DEF n, m
    <3>7. Groups \in Nat /\ Groups - n \in Nat /\ Groups - m = (Groups - n) + 1 /\ m <= Groups
      BY <3>4, <3>5, GroupsCount
    <3>8. /\ Budget(Groups - n) \in Int
          /\ Budget(Groups - n) + 2 * CallMax = Budget((Groups - n) + 1)
      BY <3>7, BudgetGrows
    <3>9. cfClock - q.read <= Budget(Groups - m) /\ q.read <= cfClock
      BY <3>5, <3>6, <3>7, <3>8, Numbers
    <3>10. InBudget(t)
      <4>1. Budget(Groups - m) \in Int
        BY <3>7, <3>8, Numbers
      <4> QED
        BY <2>2, <3>5, <3>6, <3>7, <3>9, <4>1 DEF InBudget, m
    <3> QED
      BY <2>2, <3>3, <3>10 DEF M
  <2>4. ~Provisioning(q) => ~Provisioning(t)
    BY <2>2 DEF Provisioning
  <2> QED
    BY <2>2, <2>3, <2>4 DEF Decided, t
<1> QED
  BY <1>1, <1>2

\* What a load returns is so when it is read.
LEMMA LoadAnswerDecided ==
    ASSUME StaleInv, DecidedInv, cfKind = "grants", NEW r \in Requests, LoadAnswer(r)
    PROVE  \E q : cfReq' = [cfReq EXCEPT ![r] = q] /\ Decided(q)
<1> DEFINE q == cfReq[r]
           good == Snapshot(cfDb, cfGen, cfClock, TRUE)
           bad == Snapshot(Fallback(cfKind), cfGen, cfClock, FALSE)
<1>1. \/ cfReq' = [cfReq EXCEPT ![r] = Loaded(q, good)]
      \/ cfReq' = [cfReq EXCEPT ![r] = Loaded(q, bad)]
  BY DEF LoadAnswer
<1>2. SnapTrue(good) /\ SnapTrue(bad)
  BY GroupsCount DEF SnapTrue, Snapshot, Unwritten, DecidedInv
<1> HIDE DEF good, bad
<1>3. ASSUME NEW s, SnapTrue(s) PROVE Decided(Loaded(q, s))
  <2> DEFINE t == Loaded(q, s)
  <2>1. t.pc = "loaded" /\ t.snap = s
    BY DEF Loaded, Staged
  <2> HIDE DEF t
  <2> QED
    BY <1>3, <2>1 DEF Decided, Provisioning, t
<1> QED
  BY <1>1, <1>2, <1>3

\* A write that was made suspends its request in the bump.
LEMMA ApplyDecided ==
    ASSUME StaleInv, DecidedInv, cfKind = "grants", NEW r \in Requests, ApplyWrite(r)
    PROVE  \E q : cfReq' = [cfReq EXCEPT ![r] = q] /\ Decided(q)
<1> DEFINE q == cfReq[r]
           t == Suspended(q, "bump")
<1>1. q.pc = "write" /\ Timely(q, cfClock) /\ Decided(q)
  BY DEF ApplyWrite, StaleInv, DecidedInv
<1>2. \/ cfReq' = [cfReq EXCEPT ![r] = NoRequest]
      \/ q.op = "seed" /\ cfReq' = [cfReq EXCEPT ![r] = NextWrite(q)]
      \/ cfReq' = [cfReq EXCEPT ![r] = t]
  BY DEF ApplyWrite
<1>3. q.op = "seed" => Decided(NextWrite(q))
  BY <1>1, NextWriteDecided DEF Provisioning
<1>4. Decided(t)
  <2>1. /\ t.op = q.op /\ t.pc = "bump" /\ t.read = q.read /\ t.todo = q.todo
        /\ t.since = cfClock
    BY DEF Suspended, Staged
  <2>2. /\ cfClock \in Nat /\ q.since \in Nat /\ q.since <= cfClock
        /\ cfClock - q.since <= CallMax
    BY <1>1 DEF StaleInv, Timely
  <2> HIDE DEF q, t
  <2>3. ASSUME Provisioning(t)
        PROVE  InBudget(t) /\ t.todo # <<>> /\ t.todo \in Seq(Missing(t.read))
    <3>1. Provisioning(q)
      BY <1>1, <2>1, <2>3 DEF Provisioning
    <3>2. InBudget(q) /\ q.todo # <<>> /\ q.todo \in Seq(Missing(q.read))
      BY <1>1, <3>1 DEF Decided
    <3> DEFINE n == Groups - Len(q.todo)
    <3>3. n \in Nat
      <4>1. Len(q.todo) \in Nat /\ Len(q.todo) <= Groups
        BY <3>2, LenProperties DEF InBudget
      <4> QED
        BY <4>1, GroupsCount
    <3>4. /\ q.read \in Nat /\ q.read <= q.since /\ Len(q.todo) <= Groups
          /\ q.since - q.read <= Budget(n)
      <4>1. Budget(n) \in Int
        BY <3>3, BudgetGrows
      <4> HIDE DEF n
      <4> QED
        BY <1>1, <3>2, <4>1 DEF InBudget, n
    <3>5. Budget(n) \in Int
      BY <3>3, BudgetGrows
    <3> HIDE DEF n
    <3>6. cfClock - q.read <= Budget(n) + CallMax /\ q.read <= cfClock
      BY <2>2, <3>4, <3>5, Numbers
    <3>7. t.since - t.read <= Budget(Groups - Len(t.todo)) + CallMax
      BY <2>1, <3>6 DEF n
    <3>8. InBudget(t)
      BY <2>1, <2>2, <3>4, <3>6, <3>7 DEF InBudget
    <3> QED
      BY <2>1, <3>2, <3>8
  <2> QED
    BY <2>1, <2>3 DEF Decided
<1> HIDE DEF q, t
<1> QED
  BY <1>2, <1>3, <1>4, NoRequestDecided

\* Every step of a request of the grants leaves it within its budget.
LEMMA RequestDecided ==
    ASSUME StaleInv, DecidedInv, cfKind = "grants", NEW r \in Requests, RequestStep(r)
    PROVE  \E q : cfReq' = [cfReq EXCEPT ![r] = q] /\ Decided(q)
<1> DEFINE q == cfReq[r]
<1>1. Timely(q, cfClock) /\ Decided(q)
  BY DEF StaleInv, DecidedInv
<1>2. ASSUME NEW p, NEW op, NEW key, NEW val, Begin(r, p, op, key, val)
      PROVE  \E t : cfReq' = [cfReq EXCEPT ![r] = t] /\ Decided(t)
  <2> DEFINE b == [proc |-> p, op |-> op, key |-> key, pc |-> Enter(cfCache[p]),
                   todo |-> <<>>, snap |-> Idle, due |-> cfDue[p], since |-> cfClock,
                   read |-> Idle]
             w == Writing(b, Plan(op, key, val, cfDb), Idle)
  <2>1. \/ cfReq' = [cfReq EXCEPT ![r] = b]
        \/ cfReq' = [cfReq EXCEPT ![r] = Suspended(b, "count")]
        \/ cfReq' = [cfReq EXCEPT ![r] = w]
    BY <1>2 DEF Begin
  <2>2. Decided(b)
    BY OtherwiseDecided DEF Provisioning, Enter
  <2>3. Decided(Suspended(b, "count"))
    BY OtherwiseDecided DEF Provisioning, Suspended, Staged
  <2>4. Decided(w)
    <3>1. w.read = Idle /\ w.pc = "write"
      BY DEF Writing
    <3> HIDE DEF w
    <3> QED
      BY <3>1, OtherwiseDecided DEF Provisioning
  <2> HIDE DEF b, w
  <2> QED
    BY <2>1, <2>2, <2>3, <2>4
<1>3. ASSUME VersionAnswer(r) \/ VersionUnavailable(r)
      PROVE  \E t : cfReq' = [cfReq EXCEPT ![r] = t] /\ Decided(t)
  <2>1. q.pc = "version" /\ q.proc \in Procs
    BY <1>1, <1>3 DEF VersionAnswer, VersionUnavailable, Timely
  <2> DEFINE s == cfCache[q.proc].snap
  <2>2. SnapTrue(s) /\ s.at \in Nat /\ s.at <= cfClock
    BY <2>1 DEF DecidedInv, StaleInv, Dated
  <2>3. cfClock - s.at <= TTL - 1 + 2 * CallMax
    BY <2>1, ComparedIsServable
  <2>4. \/ cfReq' = [cfReq EXCEPT ![r] = Suspended(q, "load")]
        \/ \E clean : Serve(r, s, clean)
    BY <1>3 DEF VersionAnswer, VersionUnavailable
  <2>5. Decided(Suspended(q, "load"))
    BY OtherwiseDecided DEF Provisioning, Suspended, Staged
  <2> HIDE DEF s, q
  <2> QED
    BY <2>2, <2>3, <2>4, <2>5, ServedDecided
<1>4. ASSUME LoadDone(r) PROVE \E t : cfReq' = [cfReq EXCEPT ![r] = t] /\ Decided(t)
  <2>1. q.pc = "loaded" /\ Serve(r, q.snap, TRUE) /\ SnapTrue(q.snap)
    BY <1>1, <1>4 DEF LoadDone, Decided
  <2>2. /\ q.snap.at \in Nat /\ q.snap.at <= cfClock /\ cfClock \in Nat
        /\ q.since \in Nat /\ cfClock - q.since <= CallMax /\ q.since <= q.snap.at
    BY <1>1, <2>1 DEF StaleInv, Timely
  <2> HIDE DEF q
  <2>3. cfClock - q.snap.at <= TTL - 1 + 2 * CallMax
    BY <2>2, Numbers
  <2> QED
    BY <2>1, <2>2, <2>3, ServedDecided
<1>5. ASSUME SeedCount(r) PROVE \E t : cfReq' = [cfReq EXCEPT ![r] = t] /\ Decided(t)
  <2> DEFINE w == Writing(q, Seeds(cfDb), Idle)
  <2>1. cfReq' = [cfReq EXCEPT ![r] = NoRequest] \/ cfReq' = [cfReq EXCEPT ![r] = w]
    BY <1>5 DEF SeedCount
  <2>2. w.read = Idle /\ w.pc = "write"
    BY DEF Writing
  <2> HIDE DEF w
  <2>3. Decided(w)
    BY <2>2, OtherwiseDecided DEF Provisioning
  <2> QED
    BY <2>1, <2>3, NoRequestDecided
<1>6. ASSUME WriteFails(r) PROVE \E t : cfReq' = [cfReq EXCEPT ![r] = t] /\ Decided(t)
  BY <1>6, NoRequestDecided DEF WriteFails
<1>7. ASSUME Bump(r) PROVE \E t : cfReq' = [cfReq EXCEPT ![r] = t] /\ Decided(t)
  <2>1. q.pc = "bump" /\ cfReq' = [cfReq EXCEPT ![r] = NextWrite(q)]
    BY <1>7 DEF Bump
  <2>2. Decided(NextWrite(q))
    BY <1>1, <2>1, NextWriteDecided
  <2> QED
    BY <2>1, <2>2
<1> QED
  BY <1>2, <1>3, <1>4, <1>5, <1>6, <1>7, LoadAnswerDecided, ApplyDecided DEF RequestStep

\* A cache holds what it held, what a request of its process loaded, or nothing
\* that was loaded.
LEMMA CachesTrue ==
    ASSUME StaleInv, DecidedInv, cfKind = "grants", [ConfigNext]_cfVars, NEW p \in Procs
    PROVE  SnapTrue(cfCache'[p].snap)
<1>1. SnapTrue(cfCache[p].snap) /\ DOMAIN cfCache = Procs /\ IsCache(cfCache[p])
  BY DEF DecidedInv, StaleInv, Dated
<1>2. cfCache'[p] = cfCache[p] => SnapTrue(cfCache'[p].snap)
  BY <1>1
<1>3. ASSUME NEW r \in Requests, RequestStep(r)
      PROVE  SnapTrue(cfCache'[p].snap)
  <2> DEFINE q == cfReq[r]
  <2>1. ASSUME NEW x, NEW op, NEW key, NEW val, Begin(r, x, op, key, val)
        PROVE  UNCHANGED cfCache
    BY <2>1 DEF Begin
  <2>2. ASSUME \/ VersionUnavailable(r) \/ LoadAnswer(r) \/ SeedCount(r) \/ WriteFails(r) \/ Bump(r)
        PROVE  UNCHANGED cfCache
    BY <2>2 DEF VersionUnavailable, LoadAnswer, SeedCount, WriteFails, Bump
  <2>3. ASSUME VersionAnswer(r) PROVE SnapTrue(cfCache'[p].snap)
    <3>1. cfCache' = [cfCache EXCEPT ![q.proc].observed = cfVersion]
      BY <2>3 DEF VersionAnswer
    <3>2. CASE q.proc = p
      <4>1. cfCache'[p] = [cfCache[p] EXCEPT !.observed = cfVersion]
        BY <1>1, <3>1, <3>2
      <4>2. cfCache'[p].snap = cfCache[p].snap
        BY <1>1, <4>1 DEF IsCache
      <4> QED
        BY <1>1, <4>2
    <3>3. CASE q.proc # p
      BY <1>1, <1>2, <3>1, <3>3
    <3> QED
      BY <3>2, <3>3
  <2>4. ASSUME LoadDone(r) PROVE SnapTrue(cfCache'[p].snap)
    <3>1. q.pc = "loaded" /\ cfCache' = [cfCache EXCEPT ![q.proc] = Stored(cfCache[q.proc], q.snap)]
      BY <2>4 DEF LoadDone
    <3>2. SnapTrue(q.snap)
      BY <3>1 DEF DecidedInv, Decided
    <3>3. Stored(cfCache[q.proc], q.snap).snap = q.snap
      BY DEF Stored
    <3> HIDE DEF q
    <3> QED
      BY <1>1, <3>1, <3>2, <3>3
  <2>5. ASSUME ApplyWrite(r) PROVE SnapTrue(cfCache'[p].snap)
    <3>1. \/ UNCHANGED cfCache
          \/ cfCache' = [cfCache EXCEPT ![q.proc] = ResetCache(cfCache[q.proc])]
      BY <2>5 DEF ApplyWrite
    <3>2. \A c : ResetCache(c).snap = c.snap
      BY DEF ResetCache
    <3> HIDE DEF q
    <3> QED
      BY <1>1, <3>1, <3>2
  <2> QED
    BY <1>2, <1>3, <2>1, <2>2, <2>3, <2>4, <2>5 DEF RequestStep
<1>4. ASSUME NEW x \in Procs, Restart(x) PROVE SnapTrue(cfCache'[p].snap)
  <2>1. cfCache' = [cfCache EXCEPT ![x] = EmptyCache]
    BY <1>4 DEF Restart
  <2>2. SnapTrue(EmptyCache.snap)
    BY DEF SnapTrue, EmptyCache, Snapshot
  <2> QED
    BY <1>1, <2>1, <2>2
<1>5. OtherBump \/ VersionExpires \/ Tick \/ UNCHANGED cfVars => UNCHANGED cfCache
  BY DEF OtherBump, VersionExpires, Tick, cfVars
<1> QED
  BY <1>2, <1>3, <1>4, <1>5 DEF ConfigNext

\* A request after a step of the grants is one that was, or none, or one that
\* the step moved.
LEMMA RequestsDecided ==
    ASSUME StaleInv, DecidedInv, cfKind = "grants", [ConfigNext]_cfVars, NEW r \in Requests
    PROVE  Decided(cfReq'[r])
<1>1. cfReq = [x \in Requests |-> cfReq[x]] /\ Decided(cfReq[r])
  BY DEF StaleInv, DecidedInv
<1>2. ASSUME NEW x \in Requests, RequestStep(x) PROVE Decided(cfReq'[r])
  BY <1>1, <1>2, RequestDecided
<1>3. ASSUME NEW p \in Procs, Restart(p) PROVE Decided(cfReq'[r])
  BY <1>1, <1>3, NoRequestDecided DEF Restart
<1>4. OtherBump \/ VersionExpires \/ Tick \/ UNCHANGED cfVars => UNCHANGED cfReq
  BY DEF OtherBump, VersionExpires, Tick, cfVars
<1> QED
  BY <1>1, <1>2, <1>3, <1>4 DEF ConfigNext

\* Only the grants are provisioned.
LEMMA ProvisionsAreBegun ==
    ASSUME StaleInv, DecidedInv, cfKind # "grants", [ConfigNext]_cfVars, NEW r \in Requests,
           cfReq'[r].op = "provision", cfReq'[r].pc # "idle"
    PROVE  FALSE
<1> DEFINE Provides(q) == q.op = "provision" /\ q.pc # "idle"
<1>1. cfReq = [x \in Requests |-> cfReq[x]] /\ \A x \in Requests : ~Provides(cfReq[x])
  BY DEF StaleInv, DecidedInv
<1>2. ~Provides(NoRequest)
  BY DEF NoRequest
<1>3. ASSUME NEW q, ~Provides(q), q.pc # "idle"
      PROVE  /\ \A pc, snap, since, read : ~Provides(Staged(q, pc, snap, since, read))
             /\ \A todo, read : ~Provides(Writing(q, todo, read))
  BY <1>3 DEF Staged, Writing
<1>4. ASSUME NEW q, ~Provides(q), q.pc # "idle" PROVE ~Provides(NextWrite(q))
  BY <1>2, <1>3, <1>4 DEF NextWrite
<1>5. ASSUME NEW x \in Requests, RequestStep(x) PROVE ~Provides(cfReq'[r])
  <2> DEFINE q == cfReq[x]
  <2>1. ASSUME NEW p \in Procs, NEW op \in Ops(p, cfKind), NEW key, NEW val,
               Begin(x, p, op, key, val)
        PROVE  ~Provides(cfReq'[r])
    <3> DEFINE b == [proc |-> p, op |-> op, key |-> key, pc |-> Enter(cfCache[p]),
                     todo |-> <<>>, snap |-> Idle, due |-> cfDue[p], since |-> cfClock,
                     read |-> Idle]
    <3>1. op # "provision"
      BY ConfigAssumption DEF Ops, GrantEdits, RoleEdits
    <3>2. b.op = op /\ b.pc \in {"load", "version"}
      BY DEF Enter
    <3> HIDE DEF b
    <3>3. ~Provides(b) /\ b.pc # "idle"
      BY <3>1, <3>2
    <3>4. /\ \A pc, snap, since, read : ~Provides(Staged(b, pc, snap, since, read))
          /\ \A todo, read : ~Provides(Writing(b, todo, read))
      BY <1>3, <3>3
    <3>5. \E t : cfReq' = [cfReq EXCEPT ![x] = t] /\ ~Provides(t)
      <4>1. \/ cfReq' = [cfReq EXCEPT ![x] = b]
            \/ cfReq' = [cfReq EXCEPT ![x] = Suspended(b, "count")]
            \/ cfReq' = [cfReq EXCEPT ![x] = Writing(b, Plan(op, key, val, cfDb), Idle)]
        BY <2>1 DEF Begin, b
      <4> HIDE DEF Provides
      <4> QED
        BY <3>3, <3>4, <4>1 DEF Suspended
    <3> HIDE DEF Provides
    <3> QED
      BY <1>1, <3>5
  <2>2. ASSUME NEW pcs, q.pc \in pcs, "idle" \notin pcs,
               \/ \E pc, snap, since, read :
                     cfReq' = [cfReq EXCEPT ![x] = Staged(q, pc, snap, since, read)]
               \/ cfReq' = [cfReq EXCEPT ![x] = NoRequest]
               \/ \E todo, read : cfReq' = [cfReq EXCEPT ![x] = Writing(q, todo, read)]
               \/ cfReq' = [cfReq EXCEPT ![x] = NextWrite(q)]
        PROVE  ~Provides(cfReq'[r])
    <3>1. q.pc # "idle" /\ ~Provides(q)
      BY <1>1, <2>2
    <3> HIDE DEF Provides, q
    <3>2. \E t : cfReq' = [cfReq EXCEPT ![x] = t] /\ ~Provides(t)
      BY <1>2, <1>3, <1>4, <2>2, <3>1
    <3> QED
      BY <1>1, <3>2
  <2>3. ASSUME NEW snap, NEW clean, Serve(x, snap, clean)
        PROVE  \/ \E pc, s, since, read :
                     cfReq' = [cfReq EXCEPT ![x] = Staged(q, pc, s, since, read)]
               \/ cfReq' = [cfReq EXCEPT ![x] = NoRequest]
               \/ \E todo, read : cfReq' = [cfReq EXCEPT ![x] = Writing(q, todo, read)]
    BY <2>3 DEF Serve
  <2> DEFINE pcs == {"version", "load", "loaded", "count", "write", "bump"}
  <2>4. ASSUME \/ VersionAnswer(x) \/ VersionUnavailable(x) \/ LoadAnswer(x) \/ LoadDone(x)
               \/ SeedCount(x) \/ ApplyWrite(x) \/ WriteFails(x) \/ Bump(x)
        PROVE  q.pc \in pcs
    BY <2>4 DEF VersionAnswer, VersionUnavailable, LoadAnswer, LoadDone, SeedCount,
       ApplyWrite, WriteFails, Bump
  <2>5. ASSUME VersionAnswer(x) \/ VersionUnavailable(x)
        PROVE  \/ \E snap, clean : Serve(x, snap, clean)
               \/ cfReq' = [cfReq EXCEPT ![x] = Suspended(q, "load")]
    BY <2>5 DEF VersionAnswer, VersionUnavailable
  <2>6. LoadDone(x) => \E snap, clean : Serve(x, snap, clean)
    BY DEF LoadDone
  <2>7. ASSUME LoadAnswer(x) PROVE \E snap : cfReq' = [cfReq EXCEPT ![x] = Loaded(q, snap)]
    BY <2>7 DEF LoadAnswer
  <2>8. ASSUME SeedCount(x) \/ ApplyWrite(x) \/ WriteFails(x) \/ Bump(x)
        PROVE  \/ cfReq' = [cfReq EXCEPT ![x] = Suspended(q, "bump")]
               \/ cfReq' = [cfReq EXCEPT ![x] = NoRequest]
               \/ \E todo, read : cfReq' = [cfReq EXCEPT ![x] = Writing(q, todo, read)]
               \/ cfReq' = [cfReq EXCEPT ![x] = NextWrite(q)]
    BY <2>8 DEF SeedCount, ApplyWrite, WriteFails, Bump
  <2> HIDE DEF q, Provides
  <2>9. ASSUME \/ VersionAnswer(x) \/ VersionUnavailable(x) \/ LoadAnswer(x) \/ LoadDone(x)
               \/ SeedCount(x) \/ ApplyWrite(x) \/ WriteFails(x) \/ Bump(x)
        PROVE  ~Provides(cfReq'[r])
    <3>1. \/ \E pc, snap, since, read :
                cfReq' = [cfReq EXCEPT ![x] = Staged(q, pc, snap, since, read)]
          \/ cfReq' = [cfReq EXCEPT ![x] = NoRequest]
          \/ \E todo, read : cfReq' = [cfReq EXCEPT ![x] = Writing(q, todo, read)]
          \/ cfReq' = [cfReq EXCEPT ![x] = NextWrite(q)]
      BY <2>3, <2>5, <2>6, <2>7, <2>8, <2>9 DEF Suspended, Loaded
    <3> QED
      BY <2>2, <2>4, <2>9, <3>1
  <2> QED
    BY <1>5, <2>1, <2>9 DEF RequestStep
<1>6. ASSUME NEW p \in Procs, Restart(p) PROVE ~Provides(cfReq'[r])
  BY <1>1, <1>2, <1>6 DEF Restart
<1>7. OtherBump \/ VersionExpires \/ Tick \/ UNCHANGED cfVars => UNCHANGED cfReq
  BY DEF OtherBump, VersionExpires, Tick, cfVars
<1> QED
  BY <1>1, <1>5, <1>6, <1>7 DEF ConfigNext

\* A behaviour begins with snapshots of what MongoDB holds, and no request.
LEMMA DecidedInit == ConfigInit => DecidedInv
<1> SUFFICES ASSUME ConfigInit PROVE DecidedInv
  OBVIOUS
<1>1. \A r \in Requests : cfReq[r] = NoRequest /\ cfReq[r].pc = "idle"
  BY DEF ConfigInit, NoRequest
<1>2. ASSUME cfKind = "grants"
      PROVE  /\ DOMAIN cfDb = GrantKeys
             /\ cfTouched = [k \in GroupKeys |-> cfTouched[k]]
             /\ \A k \in GroupKeys : cfTouched[k] \in Nat
             /\ \A p \in Procs : SnapTrue(cfCache[p].snap)
             /\ \A r \in Requests : Decided(cfReq[r])
  <2>1. DOMAIN cfDb = GrantKeys
    BY <1>2 DEF ConfigInit, FirstDb, Keys
  <2>2. Keys(cfKind) \cap GroupKeys = GroupKeys
    BY <1>2, GroupsCount DEF Keys
  <2>3. cfTouched = [k \in GroupKeys |-> 0]
    BY <2>2 DEF ConfigInit
  <2>4. SnapTrue(WarmCache.snap) /\ SnapTrue(EmptyCache.snap)
    BY <2>1, GroupsCount DEF SnapTrue, WarmCache, EmptyCache, Snapshot, Unwritten
  <2>5. \A p \in Procs : cfCache[p] \in {WarmCache, EmptyCache}
    BY DEF ConfigInit
  <2> QED
    BY <1>1, <2>1, <2>3, <2>4, <2>5, NoRequestDecided
<1> QED
  BY <1>1, <1>2 DEF DecidedInv

\* What holds of the snapshots, the requests and the keys goes on to hold.
LEMMA DecidedInductive ==
    ASSUME StaleInv, StaleInv', DecidedInv, [ConfigNext]_cfVars PROVE DecidedInv'
<1>1. UNCHANGED cfKind
  BY StepsWrite
<1>2. ASSUME NEW r \in Requests, cfReq'[r].op = "provision", cfReq'[r].pc # "idle"
      PROVE  cfKind' = "grants"
  BY <1>1, <1>2, ProvisionsAreBegun
<1>3. ASSUME cfKind = "grants", NEW p \in Procs PROVE SnapTrue(cfCache[p].snap)'
  <2>1. PICK s : s = cfCache'[p].snap
    OBVIOUS
  <2>2. SnapTrue(s)
    BY <1>3, <2>1, CachesTrue
  <2>3. s.at \in Nat /\ s.at <= cfClock'
    BY <2>1 DEF StaleInv, Dated
  <2>4. SnapTrue(s)'
    BY <1>3, <2>2, <2>3, SnapStaysTrue
  <2> QED
    BY <2>1, <2>4 DEF SnapTrue, Unwritten
<1>4. ASSUME cfKind = "grants", NEW r \in Requests PROVE Decided(cfReq[r])'
  <2>1. PICK q : q = cfReq'[r]
    OBVIOUS
  <2>2. Decided(q)
    BY <1>4, <2>1, RequestsDecided
  <2>3. Timely(q, cfClock')
    BY <2>1 DEF StaleInv
  <2>4. Decided(q)'
    BY <1>4, <2>2, <2>3, DecidedStays
  <2> QED
    BY <2>1, <2>4 DEF Decided, SnapTrue, Unwritten, Provisioning, InBudget, Missing
<1>5. ASSUME cfKind = "grants"
      PROVE  /\ DOMAIN cfDb' = GrantKeys
             /\ cfTouched' = [k \in GroupKeys |-> cfTouched'[k]]
             /\ \A k \in GroupKeys : cfTouched'[k] \in Nat
  BY <1>5, UnwrittenKeeps
<1> QED
  BY <1>1, <1>2, <1>3, <1>4, <1>5 DEF DecidedInv

\* A provisioning about to write is within its budget, so that a document it
\* finds there is no older.
LEMMA DecidedStands == StaleInv /\ DecidedInv => OldDecisionStands
<1> SUFFICES ASSUME StaleInv, DecidedInv, NEW r \in Requests, cfReq[r].op = "provision",
                    cfReq[r].pc = "write", cfReq[r].read # Idle,
                    NEW k \in Head(cfReq[r].todo).keys, cfDb[k] # Absent
             PROVE  cfClock - cfTouched[k] <=
                        TTL - 1 + CallMax * (1 + 2 * Cardinality(GroupKeys))
  BY DEF OldDecisionStands
<1> DEFINE q == cfReq[r]
           M == Missing(q.read)
<1>1. Decided(q) /\ Timely(q, cfClock)
  BY DEF DecidedInv, StaleInv
<1>2. InBudget(q) /\ q.todo # <<>> /\ q.todo \in Seq(M)
  BY <1>1 DEF Decided, Provisioning
<1>3. /\ cfClock \in Nat /\ q.since \in Nat /\ q.since <= cfClock
      /\ cfClock - q.since <= CallMax
  BY <1>1 DEF StaleInv, Timely
<1> HIDE DEF M
<1>4. Head(q.todo) \in M /\ Len(q.todo) \in Nat /\ Len(q.todo) > 0
  BY <1>2, HeadTailProperties, LenProperties, EmptySeq
<1>5. k \in GroupKeys /\ Unwritten(k, q.read)
  BY <1>4 DEF M, Missing, Write
<1>6. cfTouched[k] >= q.read /\ cfTouched[k] \in Nat
  BY <1>5 DEF Unwritten, DecidedInv
<1> DEFINE n == Groups - Len(q.todo)
           bound == TTL - 1 + CallMax * (1 + 2 * Groups)
<1>7. n \in Nat /\ n < Groups
  BY <1>2, <1>4, GroupsCount DEF InBudget
<1>8. Budget(n) \in Int /\ Budget(n) + CallMax <= bound
  BY <1>7, BudgetGrows, BudgetSuffices
<1>9. bound \in Int
  <2>1. CallMax * (1 + 2 * Groups) \in Int
    BY Numbers, GroupsCount
  <2> QED
    BY <2>1, Numbers
<1>10. q.read \in Nat /\ q.since - q.read <= Budget(n)
  <2> HIDE DEF n
  <2> QED
    BY <1>2, <1>8 DEF InBudget, n
<1> HIDE DEF n, bound, q
<1>11. cfClock - cfTouched[k] <= bound
  BY <1>3, <1>6, <1>8, <1>9, <1>10, Numbers
<1> QED
  BY <1>11 DEF bound, Groups

\* provision_groups overwrites a document only if somebody wrote it within the
\* time in which its view of the grants may be out of date (GroupProvisioner,
\* role_config.py), for any processes, requests, groups, lives
\* of the cache and times of a call.
THEOREM OldDecisionsStand == ConfigSpec => []OldDecisionStands
<1>1. StaleInv /\ DecidedInv /\ StaleInv' /\ [ConfigNext]_cfVars => DecidedInv'
  BY DecidedInductive
<1> QED
  BY StaleInit, StaleInductive, DecidedInit, DecidedStands, <1>1, PTL DEF ConfigSpec

-----------------------------------------------------------------------------
(* ---- the types, from what is known of the requests and of the counters ---- *)

\* What a collection holds, and one write to it.
Collection == [Keys(cfKind) -> Values(cfKind)]
Writes == [keys : SUBSET Keys(cfKind), val : Values(cfKind),
           mode : {"upsert", "delete", "insert", "update"}]

\* The requests that read a cache, on either collection.
Readers ==
    {"read"} \cup IF cfKind = "grants" THEN {"dropgroup", "provision"} ELSE RoleEdits

\* What a request may be doing: its stage says which of its fields are used.
Stages == {"idle", "load", "loaded", "version", "count", "write", "bump"}
Typed(q) ==
    /\ IsRequest(q)
    /\ q.pc \in Stages /\ (q.pc = "idle" => q = NoRequest)
    /\ q.due \in Nat /\ q.since \in Nat
    /\ q.todo \in Seq(Writes) /\ (q.pc \in {"write", "bump"} <=> q.todo # <<>>)
    /\ q.pc # "idle" => q.proc \in Procs
    /\ q.pc \in {"load", "loaded", "version"} => q.op \in Readers /\ q.key \in Keys(cfKind)
    /\ q.pc = "loaded" => q.snap.content \in Collection

\* The variables that one step changes, apart from the requests and the caches.
StoreTyped ==
    /\ cfKind \in Kinds /\ cfDb \in Collection
    /\ cfTouched \in [Keys(cfKind) \cap GroupKeys -> 0..MaxClock]
    /\ cfClock \in 1..MaxClock /\ cfLeft \in 0..MaxEvents[cfKind]
CachesTyped ==
    \A p \in Procs : cfCache[p].loadedAt \in 0..MaxClock /\ cfCache[p].snap.content \in Collection

TypeInv == StoreTyped /\ CachesTyped /\ \A r \in Requests : Typed(cfReq[r])

\* The type invariant is what the requests, the caches and the counters of the
\* announced writes have in common.
LEMMA TypesSuffice == StaleInv /\ AnnouncedInv /\ TypeInv => ConfigTypeOK
<1> SUFFICES ASSUME StaleInv, AnnouncedInv, TypeInv PROVE ConfigTypeOK
  OBVIOUS
<1>1. ASSUME NEW r \in Requests PROVE RequestType(cfReq[r])
  <2> DEFINE q == cfReq[r]
  <2>1. Typed(q)
    BY DEF TypeInv
  <2>2. q.proc \in Procs \cup {Idle}
    BY <2>1 DEF Typed, NoRequest
  <2>3. q.pc = "idle" <=> q = NoRequest
    BY <2>1 DEF Typed, NoRequest
  <2>4. \A i \in DOMAIN q.todo : q.todo[i] \in Writes
    BY <2>1 DEF Typed
  <2>5. \A i \in DOMAIN q.todo : q.todo[i].keys \subseteq Keys(cfKind)
    BY <2>4 DEF Writes
  <2> HIDE DEF q
  <2>6. q.due \in Nat /\ q.since \in Nat /\ q.pc \in Stages
        /\ (q.pc \in {"write", "bump"} <=> q.todo # <<>>)
    BY <2>1 DEF Typed
  <2>7. RequestType(q)
    BY <2>2, <2>3, <2>5, <2>6 DEF RequestType, Stages
  <2> QED
    BY <2>7 DEF q
<1>2. /\ cfGen \in Nat /\ cfVersion \in Nat /\ cfBumped \in Nat
      /\ \A p \in Procs : /\ cfDue[p] \in 0..cfGen
                          /\ cfCache[p].observed \in Nat \cup {NoVersion}
  BY DEF AnnouncedInv, CountersOK
<1> QED
  BY <1>1, <1>2 DEF ConfigTypeOK, TypeInv, StoreTyped, CachesTyped, Collection

LEMMA NothingToWrite == <<>> \in Seq(Writes)
  OBVIOUS

LEMMA OneWrite == \A w \in Writes : <<w>> \in Seq(Writes) /\ <<w>> # <<>>
  OBVIOUS

LEMMA NoRequestTyped == Typed(NoRequest)
<1>1. NoRequest.todo \in Seq(Writes) /\ NoRequest.todo = <<>>
  BY NothingToWrite DEF NoRequest
<1> QED
  BY <1>1 DEF Typed, IsRequest, NoRequest, Stages

\* What stands in for a collection is one.
LEMMA FallbackTyped == ASSUME cfKind \in Kinds PROVE Fallback(cfKind) \in Collection
<1>1. CASE cfKind = "grants"
  BY <1>1 DEF Fallback, Collection, Keys, Values
<1>2. CASE cfKind = "roles"
  BY <1>2 DEF Fallback, Collection, Keys, Values
<1> QED
  BY <1>1, <1>2 DEF Kinds

\* A write of a key of a finite set, for each of its elements in some order.
LEMMA WritesOfSet ==
    ASSUME NEW S, IsFiniteSet(S), S \subseteq Keys(cfKind), NEW val \in Values(cfKind),
           NEW mode \in {"upsert", "delete", "insert", "update"}
    PROVE  [i \in 1..Cardinality(S) |-> Write({SetToSeq(S)[i]}, val, mode)] \in Seq(Writes)
<1> DEFINE s == [i \in 1..Cardinality(S) |-> Write({SetToSeq(S)[i]}, val, mode)]
<1>1. Cardinality(S) \in Nat
  BY FS_CardinalityType
<1>2. \A i \in 1..Cardinality(S) : SetToSeq(S)[i] \in Keys(cfKind)
  BY SequenceOfSet
<1>3. \A i \in 1..Cardinality(S) : s[i] \in Writes
  BY <1>2 DEF Write, Writes
<1>4. s = [i \in 1..Cardinality(S) |-> s[i]]
  OBVIOUS
<1> HIDE DEF s, Writes
<1>5. s \in Seq(Writes)
  BY <1>1, <1>3, <1>4, SequenceOf
<1> QED
  BY <1>5 DEF s

LEMMA SeedsTyped == ASSUME cfKind \in Kinds, NEW content PROVE Seeds(content) \in Seq(Writes)
<1>1. CASE cfKind = "grants"
  <2> DEFINE s == [i \in DOMAIN SeedGrants |->
                      Write({SeedGrants[i][1]}, SeedGrants[i][2], "upsert")]
  <2>1. SeedGrants \in Seq(GrantKeys \X (0..3))
    BY ConfigAssumption DEF ConfigAssumption
  <2>2. Len(SeedGrants) \in Nat /\ DOMAIN SeedGrants = 1..Len(SeedGrants)
    BY <2>1
  <2>3. \A i \in 1..Len(SeedGrants) : SeedGrants[i] \in GrantKeys \X (0..3)
    BY <2>1
  <2>4. \A i \in 1..Len(SeedGrants) : SeedGrants[i][1] \in GrantKeys /\ SeedGrants[i][2] \in 0..3
    BY <2>3
  <2>5. \A k \in GrantKeys, l \in 0..3 : Write({k}, l, "upsert") \in Writes
    BY <1>1 DEF Write, Writes, Keys, Values, Levels
  <2>6. \A i \in 1..Len(SeedGrants) : s[i] \in Writes
    BY <2>2, <2>4, <2>5
  <2>7. s = [i \in 1..Len(SeedGrants) |-> s[i]]
    BY <2>2
  <2> HIDE DEF s, Writes
  <2>8. s \in Seq(Writes)
    BY <2>2, <2>6, <2>7, SequenceOf
  <2>9. Seeds(content) \in {<<>>, s}
    BY <1>1 DEF Seeds, s
  <2> QED
    BY <2>8, <2>9, NothingToWrite
<1>2. CASE cfKind = "roles"
  <2> DEFINE missing == BuiltinRoles \ Present(content)
  <2>1. IsFiniteSet(missing) /\ missing \subseteq Keys(cfKind) /\ "role" \in Values(cfKind)
    BY <1>2, FS_Difference, ConfigAssumption DEF ConfigAssumption, Keys, Values
  <2>2. Seeds(content) = [i \in 1..Cardinality(missing) |->
                              Write({SetToSeq(missing)[i]}, "role", "insert")]
    BY <1>2 DEF Seeds
  <2> HIDE DEF missing
  <2> QED
    BY <2>1, <2>2, WritesOfSet
<1> QED
  BY <1>1, <1>2 DEF Kinds

\* What a request plans to write, from any content.
LEMMA GrantPlansTyped ==
    ASSUME cfKind = "grants", NEW op \in {"read", "put", "remove", "dropsubject", "dropgroup", "provision"},
           NEW key \in GrantKeys, NEW content, NEW val, op = "put" => val \in PutLevels
    PROVE  Plan(op, key, val, content) \in Seq(Writes)
<1>0. Keys(cfKind) = GrantKeys /\ Values(cfKind) = {Absent} \cup 0..3 /\ PutLevels \subseteq 0..3
      /\ IsFiniteSet(GrantKeys) /\ GroupKeys \subseteq GrantKeys
  BY ConfigAssumption DEF Keys, Values, Levels, ConfigAssumption
<1>1. CASE op = "read"
  BY <1>1, NothingToWrite DEF Plan
<1>2. CASE op = "put"
  <2>1. Write({key}, val, "upsert") \in Writes
    BY <1>0, <1>2 DEF Write, Writes
  <2> QED
    BY <1>2, <2>1, OneWrite DEF Plan
<1>3. CASE op = "remove"
  <2>1. Write({key}, Absent, "delete") \in Writes
    BY <1>0 DEF Write, Writes
  <2> QED
    BY <1>3, <2>1, OneWrite DEF Plan
<1>4. CASE op = "dropsubject"
  <2>1. Write(SameSubject(key), Absent, "delete") \in Writes
    BY <1>0 DEF Write, Writes, SameSubject
  <2> QED
    BY <1>4, <2>1, OneWrite DEF Plan
<1>5. CASE op = "dropgroup"
  <2> DEFINE held == SameSubject(key) \cap Present(content)
             s == [i \in 1..Cardinality(held) |-> Write({SetToSeq(held)[i]}, Absent, "delete")]
  <2>1. held \subseteq GrantKeys
    BY DEF SameSubject
  <2>2. IsFiniteSet(held) /\ held \subseteq Keys(cfKind) /\ Absent \in Values(cfKind)
    BY <1>0, <2>1, FS_Subset
  <2>3. Plan(op, key, val, content) = GroupDeletions(key, content)
    BY <1>5 DEF Plan
  <2>4. Plan(op, key, val, content) \in {<<>>, s}
    BY <2>3 DEF GroupDeletions
  <2> HIDE DEF held
  <2>5. s \in Seq(Writes)
    BY <2>2, WritesOfSet
  <2> QED
    BY <2>4, <2>5, NothingToWrite
<1>6. CASE op = "provision"
  <2> DEFINE missing == GroupKeys \ Present(content)
             s == [i \in 1..Cardinality(missing) |-> Write({SetToSeq(missing)[i]}, VIEW, "upsert")]
  <2>2. IsFiniteSet(missing) /\ missing \subseteq Keys(cfKind) /\ VIEW \in Values(cfKind)
    BY <1>0, FS_Subset DEF VIEW
  <2>3. Plan(op, key, val, content) = Provisions(content)
    BY <1>6 DEF Plan
  <2>4. Plan(op, key, val, content) = s
    BY <2>3 DEF Provisions
  <2> HIDE DEF missing
  <2>5. s \in Seq(Writes)
    BY <2>2, WritesOfSet
  <2> QED
    BY <2>4, <2>5
<1> QED
  BY <1>1, <1>2, <1>3, <1>4, <1>5, <1>6

LEMMA RolePlansTyped ==
    ASSUME cfKind = "roles", NEW op \in {"read", "create", "update", "delete"},
           NEW key \in RoleNames, NEW content, NEW val
    PROVE  Plan(op, key, val, content) \in Seq(Writes)
<1>1. \A v \in {"role", Absent}, m \in {"insert", "update", "delete"} : Write({key}, v, m) \in Writes
  BY DEF Write, Writes, Keys, Values
<1> HIDE DEF Writes
<1>2. CASE op = "read"
  BY <1>2, NothingToWrite DEF Plan
<1>3. CASE op = "create"
  BY <1>1, <1>3, NothingToWrite, OneWrite DEF Plan
<1>4. CASE op = "update"
  BY <1>1, <1>4, NothingToWrite, OneWrite DEF Plan
<1>5. CASE op = "delete"
  BY <1>1, <1>5, NothingToWrite, OneWrite DEF Plan
<1> QED
  BY <1>2, <1>3, <1>4, <1>5

\* What a request keeps of its types as it goes on.
LEMMA WritingTyped ==
    ASSUME NEW q, q.proc \in Procs, NEW todo \in Seq(Writes), todo # <<>>, NEW read,
           cfClock \in Nat
    PROVE  Typed(Writing(q, todo, read))
<1> DEFINE w == Writing(q, todo, read)
<1>1. w.todo \in Seq(Writes) /\ w.todo # <<>>
  BY DEF Writing
<1>2. w.pc = "write" /\ w.due = 0 /\ w.since = cfClock /\ w.proc = q.proc /\ IsRequest(w)
  BY DEF Writing, IsRequest
<1> HIDE DEF w
<1> QED
  BY <1>1, <1>2 DEF Typed, Stages, w

LEMMA StagedTyped ==
    ASSUME NEW q, Typed(q), NEW pc, NEW snap, NEW since \in Nat, NEW read,
           \/ pc \in {"load", "version"} /\ q.pc \in {"load", "loaded", "version"}
           \/ pc = "loaded" /\ q.pc = "load" /\ snap.content \in Collection
           \/ pc = "bump" /\ q.pc = "write"
    PROVE  Typed(Staged(q, pc, snap, since, read))
<1> DEFINE w == Staged(q, pc, snap, since, read)
<1>1. /\ w.pc = pc /\ w.due = q.due /\ w.since = since /\ w.proc = q.proc /\ w.todo = q.todo
      /\ w.op = q.op /\ w.key = q.key /\ w.snap = snap /\ IsRequest(w)
  BY DEF Staged, IsRequest
<1> HIDE DEF w
<1> QED
  BY <1>1 DEF Typed, Stages, w

LEMMA NextWriteTyped ==
    ASSUME NEW q, Typed(q), q.pc \in {"write", "bump"}, cfClock \in Nat
    PROVE  Typed(NextWrite(q))
<1>1. q.todo \in Seq(Writes) /\ q.todo # <<>> /\ q.proc \in Procs
  BY DEF Typed
<1> HIDE DEF Writes
<1>2. CASE Len(q.todo) = 1
  BY <1>2, NoRequestTyped DEF NextWrite
<1>3. CASE Len(q.todo) # 1
  <2>1. Tail(q.todo) \in Seq(Writes) /\ Tail(q.todo) # <<>>
    BY <1>1, <1>3, RestOf
  <2> QED
    BY <1>1, <1>3, <2>1, WritingTyped DEF NextWrite
<1> QED
  BY <1>2, <1>3

\* What a request becomes that is served a snapshot.
LEMMA ServedTyped ==
    ASSUME cfKind \in Kinds, cfClock \in Nat, NEW r \in Requests, Typed(cfReq[r]),
           NEW snap, NEW clean, Serve(r, snap, clean), cfReq[r].pc \in {"load", "loaded", "version"}
    PROVE  \E q : Typed(q) /\ cfReq' = [cfReq EXCEPT ![r] = q]
<1> DEFINE c == cfReq[r]
           todo == Plan(c.op, c.key, Idle, snap.content)
           e == Enter(cfCache'[c.proc])
<1>1. todo \in Seq(Writes)
  <2>1. c.op \in Readers /\ c.key \in Keys(cfKind)
    BY DEF Typed
  <2>2. CASE cfKind = "grants"
    BY <2>1, <2>2, GrantPlansTyped DEF Readers, Keys
  <2>3. CASE cfKind = "roles"
    BY <2>1, <2>3, RolePlansTyped DEF Readers, Keys, RoleEdits
  <2> QED
    BY <2>2, <2>3 DEF Kinds
<1>2. \/ cfReq' = [cfReq EXCEPT ![r] = Staged(c, e, Idle, cfClock, snap.at)]
      \/ cfReq' = [cfReq EXCEPT ![r] = NoRequest]
      \/ todo # <<>> /\ \E read : cfReq' = [cfReq EXCEPT ![r] = Writing(c, todo, read)]
  BY DEF Serve
<1>3. e \in {"load", "version"} /\ c.proc \in Procs
  BY DEF Enter, Typed
<1> HIDE DEF e, todo, c
<1>4. Typed(Staged(c, e, Idle, cfClock, snap.at))
  BY <1>3, StagedTyped DEF c
<1>5. todo # <<>> => \A read : Typed(Writing(c, todo, read))
  BY <1>1, <1>3, WritingTyped
<1> QED
  BY <1>2, <1>4, <1>5, NoRequestTyped

\* What a request that begins or goes on becomes.
LEMMA BegunTyped ==
    ASSUME StaleInv, AnnouncedInv, TypeInv, NEW r \in Requests, NEW p \in Procs,
           NEW key \in Keys(cfKind), NEW val, NEW op \in Ops(p, cfKind), Begin(r, p, op, key, val)
    PROVE  \E q : Typed(q) /\ cfReq' = [cfReq EXCEPT ![r] = q]
<1> DEFINE q == [proc |-> p, op |-> op, key |-> key, pc |-> Enter(cfCache[p]), todo |-> <<>>,
                 snap |-> Idle, due |-> cfDue[p], since |-> cfClock, read |-> Idle]
           todo == Plan(op, key, val, cfDb)
<1>1. cfReq' = [cfReq EXCEPT ![r] =
             IF ReadsCache(op) THEN q
             ELSE IF op = "seed" THEN Suspended(q, "count")
             ELSE Writing(q, todo, Idle)]
  BY DEF Begin
<1>2. /\ q.pc \in {"load", "version"} /\ q.due \in Nat /\ q.since \in Nat /\ q.proc = p
      /\ q.op = op /\ q.key = key /\ q.todo = <<>> /\ IsRequest(q)
  BY DEF Enter, IsRequest, StaleInv, AnnouncedInv, CountersOK
<1>3. cfKind \in Kinds /\ cfClock \in Nat
  BY DEF TypeInv, StoreTyped, StaleInv
<1> HIDE DEF q, todo
<1>4. ASSUME ReadsCache(op) PROVE Typed(q)
  <2>1. op \in Readers
    BY <1>3, <1>4 DEF ReadsCache, Readers, RoleEdits, GrantEdits, Ops, Kinds
  <2> QED
    BY <1>2, <2>1, NothingToWrite DEF Typed, Stages
<1>5. Typed(Suspended(q, "count"))
  <2> DEFINE t == Suspended(q, "count")
  <2>1. /\ t.pc = "count" /\ t.due = q.due /\ t.since = cfClock /\ t.proc = p /\ t.todo = <<>>
        /\ IsRequest(t)
    BY <1>2 DEF Suspended, Staged, IsRequest
  <2> HIDE DEF t
  <2>2. Typed(t)
    BY <1>2, <1>3, <2>1, NothingToWrite DEF Typed, Stages
  <2> QED
    BY <2>2 DEF t
<1>6. ASSUME ~ReadsCache(op), op # "seed" PROVE Typed(Writing(q, todo, Idle))
  <2>1. cfKind = "grants" /\ op \in {"put", "remove", "dropsubject"}
    BY <1>3, <1>6 DEF ReadsCache, RoleEdits, GrantEdits, Ops, Kinds
  <2>2. op = "put" => val \in PutLevels
    BY DEF Begin
  <2>3. todo \in Seq(Writes)
    BY <2>1, <2>2, GrantPlansTyped DEF todo, Keys
  <2>4. \E w : todo = <<w>>
    BY <2>1 DEF todo, Plan
  <2>5. todo # <<>>
    BY <2>4
  <2> QED
    BY <1>2, <1>3, <2>3, <2>5, WritingTyped
<1> QED
  BY <1>1, <1>4, <1>5, <1>6

LEMMA RequestTyped ==
    ASSUME StaleInv, AnnouncedInv, TypeInv, NEW r \in Requests, RequestStep(r)
    PROVE  \E q : Typed(q) /\ cfReq' = [cfReq EXCEPT ![r] = q]
<1> DEFINE c == cfReq[r]
<1>1. Typed(c) /\ cfKind \in Kinds /\ cfClock \in Nat
  BY DEF TypeInv, StoreTyped, StaleInv
<1>2. ASSUME \E p \in Procs, key \in Keys(cfKind), val \in PutLevels \cup {Idle} :
                \E op \in Ops(p, cfKind) : Begin(r, p, op, key, val)
      PROVE  \E q : Typed(q) /\ cfReq' = [cfReq EXCEPT ![r] = q]
  BY <1>2, BegunTyped
<1>3. CASE VersionAnswer(r) \/ VersionUnavailable(r)
  <2>1. c.pc = "version"
    BY <1>3 DEF VersionAnswer, VersionUnavailable
  <2>2. \/ cfReq' = [cfReq EXCEPT ![r] = Suspended(c, "load")]
        \/ \E snap, clean : Serve(r, snap, clean)
    BY <1>3 DEF VersionAnswer, VersionUnavailable
  <2>3. Typed(Suspended(c, "load"))
    BY <1>1, <2>1, StagedTyped DEF Suspended
  <2>4. ASSUME \E snap, clean : Serve(r, snap, clean)
        PROVE  \E q : Typed(q) /\ cfReq' = [cfReq EXCEPT ![r] = q]
    <3>1. PICK snap, clean : Serve(r, snap, clean)
      BY <2>4
    <3> QED
      BY <1>1, <2>1, <3>1, ServedTyped
  <2> QED
    BY <2>2, <2>3, <2>4
<1>4. CASE LoadAnswer(r)
  <2>1. cfDb \in Collection /\ Fallback(cfKind) \in Collection
    BY <1>1, FallbackTyped DEF TypeInv, StoreTyped
  <2>2. /\ c.pc = "load"
        /\ \E content \in Collection, ok \in BOOLEAN :
              cfReq' = [cfReq EXCEPT ![r] = Loaded(c, Snapshot(content, cfGen, cfClock, ok))]
    BY <1>4, <2>1 DEF LoadAnswer
  <2>3. PICK content \in Collection, ok \in BOOLEAN :
              cfReq' = [cfReq EXCEPT ![r] = Loaded(c, Snapshot(content, cfGen, cfClock, ok))]
    BY <2>2
  <2>4. Snapshot(content, cfGen, cfClock, ok).content \in Collection
    BY DEF Snapshot
  <2>5. c.since \in Nat
    BY <1>1 DEF Typed
  <2>6. Typed(Loaded(c, Snapshot(content, cfGen, cfClock, ok)))
    BY <1>1, <2>2, <2>4, <2>5, StagedTyped DEF Loaded
  <2> QED
    BY <2>3, <2>6
<1>5. CASE LoadDone(r)
  <2>1. c.pc = "loaded" /\ Serve(r, c.snap, TRUE)
    BY <1>5 DEF LoadDone
  <2> QED
    BY <1>1, <2>1, ServedTyped
<1>6. CASE SeedCount(r)
  <2>1. c.proc \in Procs /\ Seeds(cfDb) \in Seq(Writes)
    BY <1>1, <1>6, SeedsTyped DEF Typed, SeedCount
  <2>2. \/ cfReq' = [cfReq EXCEPT ![r] = NoRequest]
        \/ Seeds(cfDb) # <<>> /\ cfReq' = [cfReq EXCEPT ![r] = Writing(c, Seeds(cfDb), Idle)]
    BY <1>6 DEF SeedCount
  <2>3. Seeds(cfDb) # <<>> => Typed(Writing(c, Seeds(cfDb), Idle))
    BY <1>1, <2>1, WritingTyped
  <2> QED
    BY <2>2, <2>3, NoRequestTyped
<1>7. CASE ApplyWrite(r)
  <2>1. /\ c.pc = "write"
        /\ \/ cfReq' = [cfReq EXCEPT ![r] = NoRequest]
           \/ cfReq' = [cfReq EXCEPT ![r] = NextWrite(c)]
           \/ cfReq' = [cfReq EXCEPT ![r] = Suspended(c, "bump")]
    BY <1>7 DEF ApplyWrite
  <2>2. Typed(Suspended(c, "bump")) /\ Typed(NextWrite(c))
    BY <1>1, <2>1, StagedTyped, NextWriteTyped DEF Suspended
  <2> QED
    BY <2>1, <2>2, NoRequestTyped
<1>8. CASE WriteFails(r)
  BY <1>8, NoRequestTyped DEF WriteFails
<1>9. CASE Bump(r)
  <2>1. c.pc = "bump" /\ cfReq' = [cfReq EXCEPT ![r] = NextWrite(c)]
    BY <1>9 DEF Bump
  <2> QED
    BY <1>1, <2>1, NextWriteTyped
<1> QED
  BY <1>2, <1>3, <1>4, <1>5, <1>6, <1>7, <1>8, <1>9 DEF RequestStep

\* The caches of a step keep their types.
LEMMA CachesStayTyped ==
    ASSUME StaleInv, TypeInv, [ConfigNext]_cfVars, NEW p \in Procs
    PROVE  cfCache'[p].loadedAt \in 0..MaxClock /\ cfCache'[p].snap.content \in Collection
<1> DEFINE Good(c) == c.loadedAt \in 0..MaxClock /\ c.snap.content \in Collection
<1>1. Good(cfCache[p]) /\ DOMAIN cfCache = Procs /\ IsCache(cfCache[p])
  BY DEF TypeInv, CachesTyped, StaleInv, Dated
<1>2. cfClock \in 0..MaxClock /\ 0 \in 0..MaxClock /\ cfKind \in Kinds
  BY ConfigAssumption DEF ConfigAssumption, TypeInv, StoreTyped
<1>3. ASSUME NEW r \in Requests, RequestStep(r) PROVE Good(cfCache'[p])
  <2> DEFINE q == cfReq[r]
  <2>1. ASSUME NEW x, NEW op, NEW key, NEW val, Begin(r, x, op, key, val)
        PROVE  UNCHANGED cfCache
    BY <2>1 DEF Begin
  <2>2. ASSUME \/ VersionUnavailable(r) \/ LoadAnswer(r) \/ SeedCount(r) \/ WriteFails(r) \/ Bump(r)
        PROVE  UNCHANGED cfCache
    BY <2>2 DEF VersionUnavailable, LoadAnswer, SeedCount, WriteFails, Bump
  <2>3. ASSUME VersionAnswer(r) PROVE Good(cfCache'[p])
    <3>1. cfCache' = [cfCache EXCEPT ![q.proc].observed = cfVersion]
      BY <2>3 DEF VersionAnswer
    <3>2. CASE q.proc = p
      <4>1. cfCache'[p] = [cfCache[p] EXCEPT !.observed = cfVersion]
        BY <1>1, <3>1, <3>2
      <4>2. cfCache'[p].snap = cfCache[p].snap /\ cfCache'[p].loadedAt = cfCache[p].loadedAt
        BY <1>1, <4>1 DEF IsCache
      <4> QED
        BY <1>1, <4>2
    <3>3. CASE q.proc # p
      BY <1>1, <3>1, <3>3
    <3> QED
      BY <3>2, <3>3
  <2>4. ASSUME LoadDone(r) PROVE Good(cfCache'[p])
    <3> DEFINE c == Stored(cfCache[q.proc], q.snap)
    <3>1. q.pc = "loaded" /\ cfCache' = [cfCache EXCEPT ![q.proc] = c]
      BY <2>4 DEF LoadDone
    <3>2. q.snap.content \in Collection
      BY <3>1 DEF TypeInv, Typed
    <3>3. c.snap = q.snap /\ c.loadedAt = cfClock
      BY DEF Stored
    <3>4. Good(c)
      BY <1>2, <3>2, <3>3
    <3> HIDE DEF q, c, Good
    <3> QED
      BY <1>1, <3>1, <3>4
  <2>5. ASSUME ApplyWrite(r) PROVE Good(cfCache'[p])
    <3>1. \/ UNCHANGED cfCache
          \/ cfCache' = [cfCache EXCEPT ![q.proc] = ResetCache(cfCache[q.proc])]
      BY <2>5 DEF ApplyWrite
    <3>2. \A c : ResetCache(c).snap = c.snap /\ ResetCache(c).loadedAt = 0
      BY DEF ResetCache
    <3>3. \A c : Good(c) => Good(ResetCache(c))
      BY <1>2, <3>2
    <3> HIDE DEF q, Good
    <3> QED
      BY <1>1, <3>1, <3>3
  <2> HIDE DEF Good
  <2> QED
    BY <1>1, <1>3, <2>1, <2>2, <2>3, <2>4, <2>5 DEF RequestStep
<1>4. ASSUME NEW x \in Procs, Restart(x) PROVE Good(cfCache'[p])
  <2>1. cfCache' = [cfCache EXCEPT ![x] = EmptyCache]
    BY <1>4 DEF Restart
  <2>2. EmptyCache.loadedAt = 0 /\ EmptyCache.snap.content = Fallback(cfKind)
    BY DEF EmptyCache, Snapshot
  <2>3. Good(EmptyCache)
    BY <1>2, <2>2, FallbackTyped
  <2> HIDE DEF Good
  <2> QED
    BY <1>1, <2>1, <2>3
<1>5. OtherBump \/ VersionExpires \/ Tick \/ UNCHANGED cfVars => UNCHANGED cfCache
  BY DEF OtherBump, VersionExpires, Tick, cfVars
<1>6. Good(cfCache'[p])
  <2> HIDE DEF Good
  <2> QED
    BY <1>1, <1>3, <1>4, <1>5 DEF ConfigNext
<1> QED
  BY <1>6

\* Time and the bound on requests and faults.
LEMMA ClockMoves ==
    ASSUME [ConfigNext]_cfVars
    PROVE  /\ UNCHANGED cfClock \/ (cfClock < MaxClock /\ cfClock' = cfClock + 1)
           /\ UNCHANGED cfLeft \/ Spend
<1>1. ASSUME NEW r \in Requests, NEW p, NEW op, NEW key, NEW val, Begin(r, p, op, key, val)
      PROVE  UNCHANGED cfClock /\ Spend
  BY <1>1 DEF Begin
<1>2. ASSUME NEW r \in Requests,
             \/ VersionAnswer(r) \/ VersionUnavailable(r) \/ LoadAnswer(r) \/ LoadDone(r)
             \/ SeedCount(r) \/ ApplyWrite(r) \/ WriteFails(r) \/ Bump(r)
      PROVE  UNCHANGED cfClock /\ (UNCHANGED cfLeft \/ Spend)
  BY <1>2 DEF VersionAnswer, VersionUnavailable, LoadAnswer, LoadDone, SeedCount, ApplyWrite,
     WriteFails, Bump
<1>3. ASSUME NEW p \in Procs, Restart(p) PROVE UNCHANGED cfClock /\ Spend
  BY <1>3 DEF Restart
<1>4. OtherBump \/ VersionExpires => UNCHANGED cfClock /\ (UNCHANGED cfLeft \/ Spend)
  BY DEF OtherBump, VersionExpires
<1>5. Tick => UNCHANGED cfLeft /\ cfClock < MaxClock /\ cfClock' = cfClock + 1
  BY DEF Tick
<1>6. UNCHANGED cfVars => UNCHANGED <<cfClock, cfLeft>>
  BY DEF cfVars
<1> QED
  BY <1>1, <1>2, <1>3, <1>4, <1>5, <1>6 DEF ConfigNext, RequestStep

LEMMA TypeInit == ConfigInit => TypeInv
<1> SUFFICES ASSUME ConfigInit PROVE TypeInv
  OBVIOUS
<1>1. cfKind \in Kinds /\ cfKind \in {"grants", "roles"}
  BY DEF ConfigInit, Kinds
<1>2. cfDb \in Collection
  <2>1. CASE cfKind = "grants"
    BY <2>1 DEF ConfigInit, FirstDb, Collection, Keys, Values, Levels
  <2>2. CASE cfKind = "roles"
    BY <2>2 DEF ConfigInit, FirstDb, Collection, Keys, Values
  <2> QED
    BY <1>1, <2>1, <2>2
<1>3. 0 \in 0..MaxClock /\ 1 \in 0..MaxClock /\ 1 \in 1..MaxClock
  BY ConfigAssumption DEF ConfigAssumption
<1>4. cfTouched \in [Keys(cfKind) \cap GroupKeys -> 0..MaxClock]
  BY <1>3 DEF ConfigInit
<1>5. MaxEvents[cfKind] \in Nat
  BY <1>1, ConfigAssumption DEF ConfigAssumption
<1>6. StoreTyped
  BY <1>1, <1>2, <1>3, <1>4, <1>5 DEF ConfigInit, StoreTyped
<1>7. CachesTyped
  <2>1. /\ WarmCache.loadedAt = 1 /\ WarmCache.snap.content = cfDb
        /\ EmptyCache.loadedAt = 0 /\ EmptyCache.snap.content = Fallback(cfKind)
    BY DEF WarmCache, EmptyCache, Snapshot
  <2>2. \A p \in Procs : cfCache[p] \in {WarmCache, EmptyCache}
    BY DEF ConfigInit
  <2> QED
    BY <1>1, <1>2, <1>3, <2>1, <2>2, FallbackTyped DEF CachesTyped
<1>8. \A r \in Requests : Typed(cfReq[r])
  BY NoRequestTyped DEF ConfigInit
<1> QED
  BY <1>6, <1>7, <1>8 DEF TypeInv

LEMMA TypeInductive ==
    StaleInv /\ AnnouncedInv /\ TypeInv /\ [ConfigNext]_cfVars => TypeInv'
<1> SUFFICES ASSUME StaleInv, AnnouncedInv, TypeInv, [ConfigNext]_cfVars PROVE TypeInv'
  OBVIOUS
<1>1. UNCHANGED cfKind
  BY StepsWrite
<1>2. UNCHANGED Collection
  BY <1>1 DEF Collection
<1>3. \A r \in Requests : Typed(cfReq'[r])
  <2>0. cfReq = [x \in Requests |-> cfReq[x]] /\ \A x \in Requests : Typed(cfReq[x])
    BY DEF StaleInv, TypeInv
  <2>1. ASSUME NEW r \in Requests, RequestStep(r) PROVE \A x \in Requests : Typed(cfReq'[x])
    <3>1. PICK q : Typed(q) /\ cfReq' = [cfReq EXCEPT ![r] = q]
      BY <2>1, RequestTyped
    <3> QED
      BY <2>0, <3>1
  <2>2. ASSUME NEW p \in Procs, Restart(p) PROVE \A x \in Requests : Typed(cfReq'[x])
    BY <2>0, <2>2, NoRequestTyped DEF Restart
  <2>3. OtherBump \/ VersionExpires \/ Tick \/ UNCHANGED cfVars => UNCHANGED cfReq
    BY DEF OtherBump, VersionExpires, Tick, cfVars
  <2> QED
    BY <2>0, <2>1, <2>2, <2>3 DEF ConfigNext
<1>4. ASSUME NEW r \in Requests PROVE Typed(cfReq[r])'
  <2>1. PICK q : q = cfReq'[r]
    OBVIOUS
  <2>2. Typed(q)
    BY <1>3, <2>1
  <2>3. Typed(q)'
    BY <1>1, <2>2 DEF Typed, Writes, Collection, Readers
  <2> QED
    BY <2>1, <2>3 DEF Typed, Writes, Collection, Readers
<1>5. CachesTyped'
  BY <1>2, CachesStayTyped DEF CachesTyped
<1>6. StoreTyped'
  <2>1. cfClock' \in 1..MaxClock
    BY ClockMoves, ConfigAssumption DEF ConfigAssumption, TypeInv, StoreTyped
  <2>2. MaxEvents[cfKind] \in Nat /\ MaxEvents[cfKind'] = MaxEvents[cfKind]
    BY <1>1, ConfigAssumption DEF ConfigAssumption, TypeInv, StoreTyped, Kinds
  <2>3. cfLeft' \in 0..MaxEvents[cfKind']
    <3>1. cfLeft \in 0..MaxEvents[cfKind]
      BY DEF TypeInv, StoreTyped
    <3>2. UNCHANGED cfLeft \/ Spend
      BY ClockMoves
    <3> QED
      BY <2>2, <3>1, <3>2 DEF Spend
  <2>4. cfDb' \in Collection
    <3>1. cfDb \in Collection
      BY DEF TypeInv, StoreTyped
    <3>2. ASSUME NEW r \in Requests, cfReq[r].pc = "write", cfDb' = Applied(Head(cfReq[r].todo), cfDb)
          PROVE  cfDb' \in Collection
      <4> DEFINE w == Head(cfReq[r].todo)
      <4>1. cfReq[r].todo \in Seq(Writes) /\ cfReq[r].todo # <<>>
        BY <3>2 DEF TypeInv, Typed
      <4>2. w \in Writes
        <5> HIDE DEF Writes
        <5> QED
          BY <4>1, HeadTailProperties
      <4>3. w.val \in Values(cfKind)
        BY <4>2 DEF Writes
      <4>4. cfDb' = Applied(w, cfDb)
        BY <3>2
      <4> HIDE DEF w
      <4> QED
        BY <3>1, <4>3, <4>4 DEF Applied, Collection
    <3> QED
      BY <3>1, <3>2, StepsWrite
  <2>5. cfTouched' \in [Keys(cfKind) \cap GroupKeys -> 0..MaxClock]
    <3>1. cfTouched \in [Keys(cfKind) \cap GroupKeys -> 0..MaxClock] /\ cfClock \in 0..MaxClock
      BY ConfigAssumption DEF ConfigAssumption, TypeInv, StoreTyped
    <3>2. ASSUME NEW w, cfTouched' = [k \in DOMAIN cfTouched |->
                    IF Effective(w, cfDb) /\ k \in w.keys THEN cfClock ELSE cfTouched[k]]
          PROVE  cfTouched' \in [Keys(cfKind) \cap GroupKeys -> 0..MaxClock]
      BY <3>1, <3>2
    <3> QED
      BY <3>1, <3>2, StepsTouch
  <2> QED
    BY <1>1, <1>2, <2>1, <2>3, <2>4, <2>5 DEF StoreTyped, TypeInv
<1> QED
  BY <1>4, <1>5, <1>6 DEF TypeInv

\* The variables of the configuration store keep their types (role_config.py,
\* admin_config_version.py, mongo_config_repository.py), for any processes,
\* requests, keys, seeds and lives of the cache.
THEOREM ConfigTypeCorrect == ConfigSpec => []ConfigTypeOK
  BY StaleInit, StaleInductive, AnnouncedInit, AnnouncedInductive, TypeInit, TypeInductive,
     TypesSuffice, PTL DEF ConfigSpec
=============================================================================
