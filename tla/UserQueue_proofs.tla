-------------------------- MODULE UserQueue_proofs --------------------------
(***************************************************************************)
(* Theorems about UserQueue, for every set of users and jobs.              *)
(***************************************************************************)
EXTENDS UserQueue, TLAPS

-----------------------------------------------------------------------------
(***************************************************************************)
(* Type correctness                                                        *)
(***************************************************************************)

\* A busy worker task has a job: needed for the type of the history of ended
\* jobs, which records what the finishing task was processing.
BusyHasJob == \A t \in Jobs : task[t] = "busy" => current[t] \in Jobs

\* Taking the head of a non-empty queue of jobs.
LEMMA HeadTailType ==
    ASSUME NEW s \in Seq(Jobs), s # <<>>
    PROVE  Head(s) \in Jobs /\ Tail(s) \in Seq(Jobs)
  OBVIOUS

LEMMA TakeNextType ==
    ASSUME TypeOK, NEW t \in Jobs, Waiting(Owner[t]) # <<>>, TakeNext(t)
    PROVE  /\ DOMAIN queues' \subseteq Users
           /\ \A u \in DOMAIN queues' : queues'[u] \in Seq(Jobs)
           /\ DOMAIN workers' \subseteq Users
           /\ \A u \in DOMAIN workers' : workers'[u] \in Jobs
           /\ DOMAIN position' \subseteq Jobs
           /\ \A j \in DOMAIN position' : position'[j] \in Nat
           /\ task' \in [Jobs -> TaskState]
           /\ current' \in [Jobs -> Jobs \cup {NoJob}]
           /\ started' \in [Users -> Seq(Jobs)]
  <1> DEFINE u == Owner[t]
  <1>1. u \in Users /\ u \in DOMAIN queues /\ queues[u] \in Seq(Jobs) /\ queues[u] # <<>>
    BY OwnerAssumption DEF TypeOK, Waiting
  <1>2. Head(queues[u]) \in Jobs /\ Tail(queues[u]) \in Seq(Jobs)
    BY <1>1, HeadTailType
  <1>3. /\ DOMAIN position' \subseteq Jobs
        /\ \A j \in DOMAIN position' : position'[j] \in Nat
    BY DEF TakeNext, MoveUp, TypeOK
  <1>4. /\ DOMAIN queues' \subseteq Users
        /\ \A v \in DOMAIN queues' : queues'[v] \in Seq(Jobs)
    BY <1>1, <1>2 DEF TakeNext, TypeOK
  <1>5. task' \in [Jobs -> TaskState] /\ current' \in [Jobs -> Jobs \cup {NoJob}]
    BY <1>2 DEF TakeNext, TypeOK, TaskState
  <1>6. started' \in [Users -> Seq(Jobs)]
    <2>1. Append(started[u], Head(queues[u])) \in Seq(Jobs)
      BY <1>1, <1>2 DEF TypeOK
    <2>2. QED
      BY <1>1, <2>1 DEF TakeNext, TypeOK
  <1>7. QED
    BY <1>3, <1>4, <1>5, <1>6 DEF TakeNext, TypeOK

LEMMA TakeNextBusy ==
    ASSUME TypeOK, BusyHasJob, NEW t \in Jobs, Waiting(Owner[t]) # <<>>, TakeNext(t)
    PROVE  BusyHasJob'
  <1> DEFINE u == Owner[t]
  <1>1. u \in DOMAIN queues /\ queues[u] \in Seq(Jobs) /\ queues[u] # <<>>
    BY DEF TypeOK, Waiting
  <1>2. Head(queues[u]) \in Jobs
    BY <1>1, HeadTailType
  <1>3. QED
    BY <1>2 DEF TakeNext, BusyHasJob, TypeOK

LEMMA RetireType ==
    ASSUME TypeOK, NEW t \in Jobs, Retire(t)
    PROVE  /\ DOMAIN queues' \subseteq Users
           /\ \A u \in DOMAIN queues' : queues'[u] \in Seq(Jobs)
           /\ DOMAIN workers' \subseteq Users
           /\ \A u \in DOMAIN workers' : workers'[u] \in Jobs
           /\ DOMAIN position' \subseteq Jobs
           /\ \A j \in DOMAIN position' : position'[j] \in Nat
           /\ task' \in [Jobs -> TaskState]
           /\ current' \in [Jobs -> Jobs \cup {NoJob}]
           /\ started' \in [Users -> Seq(Jobs)]
  BY DEF TypeOK, Retire, Del, Restrict, TaskState

LEMMA InitTypeOK == Init => TypeOK /\ BusyHasJob
  <1> SUFFICES ASSUME Init
               PROVE  TypeOK /\ BusyHasJob
    OBVIOUS
  <1>1. DOMAIN queues = {} /\ DOMAIN workers = {} /\ DOMAIN position = {}
    BY DEF Init
  <1>2. <<>> \in Seq(Jobs)
    OBVIOUS
  <1>3. task \in [Jobs -> TaskState] /\ current \in [Jobs -> Jobs \cup {NoJob}]
    BY DEF Init, TaskState
  <1>4. /\ stopping \in BOOLEAN
        /\ arrived \in [Users -> Seq(Jobs)]
        /\ started \in [Users -> Seq(Jobs)]
        /\ ended \in [Users -> Seq(Jobs)]
    BY <1>2 DEF Init
  <1>5. BusyHasJob
    BY DEF Init, BusyHasJob
  <1>6. QED
    BY <1>1, <1>3, <1>4, <1>5 DEF TypeOK

LEMMA NextTypeOK == TypeOK /\ BusyHasJob /\ [Next]_vars => TypeOK' /\ BusyHasJob'
  <1> SUFFICES ASSUME TypeOK, BusyHasJob, [Next]_vars
               PROVE  TypeOK' /\ BusyHasJob'
    OBVIOUS
  <1>1. ASSUME NEW j \in Jobs, Enqueue(j)
        PROVE  TypeOK' /\ BusyHasJob'
    <2> DEFINE u == Owner[j]
    <2>1. u \in Users /\ Waiting(u) \in Seq(Jobs)
      BY OwnerAssumption DEF TypeOK, Waiting
    <2>2. Append(Waiting(u), j) \in Seq(Jobs) /\ Len(Waiting(u)) \in Nat
      BY <2>1
    <2>3. /\ DOMAIN queues' \subseteq Users
          /\ \A v \in DOMAIN queues' : queues'[v] \in Seq(Jobs)
      BY <1>1, <2>1, <2>2 DEF Enqueue, Put, TypeOK
    <2>4. /\ DOMAIN position' \subseteq Jobs
          /\ \A k \in DOMAIN position' : position'[k] \in Nat
      BY <1>1, <2>2 DEF Enqueue, Put, TypeOK, EnqueuePosition
    <2>5. /\ DOMAIN workers' \subseteq Users
          /\ \A v \in DOMAIN workers' : workers'[v] \in Jobs
          /\ task' \in [Jobs -> TaskState]
      <3>1. CASE NeedsWorker(u)
        <4>1. workers' = Put(workers, u, j) /\ task' = [task EXCEPT ![j] = "created"]
          BY <1>1, <3>1 DEF Enqueue
        <4>2. QED
          BY <2>1, <4>1 DEF Put, TypeOK, TaskState
      <3>2. CASE ~NeedsWorker(u)
        BY <1>1, <3>2 DEF Enqueue, TypeOK
      <3>3. QED
        BY <3>1, <3>2
    <2>6. arrived' \in [Users -> Seq(Jobs)]
      <3>1. Append(arrived[u], j) \in Seq(Jobs)
        BY <2>1 DEF TypeOK
      <3>2. QED
        BY <1>1, <2>1, <3>1 DEF Enqueue, TypeOK
    <2>7. BusyHasJob'
      BY <1>1 DEF Enqueue, BusyHasJob, TypeOK
    <2>8. QED
      BY <1>1, <2>3, <2>4, <2>5, <2>6, <2>7 DEF Enqueue, TypeOK
  <1>2. ASSUME NEW j \in Jobs, CancelPending(j)
        PROVE  TypeOK' /\ BusyHasJob'
    BY <1>2 DEF CancelPending, BusyHasJob, Del, Restrict, TypeOK, history
  <1>3. ASSUME NEW t \in Jobs, WorkerStart(t)
        PROVE  TypeOK' /\ BusyHasJob'
    <2>1. Waiting(Owner[t]) # <<>> /\ TakeNext(t)
      BY <1>3 DEF WorkerStart
    <2>2. stopping' \in BOOLEAN /\ arrived' \in [Users -> Seq(Jobs)]
                                /\ ended' \in [Users -> Seq(Jobs)]
      BY <1>3 DEF WorkerStart, TypeOK
    <2>3. TypeOK'
      BY <2>1, <2>2, TakeNextType DEF TypeOK
    <2>4. BusyHasJob'
      BY <2>1, TakeNextBusy
    <2>5. QED
      BY <2>3, <2>4
  <1>4. ASSUME NEW t \in Jobs, ProcessEnds(t)
        PROVE  TypeOK' /\ BusyHasJob'
    <2> DEFINE u == Owner[t]
    <2>1. stopping' \in BOOLEAN /\ arrived' \in [Users -> Seq(Jobs)]
      BY <1>4 DEF ProcessEnds, TypeOK
    <2>2. ended' \in [Users -> Seq(Jobs)]
      <3>1. u \in Users /\ current[t] \in Jobs
        BY <1>4, OwnerAssumption DEF ProcessEnds, BusyHasJob
      <3>2. Append(ended[u], current[t]) \in Seq(Jobs)
        BY <3>1 DEF TypeOK
      <3>3. QED
        BY <1>4, <3>1, <3>2 DEF ProcessEnds, TypeOK
    <2>3. CASE Waiting(u) # <<>> /\ TakeNext(t)
      BY <2>1, <2>2, <2>3, TakeNextType, TakeNextBusy DEF TypeOK
    <2>4. CASE Waiting(u) = <<>> /\ Retire(t)
      <3>1. BusyHasJob'
        BY <2>4 DEF Retire, BusyHasJob, TypeOK
      <3>2. QED
        BY <2>1, <2>2, <2>4, <3>1, RetireType DEF TypeOK
    <2>5. QED
      BY <1>4, <2>3, <2>4 DEF ProcessEnds
  <1>5. CASE Shutdown
    BY <1>5 DEF Shutdown, BusyHasJob, TypeOK, history
  <1>6. ASSUME NEW t \in Jobs, DrainOnCancel(t)
        PROVE  TypeOK' /\ BusyHasJob'
    BY <1>6 DEF DrainOnCancel, BusyHasJob, Del, Restrict, TypeOK, TaskState, history
  <1>7. ASSUME NEW t \in Jobs, CancelBeforeStart(t)
        PROVE  TypeOK' /\ BusyHasJob'
    BY <1>7 DEF CancelBeforeStart, BusyHasJob, TypeOK, TaskState, history
  <1>8. CASE UNCHANGED vars
    BY <1>8 DEF vars, BusyHasJob, history, TypeOK
  <1>9. QED
    BY <1>1, <1>2, <1>3, <1>4, <1>5, <1>6, <1>7, <1>8 DEF Next

\* Every variable of the queue keeps its type, with any number of users and
\* jobs (user_queue.py:31-35).
THEOREM TypeCorrect == Spec => []TypeOK
  <1>1. Init => TypeOK /\ BusyHasJob
    BY InitTypeOK
  <1>2. TypeOK /\ BusyHasJob /\ [Next]_vars => TypeOK' /\ BusyHasJob'
    BY NextTypeOK
  <1>3. QED
    BY <1>1, <1>2, PTL DEF Spec

-----------------------------------------------------------------------------
(***************************************************************************)
(* Workers.  OneAtATime is not inductive: a second busy task could come    *)
(* from a second live one.  The strengthening ties every live task to the  *)
(* _workers entry of its owner, so that NeedsWorker sees it.               *)
(***************************************************************************)
LiveRegistered ==
    \A t \in Jobs : Live(t) => Owner[t] \in DOMAIN workers /\ workers[Owner[t]] = t

RegisteredLive ==
    \A u \in DOMAIN workers : Live(workers[u]) /\ Owner[workers[u]] = u

WorkerInv ==
    /\ LiveRegistered
    /\ ~stopping => /\ RegisteredLive
                    /\ DOMAIN queues = DOMAIN workers
                    /\ NeverWaitsIdle

LEMMA TakeNextWorkerInv ==
    ASSUME TypeOK, WorkerInv, ~stopping, NEW t \in Jobs, Live(t),
           Waiting(Owner[t]) # <<>>, TakeNext(t), UNCHANGED stopping
    PROVE  WorkerInv'
  <1> DEFINE u == Owner[t]
  <1>1. u \in DOMAIN queues /\ workers[u] = t /\ u \in DOMAIN workers
    BY DEF WorkerInv, LiveRegistered, Waiting
  <1>2. \A s \in Jobs : Live(s)' <=> Live(s)
    BY DEF TakeNext, Live, TypeOK
  <1>3. LiveRegistered'
    BY <1>2 DEF TakeNext, WorkerInv, LiveRegistered
  <1>4. RegisteredLive'
    BY <1>2 DEF TakeNext, WorkerInv, RegisteredLive, TypeOK
  <1>5. DOMAIN queues' = DOMAIN workers'
    BY DEF TakeNext, WorkerInv
  <1>6. NeverWaitsIdle'
    <2> SUFFICES ASSUME NEW s \in Jobs, task'[s] = "created"
                 PROVE  Waiting(Owner[s])' # <<>>
      BY DEF NeverWaitsIdle
    <2>1. s # t /\ task[s] = "created"
      BY DEF TakeNext, TypeOK
    <2>2. Owner[s] # u
      BY <1>1, <2>1 DEF WorkerInv, LiveRegistered, Live
    <2>3. Waiting(Owner[s])' = Waiting(Owner[s])
      BY <2>2 DEF Waiting, TakeNext
    <2>4. QED
      BY <2>1, <2>3 DEF WorkerInv, NeverWaitsIdle
  <1>7. QED
    BY <1>3, <1>4, <1>5, <1>6 DEF WorkerInv

LEMMA RetireWorkerInv ==
    ASSUME TypeOK, WorkerInv, ~stopping, NEW t \in Jobs, task[t] = "busy",
           Retire(t), UNCHANGED stopping
    PROVE  WorkerInv'
  <1> DEFINE u == Owner[t]
  <1>1. workers[u] = t /\ u \in DOMAIN workers
    BY DEF WorkerInv, LiveRegistered, Live
  <1>2. \A s \in Jobs : Live(s)' <=> (s # t /\ Live(s))
    BY DEF Retire, Live, TypeOK
  <1>3. \A s \in Jobs : s # t /\ Live(s) => Owner[s] # u
    BY <1>1 DEF WorkerInv, LiveRegistered
  <1>4. workers' = [v \in DOMAIN workers \ {u} |-> workers[v]]
    BY DEF Retire, Del, Restrict
  <1>5. LiveRegistered'
    BY <1>2, <1>3, <1>4 DEF WorkerInv, LiveRegistered
  <1>6. RegisteredLive'
    BY <1>1, <1>2, <1>4 DEF WorkerInv, RegisteredLive, TypeOK
  <1>7. queues' = [v \in DOMAIN queues \ {u} |-> queues[v]]
    BY DEF Retire, Del, Restrict
  <1>8. DOMAIN queues' = DOMAIN workers'
    BY <1>4, <1>7 DEF WorkerInv
  <1>9. NeverWaitsIdle'
    <2> SUFFICES ASSUME NEW s \in Jobs, task'[s] = "created"
                 PROVE  Waiting(Owner[s])' # <<>>
      BY DEF NeverWaitsIdle
    <2>1. s # t /\ task[s] = "created"
      BY DEF Retire, TypeOK
    <2>2. Owner[s] # u
      BY <1>3, <2>1 DEF Live
    <2>3. Waiting(Owner[s])' = Waiting(Owner[s])
      BY <1>7, <2>2 DEF Waiting
    <2>4. QED
      BY <2>1, <2>3 DEF WorkerInv, NeverWaitsIdle
  <1>10. QED
    BY <1>5, <1>6, <1>8, <1>9 DEF WorkerInv

LEMMA InitWorkerInv == Init => WorkerInv
  <1> SUFFICES ASSUME Init
               PROVE  WorkerInv
    OBVIOUS
  <1>1. DOMAIN queues = {} /\ DOMAIN workers = {}
    BY DEF Init
  <1>2. \A t \in Jobs : task[t] = "none"
    BY DEF Init
  <1>3. QED
    BY <1>1, <1>2 DEF WorkerInv, LiveRegistered, RegisteredLive, NeverWaitsIdle, Live

LEMMA EnqueueWorkerInv ==
    ASSUME TypeOK, WorkerInv, NEW j \in Jobs, Enqueue(j)
    PROVE  WorkerInv'
  <1> DEFINE u == Owner[j]
  <1>1. u \in Users /\ ~stopping /\ ~stopping' /\ Waiting(u) \in Seq(Jobs)
    BY OwnerAssumption DEF Enqueue, TypeOK, Waiting
  <1>2. /\ DOMAIN queues' = DOMAIN queues \cup {u}
        /\ queues'[u] = Append(Waiting(u), j)
        /\ \A v \in DOMAIN queues : v # u => queues'[v] = queues[v]
    BY DEF Enqueue, Put
  <1>3. Append(Waiting(u), j) # <<>>
    BY <1>1
  <1>4. \A v \in Users : Waiting(v) # <<>> => Waiting(v)' # <<>>
    BY <1>2, <1>3 DEF Waiting
  <1>5. Waiting(u)' # <<>>
    BY <1>2, <1>3 DEF Waiting
  <1>6. CASE NeedsWorker(u)
    <2>1. /\ DOMAIN workers' = DOMAIN workers \cup {u}
          /\ workers'[u] = j
          /\ \A v \in DOMAIN workers : v # u => workers'[v] = workers[v]
          /\ task' = [task EXCEPT ![j] = "created"]
      BY <1>6 DEF Enqueue, Put
    <2>2. \A t \in Jobs : Live(t) => Owner[t] # u
      BY <1>6 DEF NeedsWorker, WorkerInv, LiveRegistered, Live
    <2>3. LiveRegistered'
      BY <2>1, <2>2 DEF WorkerInv, LiveRegistered, Live, TypeOK
    <2>4. RegisteredLive'
      BY <1>1, <2>1 DEF WorkerInv, RegisteredLive, Live, TypeOK
    <2>5. NeverWaitsIdle'
      BY <1>1, <1>4, <1>5, <2>1, OwnerAssumption DEF WorkerInv, NeverWaitsIdle, TypeOK
    <2>6. QED
      BY <1>1, <1>2, <2>1, <2>3, <2>4, <2>5 DEF WorkerInv
  <1>7. CASE ~NeedsWorker(u)
    <2>1. workers' = workers /\ task' = task /\ u \in DOMAIN workers
      BY <1>7 DEF Enqueue, NeedsWorker
    <2>2. LiveRegistered' /\ (RegisteredLive' <=> RegisteredLive)
      BY <2>1 DEF WorkerInv, LiveRegistered, RegisteredLive, Live
    <2>3. NeverWaitsIdle'
      BY <1>1, <1>4, <2>1, OwnerAssumption DEF WorkerInv, NeverWaitsIdle
    <2>4. QED
      BY <1>1, <1>2, <2>1, <2>2, <2>3 DEF WorkerInv
  <1>8. QED
    BY <1>6, <1>7

LEMMA NextWorkerInv == TypeOK /\ WorkerInv /\ [Next]_vars => WorkerInv'
  <1> SUFFICES ASSUME TypeOK, WorkerInv, [Next]_vars
               PROVE  WorkerInv'
    OBVIOUS
  <1> USE DEF Live
  <1>1. ASSUME NEW j \in Jobs, Enqueue(j)
        PROVE  WorkerInv'
    BY <1>1, EnqueueWorkerInv
  <1>2. ASSUME NEW j \in Jobs, CancelPending(j)
        PROVE  WorkerInv'
    BY <1>2 DEF CancelPending, WorkerInv, LiveRegistered, RegisteredLive,
                NeverWaitsIdle, Waiting
  <1>3. ASSUME NEW t \in Jobs, WorkerStart(t)
        PROVE  WorkerInv'
    BY <1>3, TakeNextWorkerInv DEF WorkerStart
  <1>4. ASSUME NEW t \in Jobs, ProcessEnds(t)
        PROVE  WorkerInv'
    BY <1>4, TakeNextWorkerInv, RetireWorkerInv DEF ProcessEnds
  <1>5. CASE Shutdown
    BY <1>5 DEF Shutdown, WorkerInv, LiveRegistered
  <1>6. ASSUME NEW t \in Jobs, DrainOnCancel(t)
        PROVE  WorkerInv'
    <2>1. workers' = [v \in DOMAIN workers \ {Owner[t]} |-> workers[v]]
      BY <1>6 DEF DrainOnCancel, Del, Restrict
    <2>2. workers[Owner[t]] = t
      BY <1>6 DEF DrainOnCancel, WorkerInv, LiveRegistered
    <2>3. \A s \in Jobs : Live(s)' => s # t /\ Live(s)
      BY <1>6 DEF DrainOnCancel, TypeOK
    <2>4. LiveRegistered'
      BY <2>1, <2>2, <2>3 DEF WorkerInv, LiveRegistered
    <2>5. QED
      BY <1>6, <2>4 DEF DrainOnCancel, WorkerInv
  <1>7. ASSUME NEW t \in Jobs, CancelBeforeStart(t)
        PROVE  WorkerInv'
    BY <1>7 DEF CancelBeforeStart, WorkerInv, LiveRegistered, TypeOK
  <1>8. CASE UNCHANGED vars
    BY <1>8 DEF vars, WorkerInv, LiveRegistered, RegisteredLive, NeverWaitsIdle, Waiting
  <1>9. QED
    BY <1>1, <1>2, <1>3, <1>4, <1>5, <1>6, <1>7, <1>8 DEF Next

LEMMA WorkerInvHolds == Spec => []WorkerInv
  <1>1. Init => WorkerInv
    BY InitWorkerInv
  <1>2. TypeOK /\ WorkerInv /\ [Next]_vars => WorkerInv'
    BY NextWorkerInv
  <1>3. QED
    BY <1>1, <1>2, TypeCorrect, PTL DEF Spec

\* One translation at a time per user (user_queue.py:18), for every number of
\* users and jobs and every interleaving of enqueues, worker restarts,
\* failures and shutdown.
THEOREM OneJobAtATime == Spec => []OneAtATime
  <1>1. WorkerInv => OneAtATime
    BY DEF WorkerInv, LiveRegistered, OneAtATime, Live
  <1>2. QED
    BY <1>1, WorkerInvHolds, PTL

\* No lost wakeup and no idle wait: a waiting job always has a live registered
\* worker, and a worker that first runs finds an item (user_queue.py:47, 127).
THEOREM NoLostWakeup == Spec => []WorkersMatchQueues
  <1>1. TypeOK /\ WorkerInv => WaitingHasWorker
    BY DEF WorkerInv, RegisteredLive, WaitingHasWorker
  <1>2. TypeOK /\ WorkerInv => NothingLeaks
    BY DEF WorkerInv, LiveRegistered, RegisteredLive, NothingLeaks, TypeOK
  <1>3. TypeOK /\ WorkerInv => NeverWaitsIdle
    BY DEF WorkerInv, NeverWaitsIdle
  <1>4. TypeOK /\ WorkerInv => WorkersMatchQueues
    BY <1>1, <1>2, <1>3 DEF WorkersMatchQueues
  <1>5. QED
    BY <1>4, TypeCorrect, WorkerInvHolds, PTL

-----------------------------------------------------------------------------
(***************************************************************************)
(* Positions.  A job is enqueued once, so it waits at one index at most:   *)
(* jobs in a queue are owned by its user and are in the user's history.    *)
(***************************************************************************)
QueuedArrived ==
    \A u \in DOMAIN queues : \A i \in DOMAIN queues[u] :
        /\ Owner[queues[u][i]] = u
        /\ \E n \in DOMAIN arrived[u] : arrived[u][n] = queues[u][i]

PositionInv ==
    /\ QueuedArrived
    /\ PositionNeverOverstated
    /\ PositionsKeepOrder

\* Taking the head of a queue shifts the others by one.
LEMMA TailIndex ==
    ASSUME NEW s \in Seq(Jobs), s # <<>>
    PROVE  /\ Len(s) \in Nat /\ Len(s) > 0 /\ DOMAIN s = 1 .. Len(s)
           /\ DOMAIN Tail(s) = 1 .. (Len(s) - 1)
           /\ \A i \in 1 .. (Len(s) - 1) : Tail(s)[i] = s[i + 1]
           /\ Head(s) = s[1]
  OBVIOUS

LEMMA AppendIndex ==
    ASSUME NEW s \in Seq(Jobs), NEW j \in Jobs
    PROVE  /\ Len(s) \in Nat /\ DOMAIN s = 1 .. Len(s)
           /\ DOMAIN Append(s, j) = 1 .. (Len(s) + 1)
           /\ \A i \in 1 .. Len(s) : Append(s, j)[i] = s[i]
           /\ Append(s, j)[Len(s) + 1] = j
  OBVIOUS

\* What a take does to the queues: entry i of the taker's queue is the old
\* entry i + 1, the other queues are as they were.
LEMMA TakeNextShift ==
    ASSUME TypeOK, NEW t \in Jobs, Waiting(Owner[t]) # <<>>, TakeNext(t)
    PROVE  /\ Owner[t] \in DOMAIN queues
           /\ DOMAIN queues' = DOMAIN queues
           /\ \A v \in DOMAIN queues : v # Owner[t] => queues'[v] = queues[v]
           /\ Len(queues[Owner[t]]) \in Nat
           /\ DOMAIN queues[Owner[t]] = 1 .. Len(queues[Owner[t]])
           /\ DOMAIN queues'[Owner[t]] = 1 .. (Len(queues[Owner[t]]) - 1)
           /\ \A i \in DOMAIN queues'[Owner[t]] :
                 /\ i + 1 \in DOMAIN queues[Owner[t]]
                 /\ queues'[Owner[t]][i] = queues[Owner[t]][i + 1]
           /\ Head(queues[Owner[t]]) = queues[Owner[t]][1]
  <1> DEFINE u == Owner[t]
  <1>1. u \in DOMAIN queues /\ queues[u] \in Seq(Jobs) /\ queues[u] # <<>>
    BY DEF TypeOK, Waiting
  <1>2. queues'[u] = Tail(queues[u])
    BY <1>1 DEF TakeNext
  <1>3. DOMAIN queues' = DOMAIN queues
    BY DEF TakeNext
  <1>4. \A v \in DOMAIN queues : v # u => queues'[v] = queues[v]
    BY DEF TakeNext
  <1>5. QED
    BY <1>1, <1>2, <1>3, <1>4, TailIndex

LEMMA TakeNextPositionInv ==
    ASSUME TypeOK, PositionInv, NEW t \in Jobs, Waiting(Owner[t]) # <<>>, TakeNext(t),
           UNCHANGED arrived
    PROVE  PositionInv'
  <1> DEFINE u == Owner[t]
             h == Head(queues[u])
  <1>1. /\ u \in DOMAIN queues
        /\ DOMAIN queues' = DOMAIN queues
        /\ \A v \in DOMAIN queues : v # u => queues'[v] = queues[v]
        /\ DOMAIN queues[u] = 1 .. Len(queues[u]) /\ Len(queues[u]) \in Nat
        /\ DOMAIN queues'[u] = 1 .. (Len(queues[u]) - 1)
        /\ \A i \in DOMAIN queues'[u] :
                i + 1 \in DOMAIN queues[u] /\ queues'[u][i] = queues[u][i + 1]
        /\ h = queues[u][1]
    BY TakeNextShift
  <1>2. QueuedArrived'
    BY <1>1 DEF PositionInv, QueuedArrived
  <1>3. /\ DOMAIN position' = DOMAIN position \ {h}
        /\ \A k \in DOMAIN position' :
              /\ position[k] \in Nat
              /\ position'[k] = IF position[k] > 0 THEN position[k] - 1 ELSE position[k]
    BY DEF TakeNext, MoveUp, TypeOK
  <1>4. PositionNeverOverstated'
    <2> SUFFICES ASSUME NEW k \in DOMAIN position'
                 PROVE  \E i \in DOMAIN Waiting(Owner[k])' :
                            WaitsAt(k, i)' /\ position'[k] <= i - 1
      BY DEF PositionNeverOverstated
    <2>1. k \in DOMAIN position /\ k # h
      BY <1>3
    <2>2. PICK i \in DOMAIN Waiting(Owner[k]) : WaitsAt(k, i) /\ position[k] <= i - 1
      BY <2>1 DEF PositionInv, PositionNeverOverstated
    <2>3. CASE Owner[k] = u
      <3>1. i \in 1 .. Len(queues[u]) /\ queues[u][i] = k
        BY <1>1, <2>2, <2>3 DEF WaitsAt, Waiting
      <3>2. i # 1 /\ i - 1 \in DOMAIN queues'[u]
        BY <1>1, <2>1, <3>1
      <3>3. queues'[u][i - 1] = k
        BY <1>1, <3>1, <3>2
      <3>4. position'[k] <= (i - 1) - 1
        BY <1>3, <2>2, <3>1, <3>2
      <3>5. WaitsAt(k, i - 1)' /\ i - 1 \in DOMAIN Waiting(Owner[k])'
        BY <1>1, <2>3, <3>2, <3>3 DEF WaitsAt, Waiting
      <3>6. QED
        BY <3>4, <3>5
    <2>4. CASE Owner[k] # u
      <3>1. Waiting(Owner[k])' = Waiting(Owner[k])
        BY <1>1, <2>4 DEF Waiting
      <3>2. Owner[k] \in DOMAIN queues /\ i \in DOMAIN queues[Owner[k]]
        BY <2>2 DEF Waiting
      <3>3. Owner[k] \in Users
        BY <3>2 DEF TypeOK
      <3>4. queues[Owner[k]] \in Seq(Jobs)
        BY <3>2 DEF TypeOK
      <3>5. i \in Nat
        BY <3>2, <3>4
      <3>6. position'[k] <= i - 1
        BY <1>3, <2>2, <3>5
      <3>7. QED
        BY <2>2, <3>1, <3>6 DEF WaitsAt
    <2>5. QED
      BY <2>3, <2>4
  <1>5. PositionsKeepOrder'
    <2> SUFFICES ASSUME NEW j \in DOMAIN position', NEW k \in DOMAIN position',
                        NEW m \in DOMAIN Waiting(Owner[j])',
                        NEW n \in DOMAIN Waiting(Owner[j])',
                        Owner[j] = Owner[k], WaitsAt(j, m)', WaitsAt(k, n)', m < n
                 PROVE  position'[j] <= position'[k]
      BY DEF PositionsKeepOrder
    <2>1. CASE Owner[j] = u
      <3>1. /\ m \in DOMAIN queues'[u] /\ queues'[u][m] = j
            /\ n \in DOMAIN queues'[u] /\ queues'[u][n] = k
        BY <1>1, <2>1 DEF WaitsAt, Waiting
      <3>2. /\ m + 1 \in DOMAIN queues[u] /\ queues[u][m + 1] = j
            /\ n + 1 \in DOMAIN queues[u] /\ queues[u][n + 1] = k
            /\ m + 1 < n + 1
        BY <1>1, <3>1
      <3>3. position[j] <= position[k]
        <4>1. /\ WaitsAt(j, m + 1) /\ WaitsAt(k, n + 1)
              /\ m + 1 \in DOMAIN Waiting(Owner[j]) /\ n + 1 \in DOMAIN Waiting(Owner[j])
          BY <1>1, <2>1, <3>2 DEF WaitsAt, Waiting
        <4>2. j \in DOMAIN position /\ k \in DOMAIN position
          BY <1>3
        <4>3. QED
          BY <3>2, <4>1, <4>2 DEF PositionInv, PositionsKeepOrder
      <3>4. QED
        BY <1>3, <3>3
    <2>2. CASE Owner[j] # u
      <3>1. Waiting(Owner[j])' = Waiting(Owner[j])
        BY <1>1, <2>2 DEF Waiting
      <3>2. position[j] <= position[k]
        BY <1>3, <3>1 DEF PositionInv, PositionsKeepOrder, WaitsAt
      <3>3. QED
        BY <1>3, <3>2
    <2>3. QED
      BY <2>1, <2>2
  <1>6. QED
    BY <1>2, <1>4, <1>5 DEF PositionInv

LEMMA EnqueueShift ==
    ASSUME TypeOK, NEW j \in Jobs, Enqueue(j)
    PROVE  LET u == Owner[j] IN
           /\ u \in Users /\ Waiting(u) \in Seq(Jobs) /\ Len(Waiting(u)) \in Nat
           /\ DOMAIN Waiting(u) = 1 .. Len(Waiting(u))
           /\ DOMAIN queues' = DOMAIN queues \cup {u}
           /\ \A v \in DOMAIN queues : v # u => queues'[v] = queues[v]
           /\ DOMAIN Waiting(u)' = 1 .. (Len(Waiting(u)) + 1)
           /\ \A i \in 1 .. Len(Waiting(u)) : Waiting(u)'[i] = Waiting(u)[i]
           /\ Waiting(u)'[Len(Waiting(u)) + 1] = j
           /\ queues'[u] = Waiting(u)'
           /\ \A v \in Users : v # u => Waiting(v)' = Waiting(v)
  <1> DEFINE u == Owner[j]
  <1>1. u \in Users /\ Waiting(u) \in Seq(Jobs) /\ Len(Waiting(u)) \in Nat
    BY OwnerAssumption DEF TypeOK, Waiting
  <1>2. /\ DOMAIN queues' = DOMAIN queues \cup {u}
        /\ queues'[u] = Append(Waiting(u), j)
        /\ \A v \in DOMAIN queues : v # u => queues'[v] = queues[v]
    BY DEF Enqueue, Put
  <1>3. Waiting(u)' = Append(Waiting(u), j) /\ queues'[u] = Waiting(u)'
    BY <1>2 DEF Waiting
  <1>4. \A v \in Users : v # u => Waiting(v)' = Waiting(v)
    BY <1>2 DEF Waiting
  <1>5. QED
    BY <1>1, <1>2, <1>3, <1>4, AppendIndex

LEMMA EnqueuePositionInv ==
    ASSUME TypeOK, PositionInv, NEW j \in Jobs, Enqueue(j)
    PROVE  PositionInv'
  <1> DEFINE u == Owner[j]
             len == Len(Waiting(u))
  <1>1. /\ u \in Users /\ Waiting(u) \in Seq(Jobs) /\ len \in Nat
        /\ DOMAIN Waiting(u) = 1 .. len
        /\ DOMAIN queues' = DOMAIN queues \cup {u}
        /\ \A v \in DOMAIN queues : v # u => queues'[v] = queues[v]
        /\ DOMAIN Waiting(u)' = 1 .. (len + 1)
        /\ \A i \in 1 .. len : Waiting(u)'[i] = Waiting(u)[i]
        /\ Waiting(u)'[len + 1] = j
        /\ queues'[u] = Waiting(u)'
        /\ \A v \in Users : v # u => Waiting(v)' = Waiting(v)
    BY EnqueueShift
  <1>2. /\ DOMAIN position' = DOMAIN position \cup {j}
        /\ position'[j] = len
        /\ \A k \in DOMAIN position : k # j => position'[k] = position[k]
    BY DEF Enqueue, Put, EnqueuePosition
  <1>3. /\ arrived' = [arrived EXCEPT ![u] = Append(@, j)]
        /\ \A i \in DOMAIN arrived[u] : arrived[u][i] # j
        /\ arrived[u] \in Seq(Jobs)
    BY <1>1 DEF Enqueue, TypeOK
  <1>4. /\ DOMAIN arrived'[u] = 1 .. (Len(arrived[u]) + 1)
        /\ Len(arrived[u]) \in Nat /\ DOMAIN arrived[u] = 1 .. Len(arrived[u])
        /\ \A n \in DOMAIN arrived[u] : arrived'[u][n] = arrived[u][n]
        /\ arrived'[u][Len(arrived[u]) + 1] = j
        /\ \A v \in Users : v # u => arrived'[v] = arrived[v]
    BY <1>1, <1>3, AppendIndex DEF TypeOK
  <1>5. \A i \in 1 .. len : /\ Waiting(u)[i] # j
                           /\ Owner[Waiting(u)[i]] = u
                           /\ \E n \in DOMAIN arrived[u] : arrived[u][n] = Waiting(u)[i]
    BY <1>1, <1>3 DEF PositionInv, QueuedArrived, Waiting
  <1>6. QueuedArrived'
    <2> SUFFICES ASSUME NEW v \in DOMAIN queues', NEW i \in DOMAIN queues'[v]
                 PROVE  /\ Owner[queues'[v][i]] = v
                        /\ \E n \in DOMAIN arrived'[v] : arrived'[v][n] = queues'[v][i]
      BY DEF QueuedArrived
    <2>1. CASE v = u /\ i \in 1 .. len
      BY <1>1, <1>4, <1>5, <2>1
    <2>2. CASE v = u /\ i = len + 1
      BY <1>1, <1>4, <2>2
    <2>3. CASE v # u
      <3>1. v \in DOMAIN queues /\ v \in Users /\ queues'[v] = queues[v]
        BY <1>1, <2>3 DEF TypeOK
      <3>2. QED
        BY <1>4, <2>3, <3>1 DEF PositionInv, QueuedArrived
    <2>4. QED
      BY <1>1, <2>1, <2>2, <2>3
  <1>7. \A k \in DOMAIN position : Owner[k] \in Users /\ k \in Jobs
    BY OwnerAssumption DEF TypeOK
  \* An index at which a job other than j waits is an old one.
  <1>8. ASSUME NEW k \in Jobs, k # j, NEW i \in DOMAIN Waiting(Owner[k])', WaitsAt(k, i)'
        PROVE  i \in DOMAIN Waiting(Owner[k]) /\ WaitsAt(k, i)
    <2>1. CASE Owner[k] = u
      BY <1>1, <1>8, <2>1 DEF WaitsAt
    <2>2. CASE Owner[k] # u
      BY <1>1, <1>8, <2>2, OwnerAssumption DEF WaitsAt
    <2>3. QED
      BY <2>1, <2>2
  <1>9. ASSUME NEW k \in Jobs, NEW i \in DOMAIN Waiting(Owner[k]), WaitsAt(k, i)
        PROVE  i \in DOMAIN Waiting(Owner[k])' /\ WaitsAt(k, i)'
    <2>1. CASE Owner[k] = u
      BY <1>1, <1>9, <2>1 DEF WaitsAt
    <2>2. CASE Owner[k] # u
      BY <1>1, <1>9, <2>2, OwnerAssumption DEF WaitsAt
    <2>3. QED
      BY <2>1, <2>2
  <1>10. PositionNeverOverstated'
    <2> SUFFICES ASSUME NEW k \in DOMAIN position'
                 PROVE  \E i \in DOMAIN Waiting(Owner[k])' :
                            WaitsAt(k, i)' /\ position'[k] <= i - 1
      BY DEF PositionNeverOverstated
    <2>1. CASE k = j
      <3>1. PICK n \in Nat : n = len + 1
        BY <1>1
      <3>2. u \in DOMAIN queues' /\ n \in DOMAIN queues'[u] /\ queues'[u][n] = j
        BY <1>1, <3>1
      <3>3. n \in DOMAIN Waiting(Owner[k])' /\ WaitsAt(k, n)'
        BY <2>1, <3>2 DEF WaitsAt, Waiting
      <3>4. position'[k] <= n - 1
        BY <1>1, <1>2, <2>1, <3>1
      <3>5. QED
        BY <3>3, <3>4
    <2>2. CASE k # j
      <3>1. k \in DOMAIN position /\ k \in Jobs
        BY <1>2, <1>7, <2>2
      <3>2. PICK i \in DOMAIN Waiting(Owner[k]) : WaitsAt(k, i) /\ position[k] <= i - 1
        BY <3>1 DEF PositionInv, PositionNeverOverstated
      <3>3. QED
        BY <1>2, <1>9, <2>2, <3>1, <3>2
    <2>3. QED
      BY <2>1, <2>2
  <1>11. PositionsKeepOrder'
    <2> SUFFICES ASSUME NEW h \in DOMAIN position', NEW k \in DOMAIN position',
                        NEW m \in DOMAIN Waiting(Owner[h])',
                        NEW n \in DOMAIN Waiting(Owner[h])',
                        Owner[h] = Owner[k], WaitsAt(h, m)', WaitsAt(k, n)', m < n
                 PROVE  position'[h] <= position'[k]
      BY DEF PositionsKeepOrder
    <2>1. h \in Jobs /\ k \in Jobs
      BY <1>2, <1>7
    <2>2. CASE h = j
      <3>1. Waiting(u)'[m] = j /\ m \in 1 .. (len + 1) /\ n \in 1 .. (len + 1)
        BY <1>1, <2>2 DEF WaitsAt
      <3>2. m \notin 1 .. len
        <4>1. SUFFICES ASSUME m \in 1 .. len
                       PROVE  FALSE
          OBVIOUS
        <4>2. Waiting(u)'[m] = Waiting(u)[m]
          BY <1>1, <4>1
        <4>3. Waiting(u)[m] # j
          BY <1>5, <4>1
        <4>4. QED
          BY <3>1, <4>2, <4>3
      <3>3. m = len + 1 /\ n <= len + 1
        BY <1>1, <3>1, <3>2
      <3>4. QED
        BY <1>1, <3>1, <3>3
    <2>3. CASE h # j /\ k = j
      <3>1. PICK i \in DOMAIN Waiting(Owner[h]) : WaitsAt(h, i) /\ position[h] <= i - 1
        BY <1>2, <2>3 DEF PositionInv, PositionNeverOverstated
      <3>2. h \in DOMAIN position /\ Owner[h] = u
        BY <1>2, <2>3
      <3>3. i \in 1 .. len
        BY <1>1, <3>1, <3>2
      <3>4. position[h] \in Nat /\ position'[h] = position[h]
        BY <1>2, <2>3, <3>2 DEF TypeOK
      <3>5. position[h] <= i - 1
        BY <3>1
      <3>6. position[h] <= len
        BY <1>1, <3>3, <3>4, <3>5
      <3>7. QED
        BY <1>2, <2>3, <3>4, <3>6
    <2>4. CASE h # j /\ k # j
      <3>1. /\ m \in DOMAIN Waiting(Owner[h]) /\ WaitsAt(h, m)
            /\ n \in DOMAIN Waiting(Owner[h]) /\ WaitsAt(k, n)
        BY <1>8, <2>1, <2>4
      <3>2. position[h] <= position[k]
        BY <1>2, <2>4, <3>1 DEF PositionInv, PositionsKeepOrder
      <3>3. QED
        BY <1>2, <2>4, <3>2
    <2>5. QED
      BY <2>2, <2>3, <2>4
  <1>12. QED
    BY <1>6, <1>10, <1>11 DEF PositionInv

LEMMA InitPositionInv == Init => PositionInv
  <1> SUFFICES ASSUME Init
               PROVE  PositionInv
    OBVIOUS
  <1>1. DOMAIN queues = {} /\ DOMAIN position = {}
    BY DEF Init
  <1>2. QED
    BY <1>1 DEF PositionInv, QueuedArrived, PositionNeverOverstated, PositionsKeepOrder

\* A worker that retires, or drains at shutdown, drops a queue and leaves no
\* entry of that queue in the map.
LEMMA DropQueuePositionInv ==
    ASSUME TypeOK, PositionInv, NEW u \in Users,
           queues' = [v \in DOMAIN queues \ {u} |-> queues[v]],
           DOMAIN position' \subseteq DOMAIN position,
           \A k \in DOMAIN position' : Owner[k] # u /\ position'[k] = position[k],
           UNCHANGED arrived
    PROVE  PositionInv'
  <1>1. \A v \in Users : v # u => Waiting(v)' = Waiting(v)
    BY DEF Waiting
  <1>2. \A k \in DOMAIN position' : /\ k \in DOMAIN position
                                    /\ Owner[k] \in Users
                                    /\ Waiting(Owner[k])' = Waiting(Owner[k])
    BY <1>1, OwnerAssumption DEF TypeOK
  <1>3. QueuedArrived'
    BY DEF PositionInv, QueuedArrived
  <1>4. PositionNeverOverstated'
    BY <1>2 DEF PositionInv, PositionNeverOverstated, WaitsAt
  <1>5. PositionsKeepOrder'
    BY <1>2 DEF PositionInv, PositionsKeepOrder, WaitsAt
  <1>6. QED
    BY <1>3, <1>4, <1>5 DEF PositionInv

\* The entries that stay in the map after u's queue is drained are not u's.
LEMMA DrainedEntries ==
    ASSUME TypeOK, PositionInv, NEW u \in DOMAIN queues, NEW k \in DOMAIN position,
           k \notin Range(queues[u])
    PROVE  Owner[k] # u
  <1> SUFFICES ASSUME Owner[k] = u
               PROVE  FALSE
    OBVIOUS
  <1>1. PICK i \in DOMAIN Waiting(Owner[k]) : WaitsAt(k, i)
    BY DEF PositionInv, PositionNeverOverstated
  <1>2. i \in DOMAIN queues[u] /\ queues[u][i] = k
    BY <1>1 DEF WaitsAt, Waiting
  <1>3. QED
    BY <1>2 DEF Range

LEMMA NextPositionInv ==
    TypeOK /\ WorkerInv /\ PositionInv /\ [Next]_vars => PositionInv'
  <1> SUFFICES ASSUME TypeOK, WorkerInv, PositionInv, [Next]_vars
               PROVE  PositionInv'
    OBVIOUS
  <1>1. ASSUME NEW j \in Jobs, Enqueue(j)
        PROVE  PositionInv'
    BY <1>1, EnqueuePositionInv
  <1>2. ASSUME NEW j \in Jobs, CancelPending(j)
        PROVE  PositionInv'
    <2>1. position' = [k \in DOMAIN position \ {j} |-> position[k]]
      BY <1>2 DEF CancelPending, Del, Restrict
    <2>2. UNCHANGED <<queues, arrived>>
      BY <1>2 DEF CancelPending, history
    <2>3. QED
      BY <2>1, <2>2 DEF PositionInv, QueuedArrived, PositionNeverOverstated,
                        PositionsKeepOrder, WaitsAt, Waiting
  <1>3. ASSUME NEW t \in Jobs, WorkerStart(t)
        PROVE  PositionInv'
    BY <1>3, TakeNextPositionInv DEF WorkerStart
  <1>4. ASSUME NEW t \in Jobs, ProcessEnds(t)
        PROVE  PositionInv'
    <2> DEFINE u == Owner[t]
    <2>1. CASE Waiting(u) # <<>> /\ TakeNext(t)
      BY <1>4, <2>1, TakeNextPositionInv DEF ProcessEnds
    <2>2. CASE Waiting(u) = <<>> /\ Retire(t)
      <3>1. u \in Users /\ queues' = [v \in DOMAIN queues \ {u} |-> queues[v]]
        BY <2>2, OwnerAssumption DEF Retire, Del, Restrict
      <3>2. \A k \in DOMAIN position : Owner[k] # u
        <4> SUFFICES ASSUME NEW k \in DOMAIN position, Owner[k] = u
                     PROVE  FALSE
          OBVIOUS
        <4>1. PICK i \in DOMAIN Waiting(Owner[k]) : WaitsAt(k, i)
          BY DEF PositionInv, PositionNeverOverstated
        <4>2. i \in DOMAIN << >>
          BY <2>2, <4>1
        <4>3. QED
          BY <4>2
      <3>3. UNCHANGED <<position, arrived>>
        BY <1>4, <2>2 DEF ProcessEnds, Retire
      <3>4. QED
        BY <3>1, <3>2, <3>3, DropQueuePositionInv
    <2>3. QED
      BY <1>4, <2>1, <2>2 DEF ProcessEnds
  <1>5. CASE Shutdown
    BY <1>5 DEF Shutdown, PositionInv, QueuedArrived, PositionNeverOverstated,
                PositionsKeepOrder, WaitsAt, Waiting, history
  <1>6. ASSUME NEW t \in Jobs, DrainOnCancel(t)
        PROVE  PositionInv'
    <2> DEFINE u == Owner[t]
    <2>1. u \in Users /\ queues' = [v \in DOMAIN queues \ {u} |-> queues[v]]
      BY <1>6, OwnerAssumption DEF DrainOnCancel, Del, Restrict
    <2>2. position' = [k \in DOMAIN position \ Range(queues[u]) |-> position[k]]
      BY <1>6 DEF DrainOnCancel, Del, Restrict
    <2>3. UNCHANGED arrived
      BY <1>6 DEF DrainOnCancel, history
    <2>4. CASE u \in DOMAIN queues
      BY <2>1, <2>2, <2>3, <2>4, DrainedEntries, DropQueuePositionInv
    <2>5. CASE u \notin DOMAIN queues
      <3>1. \A k \in DOMAIN position : Owner[k] # u
        <4> SUFFICES ASSUME NEW k \in DOMAIN position, Owner[k] = u
                     PROVE  FALSE
          OBVIOUS
        <4>1. PICK i \in DOMAIN Waiting(Owner[k]) : WaitsAt(k, i)
          BY DEF PositionInv, PositionNeverOverstated
        <4>2. i \in DOMAIN << >>
          BY <2>5, <4>1 DEF Waiting
        <4>3. QED
          BY <4>2
      <3>2. QED
        BY <2>1, <2>2, <2>3, <3>1, DropQueuePositionInv
    <2>6. QED
      BY <2>4, <2>5
  <1>7. ASSUME NEW t \in Jobs, CancelBeforeStart(t)
        PROVE  PositionInv'
    BY <1>7 DEF CancelBeforeStart, PositionInv, QueuedArrived, PositionNeverOverstated,
                PositionsKeepOrder, WaitsAt, Waiting, history
  <1>8. CASE UNCHANGED vars
    BY <1>8 DEF vars, history, PositionInv, QueuedArrived, PositionNeverOverstated,
                PositionsKeepOrder, WaitsAt, Waiting
  <1>9. QED
    BY <1>1, <1>2, <1>3, <1>4, <1>5, <1>6, <1>7, <1>8 DEF Next

\* The positions shown to several users at once are never too large and never
\* in the wrong order for one user, although the map is decremented for every
\* user at every take (user_queue.py:97-100).
THEOREM PositionsOptimistic == Spec => []PositionsHonest
  <1>1. Init => PositionInv
    BY InitPositionInv
  <1>2. TypeOK /\ WorkerInv /\ PositionInv /\ [Next]_vars => PositionInv'
    BY NextPositionInv
  <1>3. PositionInv => PositionsHonest
    BY DEF PositionInv, PositionsHonest
  <1>4. QED
    BY <1>1, <1>2, <1>3, TypeCorrect, WorkerInvHolds, PTL DEF Spec

-----------------------------------------------------------------------------
(***************************************************************************)
(* A single user.  While nobody else has ever enqueued, every tracked job  *)
(* is that user's and only that user's worker counts positions down.       *)
(***************************************************************************)
Sole(u) == \A v \in Users \ {u} : arrived[v] = <<>>

\* A queue that holds a job belongs to the only user there has been.
LEMMA SoleOwner ==
    ASSUME TypeOK, QueuedArrived, NEW u \in Users, Sole(u),
           NEW v \in DOMAIN queues, NEW i \in DOMAIN queues[v]
    PROVE  v = u
  <1> SUFFICES ASSUME v # u
               PROVE  FALSE
    OBVIOUS
  <1>1. arrived[v] = <<>>
    BY DEF Sole, TypeOK
  <1>2. PICK n \in DOMAIN arrived[v] : arrived[v][n] = queues[v][i]
    BY DEF QueuedArrived
  <1>3. n \in DOMAIN << >>
    BY <1>1, <1>2
  <1>4. QED
    BY <1>3

\* A tracked job belongs to the only user there has been.
LEMMA SoleTracked ==
    ASSUME TypeOK, PositionInv, NEW u \in Users, Sole(u), NEW k \in DOMAIN position
    PROVE  Owner[k] = u
  <1>1. PICK i \in DOMAIN Waiting(Owner[k]) : WaitsAt(k, i)
    BY DEF PositionInv, PositionNeverOverstated
  <1>2. Owner[k] \in DOMAIN queues /\ i \in DOMAIN queues[Owner[k]]
    <2>1. SUFFICES ASSUME Owner[k] \notin DOMAIN queues
                   PROVE  FALSE
      BY <1>1 DEF Waiting
    <2>2. i \in DOMAIN << >>
      BY <1>1, <2>1 DEF Waiting
    <2>3. QED
      BY <2>2
  <1>3. QED
    BY <1>2, SoleOwner DEF PositionInv

LEMMA TakeNextSole ==
    ASSUME TypeOK, PositionInv, SoleUserExact,
           NEW t \in Jobs, Waiting(Owner[t]) # <<>>, TakeNext(t), UNCHANGED arrived
    PROVE  SoleUserExact'
  <1> SUFFICES ASSUME NEW u \in Users, Sole(u)',
                      NEW k \in DOMAIN position', NEW i \in DOMAIN Waiting(Owner[k])',
                      WaitsAt(k, i)'
               PROVE  position'[k] = i - 1
    BY DEF SoleUserExact, PositionExact, Sole
  <1>1. Sole(u) /\ PositionExact
    BY DEF Sole, SoleUserExact
  <1> DEFINE w == Owner[t]
             h == Head(queues[w])
  <1>2. /\ w \in DOMAIN queues
        /\ DOMAIN queues' = DOMAIN queues
        /\ DOMAIN queues[w] = 1 .. Len(queues[w]) /\ Len(queues[w]) \in Nat
        /\ DOMAIN queues'[w] = 1 .. (Len(queues[w]) - 1)
        /\ \A m \in DOMAIN queues'[w] :
                m + 1 \in DOMAIN queues[w] /\ queues'[w][m] = queues[w][m + 1]
    BY TakeNextShift
  <1>3. /\ k \in DOMAIN position /\ position[k] \in Nat
        /\ position'[k] = IF position[k] > 0 THEN position[k] - 1 ELSE position[k]
    BY DEF TakeNext, MoveUp, TypeOK
  <1>4. w = u
    <2>1. queues[w] # <<>> /\ queues[w] \in Seq(Jobs)
      BY <1>2 DEF Waiting, TypeOK
    <2>2. 1 \in DOMAIN queues[w]
      BY <2>1
    <2>3. QED
      BY <1>1, <1>2, <2>2, SoleOwner DEF PositionInv
  <1>5. Owner[k] = w
    BY <1>1, <1>3, <1>4, SoleTracked
  <1>6. i \in DOMAIN queues'[w] /\ queues'[w][i] = k
    BY <1>2, <1>5 DEF WaitsAt, Waiting
  <1>7. i \in Nat /\ i >= 1 /\ i + 1 \in DOMAIN queues[w] /\ queues[w][i + 1] = k
    BY <1>2, <1>6
  <1>8. i + 1 \in DOMAIN Waiting(Owner[k]) /\ WaitsAt(k, i + 1)
    BY <1>2, <1>5, <1>7 DEF WaitsAt, Waiting
  <1>9. position[k] = (i + 1) - 1
    BY <1>1, <1>3, <1>8 DEF PositionExact
  <1>10. QED
    BY <1>3, <1>7, <1>9

LEMMA EnqueueSole ==
    ASSUME TypeOK, PositionInv, SoleUserExact, NEW j \in Jobs, Enqueue(j)
    PROVE  SoleUserExact'
  <1> SUFFICES ASSUME NEW u \in Users, Sole(u)',
                      NEW k \in DOMAIN position', NEW i \in DOMAIN Waiting(Owner[k])',
                      WaitsAt(k, i)'
               PROVE  position'[k] = i - 1
    BY DEF SoleUserExact, PositionExact, Sole
  <1> DEFINE w == Owner[j]
             len == Len(Waiting(w))
  <1>1. /\ w \in Users /\ len \in Nat
        /\ DOMAIN Waiting(w) = 1 .. len
        /\ DOMAIN Waiting(w)' = 1 .. (len + 1)
        /\ \A m \in 1 .. len : Waiting(w)'[m] = Waiting(w)[m]
        /\ Waiting(w)'[len + 1] = j
    BY EnqueueShift
  <1>2. /\ DOMAIN position' = DOMAIN position \cup {j}
        /\ position'[j] = len
        /\ \A m \in DOMAIN position : m # j => position'[m] = position[m]
    BY DEF Enqueue, Put, EnqueuePosition
  <1>3. /\ arrived[w] \in Seq(Jobs)
        /\ arrived'[w] = Append(arrived[w], j)
        /\ \A v \in Users : v # w => arrived'[v] = arrived[v]
        /\ \A m \in DOMAIN arrived[w] : arrived[w][m] # j
    BY <1>1 DEF Enqueue, TypeOK
  <1>4. w = u
    <2>1. arrived'[w] # <<>>
      BY <1>3
    <2>2. QED
      BY <1>1, <2>1 DEF Sole
  <1>5. Sole(u) /\ PositionExact
    BY <1>3, <1>4 DEF Sole, SoleUserExact
  <1>6. CASE k = j
    <2>1. i \in 1 .. (len + 1) /\ Waiting(w)'[i] = j
      BY <1>1, <1>6 DEF WaitsAt
    <2>2. i \notin 1 .. len
      <3>1. SUFFICES ASSUME i \in 1 .. len
                     PROVE  FALSE
        OBVIOUS
      <3>2. Waiting(w)[i] = j /\ i \in DOMAIN Waiting(w)
        BY <1>1, <2>1, <3>1
      <3>3. w \in DOMAIN queues /\ i \in DOMAIN queues[w] /\ queues[w][i] = j
        <4>1. SUFFICES ASSUME w \notin DOMAIN queues
                       PROVE  FALSE
          BY <3>2 DEF Waiting
        <4>2. i \in DOMAIN << >>
          BY <3>2, <4>1 DEF Waiting
        <4>3. QED
          BY <4>2
      <3>4. QED
        BY <1>3, <3>3 DEF PositionInv, QueuedArrived
    <2>3. i = len + 1
      BY <1>1, <2>1, <2>2
    <2>4. QED
      BY <1>1, <1>2, <1>6, <2>3
  <1>7. CASE k # j
    <2>1. k \in DOMAIN position /\ position'[k] = position[k]
      BY <1>2, <1>7
    <2>2. Owner[k] = w
      BY <1>4, <1>5, <2>1, SoleTracked
    <2>3. i \in 1 .. (len + 1) /\ Waiting(w)'[i] = k
      BY <1>1, <2>2 DEF WaitsAt
    <2>4. i \in 1 .. len
      BY <1>1, <1>7, <2>3
    <2>5. i \in DOMAIN Waiting(Owner[k]) /\ WaitsAt(k, i)
      BY <1>1, <2>2, <2>3, <2>4 DEF WaitsAt
    <2>6. position[k] = i - 1
      BY <1>5, <2>1, <2>5 DEF PositionExact
    <2>7. QED
      BY <2>1, <2>6
  <1>8. QED
    BY <1>6, <1>7

\* Dropping tracking entries, or whole queues, changes no position and no index.
LEMMA DropSole ==
    ASSUME SoleUserExact, UNCHANGED arrived,
           DOMAIN position' \subseteq DOMAIN position,
           \A k \in DOMAIN position' : position'[k] = position[k],
           DOMAIN queues' \subseteq DOMAIN queues,
           \A v \in DOMAIN queues' : queues'[v] = queues[v]
    PROVE  SoleUserExact'
  <1> SUFFICES ASSUME NEW u \in Users, Sole(u)',
                      NEW k \in DOMAIN position', NEW i \in DOMAIN Waiting(Owner[k])',
                      WaitsAt(k, i)'
               PROVE  position'[k] = i - 1
    BY DEF SoleUserExact, PositionExact, Sole
  <1>1. PositionExact
    BY DEF Sole, SoleUserExact
  <1>2. Owner[k] \in DOMAIN queues'
    <2>1. SUFFICES ASSUME Owner[k] \notin DOMAIN queues'
                   PROVE  FALSE
      OBVIOUS
    <2>2. i \in DOMAIN << >>
      BY <2>1 DEF Waiting
    <2>3. QED
      BY <2>2
  <1>3. Waiting(Owner[k])' = Waiting(Owner[k])
    BY <1>2 DEF Waiting
  <1>4. QED
    BY <1>1, <1>3 DEF PositionExact, WaitsAt

LEMMA NextSole ==
    TypeOK /\ PositionInv /\ SoleUserExact /\ [Next]_vars => SoleUserExact'
  <1> SUFFICES ASSUME TypeOK, PositionInv, SoleUserExact, [Next]_vars
               PROVE  SoleUserExact'
    OBVIOUS
  <1>1. ASSUME NEW j \in Jobs, Enqueue(j)
        PROVE  SoleUserExact'
    BY <1>1, EnqueueSole
  <1>2. ASSUME NEW j \in Jobs, CancelPending(j)
        PROVE  SoleUserExact'
    BY <1>2, DropSole DEF CancelPending, Del, Restrict, history
  <1>3. ASSUME NEW t \in Jobs, WorkerStart(t)
        PROVE  SoleUserExact'
    BY <1>3, TakeNextSole DEF WorkerStart
  <1>4. ASSUME NEW t \in Jobs, ProcessEnds(t)
        PROVE  SoleUserExact'
    <2>1. CASE Waiting(Owner[t]) # <<>> /\ TakeNext(t)
      BY <1>4, <2>1, TakeNextSole DEF ProcessEnds
    <2>2. CASE Retire(t)
      <3>1. UNCHANGED <<position, arrived>>
        BY <1>4, <2>2 DEF ProcessEnds, Retire
      <3>2. queues' = [v \in DOMAIN queues \ {Owner[t]} |-> queues[v]]
        BY <2>2 DEF Retire, Del, Restrict
      <3>3. QED
        BY <3>1, <3>2, DropSole
    <2>3. QED
      BY <1>4, <2>1, <2>2 DEF ProcessEnds
  <1>5. CASE Shutdown
    BY <1>5, DropSole DEF Shutdown, history
  <1>6. ASSUME NEW t \in Jobs, DrainOnCancel(t)
        PROVE  SoleUserExact'
    <2>1. queues' = [v \in DOMAIN queues \ {Owner[t]} |-> queues[v]]
      BY <1>6 DEF DrainOnCancel, Del, Restrict
    <2>2. position' = [k \in DOMAIN position \ Range(queues[Owner[t]]) |-> position[k]]
      BY <1>6 DEF DrainOnCancel, Del, Restrict
    <2>3. UNCHANGED arrived
      BY <1>6 DEF DrainOnCancel, history
    <2>4. QED
      BY <2>1, <2>2, <2>3, DropSole
  <1>7. ASSUME NEW t \in Jobs, CancelBeforeStart(t)
        PROVE  SoleUserExact'
    BY <1>7, DropSole DEF CancelBeforeStart, history
  <1>8. CASE UNCHANGED vars
    BY <1>8, DropSole DEF vars, history
  <1>9. QED
    BY <1>1, <1>2, <1>3, <1>4, <1>5, <1>6, <1>7, <1>8 DEF Next

\* As long as one user has used the queue the displayed positions are the true
\* indices, through every take, cancel and retirement (user_queue.py:38, 97-100).
THEOREM PositionsExactAlone == Spec => []SoleUserExact
  <1>1. Init => SoleUserExact
    <2>1. Init => DOMAIN position = {}
      BY DEF Init
    <2>2. QED
      BY <2>1 DEF SoleUserExact, PositionExact
  <1>2. Init => PositionInv
    BY InitPositionInv
  <1>3. TypeOK /\ WorkerInv /\ PositionInv /\ [Next]_vars => PositionInv'
    BY NextPositionInv
  <1>4. TypeOK /\ PositionInv /\ SoleUserExact /\ [Next]_vars => SoleUserExact'
    BY NextSole
  <1>5. QED
    BY <1>1, <1>2, <1>3, <1>4, TypeCorrect, WorkerInvHolds, PTL DEF Spec

-----------------------------------------------------------------------------
(***************************************************************************)
(* Refinement.  What waits is the part of the log that was not begun, and  *)
(* what was begun and not finished is what the busy worker has at hand.    *)
(***************************************************************************)
LogInv ==
    \A u \in Users :
        /\ Len(arrived[u]) = Len(started[u]) + Len(Waiting(u))
        /\ \A i \in 1 .. Len(Waiting(u)) :
                arrived[u][Len(started[u]) + i] = Waiting(u)[i]

BusyInv ==
    \A t \in Jobs : task[t] = "busy" =>
        LET u == Owner[t] IN
        /\ Len(started[u]) = Len(ended[u]) + 1
        /\ started[u][Len(started[u])] = current[t]

IdleInv ==
    \A u \in Users :
        (\A t \in Jobs : task[t] = "busy" => Owner[t] # u)
            => Len(started[u]) = Len(ended[u])

ServiceInv == ~stopping => LogInv /\ BusyInv /\ IdleInv

\* Appending to a log leaves what it had in place.
LEMMA AppendLog ==
    ASSUME NEW s \in Seq(Jobs), NEW j \in Jobs
    PROVE  /\ Len(s) \in Nat
           /\ Len(Append(s, j)) = Len(s) + 1
           /\ \A i \in 1 .. Len(s) : Append(s, j)[i] = s[i]
           /\ Append(s, j)[Len(s) + 1] = j
  OBVIOUS

\* The length of a queue that lost its head.
LEMMA TailLog ==
    ASSUME NEW s \in Seq(Jobs), s # <<>>
    PROVE  /\ Len(s) \in Nat /\ Len(s) > 0
           /\ Len(Tail(s)) = Len(s) - 1
           /\ \A i \in 1 .. (Len(s) - 1) : Tail(s)[i] = s[i + 1]
           /\ Head(s) = s[1] /\ Head(s) \in Jobs
  OBVIOUS

\* Counting when the head of a queue of w jobs moves to a log of s of a jobs.
LEMMA ShiftOut ==
    ASSUME NEW a \in Nat, NEW s \in Nat, NEW w \in Nat, a = s + w, w > 0
    PROVE  /\ s < a
           /\ a = (s + 1) + (w - 1)
           /\ \A i \in 1 .. (w - 1) : i + 1 \in 1 .. w /\ (s + 1) + i = s + (i + 1)
  OBVIOUS

\* Counting when a job joins a queue of w jobs behind a log of s of a jobs.
LEMMA ShiftIn ==
    ASSUME NEW a \in Nat, NEW s \in Nat, NEW w \in Nat, a = s + w
    PROVE  /\ a + 1 = s + (w + 1)
           /\ \A i \in 1 .. (w + 1) : i # w + 1 => i \in 1 .. w /\ s + i \in 1 .. a
  OBVIOUS

LEMMA LogTypes ==
    ASSUME TypeOK, NEW u \in Users
    PROVE  /\ Waiting(u) \in Seq(Jobs) /\ Len(Waiting(u)) \in Nat
           /\ arrived[u] \in Seq(Jobs) /\ Len(arrived[u]) \in Nat
           /\ started[u] \in Seq(Jobs) /\ Len(started[u]) \in Nat
           /\ ended[u] \in Seq(Jobs) /\ Len(ended[u]) \in Nat
  <1>1. Waiting(u) \in Seq(Jobs)
    BY DEF Waiting, TypeOK
  <1>2. QED
    BY <1>1 DEF TypeOK

\* A take moves the head of the queue to the end of what was begun.
LEMMA TakeNextLog ==
    ASSUME TypeOK, NEW t \in Jobs, Waiting(Owner[t]) # <<>>, TakeNext(t)
    PROVE  LET u == Owner[t] IN
           /\ u \in Users
           /\ Waiting(u)' = Tail(Waiting(u))
           /\ started' = [started EXCEPT ![u] = Append(@, Head(Waiting(u)))]
           /\ task' = [task EXCEPT ![t] = "busy"]
           /\ current' = [current EXCEPT ![t] = Head(Waiting(u))]
           /\ \A v \in Users : v # u => Waiting(v)' = Waiting(v)
  <1> DEFINE u == Owner[t]
  <1>1. u \in Users /\ u \in DOMAIN queues /\ Waiting(u) = queues[u]
    BY OwnerAssumption DEF Waiting
  <1>2. QED
    BY <1>1 DEF TakeNext, Waiting

LEMMA TakeNextLogInv ==
    ASSUME TypeOK, LogInv, NEW t \in Jobs, Waiting(Owner[t]) # <<>>, TakeNext(t),
           UNCHANGED arrived
    PROVE  /\ LogInv'
           /\ Len(started[Owner[t]]) < Len(arrived[Owner[t]])
           /\ Head(Waiting(Owner[t])) = arrived[Owner[t]][Len(started[Owner[t]]) + 1]
  <1> DEFINE u == Owner[t]
             w == Waiting(u)
  <1>1. /\ u \in Users
        /\ Waiting(u)' = Tail(w)
        /\ started' = [started EXCEPT ![u] = Append(@, Head(w))]
        /\ \A v \in Users : v # u => Waiting(v)' = Waiting(v)
    BY TakeNextLog
  <1>2. /\ w \in Seq(Jobs) /\ Len(w) \in Nat /\ Len(arrived[u]) \in Nat
        /\ started[u] \in Seq(Jobs) /\ Len(started[u]) \in Nat
    BY <1>1, LogTypes
  <1>3. /\ Len(w) > 0 /\ Len(Tail(w)) = Len(w) - 1
        /\ \A i \in 1 .. (Len(w) - 1) : Tail(w)[i] = w[i + 1]
        /\ Head(w) = w[1] /\ Head(w) \in Jobs
    BY <1>2, TailLog
  <1>4. started'[u] = Append(started[u], Head(w))
    BY <1>1 DEF TypeOK
  <1>5. Len(started'[u]) = Len(started[u]) + 1
    BY <1>2, <1>3, <1>4, AppendLog
  <1>6. /\ Len(arrived[u]) = Len(started[u]) + Len(w)
        /\ \A i \in 1 .. Len(w) : arrived[u][Len(started[u]) + i] = w[i]
    BY <1>1 DEF LogInv
  <1>7. /\ Len(started[u]) < Len(arrived[u])
         /\ Len(arrived[u]) = (Len(started[u]) + 1) + (Len(w) - 1)
         /\ \A i \in 1 .. (Len(w) - 1) :
                /\ i + 1 \in 1 .. Len(w)
                /\ (Len(started[u]) + 1) + i = Len(started[u]) + (i + 1)
    BY <1>2, <1>3, <1>6, ShiftOut
  <1>8. LogInv'
    <2> SUFFICES ASSUME NEW v \in Users
                 PROVE  /\ Len(arrived[v]) = Len(started'[v]) + Len(Waiting(v)')
                        /\ \A i \in 1 .. Len(Waiting(v)') :
                              arrived[v][Len(started'[v]) + i] = Waiting(v)'[i]
      BY DEF LogInv
    <2>1. CASE v = u
      <3>1. Len(Waiting(v)') = Len(w) - 1 /\ Len(started'[v]) = Len(started[u]) + 1
        BY <1>1, <1>3, <1>5, <2>1
      <3>2. Len(arrived[v]) = Len(started'[v]) + Len(Waiting(v)')
        BY <1>7, <2>1, <3>1
      <3>3. ASSUME NEW i \in 1 .. Len(Waiting(v)')
            PROVE  arrived[v][Len(started'[v]) + i] = Waiting(v)'[i]
        <4>1. i \in 1 .. (Len(w) - 1) /\ i + 1 \in 1 .. Len(w)
          BY <1>7, <3>1
        <4>2. Len(started'[v]) + i = Len(started[u]) + (i + 1)
          BY <1>7, <3>1, <4>1
        <4>3. arrived[u][Len(started[u]) + (i + 1)] = w[i + 1]
          BY <1>6, <4>1
        <4>4. Waiting(v)'[i] = w[i + 1]
          BY <1>1, <1>3, <2>1, <4>1
        <4>5. QED
          BY <2>1, <4>2, <4>3, <4>4
      <3>4. QED
        BY <3>2, <3>3
    <2>2. CASE v # u
      <3>1. started'[v] = started[v] /\ Waiting(v)' = Waiting(v)
        BY <1>1, <2>2 DEF TypeOK
      <3>2. QED
        BY <3>1 DEF LogInv
    <2>3. QED
      BY <2>1, <2>2
  <1>9. 1 \in 1 .. Len(w)
    BY <1>2, <1>3
  <1>10. Head(w) = arrived[u][Len(started[u]) + 1]
    BY <1>3, <1>6, <1>9
  <1>11. QED
    BY <1>8, <1>10, <1>7

LEMMA EnqueueLogInv ==
    ASSUME TypeOK, LogInv, NEW j \in Jobs, Enqueue(j)
    PROVE  LogInv'
  <1> DEFINE u == Owner[j]
             w == Waiting(u)
  <1>1. /\ u \in Users
        /\ w \in Seq(Jobs) /\ Len(w) \in Nat
        /\ arrived[u] \in Seq(Jobs) /\ Len(arrived[u]) \in Nat
        /\ Len(started[u]) \in Nat
    BY OwnerAssumption, LogTypes
  <1>2. Waiting(u)' = Append(w, j)
    BY DEF Enqueue, Put, Waiting
  <1>3. \A v \in Users : v # u => Waiting(v)' = Waiting(v)
    BY EnqueueShift
  <1>4. /\ arrived'[u] = Append(arrived[u], j)
        /\ \A v \in Users : v # u => arrived'[v] = arrived[v]
        /\ started' = started
    BY <1>1 DEF Enqueue, TypeOK
  <1>5. /\ Len(Waiting(u)') = Len(w) + 1
        /\ \A i \in 1 .. Len(w) : Waiting(u)'[i] = w[i]
        /\ Waiting(u)'[Len(w) + 1] = j
    BY <1>1, <1>2, AppendLog
  <1>6. /\ Len(arrived'[u]) = Len(arrived[u]) + 1
        /\ \A i \in 1 .. Len(arrived[u]) : arrived'[u][i] = arrived[u][i]
        /\ arrived'[u][Len(arrived[u]) + 1] = j
    BY <1>1, <1>4, AppendLog
  <1>7. /\ Len(arrived[u]) = Len(started[u]) + Len(w)
        /\ \A i \in 1 .. Len(w) : arrived[u][Len(started[u]) + i] = w[i]
    BY <1>1 DEF LogInv
  <1>8. /\ Len(arrived[u]) + 1 = Len(started[u]) + (Len(w) + 1)
         /\ \A i \in 1 .. (Len(w) + 1) : i # Len(w) + 1 =>
                i \in 1 .. Len(w) /\ Len(started[u]) + i \in 1 .. Len(arrived[u])
    BY <1>1, <1>7, ShiftIn
  <1> SUFFICES ASSUME NEW v \in Users
               PROVE  /\ Len(arrived'[v]) = Len(started[v]) + Len(Waiting(v)')
                      /\ \A i \in 1 .. Len(Waiting(v)') :
                            arrived'[v][Len(started[v]) + i] = Waiting(v)'[i]
    BY <1>4 DEF LogInv
  <1>9. CASE v = u
    <2>1. Len(arrived'[v]) = Len(started[v]) + Len(Waiting(v)')
      BY <1>5, <1>6, <1>9, <1>8
    <2>2. ASSUME NEW i \in 1 .. Len(Waiting(v)')
          PROVE  arrived'[v][Len(started[v]) + i] = Waiting(v)'[i]
      <3>1. CASE i = Len(w) + 1
        <4>1. Len(started[u]) + i = Len(arrived[u]) + 1
          BY <1>8, <3>1
        <4>2. QED
          BY <1>5, <1>6, <1>9, <3>1, <4>1
      <3>2. CASE i # Len(w) + 1
        <4>1. i \in 1 .. Len(w) /\ Len(started[u]) + i \in 1 .. Len(arrived[u])
          BY <1>5, <1>9, <1>8, <3>2
        <4>2. QED
          BY <1>5, <1>6, <1>7, <1>9, <4>1
      <3>3. QED
        BY <3>1, <3>2
    <2>3. QED
      BY <2>1, <2>2
  <1>10. CASE v # u
    BY <1>3, <1>4, <1>10 DEF LogInv
  <1>11. QED
    BY <1>9, <1>10

\* The worker tasks of one user that are alive are one task.
LEMMA OnlyWorker ==
    ASSUME WorkerInv, NEW t \in Jobs, Live(t), NEW s \in Jobs, Live(s),
           Owner[s] = Owner[t]
    PROVE  s = t
  BY DEF WorkerInv, LiveRegistered, Live

\* After a take the taker is the busy task of its user, one job ahead of what
\* has ended, provided everything begun before has ended.
LEMMA TakeNextRuns ==
    ASSUME TypeOK, BusyInv, IdleInv, NEW t \in Jobs,
           Waiting(Owner[t]) # <<>>, TakeNext(t),
           \A s \in Jobs : task[s] = "busy" /\ Owner[s] = Owner[t] => s = t,
           Len(ended'[Owner[t]]) = Len(started[Owner[t]]),
           \A v \in Users : v # Owner[t] => ended'[v] = ended[v]
    PROVE  BusyInv' /\ IdleInv'
  <1> DEFINE u == Owner[t]
             h == Head(Waiting(u))
  <1>1. /\ u \in Users
        /\ started' = [started EXCEPT ![u] = Append(@, h)]
        /\ task' = [task EXCEPT ![t] = "busy"]
        /\ current' = [current EXCEPT ![t] = h]
    BY TakeNextLog
  <1>2. /\ started[u] \in Seq(Jobs) /\ Len(started[u]) \in Nat
        /\ Waiting(u) \in Seq(Jobs)
    BY <1>1, LogTypes
  <1>3. h \in Jobs
    BY <1>2, TailLog
  <1>4. started'[u] = Append(started[u], h)
    BY <1>1 DEF TypeOK
  <1>5. Len(started'[u]) = Len(started[u]) + 1 /\ started'[u][Len(started[u]) + 1] = h
    BY <1>2, <1>3, <1>4, AppendLog
  <1>6. \A v \in Users : v # u => started'[v] = started[v]
    BY <1>1 DEF TypeOK
  <1>7. /\ task'[t] = "busy" /\ current'[t] = h
        /\ \A s \in Jobs : s # t => task'[s] = task[s] /\ current'[s] = current[s]
    BY <1>1 DEF TypeOK
  <1>8. BusyInv'
    <2> SUFFICES ASSUME NEW s \in Jobs, task'[s] = "busy"
                 PROVE  /\ Len(started'[Owner[s]]) = Len(ended'[Owner[s]]) + 1
                        /\ started'[Owner[s]][Len(started'[Owner[s]])] = current'[s]
      BY DEF BusyInv
    <2>1. CASE s = t
      <3>1. Len(started'[u]) = Len(ended'[u]) + 1
        BY <1>5
      <3>2. started'[u][Len(started'[u])] = h
        BY <1>5
      <3>3. QED
        BY <1>7, <2>1, <3>1, <3>2
    <2>2. CASE s # t
      <3>1. task[s] = "busy" /\ Owner[s] # u /\ Owner[s] \in Users
        BY <1>7, <2>2, OwnerAssumption
      <3>2. /\ started'[Owner[s]] = started[Owner[s]]
            /\ ended'[Owner[s]] = ended[Owner[s]] /\ current'[s] = current[s]
        BY <1>6, <1>7, <2>2, <3>1
      <3>3. QED
        BY <3>1, <3>2 DEF BusyInv
    <2>3. QED
      BY <2>1, <2>2
  <1>9. IdleInv'
    <2> SUFFICES ASSUME NEW v \in Users, \A s \in Jobs : task'[s] = "busy" => Owner[s] # v
                 PROVE  Len(started'[v]) = Len(ended'[v])
      BY DEF IdleInv
    <2>1. v # u
      BY <1>7
    <2>2. \A s \in Jobs : task[s] = "busy" => Owner[s] # v
      BY <1>7, <2>1
    <2>3. QED
      BY <1>6, <2>1, <2>2 DEF IdleInv
  <1>10. QED
    BY <1>8, <1>9

\* What process_func came back from is the last job that was begun.
LEMMA EndsCurrent ==
    ASSUME TypeOK, BusyHasJob, BusyInv, NEW t \in Jobs, task[t] = "busy",
           ended' = [ended EXCEPT ![Owner[t]] = Append(@, current[t])]
    PROVE  LET u == Owner[t] IN
           /\ u \in Users
           /\ Len(ended[u]) # Len(started[u])
           /\ current[t] = started[u][Len(ended[u]) + 1]
           /\ Len(ended'[u]) = Len(started[u])
           /\ \A v \in Users : v # u => ended'[v] = ended[v]
  <1> DEFINE u == Owner[t]
  <1>1. u \in Users
    BY OwnerAssumption
  <1>2. ended[u] \in Seq(Jobs) /\ Len(ended[u]) \in Nat /\ Len(started[u]) \in Nat
    BY <1>1, LogTypes
  <1>3. current[t] \in Jobs
    BY DEF BusyHasJob
  <1>4. Len(started[u]) = Len(ended[u]) + 1 /\ started[u][Len(started[u])] = current[t]
    BY DEF BusyInv
  <1>5. ended'[u] = Append(ended[u], current[t])
    BY <1>1 DEF TypeOK
  <1>6. Len(ended'[u]) = Len(ended[u]) + 1
    BY <1>2, <1>3, <1>5, AppendLog
  <1>7. \A v \in Users : v # u => ended'[v] = ended[v]
    BY DEF TypeOK
  <1>8. Len(ended[u]) # Len(started[u])
    BY <1>2, <1>4
  <1>9. QED
    BY <1>1, <1>4, <1>6, <1>7, <1>8

LEMMA InitServiceInv == Init => ServiceInv
  <1> SUFFICES ASSUME Init
               PROVE  ServiceInv
    OBVIOUS
  <1>1. \A u \in Users : /\ arrived[u] = <<>> /\ started[u] = <<>> /\ ended[u] = <<>>
                         /\ Waiting(u) = <<>>
    BY DEF Init, Waiting
  <1>2. \A t \in Jobs : task[t] = "none"
    BY DEF Init
  <1>3. LogInv
    BY <1>1 DEF LogInv
  <1>4. BusyInv /\ IdleInv
    BY <1>1, <1>2 DEF BusyInv, IdleInv
  <1>5. QED
    BY <1>3, <1>4 DEF ServiceInv

\* A worker task that first runs finds everything begun before it ended.
LEMMA StartsIdle ==
    ASSUME TypeOK, WorkerInv, IdleInv, NEW t \in Jobs, task[t] = "created"
    PROVE  /\ Len(ended[Owner[t]]) = Len(started[Owner[t]])
           /\ \A s \in Jobs : task[s] = "busy" /\ Owner[s] = Owner[t] => s = t
  <1>1. \A s \in Jobs : task[s] = "busy" => Owner[s] # Owner[t]
    BY OnlyWorker DEF Live
  <1>2. QED
    BY <1>1, OwnerAssumption DEF IdleInv

\* Steps that neither move a log nor make a task busy or idle.
LEMMA SameRuns ==
    ASSUME BusyInv, IdleInv, UNCHANGED <<started, ended, current>>,
           \A s \in Jobs : task'[s] = "busy" <=> task[s] = "busy"
    PROVE  BusyInv' /\ IdleInv'
  BY DEF BusyInv, IdleInv

LEMMA RetireRuns ==
    ASSUME TypeOK, WorkerInv, BusyHasJob, BusyInv, IdleInv,
           NEW t \in Jobs, task[t] = "busy", Retire(t),
           ended' = [ended EXCEPT ![Owner[t]] = Append(@, current[t])]
    PROVE  BusyInv' /\ IdleInv'
  <1> DEFINE u == Owner[t]
  <1>1. /\ u \in Users /\ Len(ended'[u]) = Len(started[u])
        /\ \A v \in Users : v # u => ended'[v] = ended[v]
    BY EndsCurrent
  <1>2. /\ started' = started /\ task'[t] = "ended"
        /\ \A s \in Jobs : s # t => task'[s] = task[s] /\ current'[s] = current[s]
    BY DEF Retire, TypeOK
  <1>3. \A s \in Jobs : task[s] = "busy" /\ Owner[s] = u => s = t
    BY OnlyWorker DEF Live
  <1>4. BusyInv'
    <2> SUFFICES ASSUME NEW s \in Jobs, task'[s] = "busy"
                 PROVE  /\ Len(started'[Owner[s]]) = Len(ended'[Owner[s]]) + 1
                        /\ started'[Owner[s]][Len(started'[Owner[s]])] = current'[s]
      BY DEF BusyInv
    <2>1. s # t /\ task[s] = "busy" /\ Owner[s] # u /\ Owner[s] \in Users
      BY <1>2, <1>3, OwnerAssumption
    <2>2. QED
      BY <1>1, <1>2, <2>1 DEF BusyInv
  <1>5. IdleInv'
    <2> SUFFICES ASSUME NEW v \in Users, \A s \in Jobs : task'[s] = "busy" => Owner[s] # v
                 PROVE  Len(started'[v]) = Len(ended'[v])
      BY DEF IdleInv
    <2>1. CASE v = u
      BY <1>1, <1>2, <2>1
    <2>2. CASE v # u
      BY <1>1, <1>2, <2>2 DEF IdleInv
    <2>3. QED
      BY <2>1, <2>2
  <1>6. QED
    BY <1>4, <1>5

\* Retiring drops an empty queue.
LEMMA RetireLog ==
    ASSUME LogInv, NEW t \in Jobs, Waiting(Owner[t]) = <<>>, Retire(t), UNCHANGED arrived
    PROVE  LogInv'
  <1>1. queues' = [v \in DOMAIN queues \ {Owner[t]} |-> queues[v]] /\ started' = started
    BY DEF Retire, Del, Restrict
  <1>2. \A v \in Users : Waiting(v)' = Waiting(v)
    BY <1>1 DEF Waiting
  <1>3. QED
    BY <1>1, <1>2 DEF LogInv

LEMMA NextServiceInv ==
    TypeOK /\ BusyHasJob /\ WorkerInv /\ ServiceInv /\ [Next]_vars => ServiceInv'
  <1> SUFFICES ASSUME TypeOK, BusyHasJob, WorkerInv, ServiceInv, [Next]_vars
               PROVE  ServiceInv'
    OBVIOUS
  <1>1. ASSUME NEW j \in Jobs, Enqueue(j)
        PROVE  ServiceInv'
    <2>1. LogInv /\ BusyInv /\ IdleInv
      BY <1>1 DEF Enqueue, ServiceInv
    <2>2. LogInv'
      BY <1>1, <2>1, EnqueueLogInv
    <2>3. UNCHANGED <<started, ended, current>>
      BY <1>1 DEF Enqueue
    <2>4. \A s \in Jobs : task'[s] = "busy" <=> task[s] = "busy"
      <3>1. CASE NeedsWorker(Owner[j])
        <4>1. task' = [task EXCEPT ![j] = "created"]
          BY <1>1, <3>1 DEF Enqueue
        <4>2. task[j] # "busy"
          <5>1. SUFFICES ASSUME task[j] = "busy"
                         PROVE  FALSE
            OBVIOUS
          <5>2. Owner[j] \in DOMAIN workers /\ workers[Owner[j]] = j
            BY <5>1 DEF WorkerInv, LiveRegistered, Live
          <5>3. QED
            BY <3>1, <5>1, <5>2 DEF NeedsWorker
        <4>3. QED
          BY <4>1, <4>2 DEF TypeOK
      <3>2. CASE ~NeedsWorker(Owner[j])
        BY <1>1, <3>2 DEF Enqueue
      <3>3. QED
        BY <3>1, <3>2
    <2>5. QED
      BY <2>1, <2>2, <2>3, <2>4, SameRuns DEF ServiceInv
  <1>2. ASSUME NEW j \in Jobs, CancelPending(j)
        PROVE  ServiceInv'
    BY <1>2 DEF CancelPending, history, ServiceInv, LogInv, BusyInv, IdleInv, Waiting
  <1>3. ASSUME NEW t \in Jobs, WorkerStart(t)
        PROVE  ServiceInv'
    <2>1. LogInv /\ BusyInv /\ IdleInv /\ task[t] = "created" /\ Waiting(Owner[t]) # <<>>
      BY <1>3 DEF WorkerStart, ServiceInv
    <2>2. TakeNext(t) /\ UNCHANGED <<arrived, ended>>
      BY <1>3 DEF WorkerStart
    <2>3. LogInv'
      BY <2>1, <2>2, TakeNextLogInv
    <2>4. BusyInv' /\ IdleInv'
      BY <2>1, <2>2, StartsIdle, TakeNextRuns
    <2>5. QED
      BY <2>3, <2>4 DEF ServiceInv
  <1>4. ASSUME NEW t \in Jobs, ProcessEnds(t)
        PROVE  ServiceInv'
    <2>1. /\ LogInv /\ BusyInv /\ IdleInv /\ task[t] = "busy" /\ UNCHANGED arrived
          /\ ended' = [ended EXCEPT ![Owner[t]] = Append(@, current[t])]
      BY <1>4 DEF ProcessEnds, ServiceInv
    <2>2. CASE Waiting(Owner[t]) # <<>> /\ TakeNext(t)
      <3>1. LogInv'
        BY <2>1, <2>2, TakeNextLogInv
      <3>2. \A s \in Jobs : task[s] = "busy" /\ Owner[s] = Owner[t] => s = t
        BY <2>1, OnlyWorker DEF Live
      <3>3. /\ Len(ended'[Owner[t]]) = Len(started[Owner[t]])
            /\ \A v \in Users : v # Owner[t] => ended'[v] = ended[v]
        BY <2>1, EndsCurrent
      <3>4. BusyInv' /\ IdleInv'
        BY <2>1, <2>2, <3>2, <3>3, TakeNextRuns
      <3>5. QED
        BY <3>1, <3>4 DEF ServiceInv
    <2>3. CASE Waiting(Owner[t]) = <<>> /\ Retire(t)
      BY <2>1, <2>3, RetireLog, RetireRuns DEF ServiceInv
    <2>4. QED
      BY <1>4, <2>2, <2>3 DEF ProcessEnds
  <1>5. CASE Shutdown
    BY <1>5 DEF Shutdown, ServiceInv
  <1>6. ASSUME NEW t \in Jobs, DrainOnCancel(t)
        PROVE  ServiceInv'
    BY <1>6 DEF DrainOnCancel, ServiceInv
  <1>7. ASSUME NEW t \in Jobs, CancelBeforeStart(t)
        PROVE  ServiceInv'
    BY <1>7 DEF CancelBeforeStart, ServiceInv
  <1>8. CASE UNCHANGED vars
    BY <1>8 DEF vars, history, ServiceInv, LogInv, BusyInv, IdleInv, Waiting
  <1>9. QED
    BY <1>1, <1>2, <1>3, <1>4, <1>5, <1>6, <1>7, <1>8 DEF Next

\* Every step of the queue is a step of the service, or none.
LEMMA StepIsService ==
    TypeOK /\ BusyHasJob /\ WorkerInv /\ ServiceInv /\ [Next]_vars
        => [Fifo!FifoNext]_(Fifo!fifoVars)
  <1> SUFFICES ASSUME TypeOK, BusyHasJob, WorkerInv, ServiceInv, [Next]_vars
               PROVE  Fifo!FifoNext \/ UNCHANGED Fifo!fifoVars
    OBVIOUS
  <1>1. ASSUME NEW j \in Jobs, Enqueue(j)
        PROVE  Fifo!Submit(j)
    BY <1>1 DEF Enqueue, Fifo!Submit
  <1>2. ASSUME NEW j \in Jobs, CancelPending(j)
        PROVE  UNCHANGED Fifo!fifoVars
    BY <1>2 DEF CancelPending, history, Fifo!fifoVars
  <1>3. ASSUME NEW t \in Jobs, WorkerStart(t)
        PROVE  Fifo!Begin(Owner[t])
    <2>1. LogInv /\ IdleInv /\ task[t] = "created" /\ Waiting(Owner[t]) # <<>>
      BY <1>3 DEF WorkerStart, ServiceInv
    <2>2. ~stopping /\ TakeNext(t) /\ UNCHANGED <<arrived, ended, stopping>>
      BY <1>3 DEF WorkerStart
    <2>3. Fifo!Idle(Owner[t])
      BY <2>1, StartsIdle DEF Fifo!Idle
    <2>4. Fifo!Backlog(Owner[t]) /\ Fifo!BeginNext(Owner[t])
      BY <2>1, <2>2, TakeNextLog, TakeNextLogInv
      DEF Fifo!Backlog, Fifo!BeginNext, Fifo!NextOf
    <2>5. QED
      BY <2>2, <2>3, <2>4 DEF Fifo!Begin
  <1>4. ASSUME NEW t \in Jobs, ProcessEnds(t)
        PROVE  Fifo!Finish(Owner[t]) \/ Fifo!HandOver(Owner[t])
    <2>1. /\ LogInv /\ BusyInv /\ task[t] = "busy" /\ ~stopping
          /\ UNCHANGED <<arrived, stopping>>
          /\ ended' = [ended EXCEPT ![Owner[t]] = Append(@, current[t])]
      BY <1>4 DEF ProcessEnds, ServiceInv
    <2>2. /\ Owner[t] \in Users /\ Len(ended[Owner[t]]) # Len(started[Owner[t]])
          /\ current[t] = started[Owner[t]][Len(ended[Owner[t]]) + 1]
      BY <2>1, EndsCurrent
    <2>3. ~Fifo!Idle(Owner[t]) /\ Fifo!FinishOne(Owner[t])
      BY <2>1, <2>2 DEF Fifo!Idle, Fifo!FinishOne, TypeOK
    <2>4. CASE Waiting(Owner[t]) # <<>> /\ TakeNext(t)
      <3>1. Fifo!Backlog(Owner[t]) /\ Fifo!BeginNext(Owner[t])
        BY <2>1, <2>4, TakeNextLog, TakeNextLogInv
        DEF Fifo!Backlog, Fifo!BeginNext, Fifo!NextOf
      <3>2. QED
        BY <2>1, <2>3, <3>1 DEF Fifo!HandOver
    <2>5. CASE Retire(t)
      BY <2>1, <2>3, <2>5 DEF Retire, Fifo!Finish
    <2>6. QED
      BY <1>4, <2>4, <2>5 DEF ProcessEnds
  <1>5. CASE Shutdown
    BY <1>5 DEF Shutdown, history, Fifo!Close, Fifo!FifoNext
  <1>6. ASSUME NEW t \in Jobs, DrainOnCancel(t)
        PROVE  UNCHANGED Fifo!fifoVars
    BY <1>6 DEF DrainOnCancel, history, Fifo!fifoVars
  <1>7. ASSUME NEW t \in Jobs, CancelBeforeStart(t)
        PROVE  UNCHANGED Fifo!fifoVars
    BY <1>7 DEF CancelBeforeStart, history, Fifo!fifoVars
  <1>8. CASE UNCHANGED vars
    BY <1>8 DEF vars, history, Fifo!fifoVars
  <1>9. QED
    BY <1>1, <1>2, <1>3, <1>4, <1>5, <1>6, <1>7, <1>8, OwnerAssumption
    DEF Next, Fifo!FifoNext

\* The queue with its workers does what the abstract service may do and nothing
\* else: jobs of a user begin in the order they came, one after the other, until
\* the server is shut down (user_queue.py:18, README.md:16).  That every one of
\* them is begun is EveryJobServed.
THEOREM QueueIsService == Spec => Fifo!FifoInit /\ [][Fifo!FifoNext]_(Fifo!fifoVars)
  <1>1. Init => Fifo!FifoInit
    BY DEF Init, Fifo!FifoInit
  <1>2. Init => ServiceInv
    BY InitServiceInv
  <1>3. TypeOK /\ BusyHasJob /\ WorkerInv /\ ServiceInv /\ [Next]_vars => ServiceInv'
    BY NextServiceInv
  <1>4. TypeOK /\ BusyHasJob /\ WorkerInv /\ ServiceInv /\ [Next]_vars
            => [Fifo!FifoNext]_(Fifo!fifoVars)
    BY StepIsService
  <1>5. Init => TypeOK /\ BusyHasJob
    BY InitTypeOK
  <1>6. TypeOK /\ BusyHasJob /\ [Next]_vars => TypeOK' /\ BusyHasJob'
    BY NextTypeOK
  <1>7. QED
    BY <1>1, <1>2, <1>3, <1>4, <1>5, <1>6, WorkerInvHolds, PTL DEF Spec

=============================================================================
