----------------------------- MODULE UserQueue -----------------------------
(***************************************************************************)
(* UserJobQueue (file_translator/application/user_queue.py): one queue and *)
(* one lazily started worker task per user, and one map with the displayed *)
(* queue position of every waiting job of every user.                      *)
(*                                                                         *)
(* Everything runs on one asyncio event loop.  No critical section of the  *)
(* class awaits anything while it holds self._lock, the queues are         *)
(* unbounded, and a worker only calls get() on a queue that has an item    *)
(* (NeverWaitsIdle), so none of these awaits suspends.  A worker task      *)
(* suspends in two places only: between create_task and its first run, and *)
(* inside self._process_func.  Each action below is one such segment.      *)
(*                                                                         *)
(* The Python dictionaries are functions whose DOMAIN is the set of keys.  *)
(* A worker task is named by the job whose enqueue created it: job ids are *)
(* fresh (uuid4) and an enqueue creates at most one task.                  *)
(***************************************************************************)
EXTENDS Naturals, Sequences, Functions

CONSTANTS
    Users,
    Jobs,
    Owner,      \* Owner[j]: the user_id job j is enqueued under
    NoJob       \* a worker task that processes nothing

ASSUME OwnerAssumption == Owner \in [Jobs -> Users]
ASSUME NoJobAssumption == NoJob \notin Jobs

VARIABLES
    queues,     \* self._queues: user -> jobs waiting, first to be taken first
    workers,    \* self._workers: user -> worker task
    position,   \* self._position_map: job -> displayed queue position
    task,       \* state of every worker task
    current,    \* the job a worker task is processing
    stopping,   \* the event loop is being torn down
    arrived,    \* history: jobs enqueued, per user
    started,    \* history: jobs handed to process_func, per user
    ended       \* history: jobs process_func came back from, per user

history == <<arrived, started, ended>>
vars == <<queues, workers, position, task, current, stopping, history>>

TaskState == {"none", "created", "busy", "ended"}

\* A dictionary with one entry set, and with one key deleted.
Put(dict, key, value) ==
    [k \in DOMAIN dict \cup {key} |-> IF k = key THEN value ELSE dict[k]]
Del(dict, keys) == Restrict(dict, DOMAIN dict \ keys)

Waiting(u) == IF u \in DOMAIN queues THEN queues[u] ELSE <<>>

-----------------------------------------------------------------------------
Init ==
    /\ queues = [u \in {} |-> <<>>]
    /\ workers = [u \in {} |-> NoJob]
    /\ position = [j \in {} |-> 0]
    /\ task = [t \in Jobs |-> "none"]
    /\ current = [t \in Jobs |-> NoJob]
    /\ stopping = FALSE
    /\ arrived = [u \in Users |-> <<>>]
    /\ started = [u \in Users |-> <<>>]
    /\ ended = [u \in Users |-> <<>>]

\* A bug: every enqueue starts a worker task.
NeedsWorkerAlways(u) == TRUE

\* enqueue starts a worker only if the user has none that is still alive.
NeedsWorker(u) == u \notin DOMAIN workers \/ task[workers[u]] = "ended"

\* A bug: the position is the length of the queue after the put.
EnqueuePositionOneBased(u) == Len(Waiting(u)) + 1

EnqueuePosition(u) == Len(Waiting(u))

\* A bug: a new job goes ahead of the waiting ones.
EnqueueLifo(j) ==
    LET u == Owner[j] IN
    /\ ~stopping
    /\ \A i \in DOMAIN arrived[u] : arrived[u][i] # j
    /\ queues' = Put(queues, u, <<j>> \o Waiting(u))
    /\ position' = Put(position, j, EnqueuePosition(u))
    /\ IF NeedsWorker(u)
       THEN /\ workers' = Put(workers, u, j)
            /\ task' = [task EXCEPT ![j] = "created"]
       ELSE UNCHANGED <<workers, task>>
    /\ arrived' = [arrived EXCEPT ![u] = Append(@, j)]
    /\ UNCHANGED <<current, stopping, started, ended>>

Enqueue(j) ==
    LET u == Owner[j] IN
    /\ ~stopping
    /\ \A i \in DOMAIN arrived[u] : arrived[u][i] # j
    /\ queues' = Put(queues, u, Append(Waiting(u), j))
    /\ position' = Put(position, j, EnqueuePosition(u))
    /\ IF NeedsWorker(u)
       THEN /\ workers' = Put(workers, u, j)
            /\ task' = [task EXCEPT ![j] = "created"]
       ELSE UNCHANGED <<workers, task>>
    /\ arrived' = [arrived EXCEPT ![u] = Append(@, j)]
    /\ UNCHANGED <<current, stopping, started, ended>>

\* A bug: the job is taken out of the queue under the worker that was created
\* for it.
CancelPendingDequeues(j) ==
    /\ ~stopping
    /\ j \in DOMAIN position
    /\ position' = Del(position, {j})
    /\ queues' = [queues EXCEPT ![Owner[j]] = SelectSeq(@, LAMBDA k : k # j)]
    /\ UNCHANGED <<workers, task, current, stopping, history>>

\* Only the tracking entry goes; the job stays in its queue.
CancelPending(j) ==
    /\ ~stopping
    /\ j \in DOMAIN position
    /\ position' = Del(position, {j})
    /\ UNCHANGED <<queues, workers, task, current, stopping, history>>

\* A bug: the positions already at zero are counted down too.
MoveUpUnguarded(j) == [k \in DOMAIN position \ {j} |-> position[k] - 1]

\* A bug: the worker pops its job and recalculates nothing.
MoveUpNothing(j) == Del(position, {j})

\* The worker takes j: its entry is popped and every positive entry of the
\* shared map moves up by one, whoever owns it.
MoveUp(j) ==
    [k \in DOMAIN position \ {j} |->
        IF position[k] > 0 THEN position[k] - 1 ELSE position[k]]

TakeNext(t) ==
    LET u == Owner[t]
        j == Head(queues[u])
    IN  /\ queues' = [queues EXCEPT ![u] = Tail(@)]
        /\ position' = MoveUp(j)
        /\ task' = [task EXCEPT ![t] = "busy"]
        /\ current' = [current EXCEPT ![t] = j]
        /\ started' = [started EXCEPT ![u] = Append(@, j)]
        /\ UNCHANGED workers

\* The worker found its queue empty: it forgets the queue and itself.
Retire(t) ==
    LET u == Owner[t] IN
    /\ queues' = Del(queues, {u})
    /\ workers' = Del(workers, {u})
    /\ task' = [task EXCEPT ![t] = "ended"]
    /\ current' = [current EXCEPT ![t] = NoJob]
    /\ UNCHANGED <<position, started>>

\* The first run of a worker task.
WorkerStart(t) ==
    /\ ~stopping
    /\ task[t] = "created"
    /\ Waiting(Owner[t]) # <<>>
    /\ TakeNext(t)
    /\ UNCHANGED <<stopping, arrived, ended>>

\* A bug: an exception of process_func ends the worker task.
ProcessEndsDiesOnError(t) ==
    /\ ~stopping
    /\ task[t] = "busy"
    /\ task' = [task EXCEPT ![t] = "ended"]
    /\ current' = [current EXCEPT ![t] = NoJob]
    /\ ended' = [ended EXCEPT ![Owner[t]] = Append(@, current[t])]
    /\ UNCHANGED <<queues, workers, position, stopping, arrived, started>>

\* A bug: the worker retires without looking at its queue.
ProcessEndsDropsQueue(t) ==
    /\ ~stopping
    /\ task[t] = "busy"
    /\ Retire(t)
    /\ ended' = [ended EXCEPT ![Owner[t]] = Append(@, current[t])]
    /\ UNCHANGED <<stopping, arrived>>

\* process_func returned, or raised and the worker logged it: the worker goes
\* on with the next job if there is one and retires if there is none.
ProcessEnds(t) ==
    LET u == Owner[t] IN
    /\ ~stopping
    /\ task[t] = "busy"
    /\ \/ Waiting(u) # <<>> /\ TakeNext(t)
       \/ Waiting(u) = <<>> /\ Retire(t)
    /\ ended' = [ended EXCEPT ![u] = Append(@, current[t])]
    /\ UNCHANGED <<stopping, arrived>>

\* The event loop cancels every task; no request is served from here on.
Shutdown ==
    /\ ~stopping
    /\ stopping' = TRUE
    /\ UNCHANGED <<queues, workers, position, task, current, history>>

\* CancelledError reaches a worker inside process_func: it drains its queue.
DrainOnCancel(t) ==
    LET u == Owner[t] IN
    /\ stopping
    /\ task[t] = "busy"
    /\ position' = Del(position, Range(queues[u]))
    /\ queues' = Del(queues, {u})
    /\ workers' = Del(workers, {u})
    /\ task' = [task EXCEPT ![t] = "ended"]
    /\ current' = [current EXCEPT ![t] = NoJob]
    /\ UNCHANGED <<stopping, history>>

\* A task cancelled before its first run never enters its body.
CancelBeforeStart(t) ==
    /\ stopping
    /\ task[t] = "created"
    /\ task' = [task EXCEPT ![t] = "ended"]
    /\ UNCHANGED <<queues, workers, position, current, stopping, history>>

Next ==
    \/ \E j \in Jobs : Enqueue(j) \/ CancelPending(j)
    \/ \E t \in Jobs : WorkerStart(t) \/ ProcessEnds(t)
    \/ Shutdown
    \/ \E t \in Jobs : DrainOnCancel(t) \/ CancelBeforeStart(t)

\* The event loop runs every task it created, and process_func comes back
\* (every call of the pipeline has a timeout).  Requests and shutdown may
\* never happen.
Fairness ==
    \A t \in Jobs : WF_vars(WorkerStart(t)) /\ WF_vars(ProcessEnds(t))

Spec == Init /\ [][Next]_vars /\ Fairness


-----------------------------------------------------------------------------
Live(t) == task[t] \in {"created", "busy"}

TypeOK ==
    /\ DOMAIN queues \subseteq Users
    /\ \A u \in DOMAIN queues : queues[u] \in Seq(Jobs)
    /\ DOMAIN workers \subseteq Users
    /\ \A u \in DOMAIN workers : workers[u] \in Jobs
    /\ DOMAIN position \subseteq Jobs
    /\ \A j \in DOMAIN position : position[j] \in Nat
    /\ task \in [Jobs -> TaskState]
    /\ current \in [Jobs -> Jobs \cup {NoJob}]
    /\ stopping \in BOOLEAN
    /\ arrived \in [Users -> Seq(Jobs)]
    /\ started \in [Users -> Seq(Jobs)]
    /\ ended \in [Users -> Seq(Jobs)]

\* One translation at a time per user, whatever mix of enqueues, process_func
\* failures and worker restarts came before (user_queue.py:18).
OneAtATime ==
    \A s, t \in Jobs :
        task[s] = "busy" /\ task[t] = "busy" /\ Owner[s] = Owner[t] => s = t

\* No lost wakeup: while the server is up, a waiting job has a live worker
\* task of its owner, registered in _workers.
WaitingHasWorker ==
    ~stopping =>
        \A u \in DOMAIN queues : queues[u] # <<>> =>
            u \in DOMAIN workers /\ Live(workers[u]) /\ Owner[workers[u]] = u

\* A worker never waits on an empty queue: when its task first runs there is
\* an item, so the 30 s timeout branch of the worker is never needed.
NeverWaitsIdle ==
    ~stopping => \A t \in Jobs : task[t] = "created" => Waiting(Owner[t]) # <<>>

\* Nothing is kept for a user without a live worker: _queues and _workers hold
\* exactly the users being served.
NothingLeaks ==
    ~stopping => /\ DOMAIN queues = DOMAIN workers
                 /\ DOMAIN workers = {Owner[t] : t \in {t \in Jobs : Live(t)}}

\* The queues and the worker tasks match, so that no wakeup is lost and no task
\* is left over, whatever is enqueued while a worker decides to retire.
WorkersMatchQueues == WaitingHasWorker /\ NeverWaitsIdle /\ NothingLeaks

\* The index at which a tracked job waits in its owner's queue.
WaitsAt(j, i) == i \in DOMAIN Waiting(Owner[j]) /\ Waiting(Owner[j])[i] = j

\* A tracked job is in its owner's queue, and the position shown to the user is
\* never larger than its true 0-based index, with any number of other users.
PositionNeverOverstated ==
    \A j \in DOMAIN position :
        \E i \in DOMAIN Waiting(Owner[j]) :
            WaitsAt(j, i) /\ position[j] <= i - 1

\* Two jobs of one user are never shown in the wrong order.
PositionsKeepOrder ==
    \A j, k \in DOMAIN position :
        \A m, n \in DOMAIN Waiting(Owner[j]) :
            Owner[j] = Owner[k] /\ WaitsAt(j, m) /\ WaitsAt(k, n) /\ m < n
                => position[j] <= position[k]

\* What several users see at once errs on one side only, and never misorders.
PositionsHonest == PositionNeverOverstated /\ PositionsKeepOrder

\* The position shown is the true 0-based index (user_queue.py:38, and
\* README.md:16 "queue-position tracking").
PositionExact ==
    \A j \in DOMAIN position :
        \A i \in DOMAIN Waiting(Owner[j]) : WaitsAt(j, i) => position[j] = i - 1

\* As long as a single user has used the queue the displayed positions are
\* exact, also after cancels and when the worker retires and comes back.
SoleUserExact ==
    \A u \in Users :
        (\A v \in Users \ {u} : arrived[v] = <<>>) => PositionExact

\* Every enqueued job is eventually processed, unless the server is shut down
\* first; cancelling its queue entry does not take it out of the queue.
EveryJobServed ==
    \A j \in Jobs :
        (\E i \in DOMAIN arrived[Owner[j]] : arrived[Owner[j]][i] = j)
            ~> (stopping \/ \E i \in DOMAIN ended[Owner[j]] : ended[Owner[j]][i] = j)

\* The queue implements the FIFO service it promises.
Fifo == INSTANCE FifoService
            WITH log <- arrived, begun <- started, finished <- ended, closed <- stopping

ImplementsFifo == Fifo!FifoSpec

=============================================================================
