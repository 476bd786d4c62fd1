---------------------------- MODULE FifoService ----------------------------
(***************************************************************************)
(* What the per-user job queue promises (README.md: "Per-user FIFO job     *)
(* queue -- one job at a time per user"), with no queue, worker or lock in *)
(* it: each user has a log of submitted jobs, the service begins them in   *)
(* log order, never a second one before the first has finished, and begins *)
(* every one of them unless the server is shut down.                       *)
(***************************************************************************)
EXTENDS Naturals, Sequences

CONSTANTS
    Users,
    Jobs,
    Owner       \* Owner[j]: the user who submitted job j

VARIABLES
    log,        \* log[u]: the jobs of u in the order they were submitted
    begun,      \* begun[u]: the jobs of u in the order they were begun
    finished,   \* finished[u]: the jobs of u in the order they finished
    closed      \* the server is shutting down

fifoVars == <<log, begun, finished, closed>>

FifoInit ==
    /\ log = [u \in Users |-> <<>>]
    /\ begun = [u \in Users |-> <<>>]
    /\ finished = [u \in Users |-> <<>>]
    /\ closed = FALSE

Idle(u) == Len(finished[u]) = Len(begun[u])

\* The first job of u's log that was not begun yet.
NextOf(u) == log[u][Len(begun[u]) + 1]

Backlog(u) == Len(begun[u]) < Len(log[u])

BeginNext(u) == begun' = [begun EXCEPT ![u] = Append(@, NextOf(u))]

FinishOne(u) == finished' = [finished EXCEPT ![u] = Append(@, begun[u][Len(@) + 1])]

Submit(j) ==
    /\ ~closed
    /\ \A i \in DOMAIN log[Owner[j]] : log[Owner[j]][i] # j
    /\ log' = [log EXCEPT ![Owner[j]] = Append(@, j)]
    /\ UNCHANGED <<begun, finished, closed>>

Begin(u) ==
    /\ ~closed
    /\ Idle(u)
    /\ Backlog(u)
    /\ BeginNext(u)
    /\ UNCHANGED <<log, finished, closed>>

\* The worker finished a job and has nothing else to do.
Finish(u) ==
    /\ ~closed
    /\ ~Idle(u)
    /\ FinishOne(u)
    /\ UNCHANGED <<log, begun, closed>>

\* The worker finished a job and begins the next one in the same step.
HandOver(u) ==
    /\ ~closed
    /\ ~Idle(u)
    /\ Backlog(u)
    /\ FinishOne(u)
    /\ BeginNext(u)
    /\ UNCHANGED <<log, closed>>

Close ==
    /\ ~closed
    /\ closed' = TRUE
    /\ UNCHANGED <<log, begun, finished>>

FifoNext ==
    \/ \E j \in Jobs : Submit(j)
    \/ \E u \in Users : Begin(u) \/ Finish(u) \/ HandOver(u)
    \/ Close

FifoFairness ==
    \A u \in Users :
        /\ WF_fifoVars(Begin(u))
        /\ WF_fifoVars(Finish(u) \/ HandOver(u))

FifoSpec == FifoInit /\ [][FifoNext]_fifoVars /\ FifoFairness

=============================================================================
