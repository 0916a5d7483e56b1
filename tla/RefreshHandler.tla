---------------------------- MODULE RefreshHandler ----------------------------
(***************************************************************************)
(* RefreshHandler: requests that hit data about to expire have it loaded   *)
(* again by a thread pool.  `refreshing' lists the keys that are taken     *)
(* care of: a key in it is not refreshed a second time, so it must have    *)
(* one task while it is in there, and must leave with its task -- after a  *)
(* run, or when the pool is full and the oldest waiting task is dropped.   *)
(*                                                                         *)
(* Whether data is about to expire, and what a load finds, is left open.   *)
(* The pool is java.util.concurrent.ThreadPoolExecutor, seen from here.    *)
(***************************************************************************)
EXTENDS Integers, Sequences, FiniteSets

CONSTANTS
    Request,    \* threads that serve requests
    Worker,     \* threads of the pool, refreshThreadPoolMaxSize of them
    Key,        \* cache keys
    CoreSize,   \* refreshThreadPoolSize
    Capacity,   \* refreshQueueCapacity
    None        \* no key; for a worker, that it is idle

ASSUME SizeAssumption ==
    /\ IsFiniteSet(Worker)
    /\ CoreSize \in 1 .. Cardinality(Worker)
    /\ Capacity \in Nat \ {0}
ASSUME NoneAssumption == None \notin Key

VARIABLES
    refreshing,  \* the keys of the map
    pc,          \* where each request is in doRefresh or in its pool's handler
    key,         \* the key it is refreshing
    last,        \* the key of the task it polled in the handler
    queue,       \* the pool's queue: the tasks' keys
    alive,       \* the pool's threads
    job,         \* the key each worker is refreshing
    shutdown,    \* e.isShutdown()
    failed       \* history: keys whose RefreshTask could not be made

vars == <<refreshing, pc, key, last, queue, alive, job, shutdown, failed>>

\* The steps at which a request has listed a key and not handed over its task.
Submitting == {"newTask", "execute", "rejected", "removeLast"}

TypeOK ==
    /\ refreshing \in SUBSET Key
    /\ pc \in [Request -> {"idle", "putIfAbsent"} \cup Submitting]
    /\ key \in [Request -> Key \cup {None}]
    /\ last \in [Request -> Key \cup {None}]
    /\ queue \in Seq(Key) /\ Len(queue) <= Capacity
    /\ alive \in SUBSET Worker
    /\ job \in [Worker -> Key \cup {None}]
    /\ shutdown \in BOOLEAN
    /\ failed \in SUBSET Key

Init ==
    /\ refreshing = {}
    /\ pc = [r \in Request |-> "idle"]
    /\ key = [r \in Request |-> None]
    /\ last = [r \in Request |-> None]
    /\ queue = <<>>
    /\ alive = {}
    /\ job = [w \in Worker |-> None]
    /\ shutdown = FALSE
    /\ failed = {}

-----------------------------------------------------------------------------
(* A request, in doRefresh *)

Goto(r, label) == pc' = [pc EXCEPT ![r] = label]

\* It is done, and its local variables are gone.
Return(r) == Goto(r, "idle") /\ key' = [key EXCEPT ![r] = None]

\* It hit data that is about to expire, and found the key not in the map.
DoRefresh(r, k) ==
    /\ pc[r] = "idle"
    /\ k \notin refreshing
    /\ key' = [key EXCEPT ![r] = k]
    /\ Goto(r, "putIfAbsent")
    /\ UNCHANGED <<refreshing, last, queue, alive, job, shutdown, failed>>

PutIfAbsentAlways(r) ==                       \* put, after the check by get
    /\ pc[r] = "putIfAbsent"
    /\ refreshing' = refreshing \cup {key[r]}
    /\ Goto(r, "newTask")
    /\ UNCHANGED <<key, last, queue, alive, job, shutdown, failed>>

\* It lists the key, unless another request has just done so.
PutIfAbsent(r) ==
    /\ pc[r] = "putIfAbsent"
    /\ refreshing' = refreshing \cup {key[r]}
    /\ IF key[r] \in refreshing THEN Return(r)
       ELSE Goto(r, "newTask") /\ UNCHANGED key
    /\ UNCHANGED <<last, queue, alive, job, shutdown, failed>>

NewTask(r) ==
    /\ pc[r] = "newTask"
    /\ Goto(r, "execute")
    /\ UNCHANGED <<refreshing, key, last, queue, alive, job, shutdown, failed>>

\* Cloning the arguments throws; doRefresh logs it and is done.
NewTaskThrows(r) ==
    /\ pc[r] = "newTask"
    /\ Return(r)
    /\ failed' = failed \cup {key[r]}
    /\ UNCHANGED <<refreshing, last, queue, alive, job, shutdown>>

-----------------------------------------------------------------------------
(* execute: a new thread below the core size, else the queue, else a new    *)
(* thread up to the maximum, else the handler of rejected tasks.            *)

QueueIsFull == Len(queue) >= Capacity

StartThread(r) ==
    \E w \in Worker \ alive :
        /\ alive' = alive \cup {w}
        /\ job' = [job EXCEPT ![w] = key[r]]
        /\ Return(r)
        /\ UNCHANGED queue

Enqueue(r) ==
    /\ queue' = Append(queue, key[r])
    /\ Return(r)
    /\ UNCHANGED <<alive, job>>

Execute(r) ==
    /\ pc[r] = "execute" /\ ~shutdown
    /\ \/ Cardinality(alive) < CoreSize /\ StartThread(r)
       \/ Cardinality(alive) >= CoreSize /\ ~QueueIsFull /\ Enqueue(r)
       \/ Cardinality(alive) >= CoreSize /\ QueueIsFull /\ StartThread(r)
       \/ /\ QueueIsFull /\ alive = Worker
          /\ Goto(r, "rejected")
          /\ UNCHANGED <<key, queue, alive, job>>
    /\ UNCHANGED <<refreshing, last, shutdown, failed>>

\* After shutdown the handler does nothing, and the task is gone.
ExecuteAfterShutdown(r) ==
    /\ pc[r] \in {"execute", "rejected"} /\ shutdown
    /\ Return(r)
    /\ UNCHANGED <<refreshing, last, queue, alive, job, shutdown, failed>>

\* The handler polls the oldest task; the workers may have emptied the queue.
PollLast(r) ==
    /\ pc[r] = "rejected" /\ ~shutdown
    /\ IF queue = <<>>
       THEN Goto(r, "execute") /\ UNCHANGED <<last, queue>>
       ELSE /\ last' = [last EXCEPT ![r] = Head(queue)]
            /\ queue' = Tail(queue)
            /\ Goto(r, "removeLast")
    /\ UNCHANGED <<refreshing, key, alive, job, shutdown, failed>>

RemoveNewest(r) ==                            \* the key of r, not of last
    /\ pc[r] = "removeLast"
    /\ refreshing' = refreshing \ {key[r]}
    /\ last' = [last EXCEPT ![r] = None]
    /\ Goto(r, "execute")
    /\ UNCHANGED <<key, queue, alive, job, shutdown, failed>>

\* Its key is free again, and the new task is tried again.
RemoveLast(r) ==
    /\ pc[r] = "removeLast"
    /\ refreshing' = refreshing \ {last[r]}
    /\ last' = [last EXCEPT ![r] = None]
    /\ Goto(r, "execute")
    /\ UNCHANGED <<key, queue, alive, job, shutdown, failed>>

-----------------------------------------------------------------------------
(* A worker *)

Take(w) ==
    /\ w \in alive /\ job[w] = None
    /\ queue # <<>>
    /\ job' = [job EXCEPT ![w] = Head(queue)]
    /\ queue' = Tail(queue)
    /\ UNCHANGED <<refreshing, pc, key, last, alive, shutdown, failed>>

\* The end of run: the data is loaded and written, or is not; the key is free.
RunEnds(w) ==
    /\ job[w] # None
    /\ refreshing' = refreshing \ {job[w]}
    /\ job' = [job EXCEPT ![w] = None]
    /\ UNCHANGED <<pc, key, last, queue, alive, shutdown, failed>>

\* A thread beyond the core size has been idle for too long.
KeepAliveElapses(w) ==
    /\ w \in alive /\ job[w] = None
    /\ queue = <<>>
    /\ Cardinality(alive) > CoreSize
    /\ alive' = alive \ {w}
    /\ UNCHANGED <<refreshing, pc, key, last, queue, job, shutdown, failed>>

\* shutdownNow: the queue is drained, what runs is interrupted and ends.
Shutdown ==
    /\ ~shutdown
    /\ shutdown' = TRUE
    /\ queue' = <<>>
    /\ UNCHANGED <<refreshing, pc, key, last, alive, job, failed>>

Next ==
    \/ \E r \in Request :
          \/ \E k \in Key : DoRefresh(r, k)
          \/ PutIfAbsent(r) \/ NewTask(r) \/ NewTaskThrows(r) \/ Execute(r)
          \/ ExecuteAfterShutdown(r) \/ PollLast(r) \/ RemoveLast(r)
    \/ \E w \in Worker : Take(w) \/ RunEnds(w) \/ KeepAliveElapses(w)
    \/ Shutdown

Spec == Init /\ [][Next]_vars

-----------------------------------------------------------------------------
(* Properties *)

\* The keys whose task is being made or handed over, waits, or runs.
Submitted == {key[r] : r \in {s \in Request : pc[s] \in Submitting}}
Waiting   == {queue[i] : i \in DOMAIN queue}
Dropped   == {last[r] : r \in {s \in Request : pc[s] = "removeLast"}}
Running   == {job[w] : w \in Worker} \ {None}

\* A key that is being refreshed is not refreshed again (RefreshHandler.java:95):
\* two tasks, wherever they are, are for different keys.
OneTaskPerKey ==
    /\ \A r, s \in Request :
          pc[r] \in Submitting /\ pc[s] \in Submitting /\ key[r] = key[s] => r = s
    /\ \A i, j \in DOMAIN queue : queue[i] = queue[j] => i = j
    /\ \A v, w \in Worker : job[v] = job[w] /\ job[v] # None => v = w
    /\ Submitted \cap Waiting = {}
    /\ Submitted \cap Running = {}
    /\ Waiting \cap Running = {}

\* No task's key leaves the map before the task has ended or been dropped, though
\* requests drop each other's tasks and list the freed keys again at once.
TasksAreListed == Submitted \cup Waiting \cup Running \subseteq refreshing

\* A listed key has a task, or one whose key is just being taken off the list:
\* it will be refreshed again.  It can only be stuck when its task could not be
\* made, or after shutdown.
ListedHasTask ==
    ~shutdown =>
        refreshing \subseteq
            Submitted \cup Waiting \cup Running \cup Dropped \cup failed
=============================================================================
