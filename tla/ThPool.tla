------------------------------- MODULE ThPool -------------------------------
(***************************************************************************)
(* The thread pool of src/thpool.c: one caller and N worker threads that   *)
(* share a linked queue of jobs, a binary semaphore, two counters and the  *)
(* globals threads_keepalive and threads_on_hold.                          *)
(*                                                                         *)
(* A section of a mutex is two steps, one that locks and one that does the *)
(* work and unlocks: thpool_pause stops a worker by a signal whose handler *)
(* runs wherever the worker is, with the mutexes the worker holds.         *)
(***************************************************************************)
EXTENDS Integers, Sequences, FiniteSets

CONSTANTS N,          \* num_threads
          Null,       \* the null pointer; nobody
          MaxJobs,    \* bounds: jobs added,
          MaxPauses   \*         calls of thpool_pause

ASSUME ThPoolAssumption ==
    /\ N \in Nat /\ MaxJobs \in Nat /\ MaxPauses \in Nat
    /\ Null \notin 0..MaxJobs /\ Null \notin 0..N

Workers == 1..N
User == 0
Procs == Workers \cup {User}
Jobs == 1..MaxJobs     \* the job added as the i-th is i

VARIABLES threads_keepalive, threads_on_hold,       \* the globals
          num_threads_alive, num_threads_working,   \* of thpool_
          front, rear, prev, len,                   \* of jobqueue and its jobs
          v,         \* of the binary semaphore has_jobs
          mutex,     \* who holds "thcount", "rw" and "bsem"
          pc,        \* where each thread is; in a section if it holds Needs[pc]
          mine,      \* the job a worker has pulled
          sig, held, \* SIGUSR1 is pending for a worker; it is in thread_hold
          next,      \* the worker thpool_pause signals next
          started, finished, added, pauses   \* history

jobqueue == <<front, rear, prev, len>>
pool == <<threads_keepalive, num_threads_alive, num_threads_working>>
signals == <<threads_on_hold, sig, held, next, pauses>>
history == <<started, finished, added>>
vars == <<pool, jobqueue, v, mutex, pc, mine, signals, history>>

\* The mutex a thread takes at each place that has one.
Needs == [created |-> "thcount", bsem |-> "bsem", work |-> "thcount", pull |-> "rw",
          pull_post |-> "bsem", done |-> "thcount", leave |-> "thcount",
          push |-> "rw", push_post |-> "bsem", wait |-> "thcount", post_all |-> "bsem"]

\* thpool_init up to the creation of the threads.
Init ==
    /\ threads_keepalive = 1 /\ threads_on_hold = 0
    /\ num_threads_alive = 0 /\ num_threads_working = 0
    /\ front = Null /\ rear = Null /\ len = 0
    /\ prev = [j \in Jobs |-> Null]
    /\ v = 0
    /\ mutex = [thcount |-> Null, rw |-> Null, bsem |-> Null]
    /\ pc = [p \in Procs |-> IF p = User THEN "init" ELSE "created"]
    /\ mine = [w \in Workers |-> Null]
    /\ sig = [w \in Workers |-> FALSE] /\ held = [p \in Procs |-> FALSE]
    /\ next = 1
    /\ started = <<>> /\ finished = {} /\ added = 0 /\ pauses = 0
-----------------------------------------------------------------------------
Running(p) == ~held[p]
At(p, place) == Running(p) /\ pc[p] = place
Inside(p, place) == At(p, place) /\ mutex[Needs[place]] = p
Goes(p, place) == pc' = [pc EXCEPT ![p] = place]

\* pthread_mutex_lock, wherever a thread needs one.
Lock(p) ==
    /\ Running(p) /\ pc[p] \in DOMAIN Needs
    /\ mutex[Needs[pc[p]]] = Null
    /\ mutex' = [mutex EXCEPT ![Needs[pc[p]]] = p]
    /\ UNCHANGED <<pool, jobqueue, v, pc, mine, signals, history>>

Unlock(l) == mutex' = [mutex EXCEPT ![l] = Null]

\* bsem_post: the value is 1 and one sleeper of the condition is woken.
Sleepers == {w \in Workers : pc[w] = "asleep"}
Woken(place, p, W) ==
    [q \in Procs |-> IF q = p THEN place ELSE IF q \in W THEN "bsem" ELSE pc[q]]

bsem_post(p, place) ==
    /\ v' = 1
    /\ \/ Sleepers = {} /\ Goes(p, place)
       \/ \E w \in Sleepers : pc' = Woken(place, p, {w})
-----------------------------------------------------------------------------
\* thread_do: the worker is counted, then loops while threads_keepalive is set.
ThreadStarts(w) ==
    /\ Inside(w, "created")
    /\ num_threads_alive' = num_threads_alive + 1
    /\ Goes(w, "loop") /\ Unlock("thcount")
    /\ UNCHANGED <<threads_keepalive, num_threads_working, jobqueue, v, mine, signals, history>>

ThreadLoops(w) ==
    /\ At(w, "loop")
    /\ Goes(w, IF threads_keepalive = 1 THEN "bsem" ELSE "leave")
    /\ UNCHANGED <<pool, jobqueue, v, mutex, mine, signals, history>>

\* bsem_wait.
BsemSleeps(w) ==
    /\ Inside(w, "bsem") /\ v # 1
    /\ Goes(w, "asleep") /\ Unlock("bsem")
    /\ UNCHANGED <<pool, jobqueue, v, mine, signals, history>>

BsemPasses(w) ==
    /\ Inside(w, "bsem") /\ v = 1
    /\ v' = 0
    /\ Goes(w, "check") /\ Unlock("bsem")
    /\ UNCHANGED <<pool, jobqueue, mine, signals, history>>

ThreadChecks(w) ==
    /\ At(w, "check")
    /\ Goes(w, IF threads_keepalive = 1 THEN "work" ELSE "loop")
    /\ UNCHANGED <<pool, jobqueue, v, mutex, mine, signals, history>>

ThreadWorks_NotCounted(w) ==   \* mutation: num_threads_working is left alone
    /\ Inside(w, "work")
    /\ Goes(w, "pull") /\ Unlock("thcount")
    /\ UNCHANGED <<pool, jobqueue, v, mine, signals, history>>

ThreadWorks(w) ==
    /\ Inside(w, "work")
    /\ num_threads_working' = num_threads_working + 1
    /\ Goes(w, "pull") /\ Unlock("thcount")
    /\ UNCHANGED <<threads_keepalive, num_threads_alive, jobqueue, v, mine, signals, history>>

\* jobqueue_pull, by the length of the queue.
Pulls(w, job) ==
    /\ mine' = [mine EXCEPT ![w] = job]
    /\ started' = IF job = Null THEN started ELSE Append(started, job)

PullNone(w) ==
    /\ Inside(w, "pull") /\ len = 0
    /\ Pulls(w, front)
    /\ Goes(w, "run") /\ Unlock("rw")
    /\ UNCHANGED <<pool, jobqueue, v, signals, finished, added>>

PullLast(w) ==
    /\ Inside(w, "pull") /\ len = 1
    /\ Pulls(w, front)
    /\ front' = Null /\ rear' = Null /\ len' = 0
    /\ Goes(w, "run") /\ Unlock("rw")
    /\ UNCHANGED <<pool, prev, v, signals, finished, added>>

PullFirst(w) ==
    /\ Inside(w, "pull") /\ len > 1
    /\ Pulls(w, front)
    /\ front' = prev[front] /\ len' = len - 1
    /\ Goes(w, "pull_post")
    /\ UNCHANGED <<pool, rear, prev, v, mutex, signals, finished, added>>

\* Mutation: the jobs that are left are not announced.
PullPosts_Silent(w) ==
    /\ Inside(w, "pull_post")
    /\ Goes(w, "run")
    /\ mutex' = [mutex EXCEPT !["bsem"] = Null, !["rw"] = Null]
    /\ UNCHANGED <<pool, jobqueue, v, mine, signals, history>>

\* The end of jobqueue_pull when more jobs are left: rwmutex is still held.
PullPosts(w) ==
    /\ Inside(w, "pull_post")
    /\ bsem_post(w, "run")
    /\ mutex' = [mutex EXCEPT !["bsem"] = Null, !["rw"] = Null]
    /\ UNCHANGED <<pool, jobqueue, mine, signals, history>>

\* The job runs, if there was one, and is freed.
ThreadRuns(w) ==
    /\ At(w, "run")
    /\ finished' = finished \cup ({mine[w]} \ {Null})
    /\ mine' = [mine EXCEPT ![w] = Null]
    /\ Goes(w, "done")
    /\ UNCHANGED <<pool, jobqueue, v, mutex, signals, started, added>>

\* Mutation: thpool_wait is signalled by the first worker that becomes idle.
ThreadDone_SignalsBusy(w) ==
    /\ Inside(w, "done")
    /\ num_threads_working' = num_threads_working - 1
    /\ pc' = [pc EXCEPT ![w] = "loop",
                        ![User] = IF @ = "waiting" /\ num_threads_working' > 0 THEN "wait" ELSE @]
    /\ Unlock("thcount")
    /\ UNCHANGED <<threads_keepalive, num_threads_alive, jobqueue, v, mine, signals, history>>

ThreadDone(w) ==
    /\ Inside(w, "done")
    /\ num_threads_working' = num_threads_working - 1
    /\ pc' = [pc EXCEPT ![w] = "loop",
                        ![User] = IF @ = "waiting" /\ num_threads_working' = 0 THEN "wait" ELSE @]
    /\ Unlock("thcount")
    /\ UNCHANGED <<threads_keepalive, num_threads_alive, jobqueue, v, mine, signals, history>>

\* The thread counts itself out, and then releases thcount_lock.
ThreadLeaves(w) ==
    /\ Inside(w, "leave")
    /\ num_threads_alive' = num_threads_alive - 1
    /\ Goes(w, "left")
    /\ UNCHANGED <<threads_keepalive, num_threads_working, jobqueue, v, mutex, mine,
                   signals, history>>

ThreadExits(w) ==
    /\ At(w, "left")
    /\ Goes(w, "gone") /\ Unlock("thcount")
    /\ UNCHANGED <<pool, jobqueue, v, mine, signals, history>>
-----------------------------------------------------------------------------
\* thread_hold: the handler of SIGUSR1 interrupts the worker where it is ...
thread_hold(w) ==
    /\ sig[w] /\ ~held[w] /\ pc[w] # "gone"
    /\ sig' = [sig EXCEPT ![w] = FALSE]
    /\ held' = [held EXCEPT ![w] = TRUE]
    /\ threads_on_hold' = 1
    /\ UNCHANGED <<pool, jobqueue, v, mutex, pc, mine, next, pauses, history>>

\* ... until the flag is 0; a wait on a condition may end on the return from it.
HoldEnds(w) ==
    /\ held[w] /\ threads_on_hold = 0
    /\ held' = [held EXCEPT ![w] = FALSE]
    /\ \/ UNCHANGED pc
       \/ pc[w] = "asleep" /\ Goes(w, "bsem")
    /\ UNCHANGED <<pool, jobqueue, v, mutex, mine, threads_on_hold, sig, next, pauses, history>>
-----------------------------------------------------------------------------
\* The end of thpool_init: all threads are alive.
InitReturns ==
    /\ At(User, "init") /\ num_threads_alive = N
    /\ Goes(User, "idle")
    /\ UNCHANGED <<pool, jobqueue, v, mutex, mine, signals, history>>

thpool_add_work ==
    /\ At(User, "idle") /\ added < MaxJobs
    /\ added' = added + 1
    /\ Goes(User, "push")
    /\ UNCHANGED <<pool, jobqueue, v, mutex, mine, signals, started, finished>>

\* Mutation: the new job is not linked to the one before it.
jobqueue_push_Unlinked ==
    /\ Inside(User, "push")
    /\ rear' = added /\ front' = IF len = 0 THEN added ELSE front
    /\ len' = len + 1
    /\ Goes(User, "push_post")
    /\ UNCHANGED <<pool, prev, v, mutex, mine, signals, history>>

\* jobqueue_push, and its bsem_post, with rwmutex held throughout.
jobqueue_push ==
    /\ Inside(User, "push")
    /\ prev' = IF len = 0 THEN [prev EXCEPT ![added] = Null]
               ELSE [prev EXCEPT ![added] = Null, ![rear] = added]
    /\ front' = IF len = 0 THEN added ELSE front
    /\ rear' = added
    /\ len' = len + 1
    /\ Goes(User, "push_post")
    /\ UNCHANGED <<pool, v, mutex, mine, signals, history>>

PushPosts_NoSignal ==   \* mutation: no sleeper is woken
    /\ Inside(User, "push_post")
    /\ v' = 1 /\ Goes(User, "idle")
    /\ mutex' = [mutex EXCEPT !["bsem"] = Null, !["rw"] = Null]
    /\ UNCHANGED <<pool, jobqueue, mine, signals, history>>

PushPosts ==
    /\ Inside(User, "push_post")
    /\ bsem_post(User, "idle")
    /\ mutex' = [mutex EXCEPT !["bsem"] = Null, !["rw"] = Null]
    /\ UNCHANGED <<pool, jobqueue, mine, signals, history>>

thpool_wait ==
    /\ At(User, "idle")
    /\ Goes(User, "wait")
    /\ UNCHANGED <<pool, jobqueue, v, mutex, mine, signals, history>>

WaitSleeps ==
    /\ Inside(User, "wait") /\ (len # 0 \/ num_threads_working # 0)
    /\ Goes(User, "waiting") /\ Unlock("thcount")
    /\ UNCHANGED <<pool, jobqueue, v, mine, signals, history>>

\* Mutation: only the queue is looked at.
WaitReturns_QueueOnly ==
    /\ Inside(User, "wait") /\ len = 0
    /\ Goes(User, "idle") /\ Unlock("thcount")
    /\ UNCHANGED <<pool, jobqueue, v, mine, signals, history>>

WaitReturns ==
    /\ Inside(User, "wait") /\ len = 0 /\ num_threads_working = 0
    /\ Goes(User, "idle") /\ Unlock("thcount")
    /\ UNCHANGED <<pool, jobqueue, v, mine, signals, history>>

\* thpool_pause signals one thread after the other.
thpool_pause ==
    /\ At(User, "idle") /\ pauses < MaxPauses
    /\ pauses' = pauses + 1
    /\ next' = 1
    /\ Goes(User, "pause")
    /\ UNCHANGED <<pool, jobqueue, v, mutex, mine, threads_on_hold, sig, held, history>>

PauseSignals ==
    /\ At(User, "pause")
    /\ \/ /\ next <= num_threads_alive
          /\ sig' = [sig EXCEPT ![next] = TRUE]
          /\ next' = next + 1
          /\ UNCHANGED pc
       \/ /\ next > num_threads_alive
          /\ Goes(User, "idle")
          /\ UNCHANGED <<sig, next>>
    /\ UNCHANGED <<pool, jobqueue, v, mutex, mine, threads_on_hold, held, pauses, history>>

thpool_resume ==
    /\ At(User, "idle") /\ threads_on_hold = 1
    /\ threads_on_hold' = 0
    /\ UNCHANGED <<pool, jobqueue, v, mutex, pc, mine, sig, held, next, pauses, history>>

\* thpool_destroy: the semaphore is posted again and again until no thread is alive.
thpool_destroy ==
    /\ At(User, "idle")
    /\ threads_keepalive' = 0
    /\ Goes(User, "destroy")
    /\ UNCHANGED <<num_threads_alive, num_threads_working, jobqueue, v, mutex, mine,
                   signals, history>>

DestroyPolls ==
    /\ At(User, "destroy") /\ num_threads_alive # 0
    /\ Goes(User, "post_all")
    /\ UNCHANGED <<pool, jobqueue, v, mutex, mine, signals, history>>

bsem_post_all ==
    /\ Inside(User, "post_all")
    /\ v' = 1
    /\ pc' = Woken("destroy", User, Sleepers)
    /\ Unlock("bsem")
    /\ UNCHANGED <<pool, jobqueue, mine, signals, history>>

\* jobqueue_destroy drops the jobs that are left (every pull posts the semaphore,
\* which is reset at the end), and the pool is freed.
DestroyFrees ==
    /\ At(User, "destroy") /\ num_threads_alive = 0 /\ mutex["rw"] = Null
    /\ front' = Null /\ rear' = Null /\ len' = 0 /\ v' = 0
    /\ Goes(User, "freed")
    /\ UNCHANGED <<pool, prev, mutex, mine, signals, history>>
-----------------------------------------------------------------------------
Worker(w) ==
    \/ ThreadStarts(w) \/ ThreadLoops(w)
    \/ BsemSleeps(w) \/ BsemPasses(w)
    \/ ThreadChecks(w) \/ ThreadWorks(w)
    \/ PullNone(w) \/ PullLast(w) \/ PullFirst(w) \/ PullPosts(w)
    \/ ThreadRuns(w) \/ ThreadDone(w)
    \/ ThreadLeaves(w) \/ ThreadExits(w)
    \/ thread_hold(w) \/ HoldEnds(w)

\* The caller inside a call, and at the start of one.
UserContinues ==
    \/ InitReturns \/ jobqueue_push \/ PushPosts
    \/ WaitSleeps \/ WaitReturns \/ PauseSignals
    \/ DestroyPolls \/ bsem_post_all \/ DestroyFrees

UserCalls == thpool_add_work \/ thpool_wait \/ thpool_pause \/ thpool_resume \/ thpool_destroy

Next == \/ UserContinues \/ UserCalls
        \/ \E w \in Workers : Worker(w)
        \/ \E p \in Procs : Lock(p)

Spec == Init /\ [][Next]_vars

\* Every thread that can go on does (the scheduler), and a worker that waits for a
\* mutex which the polling thpool_destroy takes again and again gets it in the end:
\* the destroying thread sleeps between its polls, with the mutex free.
FairSpec ==
    /\ Spec
    /\ WF_vars(UserContinues \/ Lock(User))
    /\ \A w \in Workers : WF_vars(Worker(w)) /\ SF_vars(Lock(w))
-----------------------------------------------------------------------------
Places == {"created", "loop", "bsem", "asleep", "check", "work", "pull", "pull_post", "run",
           "done", "leave", "left", "gone"}
UserPlaces == {"init", "idle", "push", "push_post", "wait", "waiting", "pause", "destroy",
               "post_all", "freed"}

(* The counters of the pool stay within the number of threads, the semaphore is
   binary and the queue holds no more than what was added. *)
TypeOK ==
    /\ threads_keepalive \in 0..1 /\ threads_on_hold \in 0..1 /\ v \in 0..1
    /\ num_threads_alive \in 0..N /\ num_threads_working \in 0..N
    /\ len \in 0..MaxJobs /\ {front, rear} \subseteq Jobs \cup {Null}
    /\ prev \in [Jobs -> Jobs \cup {Null}]
    /\ \A l \in DOMAIN mutex : mutex[l] \in Procs \cup {Null}
    /\ \A w \in Workers : pc[w] \in Places
    /\ pc[User] \in UserPlaces
    /\ added \in 0..MaxJobs /\ next \in 1..(N + 1)

\* What jobqueue_push has linked: the job of a call before its section is not in yet.
Pushed == IF pc[User] = "push" THEN added - 1 ELSE added

(* jobqueue_pull hands out every job once and in the order of thpool_add_work,
   whichever worker pulls and however pushes and pulls meet: the linked list
   from front to rear is exactly the jobs not yet started. *)
JobsInOrder ==
    /\ started = [i \in 1..Len(started) |-> i]
    /\ pc[User] # "freed" =>
          /\ len = Pushed - Len(started)
          /\ len > 0 => front = Len(started) + 1 /\ rear = Pushed
          /\ \A j \in (Len(started) + 1)..(Pushed - 1) : prev[j] = j + 1

(* One binary semaphore is enough for a queue of any length: while jobs wait,
   the semaphore is 1, or is about to be posted, or a worker that passed it has
   yet to pull (or sees the pool being destroyed). *)
JobsAnnounced ==
    len > 0 /\ pc[User] # "destroy" /\ threads_keepalive = 1 =>
        \/ v = 1
        \/ pc[User] = "push_post"
        \/ \E w \in Workers : pc[w] \in {"check", "work", "pull", "pull_post"}

(* thpool_wait sleeps only while some job is queued or some worker is counted,
   so that a worker is still to come that signals threads_all_idle. *)
WaiterIsSignalled ==
    pc[User] = "waiting" => len # 0 \/ num_threads_working # 0

(* thpool_wait returns only when every job that was added has finished: no job
   hides between the queue (len) and a worker (num_threads_working). *)
WaitMeansDone ==
    [][pc[User] = "wait" /\ pc'[User] = "idle" => finished = 1..added]_vars

(* Nothing waits for ever while the pool is not on hold: every call returns
   (thpool_wait is signalled, thpool_destroy sees the last thread leave), and
   with the caller idle all jobs that were added get done. *)
CallsReturn ==
    []<>(\/ threads_on_hold = 1
         \/ pc[User] = "freed"
         \/ pc[User] = "idle" /\ finished = 1..added)

(* "While the thread is being paused, new work can be added." (thpool_pause) *)
PausedPoolTakesWork ==
    pc[User] \in {"push", "push_post"} ~> pc[User] = "idle"
=============================================================================
