---------------------------- MODULE ThPoolProofs ----------------------------
(***************************************************************************)
(* Proofs of the safety properties of ThPool, for any number of threads,   *)
(* jobs and pauses.                                                        *)
(***************************************************************************)
EXTENDS ThPool, FiniteSetTheorems, SequenceTheorems, TLAPS

\* TypeOK with the functions' domains; the counters are in CountInv.
Shape ==
    /\ threads_keepalive \in 0..1 /\ threads_on_hold \in 0..1 /\ v \in 0..1
    /\ len \in Nat /\ front \in Jobs \cup {Null} /\ rear \in Jobs \cup {Null}
    /\ prev \in [Jobs -> Jobs \cup {Null}]
    /\ mutex \in [{"thcount", "rw", "bsem"} -> Procs \cup {Null}]
    /\ pc \in [Procs -> Places \cup UserPlaces]
    /\ \A w \in Workers : pc[w] \in Places
    /\ pc[User] \in UserPlaces
    /\ mine \in [Workers -> Jobs \cup {Null}]
    /\ started \in Seq(Jobs) /\ finished \subseteq Jobs
    /\ added \in 0..MaxJobs /\ next \in 1..(N + 1)

\* A worker is counted as working from its section "work" to its section "done",
\* and as alive from its first section to its last one.
Busy == {"pull", "pull_post", "run", "done"}
BusyWorkers == {w \in Workers : pc[w] \in Busy}
LiveWorkers == {w \in Workers : pc[w] \notin {"created", "left", "gone"}}

CountInv ==
    /\ num_threads_working = Cardinality(BusyWorkers)
    /\ num_threads_alive = Cardinality(LiveWorkers)

\* The caller: a call of thpool_add_work has a job, one of thpool_destroy has
\* cleared the flag; an empty queue has no front.
CallInv ==
    /\ pc[User] = "push" => added > 0
    /\ pc[User] \in {"destroy", "post_all", "freed"} => threads_keepalive = 0
    /\ pc[User] = "freed" => len = 0
    /\ len = 0 => front = Null

\* A job that was started is finished, or it is with a worker that is counted.
JobInv ==
    /\ finished \subseteq 1..Len(started)
    /\ \A j \in 1..Len(started) : j \in finished \/ \E w \in Workers : mine[w] = j
    /\ \A w \in Workers : mine[w] # Null =>
           mine[w] \in 1..Len(started) /\ pc[w] \in {"pull_post", "run"}

PoolInv ==
    /\ Shape
    /\ CountInv
    /\ CallInv
    /\ JobsInOrder
    /\ JobInv
    /\ JobsAnnounced
    /\ WaiterIsSignalled
-----------------------------------------------------------------------------
LEMMA ProcFacts ==
    /\ User \in Procs /\ User \notin Workers /\ Workers \subseteq Procs
    /\ Procs \subseteq Workers \cup {User} /\ N \in Nat /\ MaxJobs \in Nat
    /\ Null \notin Procs /\ Null \notin Jobs /\ Null # 0
  BY ThPoolAssumption DEF User, Procs, Workers, Jobs

\* The counters stay within the number of threads.
LEMMA CountBounds ==
    CountInv => num_threads_alive \in 0..N /\ num_threads_working \in 0..N
  <1>1. IsFiniteSet(Workers) /\ Cardinality(Workers) = N
    <2>1. 1 \in Int /\ N \in Int
      BY ProcFacts
    <2>2. /\ IsFiniteSet(1..N)
          /\ Cardinality(1..N) = IF 1 > N THEN 0 ELSE N - 1 + 1
      BY <2>1, FS_Interval
    <2> QED
      BY <2>2, ProcFacts DEF Workers
  <1>2. BusyWorkers \in SUBSET Workers /\ LiveWorkers \in SUBSET Workers
    BY DEF BusyWorkers, LiveWorkers
  <1>3. /\ IsFiniteSet(BusyWorkers) /\ Cardinality(BusyWorkers) <= N
        /\ IsFiniteSet(LiveWorkers) /\ Cardinality(LiveWorkers) <= N
    BY <1>1, <1>2, FS_Subset
  <1>4. Cardinality(BusyWorkers) \in Nat /\ Cardinality(LiveWorkers) \in Nat
    BY <1>3, FS_CardinalityType
  <1> QED
    BY <1>3, <1>4, ProcFacts DEF CountInv

\* The ends of a queue that is not empty.
LEMMA QueueEnds ==
    ASSUME Shape, CallInv, JobsInOrder
    PROVE  /\ len > 0 => /\ front \in Jobs /\ front = Len(started) + 1
                         /\ rear \in Jobs /\ rear = Pushed
                         /\ len = Pushed - Len(started)
           /\ len <= MaxJobs /\ Pushed \in Int /\ Pushed <= MaxJobs
           /\ Len(started) \in Nat
  <1>1. Len(started) \in Nat
    BY LenProperties DEF Shape
  <1>2. Pushed \in Int /\ Pushed <= MaxJobs
    BY ProcFacts DEF Shape, Pushed
  <1>3. CASE pc[User] = "freed"
    BY <1>1, <1>2, <1>3, ProcFacts DEF CallInv
  <1>4. CASE pc[User] # "freed"
    BY <1>1, <1>2, <1>4, ProcFacts DEF JobsInOrder, Shape, Jobs
  <1> QED
    BY <1>3, <1>4

\* Every step keeps the shape of the variables.
LEMMA ShapeStep ==
    ASSUME PoolInv, Next PROVE Shape'
  <1> USE ProcFacts DEF Shape, PoolInv, pool, jobqueue, signals, history, Goes, At, Inside,
          Running, Unlock
  <1>1. ASSUME NEW w \in Workers, ThreadStarts(w) PROVE Shape'
    BY <1>1 DEF ThreadStarts, Places, UserPlaces
  <1>2. ASSUME NEW w \in Workers, ThreadLoops(w) PROVE Shape'
    BY <1>2 DEF ThreadLoops, Places, UserPlaces
  <1>3. ASSUME NEW w \in Workers, BsemSleeps(w) PROVE Shape'
    BY <1>3 DEF BsemSleeps, Places, UserPlaces
  <1>4. ASSUME NEW w \in Workers, BsemPasses(w) PROVE Shape'
    BY <1>4 DEF BsemPasses, Places, UserPlaces
  <1>5. ASSUME NEW w \in Workers, ThreadChecks(w) PROVE Shape'
    BY <1>5 DEF ThreadChecks, Places, UserPlaces
  <1>6. ASSUME NEW w \in Workers, ThreadWorks(w) PROVE Shape'
    BY <1>6 DEF ThreadWorks, Places, UserPlaces
  <1>7. ASSUME NEW w \in Workers, PullNone(w) PROVE Shape'
    BY <1>7 DEF PullNone, Places, UserPlaces, Pulls
  <1>8. ASSUME NEW w \in Workers, PullLast(w) PROVE Shape'
    BY <1>8 DEF PullLast, Places, UserPlaces, Pulls
  <1>9. ASSUME NEW w \in Workers, PullFirst(w) PROVE Shape'
    BY <1>9, QueueEnds DEF PullFirst, Places, UserPlaces, Pulls
  <1>10. ASSUME NEW w \in Workers, PullPosts(w) PROVE Shape'
    BY <1>10 DEF PullPosts, Places, UserPlaces, bsem_post, Woken, Sleepers
  <1>11. ASSUME NEW w \in Workers, ThreadRuns(w) PROVE Shape'
    BY <1>11 DEF ThreadRuns, Places, UserPlaces
  <1>12. ASSUME NEW w \in Workers, ThreadDone(w) PROVE Shape'
    BY <1>12 DEF ThreadDone, Places, UserPlaces
  <1>13. ASSUME NEW w \in Workers, ThreadLeaves(w) PROVE Shape'
    BY <1>13 DEF ThreadLeaves, Places, UserPlaces
  <1>14. ASSUME NEW w \in Workers, ThreadExits(w) PROVE Shape'
    BY <1>14 DEF ThreadExits, Places, UserPlaces
  <1>15. ASSUME NEW w \in Workers, thread_hold(w) PROVE Shape'
    BY <1>15 DEF thread_hold, Places, UserPlaces
  <1>16. ASSUME NEW w \in Workers, HoldEnds(w) PROVE Shape'
    BY <1>16 DEF HoldEnds, Places, UserPlaces
  <1>17. CASE InitReturns
    BY <1>17 DEF InitReturns, Places, UserPlaces
  <1>18. CASE jobqueue_push
    <2>1. added \in Jobs /\ (len > 0 => rear \in Jobs)
      BY <1>18, QueueEnds DEF jobqueue_push, CallInv, Jobs
    <2>2. prev' \in [Jobs -> Jobs \cup {Null}]
      <3>1. CASE len = 0
        BY <1>18, <2>1, <3>1 DEF jobqueue_push
      <3>2. CASE len # 0
        BY <1>18, <2>1, <3>2 DEF jobqueue_push
      <3> QED
        BY <3>1, <3>2
    <2>3. front' \in Jobs \cup {Null} /\ rear' \in Jobs \cup {Null} /\ len' \in Nat
      BY <1>18, <2>1 DEF jobqueue_push
    <2> QED
      BY <1>18, <2>2, <2>3 DEF jobqueue_push, Places, UserPlaces
  <1>19. CASE PushPosts
    <2>1. /\ pc' \in [Procs -> Places \cup UserPlaces]
          /\ (\A w \in Workers : pc'[w] \in Places) /\ pc'[User] \in UserPlaces
      <3>1. CASE Goes(User, "idle")
        BY <1>19, <3>1 DEF UserPlaces
      <3>2. ASSUME NEW x \in Sleepers, pc' = Woken("idle", User, {x})
            PROVE  /\ pc' \in [Procs -> Places \cup UserPlaces]
                   /\ (\A w \in Workers : pc'[w] \in Places) /\ pc'[User] \in UserPlaces
        <4>1. "bsem" \in Places /\ "idle" \in UserPlaces
          BY DEF Places, UserPlaces
        <4> QED
          BY <3>2, <4>1 DEF Woken, Sleepers
      <3> QED
        BY <1>19, <3>1, <3>2 DEF PushPosts, bsem_post
    <2> QED
      BY <1>19, <2>1 DEF PushPosts, bsem_post
  <1>20. CASE WaitSleeps
    BY <1>20 DEF WaitSleeps, Places, UserPlaces
  <1>21. CASE WaitReturns
    BY <1>21 DEF WaitReturns, Places, UserPlaces
  <1>22. CASE PauseSignals
    BY <1>22, CountBounds DEF PauseSignals, Places, UserPlaces
  <1>23. CASE DestroyPolls
    BY <1>23 DEF DestroyPolls, Places, UserPlaces
  <1>24. CASE bsem_post_all
    BY <1>24 DEF bsem_post_all, Places, UserPlaces, Woken, Sleepers
  <1>25. CASE DestroyFrees
    BY <1>25 DEF DestroyFrees, Places, UserPlaces
  <1>26. CASE thpool_add_work
    BY <1>26 DEF thpool_add_work, Places, UserPlaces
  <1>27. CASE thpool_wait
    BY <1>27 DEF thpool_wait, Places, UserPlaces
  <1>28. CASE thpool_pause
    BY <1>28 DEF thpool_pause, Places, UserPlaces
  <1>29. CASE thpool_resume
    BY <1>29 DEF thpool_resume, Places, UserPlaces
  <1>30. CASE thpool_destroy
    BY <1>30 DEF thpool_destroy, Places, UserPlaces
  <1>31. ASSUME NEW p \in Procs, Lock(p) PROVE Shape'
    BY <1>31 DEF Lock, Needs
  <1> QED
    BY <1>1, <1>2, <1>3, <1>4, <1>5, <1>6, <1>7, <1>8, <1>9, <1>10, <1>11, <1>12,
       <1>13, <1>14, <1>15, <1>16, <1>17, <1>18, <1>19, <1>20, <1>21, <1>22, <1>23,
       <1>24, <1>25, <1>26, <1>27, <1>28, <1>29, <1>30, <1>31
    DEF Next, Worker, UserContinues, UserCalls
-----------------------------------------------------------------------------
(* What a step of each thread may change.                                  *)

\* A worker moves itself; it may wake a sleeper of the semaphore and the waiting
\* caller.  Only jobqueue_pull changes the queue.
WorkerFrame(w) ==
    /\ \A x \in Workers : \/ x = w
                          \/ pc'[x] = pc[x]
                          \/ pc[x] = "asleep" /\ pc'[x] = "bsem"
    /\ \/ pc'[User] = pc[User]
       \/ pc[User] = "waiting" /\ pc'[User] = "wait"
    /\ UNCHANGED <<added, threads_keepalive, prev>>

\* The caller never touches a job that is with a worker; it may wake sleepers.
UserFrame ==
    /\ \A x \in Workers : \/ pc'[x] = pc[x]
                          \/ pc[x] = "asleep" /\ pc'[x] = "bsem"
    /\ UNCHANGED <<mine, started, finished, num_threads_alive, num_threads_working>>

LEMMA WorkerFrames ==
    ASSUME Shape, NEW w \in Workers, Worker(w) PROVE WorkerFrame(w)
  <1> USE ProcFacts DEF Shape, WorkerFrame, pool, jobqueue, history, Goes, At, Inside
  <1>1. CASE ThreadStarts(w)
    BY <1>1 DEF ThreadStarts
  <1>2. CASE ThreadLoops(w)
    BY <1>2 DEF ThreadLoops
  <1>3. CASE BsemSleeps(w)
    BY <1>3 DEF BsemSleeps
  <1>4. CASE BsemPasses(w)
    BY <1>4 DEF BsemPasses
  <1>5. CASE ThreadChecks(w)
    BY <1>5 DEF ThreadChecks
  <1>6. CASE ThreadWorks(w)
    BY <1>6 DEF ThreadWorks
  <1>7. CASE PullNone(w)
    BY <1>7 DEF PullNone
  <1>8. CASE PullLast(w)
    BY <1>8 DEF PullLast
  <1>9. CASE PullFirst(w)
    BY <1>9 DEF PullFirst
  <1>10. CASE PullPosts(w)
    BY <1>10 DEF PullPosts, bsem_post, Woken, Sleepers
  <1>11. CASE ThreadRuns(w)
    BY <1>11 DEF ThreadRuns
  <1>12. CASE ThreadDone(w)
    BY <1>12 DEF ThreadDone
  <1>13. CASE ThreadLeaves(w)
    BY <1>13 DEF ThreadLeaves
  <1>14. CASE ThreadExits(w)
    BY <1>14 DEF ThreadExits
  <1>15. CASE thread_hold(w)
    BY <1>15 DEF thread_hold
  <1>16. CASE HoldEnds(w)
    BY <1>16 DEF HoldEnds
  <1> QED
    BY <1>1, <1>2, <1>3, <1>4, <1>5, <1>6, <1>7, <1>8, <1>9, <1>10, <1>11, <1>12,
       <1>13, <1>14, <1>15, <1>16
    DEF Worker

LEMMA UserFrames ==
    ASSUME Shape, UserContinues \/ UserCalls PROVE UserFrame
  <1> USE ProcFacts DEF Shape, UserFrame, pool, jobqueue, history, Goes, At, Inside
  <1>1. CASE InitReturns
    BY <1>1 DEF InitReturns
  <1>2. CASE jobqueue_push
    BY <1>2 DEF jobqueue_push
  <1>3. CASE PushPosts
    BY <1>3 DEF PushPosts, bsem_post, Woken, Sleepers
  <1>4. CASE WaitSleeps
    BY <1>4 DEF WaitSleeps
  <1>5. CASE WaitReturns
    BY <1>5 DEF WaitReturns
  <1>6. CASE PauseSignals
    BY <1>6 DEF PauseSignals
  <1>7. CASE DestroyPolls
    BY <1>7 DEF DestroyPolls
  <1>8. CASE bsem_post_all
    BY <1>8 DEF bsem_post_all, Woken, Sleepers
  <1>9. CASE DestroyFrees
    BY <1>9 DEF DestroyFrees
  <1>10. CASE thpool_add_work
    BY <1>10 DEF thpool_add_work
  <1>11. CASE thpool_wait
    BY <1>11 DEF thpool_wait
  <1>12. CASE thpool_pause
    BY <1>12 DEF thpool_pause
  <1>13. CASE thpool_resume
    BY <1>13 DEF thpool_resume
  <1>14. CASE thpool_destroy
    BY <1>14 DEF thpool_destroy
  <1> QED
    BY <1>1, <1>2, <1>3, <1>4, <1>5, <1>6, <1>7, <1>8, <1>9, <1>10, <1>11, <1>12,
       <1>13, <1>14
    DEF UserContinues, UserCalls

-----------------------------------------------------------------------------
(* The counters.                                                           *)

LEMMA AddOne ==
    ASSUME NEW S \in SUBSET Workers, NEW w \in Workers, w \notin S
    PROVE  Cardinality(S \cup {w}) = Cardinality(S) + 1
  <1>1. IsFiniteSet(Workers)
    BY FS_Interval, ProcFacts DEF Workers
  <1>2. IsFiniteSet(S)
    BY <1>1, FS_Subset
  <1> QED
    BY <1>2, FS_AddElement

LEMMA RemoveOne ==
    ASSUME NEW S \in SUBSET Workers, NEW w \in S
    PROVE  Cardinality(S \ {w}) = Cardinality(S) - 1
  <1>1. IsFiniteSet(Workers)
    BY FS_Interval, ProcFacts DEF Workers
  <1>2. IsFiniteSet(S)
    BY <1>1, FS_Subset
  <1> QED
    BY <1>2, FS_RemoveElement

\* num_threads_alive and num_threads_working count the workers at the places
\* between the sections that change them.
LEMMA CountStep ==
    ASSUME PoolInv, Next PROVE CountInv'
  <1> USE ProcFacts DEF PoolInv
  <1> DEFINE Same == /\ BusyWorkers' = BusyWorkers /\ LiveWorkers' = LiveWorkers
                     /\ UNCHANGED <<num_threads_alive, num_threads_working>>
  <1>0. Same => CountInv'
    BY DEF CountInv
  <1>1. ASSUME NEW w \in Workers, ThreadStarts(w) PROVE CountInv'
    <2>1. LiveWorkers' = LiveWorkers \cup {w} /\ w \notin LiveWorkers
      BY <1>1 DEF ThreadStarts, Goes, At, Inside, Shape, LiveWorkers, Busy
    <2>2. BusyWorkers' = BusyWorkers
      BY <1>1 DEF ThreadStarts, Goes, At, Inside, Shape, BusyWorkers, Busy
    <2>3. num_threads_alive' = num_threads_alive + 1 /\ UNCHANGED num_threads_working
      BY <1>1 DEF ThreadStarts
    <2>4. LiveWorkers \in SUBSET Workers
      BY DEF LiveWorkers
    <2> QED
      BY <2>1, <2>2, <2>3, <2>4, AddOne DEF CountInv
  <1>2. ASSUME NEW w \in Workers, ThreadLoops(w) PROVE Same
    BY <1>2
    DEF ThreadLoops, pool, Goes, At, Inside, Shape, BusyWorkers, LiveWorkers, Busy
  <1>3. ASSUME NEW w \in Workers, BsemSleeps(w) PROVE Same
    BY <1>3
    DEF BsemSleeps, pool, Goes, At, Inside, Shape, BusyWorkers, LiveWorkers, Busy
  <1>4. ASSUME NEW w \in Workers, BsemPasses(w) PROVE Same
    BY <1>4
    DEF BsemPasses, pool, Goes, At, Inside, Shape, BusyWorkers, LiveWorkers, Busy
  <1>5. ASSUME NEW w \in Workers, ThreadChecks(w) PROVE Same
    BY <1>5
    DEF ThreadChecks, pool, Goes, At, Inside, Shape, BusyWorkers, LiveWorkers, Busy
  <1>6. ASSUME NEW w \in Workers, ThreadWorks(w) PROVE CountInv'
    <2>1. BusyWorkers' = BusyWorkers \cup {w} /\ w \notin BusyWorkers
      BY <1>6 DEF ThreadWorks, Goes, At, Inside, Shape, BusyWorkers, Busy
    <2>2. LiveWorkers' = LiveWorkers
      BY <1>6 DEF ThreadWorks, Goes, At, Inside, Shape, LiveWorkers, Busy
    <2>3. num_threads_working' = num_threads_working + 1 /\ UNCHANGED num_threads_alive
      BY <1>6 DEF ThreadWorks
    <2>4. BusyWorkers \in SUBSET Workers
      BY DEF BusyWorkers
    <2> QED
      BY <2>1, <2>2, <2>3, <2>4, AddOne DEF CountInv
  <1>7. ASSUME NEW w \in Workers, PullNone(w) PROVE Same
    BY <1>7 DEF PullNone, pool, Goes, At, Inside, Shape, BusyWorkers, LiveWorkers, Busy
  <1>8. ASSUME NEW w \in Workers, PullLast(w) PROVE Same
    BY <1>8 DEF PullLast, pool, Goes, At, Inside, Shape, BusyWorkers, LiveWorkers, Busy
  <1>9. ASSUME NEW w \in Workers, PullFirst(w) PROVE Same
    BY <1>9 DEF PullFirst, pool, Goes, At, Inside, Shape, BusyWorkers, LiveWorkers, Busy
  <1>10. ASSUME NEW w \in Workers, PullPosts(w) PROVE Same
    BY <1>10
    DEF PullPosts, bsem_post, Woken, Sleepers, pool, Goes, At, Inside, Shape,
        BusyWorkers, LiveWorkers, Busy
  <1>11. ASSUME NEW w \in Workers, ThreadRuns(w) PROVE Same
    BY <1>11
    DEF ThreadRuns, pool, Goes, At, Inside, Shape, BusyWorkers, LiveWorkers, Busy
  <1>12. ASSUME NEW w \in Workers, ThreadDone(w) PROVE CountInv'
    <2>1. BusyWorkers' = BusyWorkers \ {w} /\ w \in BusyWorkers
      BY <1>12 DEF ThreadDone, Goes, At, Inside, Shape, BusyWorkers, Busy
    <2>2. LiveWorkers' = LiveWorkers
      BY <1>12 DEF ThreadDone, Goes, At, Inside, Shape, LiveWorkers, Busy
    <2>3. num_threads_working' = num_threads_working - 1 /\ UNCHANGED num_threads_alive
      BY <1>12 DEF ThreadDone
    <2>4. BusyWorkers \in SUBSET Workers
      BY DEF BusyWorkers
    <2> QED
      BY <2>1, <2>2, <2>3, <2>4, RemoveOne DEF CountInv
  <1>13. ASSUME NEW w \in Workers, ThreadLeaves(w) PROVE CountInv'
    <2>1. LiveWorkers' = LiveWorkers \ {w} /\ w \in LiveWorkers
      BY <1>13 DEF ThreadLeaves, Goes, At, Inside, Shape, LiveWorkers, Busy
    <2>2. BusyWorkers' = BusyWorkers
      BY <1>13 DEF ThreadLeaves, Goes, At, Inside, Shape, BusyWorkers, Busy
    <2>3. num_threads_alive' = num_threads_alive - 1 /\ UNCHANGED num_threads_working
      BY <1>13 DEF ThreadLeaves
    <2>4. LiveWorkers \in SUBSET Workers
      BY DEF LiveWorkers
    <2> QED
      BY <2>1, <2>2, <2>3, <2>4, RemoveOne DEF CountInv
  <1>14. ASSUME NEW w \in Workers, ThreadExits(w) PROVE Same
    BY <1>14
    DEF ThreadExits, pool, Goes, At, Inside, Shape, BusyWorkers, LiveWorkers, Busy
  <1>15. ASSUME NEW w \in Workers, thread_hold(w) PROVE Same
    BY <1>15
    DEF thread_hold, pool, Goes, At, Inside, Shape, BusyWorkers, LiveWorkers, Busy
  <1>16. ASSUME NEW w \in Workers, HoldEnds(w) PROVE Same
    BY <1>16 DEF HoldEnds, pool, Goes, At, Inside, Shape, BusyWorkers, LiveWorkers, Busy
  <1>17. ASSUME UserFrame PROVE Same
    BY <1>17 DEF UserFrame, BusyWorkers, LiveWorkers, Busy
  <1>18. ASSUME NEW p \in Procs, Lock(p) PROVE Same
    BY <1>18 DEF Lock, pool, BusyWorkers, LiveWorkers
  <1> QED
    BY <1>0, <1>1, <1>2, <1>3, <1>4, <1>5, <1>6, <1>7, <1>8, <1>9, <1>10, <1>11,
       <1>12, <1>13, <1>14, <1>15, <1>16, <1>17, <1>18, UserFrames
    DEF Next, Worker
-----------------------------------------------------------------------------
(* The queue of jobs.                                                      *)

\* Among the workers' steps only the pull of a job changes the queue; a pull from
\* the empty queue gives the null pointer.
LEMMA QueueFrame ==
    ASSUME Shape, CallInv, NEW w \in Workers, Worker(w)
    PROVE  \/ PullLast(w)
           \/ PullFirst(w)
           \/ UNCHANGED <<front, rear, len, started>>
  <1> USE DEF jobqueue, history
  <1>1. CASE PullNone(w)
    BY <1>1 DEF PullNone, Pulls, CallInv
  <1>2. CASE \/ ThreadStarts(w) \/ ThreadLoops(w) \/ BsemSleeps(w) \/ BsemPasses(w)
             \/ ThreadChecks(w) \/ ThreadWorks(w)
    BY <1>2
    DEF ThreadStarts, ThreadLoops, BsemSleeps, BsemPasses, ThreadChecks, ThreadWorks
  <1>3. CASE \/ PullPosts(w) \/ ThreadRuns(w) \/ ThreadDone(w) \/ ThreadLeaves(w)
             \/ ThreadExits(w) \/ thread_hold(w) \/ HoldEnds(w)
    BY <1>3
    DEF PullPosts, ThreadRuns, ThreadDone, ThreadLeaves, ThreadExits, thread_hold,
        HoldEnds
  <1> QED
    BY <1>1, <1>2, <1>3 DEF Worker

\* Among the caller's steps only jobqueue_push and DestroyFrees change the queue.
LEMMA UserQueueFrame ==
    ASSUME UserContinues \/ UserCalls
    PROVE  \/ jobqueue_push
           \/ DestroyFrees
           \/ UNCHANGED jobqueue
  <1>1. CASE UserContinues
    BY <1>1
    DEF UserContinues, InitReturns, PushPosts, WaitSleeps, WaitReturns, PauseSignals,
        DestroyPolls, bsem_post_all
  <1>2. CASE UserCalls
    BY <1>2
    DEF UserCalls, thpool_add_work, thpool_wait, thpool_pause, thpool_resume,
        thpool_destroy
  <1> QED
    BY <1>1, <1>2

\* Where the caller goes, with what its calls change.
LEMMA UserMoves ==
    ASSUME Shape, UserContinues \/ UserCalls
    PROVE  /\ \/ pc[User] = "idle" /\ pc'[User] = "push" /\ added' = added + 1
              \/ pc'[User] # "push" /\ added' = added
           /\ pc[User] = "push" => jobqueue_push
           /\ pc[User] # "freed"
           /\ pc'[User] = "freed" => DestroyFrees
           /\ pc'[User] = "waiting" => WaitSleeps
           /\ pc'[User] = "destroy" => threads_keepalive' = 0 \/ pc[User] = "post_all"
           /\ pc'[User] = "post_all" => pc[User] = "destroy"
           /\ threads_keepalive' \in {0, threads_keepalive}
           /\ pc[User] = "wait" /\ pc'[User] = "idle" => WaitReturns
  <1> USE ProcFacts DEF Shape, At, Inside, Goes, pool, history
  <1>1. CASE InitReturns
    BY <1>1 DEF InitReturns
  <1>2. CASE jobqueue_push
    BY <1>2 DEF jobqueue_push
  <1>3. CASE PushPosts
    BY <1>3 DEF PushPosts, bsem_post, Woken
  <1>4. CASE WaitSleeps
    BY <1>4 DEF WaitSleeps
  <1>5. CASE WaitReturns
    BY <1>5 DEF WaitReturns
  <1>6. CASE PauseSignals
    BY <1>6 DEF PauseSignals
  <1>7. CASE DestroyPolls
    BY <1>7 DEF DestroyPolls
  <1>8. CASE bsem_post_all
    BY <1>8 DEF bsem_post_all, Woken
  <1>9. CASE DestroyFrees
    BY <1>9 DEF DestroyFrees
  <1>10. CASE thpool_add_work
    BY <1>10 DEF thpool_add_work
  <1>11. CASE thpool_wait
    BY <1>11 DEF thpool_wait
  <1>12. CASE thpool_pause
    BY <1>12 DEF thpool_pause
  <1>13. CASE thpool_resume
    BY <1>13 DEF thpool_resume
  <1>14. CASE thpool_destroy
    BY <1>14 DEF thpool_destroy
  <1> QED
    BY <1>1, <1>2, <1>3, <1>4, <1>5, <1>6, <1>7, <1>8, <1>9, <1>10, <1>11, <1>12,
       <1>13, <1>14
    DEF UserContinues, UserCalls

LEMMA CallStep ==
    ASSUME PoolInv, Next PROVE CallInv'
  <1> USE ProcFacts DEF PoolInv, Shape
  <1>1. ASSUME NEW w \in Workers, Worker(w) PROVE CallInv'
    <2>1. /\ pc'[User] \in {"push", "destroy", "post_all", "freed"} =>
                 pc'[User] = pc[User]
          /\ UNCHANGED <<added, threads_keepalive>>
      BY <1>1, WorkerFrames DEF WorkerFrame
    <2>2. CASE PullLast(w)
      BY <2>1, <2>2 DEF PullLast, CallInv
    <2>3. CASE PullFirst(w)
      BY <2>1, <2>3 DEF PullFirst, CallInv
    <2>4. CASE UNCHANGED <<front, rear, len, started>>
      BY <2>1, <2>4 DEF CallInv
    <2> QED
      BY <1>1, <2>2, <2>3, <2>4, QueueFrame
  <1>2. ASSUME UserContinues \/ UserCalls PROVE CallInv'
    <2>1. CASE jobqueue_push
      BY <2>1 DEF jobqueue_push, CallInv, Goes
    <2>2. CASE DestroyFrees
      BY <1>2, <2>2, UserMoves DEF DestroyFrees, CallInv, pool, At
    <2>3. CASE UNCHANGED jobqueue
      <3>1. pc'[User] = "push" => added' > 0
        BY <1>2, UserMoves
      <3>2. pc'[User] \in {"destroy", "post_all", "freed"} => threads_keepalive' = 0
        <4>1. DestroyFrees => threads_keepalive' = 0
          BY DEF DestroyFrees, CallInv, At, pool
        <4> QED
          BY <1>2, <4>1, UserMoves DEF CallInv
      <3>3. pc'[User] = "freed" => len' = 0
        <4>1. DestroyFrees => len' = 0
          BY DEF DestroyFrees
        <4> QED
          BY <1>2, <4>1, UserMoves
      <3>4. len' = 0 => front' = Null
        BY <2>3 DEF CallInv, jobqueue
      <3> QED
        BY <3>1, <3>2, <3>3, <3>4 DEF CallInv
    <2> QED
      BY <1>2, <2>1, <2>2, <2>3, UserQueueFrame
  <1>3. ASSUME NEW p \in Procs, Lock(p) PROVE CallInv'
    BY <1>3 DEF Lock, CallInv, pool, jobqueue, history
  <1> QED
    BY <1>1, <1>2, <1>3 DEF Next


\* A pull from a queue with jobs takes the next one in the order of the calls.
LEMMA PullTakesNext ==
    ASSUME Shape, CallInv, JobsInOrder, len > 0, NEW w \in Workers, Pulls(w, front)
    PROVE  /\ Len(started') = Len(started) + 1
           /\ started' = [i \in 1..(Len(started) + 1) |-> i]
           /\ front = Len(started) + 1 /\ front # Null
           /\ mine' = [mine EXCEPT ![w] = front]
  <1> DEFINE n == Len(started)
  <1>1. front \in Jobs /\ front = n + 1 /\ front # Null /\ n \in Nat
    BY QueueEnds, ProcFacts
  <1>2. started' = Append(started, n + 1) /\ mine' = [mine EXCEPT ![w] = front]
    BY <1>1 DEF Pulls
  <1>3. started = [i \in 1..n |-> i] /\ started \in Seq(Jobs)
    BY DEF JobsInOrder, Shape
  <1>4. /\ Append(started, n + 1) \in Seq(Jobs)
        /\ Len(Append(started, n + 1)) = n + 1
        /\ \A i \in 1..n : Append(started, n + 1)[i] = started[i]
        /\ Append(started, n + 1)[n + 1] = n + 1
    BY <1>1, <1>3, AppendProperties
  <1> DEFINE t == Append(started, n + 1)
  <1>5. t = [i \in 1..(n + 1) |-> t[i]]
    BY <1>4
  <1>6. \A i \in 1..(n + 1) : t[i] = i
    BY <1>1, <1>3, <1>4
  <1>7. t = [i \in 1..(n + 1) |-> i]
    BY <1>5, <1>6
  <1> QED
    BY <1>1, <1>2, <1>4, <1>7

\* The linked list stays the jobs that are not started, in the order of the calls.
LEMMA OrderStep ==
    ASSUME PoolInv, Next PROVE JobsInOrder'
  <1> USE ProcFacts DEF PoolInv
  <1> DEFINE n == Len(started)
  <1>0. n \in Nat /\ Pushed \in Int
    BY QueueEnds
  <1>1. ASSUME NEW w \in Workers, Worker(w) PROVE JobsInOrder'
    <2>1. /\ Pushed' = Pushed /\ prev' = prev
          /\ pc'[User] # "freed" => pc[User] # "freed"
      BY <1>1, WorkerFrames DEF WorkerFrame, Pushed
    <2>2. CASE PullLast(w)
      <3>1. /\ Len(started') = n + 1 /\ started' = [i \in 1..(n + 1) |-> i]
            /\ len = 1 /\ len' = 0
        BY <2>2, PullTakesNext DEF PullLast
      <3> QED
        BY <1>0, <2>1, <3>1 DEF JobsInOrder
    <2>3. CASE PullFirst(w)
      <3>1. /\ Len(started') = n + 1 /\ started' = [i \in 1..(n + 1) |-> i]
            /\ len > 1 /\ len' = len - 1 /\ front = n + 1 /\ front' = prev[front]
            /\ rear' = rear
        BY <2>3, PullTakesNext DEF PullFirst, Shape
      <3>2. len = Pushed - n /\ rear = Pushed
        BY <3>1, QueueEnds DEF Shape
      <3>3. ASSUME pc[User] # "freed"
            PROVE  /\ front' = n + 2
                   /\ \A j \in (n + 2)..(Pushed - 1) : prev[j] = j + 1
        <4>1. \A j \in (n + 1)..(Pushed - 1) : prev[j] = j + 1
          BY <3>3 DEF JobsInOrder
        <4>2. n + 1 \in (n + 1)..(Pushed - 1)
          BY <1>0, <3>1, <3>2
        <4> QED
          BY <1>0, <3>1, <4>1, <4>2
      <3>4. len' = Pushed - (n + 1)
        BY <1>0, <3>1, <3>2
      <3> QED
        BY <1>0, <2>1, <3>1, <3>2, <3>3, <3>4 DEF JobsInOrder
    <2>4. CASE UNCHANGED <<front, rear, len, started>>
      BY <2>1, <2>4 DEF JobsInOrder
    <2> QED
      BY <1>1, <2>2, <2>3, <2>4, QueueFrame
  <1>2. ASSUME UserContinues \/ UserCalls PROVE JobsInOrder'
    <2>0. started' = started
      BY <1>2, UserFrames DEF UserFrame
    <2>1. CASE jobqueue_push
      <3>1. /\ Pushed = added - 1 /\ Pushed' = added /\ pc[User] # "freed"
            /\ added \in Jobs /\ pc'[User] # "freed"
        BY <2>1
        DEF jobqueue_push, Inside, At, Goes, history, Pushed, Shape, CallInv, Jobs
      <3>2. len = added - 1 - n
        BY <3>1 DEF JobsInOrder
      <3>3. /\ rear' = added /\ len' = len + 1
            /\ front' = IF len = 0 THEN added ELSE front
        BY <2>1 DEF jobqueue_push
      <3>4. front' = n + 1 /\ len' = added - n
        BY <1>0, <3>1, <3>2, <3>3, QueueEnds DEF Shape, Jobs
      <3>5. ASSUME NEW j \in (n + 1)..(added - 1) PROVE prev'[j] = j + 1
        <4>1. len > 0 /\ rear = added - 1 /\ j \in Jobs /\ rear \in Jobs
          BY <1>0, <3>1, <3>2, QueueEnds DEF Shape, Jobs
        <4>2. prev' = [prev EXCEPT ![added] = Null, ![rear] = added]
          BY <2>1, <4>1 DEF jobqueue_push
        <4>3. CASE j = added - 1
          BY <3>1, <4>1, <4>2, <4>3 DEF Shape, Jobs
        <4>4. CASE j # added - 1
          <5>1. prev'[j] = prev[j]
            BY <1>0, <3>1, <4>1, <4>2, <4>4 DEF Shape, Jobs
          <5>2. prev[j] = j + 1
            BY <1>0, <3>1, <4>4 DEF JobsInOrder, Jobs
          <5> QED
            BY <5>1, <5>2
        <4> QED
          BY <4>3, <4>4
      <3> QED
        BY <2>0, <3>1, <3>3, <3>4, <3>5 DEF JobsInOrder
    <2>2. CASE DestroyFrees
      BY <2>0, <2>2 DEF JobsInOrder, DestroyFrees, Goes, Shape
    <2>3. CASE UNCHANGED jobqueue
      <3>1. pc[User] # "push" /\ pc[User] # "freed"
        BY <1>2, <2>3, UserMoves DEF jobqueue, jobqueue_push, Shape
      <3>2. Pushed' = Pushed
        BY <1>2, <3>1, UserMoves DEF Pushed, Shape
      <3> QED
        BY <2>0, <2>3, <3>1, <3>2 DEF JobsInOrder, jobqueue
    <2> QED
      BY <1>2, <2>1, <2>2, <2>3, UserQueueFrame
  <1>3. ASSUME NEW p \in Procs, Lock(p) PROVE JobsInOrder'
    BY <1>3 DEF Lock, JobsInOrder, Pushed, jobqueue, history
  <1> QED
    BY <1>1, <1>2, <1>3 DEF Next

\* A started job stays with its worker until it is finished.
LEMMA JobStep ==
    ASSUME PoolInv, Next PROVE JobInv'
  <1> USE ProcFacts DEF PoolInv
  <1> DEFINE n == Len(started)
  <1>0. n \in Nat
    BY QueueEnds
  <1>1. ASSUME NEW w \in Workers, Worker(w) PROVE JobInv'
    <2>0. \A x \in Workers : x # w /\ pc[x] \in {"pull_post", "run"} => pc'[x] = pc[x]
      BY <1>1, WorkerFrames DEF WorkerFrame
    <2>1. ASSUME len > 0, Pulls(w, front), pc[w] = "pull",
                 pc'[w] \in {"pull_post", "run"}, finished' = finished
          PROVE  JobInv'
      <3>1. /\ Len(started') = n + 1 /\ mine' = [mine EXCEPT ![w] = n + 1]
            /\ n + 1 # Null
        BY <2>1, PullTakesNext
      <3>2. mine[w] = Null
        BY <2>1 DEF JobInv
      <3>3. finished' \subseteq 1..(n + 1)
        BY <1>0, <2>1 DEF JobInv
      <3>4. ASSUME NEW j \in 1..(n + 1)
            PROVE  j \in finished' \/ \E x \in Workers : mine'[x] = j
        <4>1. CASE j = n + 1
          BY <3>1, <4>1 DEF Shape
        <4>2. CASE j \in 1..n /\ j \notin finished
          <5>1. PICK x \in Workers : mine[x] = j
            BY <4>2 DEF JobInv
          <5>2. x # w
            <6>1. j # Null
              BY ThPoolAssumption, <4>2, <5>1 DEF Shape, Jobs, JobsInOrder
            <6> QED
              BY <3>2, <5>1, <6>1
          <5> QED
            BY <3>1, <5>1, <5>2 DEF Shape
        <4> QED
          BY <1>0, <2>1, <4>1, <4>2
      <3>5. ASSUME NEW x \in Workers, mine'[x] # Null
            PROVE  mine'[x] \in 1..(n + 1) /\ pc'[x] \in {"pull_post", "run"}
        <4>1. CASE x = w
          BY <1>0, <2>1, <3>1, <4>1 DEF Shape
        <4>2. CASE x # w
          BY <1>0, <2>0, <3>1, <3>5, <4>2 DEF Shape, JobInv
        <4> QED
          BY <4>1, <4>2
      <3> QED
        BY <3>1, <3>3, <3>4, <3>5 DEF JobInv
    <2>2. CASE PullLast(w)
      BY <2>1, <2>2 DEF PullLast, Inside, At, Goes, Shape
    <2>3. CASE PullFirst(w)
      BY <2>1, <2>3 DEF PullFirst, Inside, At, Goes, Shape
    <2>4. CASE ThreadRuns(w)
      <3>1. /\ finished' = finished \cup ({mine[w]} \ {Null}) /\ started' = started
            /\ mine' = [mine EXCEPT ![w] = Null]
        BY <2>4 DEF ThreadRuns
      <3>2. finished' \subseteq 1..n
        BY <3>1 DEF JobInv
      <3>3. ASSUME NEW j \in 1..n
            PROVE  j \in finished' \/ \E x \in Workers : mine'[x] = j
        <4>1. CASE j \in finished
          BY <3>1, <4>1
        <4>2. ASSUME NEW x \in Workers, mine[x] = j
              PROVE  j \in finished' \/ \E y \in Workers : mine'[y] = j
          <5>1. j # Null
            BY ThPoolAssumption, <4>2 DEF Shape, Jobs, JobsInOrder
          <5>2. CASE x = w
            BY <3>1, <4>2, <5>1, <5>2
          <5>3. CASE x # w
            BY <3>1, <4>2, <5>3 DEF Shape
          <5> QED
            BY <5>2, <5>3
        <4> QED
          BY <4>1, <4>2 DEF JobInv
      <3>4. ASSUME NEW x \in Workers, mine'[x] # Null
            PROVE  mine'[x] \in 1..n /\ pc'[x] \in {"pull_post", "run"}
        BY <2>0, <3>1, <3>4 DEF Shape, JobInv
      <3> QED
        BY <3>1, <3>2, <3>3, <3>4 DEF JobInv
    <2>5. ASSUME UNCHANGED <<mine, started, finished>>,
                 pc[w] \in {"pull_post", "run"} => pc'[w] \in {"pull_post", "run"}
          PROVE  JobInv'
      BY <2>0, <2>5 DEF JobInv
    <2>6. CASE PullNone(w)
      <3>1. front = Null
        BY <2>6 DEF PullNone, CallInv
      <3>2. mine[w] = Null
        BY <2>6 DEF PullNone, Inside, At, JobInv
      <3> QED
        BY <2>5, <2>6, <3>1, <3>2 DEF PullNone, Pulls, Inside, At, Shape
    <2>7. CASE \/ ThreadStarts(w) \/ ThreadLoops(w) \/ BsemSleeps(w) \/ BsemPasses(w)
               \/ ThreadChecks(w) \/ ThreadWorks(w)
      BY <2>5, <2>7
      DEF ThreadStarts, ThreadLoops, BsemSleeps, BsemPasses, ThreadChecks, ThreadWorks,
          history, Inside, At
    <2>8. CASE ThreadDone(w) \/ ThreadLeaves(w) \/ ThreadExits(w)
      BY <2>5, <2>8 DEF ThreadDone, ThreadLeaves, ThreadExits, history, Inside, At
    <2>9. CASE PullPosts(w)
      BY <2>5, <2>9 DEF PullPosts, bsem_post, Woken, Goes, Shape, history, Inside, At
    <2>10. CASE thread_hold(w) \/ HoldEnds(w)
      BY <2>5, <2>10 DEF thread_hold, HoldEnds, Goes, history
    <2> QED
      BY <1>1, <2>2, <2>3, <2>4, <2>6, <2>7, <2>8, <2>9, <2>10 DEF Worker
  <1>2. ASSUME UserContinues \/ UserCalls PROVE JobInv'
    BY <1>2, UserFrames DEF UserFrame, JobInv
  <1>3. ASSUME NEW p \in Procs, Lock(p) PROVE JobInv'
    BY <1>3 DEF Lock, JobInv, history
  <1> QED
    BY <1>1, <1>2, <1>3 DEF Next

-----------------------------------------------------------------------------
(* The semaphore and the waiting caller.                                   *)

\* A worker that passed the semaphore goes on to pull, or posts it again.
LEMMA AnnounceStep ==
    ASSUME PoolInv, Next, CallInv' PROVE JobsAnnounced'
  <1> USE ProcFacts DEF PoolInv
  <1> DEFINE Coming == {"check", "work", "pull", "pull_post"}
  <1> SUFFICES ASSUME len' > 0, threads_keepalive' = 1
               PROVE  \/ v' = 1
                      \/ pc'[User] = "push_post"
                      \/ \E w \in Workers : pc'[w] \in Coming
    BY DEF JobsAnnounced
  <1>0. pc'[User] \notin {"destroy", "post_all", "freed"}
    BY DEF CallInv
  <1>1. ASSUME NEW w \in Workers, Worker(w)
        PROVE  \/ v' = 1
               \/ pc'[User] = "push_post"
               \/ \E x \in Workers : pc'[x] \in Coming
    <2>1. /\ pc[User] # "destroy" /\ threads_keepalive = 1
          /\ pc[User] = "push_post" => pc'[User] = "push_post"
          /\ \A x \in Workers : x # w /\ pc[x] \in Coming => pc'[x] \in Coming
      BY <1>0, <1>1, WorkerFrames DEF WorkerFrame
    <2>2. len > 0 /\ ~PullLast(w)
      <3>1. ~PullLast(w)
        BY DEF PullLast
      <3>2. PullFirst(w) => len > 0
        BY DEF PullFirst, Shape
      <3> QED
        BY <1>1, <3>1, <3>2, QueueFrame
    <2>3. \/ v = 1
          \/ pc[User] = "push_post"
          \/ \E x \in Workers : pc[x] \in Coming
      BY <2>1, <2>2 DEF JobsAnnounced
    <2>4. \/ v' = 1
          \/ pc'[w] \in Coming
          \/ v' = v /\ pc[w] \notin Coming
      <3> USE <2>1, <2>2 DEF Shape, Goes, At, Inside
      <3>1. CASE ThreadStarts(w) \/ ThreadLoops(w) \/ BsemSleeps(w) \/ BsemPasses(w)
        BY <3>1 DEF ThreadStarts, ThreadLoops, BsemSleeps, BsemPasses
      <3>2. CASE ThreadChecks(w) \/ ThreadWorks(w)
        BY <3>2 DEF ThreadChecks, ThreadWorks
      <3>3. CASE PullNone(w) \/ PullFirst(w) \/ PullPosts(w)
        BY <3>3 DEF PullNone, PullFirst, PullPosts, bsem_post
      <3>4. CASE ThreadRuns(w) \/ ThreadDone(w) \/ ThreadLeaves(w) \/ ThreadExits(w)
        BY <3>4 DEF ThreadRuns, ThreadDone, ThreadLeaves, ThreadExits
      <3>5. CASE thread_hold(w) \/ HoldEnds(w)
        BY <3>5 DEF thread_hold, HoldEnds
      <3> QED
        BY <1>1, <3>1, <3>2, <3>3, <3>4, <3>5 DEF Worker
    <2> QED
      BY <2>1, <2>3, <2>4
  <1>2. ASSUME UserContinues \/ UserCalls
        PROVE  \/ v' = 1
               \/ pc'[User] = "push_post"
               \/ \E x \in Workers : pc'[x] \in Coming
    <2>1. CASE jobqueue_push
      BY <2>1 DEF jobqueue_push, Goes, Shape
    <2>2. CASE PushPosts \/ bsem_post_all
      BY <2>2 DEF PushPosts, bsem_post, bsem_post_all
    <2>3. CASE ~jobqueue_push /\ ~PushPosts /\ ~bsem_post_all
      <3>1. v' = v /\ len' = len
        <4>1. ~DestroyFrees
          BY <1>0 DEF DestroyFrees, Goes, Shape
        <4> QED
          BY <1>2, <2>3, <4>1
          DEF UserContinues, InitReturns, WaitSleeps, WaitReturns, PauseSignals,
              DestroyPolls, UserCalls, thpool_add_work, thpool_wait, thpool_pause,
              thpool_resume, thpool_destroy, jobqueue
      <3>2. pc[User] # "push_post"
        BY <1>2, <2>3
        DEF UserContinues, InitReturns, WaitSleeps, WaitReturns, PauseSignals,
            DestroyPolls, UserCalls, thpool_add_work, thpool_wait, thpool_pause,
            thpool_resume, thpool_destroy, DestroyFrees, At, Inside
      <3>3. threads_keepalive = 1 /\ pc[User] # "destroy"
        BY <1>2, UserMoves DEF CallInv, Shape
      <3>4. \A x \in Workers : pc[x] \in Coming => pc'[x] = pc[x]
        BY <1>2, UserFrames DEF UserFrame
      <3> QED
        BY <3>1, <3>2, <3>3, <3>4 DEF JobsAnnounced
    <2> QED
      BY <2>1, <2>2, <2>3
  <1>3. ASSUME NEW p \in Procs, Lock(p)
        PROVE  \/ v' = 1
               \/ pc'[User] = "push_post"
               \/ \E x \in Workers : pc'[x] \in Coming
    BY <1>0, <1>3 DEF Lock, JobsAnnounced, pool, jobqueue
  <1> QED
    BY <1>1, <1>2, <1>3 DEF Next

\* A worker at a counted place makes num_threads_working positive.
LEMMA BusyCounts ==
    ASSUME CountInv, NEW w \in Workers, pc[w] \in Busy
    PROVE  num_threads_working # 0
  <1>1. IsFiniteSet(Workers)
    BY FS_Interval, ProcFacts DEF Workers
  <1>2. BusyWorkers \in SUBSET Workers /\ BusyWorkers # {}
    BY DEF BusyWorkers
  <1> QED
    BY <1>1, <1>2, FS_Subset, FS_EmptySet DEF CountInv

\* Whoever makes the last job disappear from the queue is counted, and whoever
\* takes the counter to 0 wakes the caller.
LEMMA WaiterStep ==
    ASSUME PoolInv, Next, CountInv' PROVE WaiterIsSignalled'
  <1> USE ProcFacts DEF PoolInv
  <1> SUFFICES ASSUME pc'[User] = "waiting"
               PROVE  len' # 0 \/ num_threads_working' # 0
    BY DEF WaiterIsSignalled
  <1>1. ASSUME NEW w \in Workers, Worker(w)
        PROVE  len' # 0 \/ num_threads_working' # 0
    <2>1. pc[User] = "waiting"
      BY <1>1, WorkerFrames DEF WorkerFrame
    <2>2. len # 0 \/ num_threads_working # 0
      BY <2>1 DEF WaiterIsSignalled
    <2>3. CASE PullLast(w)
      BY <2>3, BusyCounts DEF PullLast, pool, Inside, At, Busy
    <2>4. CASE PullFirst(w)
      BY <2>4 DEF PullFirst, Shape
    <2>5. CASE ThreadWorks(w)
      <3>1. num_threads_working' = num_threads_working + 1
        BY <2>5 DEF ThreadWorks
      <3> QED
        BY <3>1, CountBounds
    <2>6. CASE ThreadDone(w)
      BY <2>1, <2>6 DEF ThreadDone, Shape
    <2>7. CASE ~ThreadWorks(w) /\ ~ThreadDone(w) /\ ~PullLast(w) /\ ~PullFirst(w)
      <3>1. len' = len
        BY <1>1, <2>7, QueueFrame
      <3>2. num_threads_working' = num_threads_working
        BY <1>1, <2>7
        DEF Worker, ThreadStarts, ThreadLoops, BsemSleeps, BsemPasses, ThreadChecks,
            PullNone, PullPosts, ThreadRuns, ThreadLeaves, ThreadExits, thread_hold,
            HoldEnds, pool
      <3> QED
        BY <2>2, <3>1, <3>2
    <2> QED
      BY <2>3, <2>4, <2>5, <2>6, <2>7
  <1>2. ASSUME UserContinues \/ UserCalls
        PROVE  len' # 0 \/ num_threads_working' # 0
    <2>1. WaitSleeps
      BY <1>2, UserMoves
    <2> QED
      BY <2>1 DEF WaitSleeps, pool, jobqueue
  <1>3. ASSUME NEW p \in Procs, Lock(p) PROVE len' # 0 \/ num_threads_working' # 0
    BY <1>3 DEF Lock, WaiterIsSignalled, pool, jobqueue
  <1> QED
    BY <1>1, <1>2, <1>3 DEF Next

-----------------------------------------------------------------------------
(* The theorems.                                                           *)

LEMMA InitHolds == Init => PoolInv
  <1> SUFFICES ASSUME Init PROVE PoolInv
    OBVIOUS
  <1> USE ProcFacts DEF Init
  <1>1. Len(started) = 0 /\ started \in Seq(Jobs)
    OBVIOUS
  <1>2. Shape
    BY <1>1 DEF Shape, Places, UserPlaces
  <1>3. CountInv
    <2>1. BusyWorkers = {} /\ LiveWorkers = {}
      BY DEF BusyWorkers, LiveWorkers, Busy
    <2> QED
      BY <2>1, FS_EmptySet DEF CountInv
  <1>4. CallInv /\ JobsAnnounced /\ WaiterIsSignalled
    BY DEF CallInv, JobsAnnounced, WaiterIsSignalled
  <1>5. JobsInOrder
    BY <1>1 DEF JobsInOrder, Pushed
  <1>6. JobInv
    BY <1>1 DEF JobInv
  <1> QED
    BY <1>2, <1>3, <1>4, <1>5, <1>6 DEF PoolInv

LEMMA StepHolds == PoolInv /\ [Next]_vars => PoolInv'
  <1> SUFFICES ASSUME PoolInv, [Next]_vars PROVE PoolInv'
    OBVIOUS
  <1>1. CASE Next
    BY <1>1, ShapeStep, CountStep, CallStep, OrderStep, JobStep, AnnounceStep,
       WaiterStep
    DEF PoolInv
  <1>2. CASE UNCHANGED vars
    <2> USE <1>2 DEF PoolInv, vars, pool, jobqueue, signals, history
    <2>1. Shape' /\ CallInv' /\ JobInv' /\ JobsInOrder'
      BY DEF Shape, CallInv, JobInv, JobsInOrder, Pushed
    <2>2. CountInv' /\ JobsAnnounced' /\ WaiterIsSignalled'
      BY DEF CountInv, BusyWorkers, LiveWorkers, JobsAnnounced, WaiterIsSignalled
    <2> QED
      BY <2>1, <2>2
  <1> QED
    BY <1>1, <1>2

\* PoolInv holds in every reachable state, for any number of threads and jobs.
THEOREM PoolInvariance == Spec => []PoolInv
  BY InitHolds, StepHolds, PTL DEF Spec

\* The counters of the pool stay within the number of threads, the semaphore is
\* binary and the queue holds no more than was added.
THEOREM TypeCorrect == Spec => []TypeOK
  <1>1. PoolInv => TypeOK
    <2> SUFFICES ASSUME PoolInv PROVE TypeOK
      OBVIOUS
    <2>1. num_threads_alive \in 0..N /\ num_threads_working \in 0..N
      BY CountBounds DEF PoolInv
    <2>2. len \in 0..MaxJobs
      BY QueueEnds, ProcFacts DEF PoolInv, Shape
    <2> QED
      BY <2>1, <2>2 DEF PoolInv, Shape, TypeOK
  <1> QED
    BY <1>1, PoolInvariance, PTL

\* jobqueue_pull hands out every job once and in the order of thpool_add_work.
THEOREM JobOrder == Spec => []JobsInOrder
  <1>1. PoolInv => JobsInOrder
    BY DEF PoolInv
  <1> QED
    BY <1>1, PoolInvariance, PTL

\* One binary semaphore announces a queue of any length to any number of workers.
THEOREM Announcement == Spec => []JobsAnnounced
  <1>1. PoolInv => JobsAnnounced
    BY DEF PoolInv
  <1> QED
    BY <1>1, PoolInvariance, PTL

\* thpool_wait never sleeps with an empty queue and no worker counted.
THEOREM WaiterSignalled == Spec => []WaiterIsSignalled
  <1>1. PoolInv => WaiterIsSignalled
    BY DEF PoolInv
  <1> QED
    BY <1>1, PoolInvariance, PTL

\* thpool_wait returns only when every job that was added has finished.
THEOREM WaitIsComplete == Spec => WaitMeansDone
  <1>1. PoolInv /\ [Next]_vars =>
            [pc[User] = "wait" /\ pc'[User] = "idle" => finished = 1..added]_vars
    <2> SUFFICES ASSUME PoolInv, Next, pc[User] = "wait", pc'[User] = "idle"
                 PROVE  finished = 1..added
      OBVIOUS
    <2> USE ProcFacts DEF PoolInv
    <2>1. WaitReturns
      <3>1. ASSUME NEW w \in Workers, Worker(w) PROVE FALSE
        BY <3>1, WorkerFrames DEF WorkerFrame
      <3>2. ASSUME NEW p \in Procs, Lock(p) PROVE FALSE
        BY <3>2 DEF Lock
      <3> QED
        BY <3>1, <3>2, UserMoves DEF Next
    <2>2. len = 0 /\ num_threads_working = 0
      BY <2>1 DEF WaitReturns
    <2>3. Len(started) = added
      BY <2>2, QueueEnds DEF JobsInOrder, Pushed, Shape
    <2>4. \A w \in Workers : mine[w] = Null
      BY <2>2, BusyCounts DEF JobInv, Busy
    <2>5. ASSUME NEW j \in 1..added PROVE j \in finished
      <3>1. j # Null
        BY <2>3, <2>5, ThPoolAssumption DEF Shape
      <3> QED
        BY <2>3, <2>4, <2>5, <3>1 DEF JobInv
    <2> QED
      BY <2>3, <2>5 DEF JobInv
  <1> QED
    BY <1>1, PoolInvariance, PTL DEF Spec, WaitMeansDone
=============================================================================
