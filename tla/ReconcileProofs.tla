--------------------------- MODULE ReconcileProofs ---------------------------
(* What the scan knows of its own pull requests, when every creation that was *)
(* given up has either been executed by then or never is: the proofs of       *)
(* Engine's IdleMeansReconciled and HasPullIsForeign for every number of      *)
(* issues, attempts, changes made by other people and crashes.                *)
EXTENDS EngineProofs

USE EngineAssumption DEF Goto, Put, Save, Quiet, World, github, Issues

-----------------------------------------------------------------------------
(* The inductive invariant *)

NoLate == \A n \in Issues : ~inflight[n]

\* An issue is worked on only while its branch has no pull request.
Fresh == \A n \in Issues : Current(n) /\ pc \in WorkStages => pr[n] = "none"

\* "Another pull request" is somebody else's, in memory and on disk.
Foreign ==
  \A n \in Issues : "has_pr" \in {mem[n].status, disk[n].status} => linked[n]

\* The scan has still to look at the branch of the issue, in this loop or the next.
Waits(n) ==
  \/ pc \in {"down", "paused", "close"}
  \/ pc \in {"reconcile", "probe"} /\ n \in todo
  \/ pc = "sync" /\ after \in {"again", "error", "setup"}
  \/ pc = "sync" /\ after = "reconcile" /\ n \in todo

Owed == \A n \in Issues : Unfinished(n) /\ pr[n] # "none" => Waits(n)

\* What follows an update: a new scan after an attempt, the next issue after a
\* pull request that was found.
Follows ==
  /\ pc = "close" => after \in {"again", "error", "setup"}
  /\ \A n \in Issues : pc = "sync" /\ after = "reconcile" /\ Current(n)
                       => mem[n].status # "pending"

Parts == NoLate /\ Fresh /\ Foreign /\ Owed /\ Follows

ReconcileInv == EngineInv /\ Parts

-----------------------------------------------------------------------------
(* One part of Next after the other *)

\* A job of the current issue is replaced in memory, and perhaps saved.
LEMMA Replaced ==
  ASSUME ReconcileInv, NEW n \in Issues, NEW j \in Job,
         mem' = [mem EXCEPT ![n] = j], disk' \in {disk, mem'},
         j.status = "has_pr" => linked[n], UNCHANGED linked
  PROVE  /\ Foreign'
         /\ mem'[n] = j /\ \A m \in Issues : m # n => mem'[m] = mem[m]
<1>1. mem \in [Issues -> Job]
  BY DEF ReconcileInv, EngineInv, TypeOK
<1>2. mem'[n] = j /\ \A m \in Issues : m # n => mem'[m] = mem[m]
  BY <1>1
<1>3. Foreign'
  BY <1>2 DEF ReconcileInv, Parts, Foreign
<1> QED
  BY <1>2, <1>3

LEMMA LoopKnows ==
  ASSUME ReconcileInv, Loop \/ Crash \/ Restart
  PROVE  Parts'
<1>1. UNCHANGED <<disk, pr, linked, inflight>> /\ mem' \in {mem, disk}
  BY DEF Loop, StartScan, EndReconcile, Fetch, ReadFails, StepFails, EndWalk,
         Crash, Restart
<1>2. NoLate' /\ Foreign'
  BY <1>1 DEF ReconcileInv, Parts, NoLate, Foreign
<1>3. pc' \notin WorkStages /\ pc' \notin {"close", "sync"}
  BY DEF Loop, StartScan, Scan, EndReconcile, Fetch, ReadFails, StepFails,
         EndWalk, Crash, Restart, WorkStages
<1>4. Fresh' /\ Follows'
  BY <1>3 DEF Fresh, Follows
<1>5. Owed'
  <2>1. CASE StartScan \/ Restart
    BY <2>1 DEF StartScan, Restart, Scan, Owed, Unfinished, Waits
  <2>2. CASE ReadFails \/ Crash
    BY <2>2 DEF ReadFails, StepFails, Crash, Owed, Waits
  <2>3. CASE EndReconcile \/ Fetch \/ EndWalk
    BY <2>3 DEF EndReconcile, Fetch, EndWalk, ReconcileInv, Parts, Owed, Waits,
                Unfinished
  <2> QED
    BY <2>1, <2>2, <2>3 DEF Loop
<1> QED
  BY <1>2, <1>4, <1>5 DEF Parts

\* A pull request of the bot is recorded.
LEMMA CompleteKnows ==
  ASSUME ReconcileInv, NEW n \in Issues, NEW next \in {"reconcile", "walk"},
         Current(n), Complete(n, next),
         IF next = "walk" THEN pc = "walk" ELSE pc \in {"reconcile", "probe"}
  PROVE  Parts'
<1> DEFINE j == [Recorded(mem[n], pr[n]) EXCEPT !.claim = "done", !.pending = TRUE]
<1>1. j \in Job /\ j.status \in {"blocked", "submitted"}
  <2>1. mem[n] \in Job
    BY DEF ReconcileInv, EngineInv, TypeOK
  <2>2. j \in Job
    BY <2>1, JobTypes
  <2> QED
    BY <2>1, <2>2 DEF Recorded, Job
<1>2. /\ mem' = [mem EXCEPT ![n] = j] /\ disk' = mem'
      /\ UNCHANGED <<pr, linked, inflight, todo>> /\ pc' = "sync" /\ after' = next
  BY DEF Complete, Deliver
<1> HIDE DEF j
<1>3. /\ Foreign'
      /\ mem'[n] = j /\ \A m \in Issues : m # n => mem'[m] = mem[m]
  BY <1>1, <1>2, Replaced
<1>4. NoLate' /\ Fresh'
  BY <1>2 DEF ReconcileInv, Parts, NoLate, Fresh, WorkStages
<1>5. Owed'
  BY <1>1, <1>2, <1>3
  DEF ReconcileInv, Parts, Owed, Waits, Unfinished
<1>6. Follows'
  BY <1>1, <1>2, <1>3 DEF Follows, Current
<1> QED
  BY <1>3, <1>4, <1>5, <1>6 DEF Parts

\* A saved claim state is brought to its comment, successfully or not.
LEMMA SyncKnows ==
  ASSUME ReconcileInv, NEW n \in Issues, SyncDone(n) \/ SyncFailed(n),
         UNCHANGED <<pr, linked, inflight>>
  PROVE  /\ NoLate' /\ Foreign'
         /\ \A m \in Issues : /\ mem'[m].status = mem[m].status
                              /\ Unfinished(m)' <=> Unfinished(m)
<1>1. mem[n] \in Job /\ mem \in [Issues -> Job]
  BY DEF ReconcileInv, EngineInv, TypeOK
<1>2. NoLate'
  BY DEF ReconcileInv, Parts, NoLate
<1>3. CASE SyncDone(n)
  <2> DEFINE j == [mem[n] EXCEPT !.pending = FALSE]
  <2>1. j \in Job /\ j.status = mem[n].status /\ j.tries = mem[n].tries
    BY <1>1 DEF Job
  <2>2. mem' = [mem EXCEPT ![n] = j] /\ disk' = mem'
    BY <1>3 DEF SyncDone
  <2>3. j.status = "has_pr" => linked[n]
    BY <2>1 DEF ReconcileInv, Parts, Foreign
  <2> HIDE DEF j
  <2>4. /\ Foreign'
        /\ mem'[n] = j /\ \A m \in Issues : m # n => mem'[m] = mem[m]
    BY <2>1, <2>2, <2>3, Replaced
  <2> QED
    BY <1>2, <2>1, <2>4 DEF Unfinished
<1>4. CASE SyncFailed(n)
  BY <1>2, <1>4 DEF SyncFailed, ReconcileInv, Parts, Foreign, Unfinished
<1> QED
  BY <1>3, <1>4

LEMMA ReconcileKnows ==
  ASSUME ReconcileInv, NEW n \in Issues, Reconcile(n)
  PROVE  Parts'
<1>1. CASE DeliverSaved(n)
  <2>1. /\ SyncDone(n) \/ SyncFailed(n)
        /\ UNCHANGED <<pr, linked, inflight, todo>>
        /\ pc = "reconcile" /\ pc' = "probe"
    BY <1>1 DEF DeliverSaved
  <2>2. /\ NoLate' /\ Foreign'
        /\ \A m \in Issues : Unfinished(m)' <=> Unfinished(m)
    BY <2>1, SyncKnows
  <2>3. Fresh' /\ Follows'
    BY <2>1 DEF Fresh, Follows, WorkStages
  <2>4. Owed'
    BY <2>1, <2>2 DEF ReconcileInv, Parts, Owed, Waits
  <2> QED
    BY <2>2, <2>3, <2>4 DEF Parts
<1>2. CASE ReconcileFails(n) \/ NothingToReconcile(n)
  <2>1. UNCHANGED <<mem, disk, pr, linked, inflight>>
    BY <1>2 DEF ReconcileFails, StepFails, NothingToReconcile
  <2>2. NoLate' /\ Foreign'
    BY <2>1 DEF ReconcileInv, Parts, NoLate, Foreign
  <2>3. Fresh' /\ Follows'
    BY <1>2 DEF ReconcileFails, StepFails, NothingToReconcile, Fresh, Follows,
                WorkStages
  <2>4. Owed'
    <3>1. CASE ReconcileFails(n)
      BY <3>1 DEF ReconcileFails, StepFails, Owed, Waits
    <3>2. CASE NothingToReconcile(n)
      BY <2>1, <3>2
      DEF NothingToReconcile, AtProbe, Finished, BranchPull, ReconcileInv,
          Parts, Owed, Waits, Unfinished
    <3> QED
      BY <1>2, <3>1, <3>2
  <2> QED
    BY <2>2, <2>3, <2>4 DEF Parts
<1>3. CASE ReconcilePull(n)
  BY <1>3, CompleteKnows DEF ReconcilePull, AtProbe
<1> QED
  BY <1>1, <1>2, <1>3 DEF Reconcile

LEMMA WalkKnows ==
  ASSUME ReconcileInv, NEW n \in Issues, Walk(n)
  PROVE  Parts'
<1>1. mem[n] \in Job
  BY DEF ReconcileInv, EngineInv, TypeOK
<1>2. CASE SkipJob(n) \/ Proceed(n) \/ NoLongerEligible(n)
  <2>1. UNCHANGED <<mem, disk, pr, linked, inflight>>
    BY <1>2 DEF SkipJob, Proceed, NoLongerEligible
  <2>2. NoLate' /\ Foreign'
    BY <2>1 DEF ReconcileInv, Parts, NoLate, Foreign
  <2>3. Fresh'
    BY <1>2 DEF SkipJob, Proceed, NoLongerEligible, WorkStages, Current,
                ReconcileInv, Parts, Fresh
  <2>4. Owed' /\ Follows'
    BY <1>2, <2>1 DEF SkipJob, Proceed, NoLongerEligible, ReconcileInv, Parts,
                      Owed, Waits, Unfinished, Follows
  <2> QED
    BY <2>2, <2>3, <2>4 DEF Parts
<1>3. CASE LookUpPull(n)
  BY <1>3, CompleteKnows DEF LookUpPull
<1>4. CASE NoPull(n) \/ LookUpFails(n)
  <2> DEFINE j == [mem[n] EXCEPT !.status = "pending"]
  <2>1. j \in Job /\ j.status = "pending"
    BY <1>1 DEF Job
  <2>2. /\ mem' = [mem EXCEPT ![n] = j] /\ disk' = disk /\ pc = "walk"
        /\ UNCHANGED <<pr, linked, inflight, todo>> /\ Current(n)
    BY <1>4 DEF NoPull, LookUpFails, Adopt
  <2> HIDE DEF j
  <2>3. /\ Foreign'
        /\ mem'[n] = j /\ \A m \in Issues : m # n => mem'[m] = mem[m]
    BY <2>1, <2>2, Replaced
  <2>4. \A m \in Issues : Current(m)' => m = n
    BY <2>2 DEF Current
  <2>5. \/ pc' = "paused"
        \/ pc' = "linked" /\ pr[n] = "none"
    BY <1>4 DEF NoPull, LookUpFails, BranchPull
  <2>6. NoLate' /\ Fresh' /\ Follows'
    BY <2>2, <2>4, <2>5
    DEF ReconcileInv, Parts, NoLate, Fresh, WorkStages, Follows
  <2>7. Owed'
    BY <2>2, <2>3, <2>5 DEF ReconcileInv, Parts, Owed, Waits, Unfinished
  <2> QED
    BY <2>3, <2>6, <2>7 DEF Parts
<1>5. CASE SkipLinked(n) \/ BlockExhausted(n)
  <2>1. /\ pc = "linked" /\ Current(n) /\ UNCHANGED <<pr, linked, inflight>>
        /\ disk' = mem' /\ pr[n] = "none"
        /\ pc' = "walk" \/ (pc' = "sync" /\ after' = "walk")
    BY <1>5 DEF SkipLinked, BlockExhausted, Deliver, ReconcileInv, Parts, Fresh,
                WorkStages
  <2>2. \E j \in Job : /\ mem' = [mem EXCEPT ![n] = j]
                       /\ j.status = "has_pr" => linked[n]
    <3>1. CASE SkipLinked(n)
      <4>1. [mem[n] EXCEPT !.status = "has_pr"] \in Job
        BY <1>1, JobTypes
      <4> QED
        BY <2>1, <3>1, <4>1 DEF SkipLinked, Referenced
    <3>2. CASE BlockExhausted(n)
      <4> DEFINE i == [mem[n] EXCEPT !.status = "blocked"]
      <4>1. i \in Job /\ i.status = "blocked"
        BY <1>1 DEF Job
      <4>2. Released(i) \in Job
        BY <4>1, JobTypes
      <4>3. Released(i).status = "blocked"
        BY <4>1, <4>2 DEF Released, Job
      <4> QED
        BY <3>2, <4>1, <4>2, <4>3 DEF BlockExhausted
    <3> QED
      BY <1>5, <3>1, <3>2
  <2>3. PICK j \in Job : /\ mem' = [mem EXCEPT ![n] = j]
                         /\ j.status = "has_pr" => linked[n]
    BY <2>2
  <2>4. /\ Foreign'
        /\ mem'[n] = j /\ \A m \in Issues : m # n => mem'[m] = mem[m]
    BY <2>1, <2>3, Replaced
  <2>5. NoLate' /\ Fresh' /\ Follows'
    BY <2>1 DEF ReconcileInv, Parts, NoLate, Fresh, WorkStages, Follows
  <2>6. Owed'
    BY <2>1, <2>4 DEF ReconcileInv, Parts, Owed, Waits, Unfinished
  <2> QED
    BY <2>4, <2>5, <2>6 DEF Parts
<1> QED
  BY <1>2, <1>3, <1>4, <1>5 DEF Walk

LEMMA ClaimKnows ==
  ASSUME ReconcileInv, NEW n \in Issues, ClaimedAttempt(n)
  PROVE  Parts'
<1>1. mem[n] \in Job /\ mem \in [Issues -> Job]
  BY DEF ReconcileInv, EngineInv, TypeOK
<1>2. mem[n].status = "has_pr" => linked[n]
  BY DEF ReconcileInv, Parts, Foreign
<1>3. CASE Claim(n) \/ AcquireLoses(n)
  <2>1. \E j \in Job : mem' = [mem EXCEPT ![n] = j] /\ j.status = mem[n].status
    <3>1. [mem[n] EXCEPT !.claim = "working"] \in Job
      BY <1>1, JobTypes
    <3>2. [mem[n] EXCEPT !.claim = "working"].status = mem[n].status
      BY <1>1 DEF Job
    <3>3. [Released(mem[n]) EXCEPT !.waiting = TRUE] \in Job
      BY <1>1, JobTypes
    <3>4. [Released(mem[n]) EXCEPT !.waiting = TRUE].status = mem[n].status
      BY <1>1, <3>3 DEF Released, Job
    <3> QED
      BY <1>3, <3>1, <3>2, <3>3, <3>4 DEF Claim, AcquireLoses
  <2>2. PICK j \in Job : mem' = [mem EXCEPT ![n] = j] /\ j.status = mem[n].status
    BY <2>1
  <2>3. /\ disk' = mem' /\ UNCHANGED <<pr, linked, inflight, todo>>
        /\ Current(n) /\ pc \in {"refetch", "acquire"}
        /\ pc' = "acquire" \/ (pc' = "sync" /\ after' = "walk")
    BY <1>3 DEF Claim, SaveClaim, AcquireLoses, Deliver
  <2>4. /\ Foreign'
        /\ mem'[n] = j /\ \A m \in Issues : m # n => mem'[m] = mem[m]
    BY <1>2, <2>2, <2>3, Replaced
  <2>5. pr[n] = "none" /\ \A m \in Issues : Current(m)' => m = n
    BY <2>3 DEF ReconcileInv, Parts, Fresh, WorkStages, Current
  <2>6. NoLate' /\ Fresh' /\ Follows'
    BY <2>3, <2>5 DEF ReconcileInv, Parts, NoLate, Fresh, Follows
  <2>7. Owed'
    BY <2>3, <2>4, <2>5 DEF ReconcileInv, Parts, Owed, Waits, Unfinished
  <2> QED
    BY <2>4, <2>6, <2>7 DEF Parts
<1>4. CASE AcquireFails(n) \/ Acquired(n)
  <2>1. /\ disk' \in {disk, mem} /\ UNCHANGED <<mem, pr, linked, inflight, todo>>
        /\ Current(n) /\ pc = "acquire" /\ pc' \in {"paused", "prepare"}
    BY <1>4 DEF AcquireFails, Acquired
  <2>2. NoLate' /\ Foreign'
    BY <2>1 DEF ReconcileInv, Parts, NoLate, Foreign
  <2>3. Fresh' /\ Follows'
    BY <2>1 DEF ReconcileInv, Parts, Fresh, WorkStages, Current, Follows
  <2>4. Owed'
    BY <2>1 DEF ReconcileInv, Parts, Owed, Waits, Unfinished
  <2> QED
    BY <2>2, <2>3, <2>4 DEF Parts
<1>5. CASE CloseClaim(n)
  <2>1. /\ pc' = "sync" /\ after' \in {"again", "error", "setup"}
        /\ disk' = mem' /\ UNCHANGED <<pr, linked, inflight>>
    BY <1>5 DEF CloseClaim, ReconcileInv, Parts, Follows
  <2>2. \E j \in Job : mem' = [mem EXCEPT ![n] = j] /\ j.status = mem[n].status
    <3>1. /\ [mem[n] EXCEPT !.claim = "done", !.pending = TRUE] \in Job
          /\ Released(mem[n]) \in Job
      BY <1>1, JobTypes
    <3>2. /\ [mem[n] EXCEPT !.claim = "done", !.pending = TRUE].status
               = mem[n].status
          /\ Released(mem[n]).status = mem[n].status
      BY <1>1, <3>1 DEF Released, Job
    <3> QED
      BY <1>5, <3>1, <3>2 DEF CloseClaim
  <2>3. Foreign'
    BY <1>2, <2>1, <2>2, Replaced
  <2>4. NoLate' /\ Fresh' /\ Follows' /\ Owed'
    BY <2>1
    DEF ReconcileInv, Parts, NoLate, Fresh, WorkStages, Follows, Owed, Waits
  <2> QED
    BY <2>3, <2>4 DEF Parts
<1>6. CASE Sync(n) \/ SyncFails(n)
  <2>1. /\ SyncDone(n) \/ SyncFailed(n)
        /\ UNCHANGED <<pr, linked, inflight>>
        /\ pc = "sync" /\ Current(n)
    BY <1>6 DEF Sync, SyncFails
  <2>2. /\ NoLate' /\ Foreign'
        /\ \A m \in Issues : /\ mem'[m].status = mem[m].status
                             /\ Unfinished(m)' <=> Unfinished(m)
    BY <2>1, SyncKnows
  <2>3. Fresh' /\ Follows'
    BY <1>6 DEF Sync, SyncFails, Scan, Fresh, WorkStages, Follows
  <2>4. Owed'
    <3>1. CASE pc' \in {"paused", "down"}
      BY <3>1 DEF Owed, Waits
    <3>2. CASE Sync(n) /\ after = "again"
      BY <3>2, <2>2 DEF Sync, Scan, Owed, Waits, Unfinished
    <3>3. CASE Sync(n) /\ after \in {"reconcile", "walk"}
      BY <2>1, <2>2, <3>3
      DEF Sync, Finished, ReconcileInv, Parts, Owed, Follows, Waits, Unfinished
    <3> QED
      BY <1>6, <3>1, <3>2, <3>3 DEF Sync, SyncFails
  <2> QED
    BY <2>2, <2>3, <2>4 DEF Parts
<1> QED
  BY <1>3, <1>4, <1>5, <1>6 DEF ClaimedAttempt

LEMMA AttemptKnows ==
  ASSUME ~LateCreate, ReconcileInv, NEW n \in Issues, Attempt(n)
  PROVE  Parts'
<1>1. mem[n] \in Job
  BY DEF ReconcileInv, EngineInv, TypeOK
<1>2. mem[n].status = "has_pr" => linked[n]
  BY DEF ReconcileInv, Parts, Foreign
<1>3. CASE AgentReady(n) \/ StillEligible(n) \/ ReadyToPublish(n) \/ Push(n)
           \/ NoPullYet(n) \/ ReadyToCreate(n)
  <2>1. /\ UNCHANGED <<mem, disk, pr, linked, inflight, todo>>
        /\ pc \in WorkStages /\ pc' \in WorkStages
    BY <1>3 DEF AgentReady, StillEligible, ReadyToPublish, Push, NoPullYet,
                ReadyToCreate, Pass, WorkStages
  <2>2. NoLate' /\ Foreign'
    BY <2>1 DEF ReconcileInv, Parts, NoLate, Foreign
  <2>3. Fresh' /\ Follows'
    BY <2>1 DEF ReconcileInv, Parts, Fresh, WorkStages, Current, Follows
  <2>4. Owed'
    BY <2>1 DEF ReconcileInv, Parts, Owed, WorkStages, Waits, Unfinished
  <2> QED
    BY <2>2, <2>3, <2>4 DEF Parts
<1>4. CASE StartAgent(n)
  <2> DEFINE j == [mem[n] EXCEPT !.tries = @ + 1, !.waiting = TRUE]
  <2>1. j \in Job /\ j.status = mem[n].status
    <3>1. mem[n].tries < Attempts
      BY <1>4 DEF StartAgent, ReconcileInv, EngineInv, Stages, Stage
    <3>2. mem[n].tries + 1 \in 0..Attempts
      BY <1>1, <3>1 DEF Job
    <3> QED
      BY <1>1, <3>2 DEF Job
  <2>2. /\ mem' = [mem EXCEPT ![n] = j] /\ disk' = mem'
        /\ UNCHANGED <<pr, linked, inflight, todo>>
        /\ Current(n) /\ pc = "prepare" /\ pc' = "agent"
    BY <1>4 DEF StartAgent, Charge
  <2> HIDE DEF j
  <2>3. /\ Foreign'
        /\ mem'[n] = j /\ \A m \in Issues : m # n => mem'[m] = mem[m]
    BY <1>2, <2>1, <2>2, Replaced
  <2>4. NoLate' /\ Fresh' /\ Follows'
    BY <2>2 DEF ReconcileInv, Parts, NoLate, Fresh, WorkStages, Current, Follows
  <2>5. Owed'
    BY <2>2, <2>3
    DEF ReconcileInv, Parts, Fresh, WorkStages, Owed, Waits, Unfinished
  <2> QED
    BY <2>3, <2>4, <2>5 DEF Parts
<1>5. CASE PrepareFails(n)
  <2>1. /\ UNCHANGED <<mem, disk, pr, linked, inflight>>
        /\ pc' = "close" /\ after' = "error"
    BY <1>5 DEF PrepareFails, EndAttempt
  <2>2. NoLate' /\ Foreign'
    BY <2>1 DEF ReconcileInv, Parts, NoLate, Foreign
  <2> QED
    BY <2>1, <2>2 DEF Parts, Fresh, WorkStages, Follows, Owed, Waits
<1>6. CASE SetupError(n) \/ StageFails(n) \/ AgentBlocked(n) \/ NotEligible(n)
           \/ ExistingPull(n) \/ FoundPull(n) \/ Create(n) \/ CreateFails(n)
  <2>1. /\ disk' = mem' /\ UNCHANGED <<linked, inflight>>
        /\ pc' = "close" /\ after' \in {"again", "setup"}
    BY <1>6 DEF SetupError, StageFails, AgentBlocked, NotEligible, ExistingPull,
                FoundPull, Create, CreateFails, Failed, Decide, EndAttempt
  <2>2. \E j \in Job : /\ mem' = [mem EXCEPT ![n] = j]
                       /\ j.status = "has_pr" => linked[n]
    <3>1. CASE SetupError(n)
      <4> DEFINE j == [mem[n] EXCEPT !.tries = @ - 1, !.waiting = FALSE]
      <4>1. mem[n].tries - 1 \in 0..Attempts
        BY <1>1, <3>1
        DEF SetupError, ReconcileInv, EngineInv, Stages, Stage, Job
      <4>2. j \in Job /\ j.status = mem[n].status
        BY <1>1, <4>1 DEF Job
      <4> QED
        BY <1>2, <3>1, <4>2 DEF SetupError
    <3>2. CASE StageFails(n) \/ CreateFails(n)
      <4>1. /\ [mem[n] EXCEPT !.waiting = TRUE] \in Job
            /\ [mem[n] EXCEPT !.waiting = TRUE].status = mem[n].status
        BY <1>1 DEF Job
      <4> QED
        BY <1>2, <3>2, <4>1 DEF StageFails, CreateFails, Failed
    <3>3. CASE AgentBlocked(n) \/ NotEligible(n)
      <4>1. \A d \in {"blocked", "skipped"} :
              /\ [mem[n] EXCEPT !.status = d] \in Job
              /\ [mem[n] EXCEPT !.status = d].status = d
        BY <1>1 DEF Job
      <4> QED
        BY <3>3, <4>1 DEF AgentBlocked, NotEligible, Decide
    <3>4. CASE ExistingPull(n)
      <4>1. [mem[n] EXCEPT !.status = "has_pr"] \in Job
        BY <1>1, JobTypes
      <4>2. linked[n]
        BY <3>4 DEF ExistingPull, Referenced, ReconcileInv, Parts, Fresh, WorkStages
      <4> QED
        BY <3>4, <4>1, <4>2 DEF ExistingPull, Decide
    <3>5. CASE FoundPull(n) \/ Create(n)
      <4>1. PICK p \in {pr[n], "open"} :
              mem' = [mem EXCEPT ![n] = Recorded(mem[n], p)]
        BY <3>5 DEF FoundPull, Create, Decide
      <4>2. Recorded(mem[n], p) \in Job
        BY <1>1, JobTypes
      <4>3. Recorded(mem[n], p).status \in {"blocked", "submitted"}
        BY <1>1, <4>2 DEF Recorded, Job
      <4> QED
        BY <4>1, <4>2, <4>3
    <3> QED
      BY <1>6, <3>1, <3>2, <3>3, <3>4, <3>5
  <2>3. Foreign'
    BY <2>1, <2>2, Replaced
  <2>4. NoLate'
    BY <2>1 DEF ReconcileInv, Parts, NoLate
  <2> QED
    BY <2>1, <2>3, <2>4 DEF Parts, Fresh, WorkStages, Follows, Owed, Waits
<1> QED
  BY <1>3, <1>4, <1>5, <1>6 DEF Attempt

LEMMA CommandKnows ==
  ASSUME ReconcileInv, Command
  PROVE  Parts'
<1>1. /\ mem' = disk' /\ pc' = "down" /\ UNCHANGED <<linked, inflight>>
      /\ disk \in [Issues -> Job]
  BY DEF Command, Retry, Requeue, ReconcileInv, EngineInv, TypeOK
<1>2. NoLate' /\ Fresh' /\ Follows' /\ Owed'
  BY <1>1
  DEF ReconcileInv, Parts, NoLate, Fresh, WorkStages, Follows, Owed, Waits
<1>3. \A n \in Issues : disk'[n].status \in {disk[n].status, "pending"}
  <2>1. ASSUME NEW n \in Issues
        PROVE  StartOver(disk[n]) \in Job /\ StartOver(disk[n]).status = "pending"
    <3> DEFINE j == disk[n]
    <3>1. j \in Job
      BY <1>1
    <3> HIDE DEF j
    <3>2. StartOver(j) \in Job
      BY <3>1, StartOverType
    <3>3. StartOver(j).status = "pending"
      BY <3>1 DEF StartOver, Job
    <3> QED
      BY <3>2, <3>3 DEF j
  <2>2. CASE \E chosen \in SUBSET Issues : Retry(chosen)
    BY <2>1, <2>2 DEF Retry
  <2>3. ASSUME NEW n \in Issues, Requeue(n)
        PROVE  disk'[n].status = "pending"
               /\ \A m \in Issues : m # n => disk'[m] = disk[m]
    <3> DEFINE fresh == StartOver(disk[n])
    <3>1. fresh \in Job /\ fresh.status = "pending"
      BY <2>1
    <3> HIDE DEF fresh
    <3>2. Released(fresh) \in Job
      BY <3>1, JobTypes
    <3>3. Released(fresh).status = "pending"
      BY <3>1, <3>2 DEF Released, Job
    <3>4. disk' = [disk EXCEPT ![n] = fresh]
          \/ disk' = [disk EXCEPT ![n] = Released(fresh)]
      BY <2>3 DEF Requeue, fresh
    <3> QED
      BY <1>1, <3>1, <3>3, <3>4
  <2> QED
    BY <2>2, <2>3 DEF Command
<1>4. Foreign'
  BY <1>1, <1>3 DEF ReconcileInv, Parts, Foreign
<1> QED
  BY <1>2, <1>4 DEF Parts

LEMMA WorldKnows ==
  ASSUME ReconcileInv, NEW n \in Issues, Elapse(n) \/ LandCreate(n) \/ Event(n)
  PROVE  Parts'
<1>1. /\ mem \in [Issues -> Job] /\ disk \in [Issues -> Job]
      /\ pr \in [Issues -> {"none", "open", "merged", "closed"}]
      /\ linked \in [Issues -> BOOLEAN]
  BY DEF ReconcileInv, EngineInv, TypeOK
<1>2. ~LandCreate(n)
  BY DEF LandCreate, ReconcileInv, Parts, NoLate
<1>3. UNCHANGED <<pc, todo, after, inflight>>
  BY <1>2 DEF Elapse, Event
<1>4. \A m \in Issues :
        /\ mem'[m].status = mem[m].status /\ mem'[m].tries = mem[m].tries
        /\ disk'[m].status = disk[m].status
  <2>1. CASE Elapse(n)
    BY <1>1, <2>1 DEF Elapse, Job
  <2>2. CASE Event(n)
    BY <2>2 DEF Event
  <2> QED
    BY <1>2, <2>1, <2>2
<1>5. \A m \in Issues : /\ pr'[m] = "none" <=> pr[m] = "none"
                        /\ linked[m] => linked'[m]
  <2>1. CASE Elapse(n)
    BY <2>1 DEF Elapse
  <2>2. CASE Event(n)
    BY <1>1, <2>2 DEF Event
  <2> QED
    BY <1>2, <2>1, <2>2
<1>6. NoLate' /\ Foreign'
  BY <1>3, <1>4, <1>5 DEF ReconcileInv, Parts, NoLate, Foreign
<1>7. Fresh' /\ Follows'
  BY <1>3, <1>4, <1>5 DEF ReconcileInv, Parts, Fresh, Follows, Current
<1>8. Owed'
  BY <1>3, <1>4, <1>5 DEF ReconcileInv, Parts, Owed, Waits, Unfinished
<1> QED
  BY <1>6, <1>7, <1>8 DEF Parts

-----------------------------------------------------------------------------
(* The theorems *)

LEMMA ReconcileInit == Init => ReconcileInv
<1> SUFFICES ASSUME Init PROVE ReconcileInv
  OBVIOUS
<1>1. \A n \in Issues : mem[n] = NoJob /\ disk[n] = NoJob
  BY DEF Init
<1>2. Parts
  BY <1>1 DEF Init, NoJob, Parts, NoLate, Fresh, WorkStages, Foreign, Owed,
              Waits, Follows
<1> QED
  BY <1>2, InitInv DEF ReconcileInv

LEMMA ReconcileNext ==
  ASSUME ~LateCreate
  PROVE  ReconcileInv /\ [Next]_vars => ReconcileInv'
<1> SUFFICES ASSUME ReconcileInv, [Next]_vars PROVE ReconcileInv'
  OBVIOUS
<1>1. EngineInv'
  BY NextInv DEF ReconcileInv
<1>2. CASE Next
  <2>1. Parts'
    BY <1>2, LoopKnows, ReconcileKnows, WalkKnows, ClaimKnows, AttemptKnows,
       CommandKnows, WorldKnows
    DEF Next, Daemon
  <2> QED
    BY <1>1, <2>1 DEF ReconcileInv
<1>3. CASE UNCHANGED vars
  <2>1. UNCHANGED <<pc, todo, after, mem, disk, pr, linked, inflight>>
    BY <1>3 DEF vars
  <2>2. NoLate' /\ Foreign' /\ Follows'
    BY <2>1 DEF ReconcileInv, Parts, NoLate, Foreign, Follows, Current
  <2>3. Fresh' /\ Owed'
    BY <2>1
    DEF ReconcileInv, Parts, Fresh, Current, Owed, Waits, Unfinished
  <2> QED
    BY <1>1, <2>2, <2>3 DEF ReconcileInv, Parts
<1> QED
  BY <1>2, <1>3

\* Without late creations, a scan that goes idle leaves no pull request behind
\* whose job is pending and was charged an attempt since its budget was last
\* reset: for these jobs (loop one of run.go step) every crash and every lost
\* response is made good before.  It says nothing of a job that retry reset.
THEOREM IdleIsReconciled == ~LateCreate => (Spec => []IdleMeansReconciled)
<1> SUFFICES ASSUME ~LateCreate PROVE Spec => []IdleMeansReconciled
  OBVIOUS
<1>1. ReconcileInv => IdleMeansReconciled
  BY DEF ReconcileInv, Parts, Owed, Waits, Unfinished, IdleMeansReconciled
<1> QED
  BY ReconcileInit, ReconcileNext, <1>1, PTL DEF Spec

\* Without late creations, the bot never takes its own pull request for that of
\* somebody else and puts its job aside.
THEOREM PullsAreForeign == ~LateCreate => (Spec => []HasPullIsForeign)
<1> SUFFICES ASSUME ~LateCreate PROVE Spec => []HasPullIsForeign
  OBVIOUS
<1>1. ReconcileInv => HasPullIsForeign
  BY DEF ReconcileInv, Parts, Foreign, HasPullIsForeign
<1> QED
  BY ReconcileInit, ReconcileNext, <1>1, PTL DEF Spec
=============================================================================
