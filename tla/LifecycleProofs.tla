--------------------------- MODULE LifecycleProofs ---------------------------
(* Engine implements Lifecycle, for every number of issues, attempts, changes *)
(* made by other people and crashes.  The lemmas named after an action of     *)
(* Lifecycle say which changes of Engine's variables are a step of it; one    *)
(* lemma for each part of Engine's Next shows that its actions are.           *)
EXTENDS EngineProofs

USE EngineAssumption DEF Goto, Put, Save, Quiet, World, github, Issues

-----------------------------------------------------------------------------
(* The inductive invariant *)

\* What a job's status says of the decision on record.
Abs(s) == IF s \in {"none", "pending"} THEN "undecided" ELSE s

\* The jobs in memory and on disk carry the same decisions.
Matched == \A n \in Issues : Abs(mem[n].status) = Abs(disk[n].status)

\* Done is only claimed, in memory and on disk, of issues with a pull request.
Announced ==
  \A n \in Issues : "done" \in {mem[n].claim, disk[n].claim} => pr[n] # "none"

\* The work that is being verified has been charged to the budget.
Spent == \A n \in Issues : Current(n) /\ pc = "verify" => mem[n].tries > 0

LifeInv == EngineInv /\ Matched /\ Announced /\ Spent

\* The parts that a step has to restore besides EngineInv.
Restored == Matched' /\ Announced' /\ Spent'

-----------------------------------------------------------------------------
(* The refinement mapping *)

Dec == [n \in Issues |-> Abs(disk[n].status)]
Has == [n \in Issues |-> pr[n] # "none"]

\* A step of Lifecycle or one it does not see.
Lives == Life!Next \/ UNCHANGED Life!vars

\* What Lifecycle cannot see.
LEMMA Unseen ==
  ASSUME Dec' = Dec, Has' = Has, UNCHANGED <<runs, comment>>
  PROVE  Lives
  BY DEF Lives, Life!vars, Dec, Has, OnRecord, Abs

LEMMA WorkIsSeen ==
  ASSUME NEW n \in Issues, Dec[n] = "undecided", runs[n] < Attempts,
         runs' = [runs EXCEPT ![n] = @ + 1],
         Dec' = Dec, Has' = Has, UNCHANGED comment
  PROVE  Lives
<1>1. Life!Work(n)
  BY DEF Life!Work, Dec, Has, OnRecord, Abs
<1> QED
  BY <1>1 DEF Lives, Life!Next

LEMMA RefundIsSeen ==
  ASSUME NEW n \in Issues, Dec[n] = "undecided", runs[n] > 0,
         runs' = [runs EXCEPT ![n] = @ - 1],
         Dec' = Dec, Has' = Has, UNCHANGED comment
  PROVE  Lives
<1>1. Life!Refund(n)
  BY DEF Life!Refund, Dec, Has, OnRecord, Abs
<1> QED
  BY <1>1 DEF Lives, Life!Next

LEMMA AppearIsSeen ==
  ASSUME NEW n \in Issues, Dec' = Dec, Has' = [Has EXCEPT ![n] = TRUE],
         UNCHANGED <<runs, comment>>
  PROVE  Lives
<1>1. CASE Has[n]
  <2>1. Has' = Has
    BY <1>1 DEF Has
  <2> QED
    BY <2>1, Unseen
<1>2. CASE ~Has[n]
  <2>1. Life!Appear(n)
    BY <1>2 DEF Life!Appear, Dec, Has, OnRecord, Abs
  <2> QED
    BY <2>1 DEF Lives, Life!Next
<1> QED
  BY <1>1, <1>2

LEMMA DecideIsSeen ==
  ASSUME NEW n \in Issues, NEW d \in {"submitted", "has_pr", "blocked", "skipped"},
         Dec[n] = "undecided", Dec' = [Dec EXCEPT ![n] = d],
         Has' \in {Has, [Has EXCEPT ![n] = TRUE]},
         d = "submitted" => Has'[n],
         d = "blocked" => Has'[n] \/ runs[n] > 0,
         d = "skipped" => runs[n] > 0,
         UNCHANGED <<runs, comment>>
  PROVE  Lives
<1>1. Life!Decide(n, d)
  BY DEF Life!Decide, Dec, Has, OnRecord, Abs
<1> QED
  BY <1>1 DEF Lives, Life!Next, Life!Decisions

LEMMA ClaimIsSeen ==
  ASSUME NEW n \in Issues, Dec[n] = "undecided", Dec' = Dec, Has' = Has,
         UNCHANGED runs,
         comment' \in {comment, [comment EXCEPT ![n] = "none"],
                       [comment EXCEPT ![n] = "working"]}
  PROVE  Lives
<1>1. CASE comment' = comment
  BY <1>1, Unseen
<1>2. CASE comment' # comment
  <2>1. Life!Claim(n)
    BY <1>2 DEF Life!Claim, Dec, Has, OnRecord, Abs
  <2> QED
    BY <2>1 DEF Lives, Life!Next
<1> QED
  BY <1>1, <1>2

LEMMA SyncIsSeen ==
  ASSUME NEW n \in Issues, Dec' = Dec, Has' = Has, UNCHANGED runs,
         \/ comment' \in {comment, [comment EXCEPT ![n] = "released"]}
         \/ pr[n] # "none" /\ comment' = [comment EXCEPT ![n] = "done"]
  PROVE  Lives
<1>1. CASE comment' = comment
  BY <1>1, Unseen
<1>2. CASE comment' = [comment EXCEPT ![n] = "released"]
  <2>1. Life!Release(n)
    BY <1>2 DEF Life!Release, Dec, Has, OnRecord, Abs
  <2> QED
    BY <2>1 DEF Lives, Life!Next
<1>3. CASE pr[n] # "none" /\ comment' = [comment EXCEPT ![n] = "done"]
  <2>1. Life!Announce(n)
    BY <1>3 DEF Life!Announce, Dec, Has, OnRecord, Abs
  <2> QED
    BY <2>1 DEF Lives, Life!Next
<1> QED
  BY <1>1, <1>2, <1>3

-----------------------------------------------------------------------------
(* One part of Next after the other *)

\* A job is replaced in memory, and saved unless its decision is the same.
LEMMA PutOne ==
  ASSUME LifeInv, NEW n \in Issues, NEW j \in Job,
         mem' = [mem EXCEPT ![n] = j],
         disk' = mem' \/ (disk' = disk /\ Abs(j.status) = Dec[n]),
         j.claim = "done" => pr'[n] # "none",
         \A m \in Issues : pr[m] # "none" => pr'[m] # "none"
  PROVE  /\ Matched' /\ Announced'
         /\ Dec' = [Dec EXCEPT ![n] = Abs(j.status)]
<1>1. mem \in [Issues -> Job] /\ disk \in [Issues -> Job]
  BY DEF LifeInv, EngineInv, TypeOK
<1>2. /\ mem'[n] = j
      /\ \A m \in Issues : m # n => mem'[m] = mem[m]
  BY <1>1
<1>3. \A m \in Issues : disk'[m] \in {mem'[m], disk[m]}
  BY <1>2
<1>4. /\ Abs(disk'[n].status) = Abs(j.status)
      /\ \A m \in Issues : m # n => Abs(disk'[m].status) = Abs(disk[m].status)
  BY <1>1, <1>2 DEF LifeInv, Matched, Dec
<1>5. Matched'
  BY <1>2, <1>4 DEF LifeInv, Matched
<1>6. Announced'
  BY <1>1, <1>2, <1>3 DEF LifeInv, Announced
<1>7. Dec' = [Dec EXCEPT ![n] = Abs(j.status)]
  BY <1>4 DEF Dec
<1> QED
  BY <1>5, <1>6, <1>7

\* Steps that leave the jobs, GitHub and the run counts alone.
LEMMA Aside ==
  ASSUME LifeInv, UNCHANGED <<disk, pr, comment, runs>>, mem' \in {mem, disk},
         pc' # "verify"
  PROVE  Restored /\ Lives
<1>1. Matched' /\ Announced' /\ Spent'
  BY DEF LifeInv, Matched, Announced, Spent
<1>2. Dec' = Dec /\ Has' = Has
  BY DEF Dec, Has
<1> QED
  BY <1>1, <1>2, Unseen DEF Restored

LEMMA LoopLives ==
  ASSUME LifeInv, Loop \/ Crash \/ Restart
  PROVE  Restored /\ Lives
<1>1. UNCHANGED <<disk, pr, comment, runs>> /\ mem' \in {mem, disk}
  BY DEF Loop, StartScan, EndReconcile, Fetch, ReadFails, StepFails, EndWalk,
         Crash, Restart
<1>2. pc' # "verify"
  BY DEF Loop, StartScan, Scan, EndReconcile, Fetch, ReadFails, StepFails,
         EndWalk, Crash, Restart
<1> QED
  BY <1>1, <1>2, Aside

\* A saved claim state is brought to its comment, successfully or not.
LEMMA SyncLives ==
  ASSUME LifeInv, NEW n \in Issues, mem[n].pending,
         SyncDone(n) \/ SyncFailed(n), UNCHANGED <<pr, runs>>, pc' # "verify"
  PROVE  Restored /\ Lives
<1>1. mem[n] \in Job /\ disk[n] \in Job
  BY DEF LifeInv, EngineInv, TypeOK
<1>2. mem[n].claim \in {"released", "done"}
  BY DEF LifeInv, EngineInv, Claimed, ClaimOK
<1>3. mem[n].claim = "done" => pr[n] # "none"
  BY DEF LifeInv, Announced
<1>4. Matched' /\ Announced' /\ Dec' = Dec
  <2>1. CASE SyncDone(n)
    <3>1. [mem[n] EXCEPT !.pending = FALSE] \in Job
      BY <1>1 DEF Job
    <3>2. /\ [mem[n] EXCEPT !.pending = FALSE].status = mem[n].status
          /\ [mem[n] EXCEPT !.pending = FALSE].claim = mem[n].claim
      BY <1>1 DEF Job
    <3>3. Dec[n] = Abs(mem[n].status)
      BY DEF LifeInv, Matched, Dec
    <3>4. /\ Matched' /\ Announced'
          /\ Dec' = [Dec EXCEPT ![n] = Dec[n]]
      BY <2>1, <3>1, <3>2, <3>3, <1>3, PutOne DEF SyncDone
    <3> QED
      BY <3>4 DEF Dec
  <2>2. CASE SyncFailed(n)
    BY <2>2 DEF SyncFailed, LifeInv, Matched, Announced, Dec
  <2> QED
    BY <2>1, <2>2
<1>5. Has' = Has /\ Spent'
  BY DEF Has, Spent
<1>6. comment \in [Issues -> {"none", "working", "released", "done"}]
  BY DEF LifeInv, EngineInv, TypeOK
<1>7. comment' \in {comment, [comment EXCEPT ![n] = Shown(n)]}
  BY DEF SyncDone, SyncFailed
<1>8. [comment EXCEPT ![n] = Shown(n)] \in
        {comment, [comment EXCEPT ![n] = mem[n].claim]}
  BY <1>6 DEF Shown
<1>9. \/ comment' \in {comment, [comment EXCEPT ![n] = "released"]}
      \/ pr[n] # "none" /\ comment' = [comment EXCEPT ![n] = "done"]
  BY <1>2, <1>3, <1>7, <1>8
<1> QED
  BY <1>4, <1>5, <1>9, SyncIsSeen DEF Restored

\* A job is replaced without a decision, perhaps as its pull request appears.
LEMMA KeepLives ==
  ASSUME LifeInv, NEW n \in Issues, NEW j \in Job,
         mem' = [mem EXCEPT ![n] = j], disk' \in {disk, mem'},
         Abs(j.status) = Abs(mem[n].status), j.claim = "done" => pr'[n] # "none",
         Has' \in {Has, [Has EXCEPT ![n] = TRUE]},
         UNCHANGED <<runs, comment>>, pc' # "verify"
  PROVE  Restored /\ Lives
<1>1. Dec[n] = Abs(j.status)
  BY DEF LifeInv, Matched, Dec
<1>2. \A m \in Issues : pr[m] # "none" => pr'[m] # "none"
  BY DEF Has
<1>3. Matched' /\ Announced' /\ Dec' = [Dec EXCEPT ![n] = Abs(j.status)]
  BY <1>1, <1>2, PutOne
<1>4. Dec' = Dec
  BY <1>1, <1>3 DEF Dec
<1>5. Lives
  BY <1>4, Unseen, AppearIsSeen
<1> QED
  BY <1>3, <1>5 DEF Restored, Spent

\* A job is decided, perhaps as its pull request appears.
LEMMA DecideLives ==
  ASSUME LifeInv, NEW n \in Issues, NEW j \in Job,
         mem' = [mem EXCEPT ![n] = j], disk' = mem',
         mem[n].status \in {"none", "pending"},
         j.status \in {"submitted", "has_pr", "blocked", "skipped"},
         j.claim = "done" => pr'[n] # "none",
         Has' \in {Has, [Has EXCEPT ![n] = TRUE]},
         j.status = "submitted" => pr'[n] # "none",
         j.status = "blocked" => pr'[n] # "none" \/ runs[n] > 0,
         j.status = "skipped" => runs[n] > 0,
         UNCHANGED <<runs, comment>>, pc' # "verify"
  PROVE  Restored /\ Lives
<1>1. Dec[n] = "undecided" /\ Abs(j.status) = j.status
  BY DEF LifeInv, Matched, Dec, Abs
<1>2. \A m \in Issues : pr[m] # "none" => pr'[m] # "none"
  BY DEF Has
<1>3. Matched' /\ Announced' /\ Dec' = [Dec EXCEPT ![n] = j.status]
  <2>1. Matched' /\ Announced' /\ Dec' = [Dec EXCEPT ![n] = Abs(j.status)]
    BY <1>2, PutOne
  <2> QED
    BY <1>1, <2>1
<1>4. Has'[n] <=> pr'[n] # "none"
  BY DEF Has
<1>5. Lives
  BY <1>1, <1>3, <1>4, DecideIsSeen
<1> QED
  BY <1>3, <1>5 DEF Restored, Spent

\* An undecided issue is claimed, or its claim given up before any work.
LEMMA ClaimLives ==
  ASSUME LifeInv, NEW n \in Issues, NEW j \in Job,
         mem' = [mem EXCEPT ![n] = j], disk' \in {disk, mem'},
         mem[n].status = "pending", j.status = "pending", j.claim # "done",
         UNCHANGED <<pr, runs>>,
         comment' \in {comment, [comment EXCEPT ![n] = "none"],
                       [comment EXCEPT ![n] = "working"]},
         pc' # "verify"
  PROVE  Restored /\ Lives
<1>1. Dec[n] = "undecided" /\ Abs(j.status) = "undecided"
  BY DEF LifeInv, Matched, Dec, Abs
<1>2. Matched' /\ Announced' /\ Dec' = [Dec EXCEPT ![n] = Abs(j.status)]
  BY <1>1, PutOne
<1>3. Dec' = Dec /\ Has' = Has
  BY <1>1, <1>2 DEF Dec, Has
<1>4. Lives
  BY <1>1, <1>3, ClaimIsSeen
<1> QED
  BY <1>2, <1>4 DEF Restored, Spent

\* A pull request of the bot is recorded.
LEMMA CompleteLives ==
  ASSUME LifeInv, NEW n \in Issues, NEW next, BranchPull(n),
         mem[n].status \in {"none", "pending"}, Complete(n, next)
  PROVE  Restored /\ Lives
<1> DEFINE j == [Recorded(mem[n], pr[n]) EXCEPT !.claim = "done", !.pending = TRUE]
<1>1. mem[n] \in Job
  BY DEF LifeInv, EngineInv, TypeOK
<1>2. j \in Job /\ j.status \in {"blocked", "submitted"}
  <2>1. j \in Job
    BY <1>1, JobTypes
  <2> QED
    BY <1>1, <2>1 DEF Recorded, Job
<1>3. /\ mem' = [mem EXCEPT ![n] = j] /\ disk' = mem'
      /\ UNCHANGED <<pr, comment, runs>> /\ pc' # "verify" /\ pr[n] # "none"
  BY DEF Complete, Deliver, BranchPull
<1>4. Has' = Has
  BY <1>3 DEF Has
<1> QED
  BY <1>2, <1>3, <1>4, DecideLives

LEMMA ReconcileLives ==
  ASSUME LifeInv, NEW n \in Issues, Reconcile(n)
  PROVE  Restored /\ Lives
<1>1. CASE DeliverSaved(n)
  BY <1>1, SyncLives DEF DeliverSaved, Undelivered
<1>2. CASE ReconcileFails(n) \/ NothingToReconcile(n)
  BY <1>2, Aside DEF ReconcileFails, StepFails, NothingToReconcile
<1>3. CASE ReconcilePull(n)
  BY <1>3, CompleteLives DEF ReconcilePull, Unfinished
<1> QED
  BY <1>1, <1>2, <1>3 DEF Reconcile

\* What the updates of a job change of its decision and its claim.
LEMMA JobParts ==
  ASSUME NEW j \in Job
  PROVE  /\ Released(j) \in Job /\ Released(j).status = j.status
         /\ Released(j).claim = "released"
         /\ [j EXCEPT !.claim = "done", !.pending = TRUE] \in Job
         /\ [j EXCEPT !.claim = "done", !.pending = TRUE].status = j.status
<1>1. Released(j) \in Job
  BY JobTypes
<1>2. [j EXCEPT !.claim = "done", !.pending = TRUE] \in Job
  BY JobTypes
<1>3. Released(j).status = j.status /\ Released(j).claim = "released"
  BY <1>1 DEF Released, Job
<1>4. [j EXCEPT !.claim = "done", !.pending = TRUE].status = j.status
  BY <1>2 DEF Job
<1> QED
  BY <1>1, <1>2, <1>3, <1>4

LEMMA WalkLives ==
  ASSUME LifeInv, NEW n \in Issues, Walk(n)
  PROVE  Restored /\ Lives
<1>1. mem[n] \in Job
  BY DEF LifeInv, EngineInv, TypeOK
<1>2. mem[n].claim = "done" => pr[n] # "none"
  BY DEF LifeInv, Announced
<1>3. CASE SkipJob(n) \/ Proceed(n) \/ NoLongerEligible(n)
  BY <1>3, Aside DEF SkipJob, Proceed, NoLongerEligible
<1>4. CASE LookUpPull(n)
  BY <1>4, CompleteLives DEF LookUpPull, Ready
<1>5. CASE NoPull(n) \/ LookUpFails(n)
  <2> DEFINE j == [mem[n] EXCEPT !.status = "pending"]
  <2>1. j \in Job /\ j.claim = mem[n].claim /\ j.status = "pending"
    BY <1>1 DEF Job
  <2>2. Abs(j.status) = Abs(mem[n].status)
    BY <1>5, <2>1 DEF NoPull, LookUpFails, Ready, Abs
  <2>3. /\ mem' = [mem EXCEPT ![n] = j] /\ disk' = disk
        /\ UNCHANGED <<pr, runs, comment>> /\ pc' # "verify"
    BY <1>5 DEF NoPull, LookUpFails, Adopt
  <2>4. Has' = Has
    BY <2>3 DEF Has
  <2> QED
    BY <1>2, <2>1, <2>2, <2>3, <2>4, KeepLives
<1>6. CASE SkipLinked(n)
  <2> DEFINE j == [mem[n] EXCEPT !.status = "has_pr"]
  <2>1. j \in Job /\ j.claim = mem[n].claim /\ j.status = "has_pr"
    BY <1>1 DEF Job
  <2>2. mem[n].status = "pending"
    BY <1>6 DEF SkipLinked, LifeInv, EngineInv, Stages, Stage, WorkStages
  <2>3. /\ mem' = [mem EXCEPT ![n] = j] /\ disk' = mem'
        /\ UNCHANGED <<pr, runs, comment>> /\ pc' # "verify"
    BY <1>6 DEF SkipLinked
  <2>4. Has' = Has
    BY <2>3 DEF Has
  <2> QED
    BY <1>2, <2>1, <2>2, <2>3, <2>4, DecideLives
<1>7. CASE BlockExhausted(n)
  <2> DEFINE i == [mem[n] EXCEPT !.status = "blocked"]
  <2>1. /\ i \in Job /\ i.claim = mem[n].claim /\ i.status = "blocked"
        /\ Released(i) \in Job
        /\ Released(i).claim = "released" /\ Released(i).status = "blocked"
    <3>1. i \in Job /\ i.claim = mem[n].claim /\ i.status = "blocked"
      BY <1>1 DEF Job
    <3> HIDE DEF i
    <3> QED
      BY <3>1, JobParts
  <2>2. mem[n].status = "pending"
    BY <1>7 DEF BlockExhausted, LifeInv, EngineInv, Stages, Stage, WorkStages
  <2>3. runs[n] > 0
    <3>1. mem[n].tries >= Attempts /\ mem[n].tries = runs[n]
      BY <1>7 DEF BlockExhausted, Exhausted, LifeInv, EngineInv, Charged
    <3>2. mem[n].tries \in Nat
      BY <1>1 DEF Job
    <3> QED
      BY <3>1, <3>2
  <2>4. /\ disk' = mem' /\ UNCHANGED <<pr, runs, comment>> /\ pc' # "verify"
        /\ mem' = [mem EXCEPT ![n] = i] \/ mem' = [mem EXCEPT ![n] = Released(i)]
    BY <1>7 DEF BlockExhausted, Deliver
  <2>5. Has' = Has
    BY <2>4 DEF Has
  <2>6. CASE mem' = [mem EXCEPT ![n] = i]
    <3> HIDE DEF i
    <3> QED
      BY <1>2, <2>1, <2>2, <2>3, <2>4, <2>5, <2>6, DecideLives
  <2>7. CASE mem' = [mem EXCEPT ![n] = Released(i)]
    <3> HIDE DEF i
    <3> QED
      BY <2>1, <2>2, <2>3, <2>4, <2>5, <2>7, DecideLives
  <2> QED
    BY <2>4, <2>6, <2>7
<1> QED
  BY <1>3, <1>4, <1>5, <1>6, <1>7 DEF Walk

LEMMA ClaimedAttemptLives ==
  ASSUME LifeInv, NEW n \in Issues, ClaimedAttempt(n)
  PROVE  Restored /\ Lives
<1>1. mem[n] \in Job /\ mem \in [Issues -> Job]
  BY DEF LifeInv, EngineInv, TypeOK
<1>2. CASE Claim(n)
  <2> DEFINE j == [mem[n] EXCEPT !.claim = "working"]
  <2>1. j \in Job /\ j.claim = "working" /\ j.status = mem[n].status
    BY <1>1 DEF Job
  <2>2. mem[n].status = "pending"
    BY <1>2 DEF Claim, LifeInv, EngineInv, Stages, Stage, WorkStages
  <2>3. /\ mem' = [mem EXCEPT ![n] = j] /\ disk' = mem' /\ UNCHANGED <<pr, runs>>
        /\ pc' # "verify" /\ comment' \in {comment, [comment EXCEPT ![n] = "none"]}
    BY <1>2 DEF Claim, SaveClaim
  <2> QED
    BY <2>1, <2>2, <2>3, ClaimLives
<1>3. CASE AcquireFails(n) \/ Acquired(n)
  <2>1. mem[n].status = "pending" /\ mem[n].claim = "working"
    BY <1>3
    DEF AcquireFails, Acquired, LifeInv, EngineInv, Stages, Stage, WorkStages
  <2>2. /\ mem' = mem /\ disk' \in {disk, mem} /\ UNCHANGED <<pr, runs>>
        /\ pc' # "verify"
        /\ comment' \in {comment, [comment EXCEPT ![n] = "working"]}
    BY <1>3 DEF AcquireFails, Acquired, MayBePosted
  <2>3. mem' = [mem EXCEPT ![n] = mem[n]]
    BY <1>1, <2>2
  <2> QED
    BY <1>1, <2>1, <2>2, <2>3, ClaimLives
<1>4. CASE AcquireLoses(n)
  <2> DEFINE j == [Released(mem[n]) EXCEPT !.waiting = TRUE]
  <2>1. j \in Job /\ j.claim = "released" /\ j.status = mem[n].status
    <3>1. j \in Job
      BY <1>1, JobTypes
    <3> QED
      BY <1>1, <3>1 DEF Released, Job
  <2>2. mem[n].status = "pending"
    BY <1>4 DEF AcquireLoses, LifeInv, EngineInv, Stages, Stage, WorkStages
  <2>3. /\ mem' = [mem EXCEPT ![n] = j] /\ disk' = mem' /\ UNCHANGED <<pr, runs>>
        /\ pc' # "verify"
        /\ comment' \in {comment, [comment EXCEPT ![n] = "working"]}
    BY <1>4 DEF AcquireLoses, MayBePosted, Deliver
  <2> QED
    BY <2>1, <2>2, <2>3, ClaimLives
<1>5. CASE CloseClaim(n)
  <2>1. /\ disk' = mem' /\ UNCHANGED <<pr, runs, comment>> /\ pc' # "verify"
    BY <1>5 DEF CloseClaim
  <2>2. Has' = Has
    BY <2>1 DEF Has
  <2>3. CASE mem[n].status = "submitted"
    <3> DEFINE j == [mem[n] EXCEPT !.claim = "done", !.pending = TRUE]
    <3>1. j \in Job /\ j.status = mem[n].status
      BY <1>1, JobParts
    <3>2. mem' = [mem EXCEPT ![n] = j]
      BY <1>5, <2>3 DEF CloseClaim
    <3>3. pr'[n] # "none"
      BY <2>1, <2>3 DEF LifeInv, EngineInv, SubmittedHasPull
    <3> QED
      BY <2>1, <2>2, <3>1, <3>2, <3>3, KeepLives
  <2>4. CASE mem[n].status # "submitted"
    <3>1. /\ Released(mem[n]) \in Job
          /\ Released(mem[n]).status = mem[n].status
          /\ Released(mem[n]).claim = "released"
      BY <1>1, JobParts
    <3>2. mem' = [mem EXCEPT ![n] = Released(mem[n])]
      BY <1>5, <2>4 DEF CloseClaim
    <3> QED
      BY <2>1, <2>2, <3>1, <3>2, KeepLives
  <2> QED
    BY <2>3, <2>4
<1>6. CASE Sync(n) \/ SyncFails(n)
  <2>1. mem[n].pending
    BY <1>6 DEF Sync, SyncFails, LifeInv, EngineInv, Stages, Stage
  <2>2. (SyncDone(n) \/ SyncFailed(n)) /\ UNCHANGED <<pr, runs>> /\ pc' # "verify"
    BY <1>6 DEF Sync, SyncFails, Scan
  <2> QED
    BY <2>1, <2>2, SyncLives
<1> QED
  BY <1>2, <1>3, <1>4, <1>5, <1>6 DEF ClaimedAttempt

LEMMA AttemptLives ==
  ASSUME LifeInv, NEW n \in Issues, Attempt(n)
  PROVE  Restored /\ Lives
<1>1. mem[n] \in Job /\ mem[n].tries = runs[n] /\ runs[n] \in Nat
  <2>1. mem[n] \in Job /\ mem[n].tries = runs[n]
    BY DEF LifeInv, EngineInv, TypeOK, Charged
  <2> QED
    BY <2>1 DEF Job
<1>2. mem[n].claim = "done" => pr[n] # "none"
  BY DEF LifeInv, Announced
<1>3. pc \in WorkStages /\ Current(n) => mem[n].status = "pending"
  BY DEF LifeInv, EngineInv, Stages, Stage
<1>4. CASE PrepareFails(n) \/ StillEligible(n) \/ ReadyToPublish(n) \/ Push(n)
           \/ NoPullYet(n) \/ ReadyToCreate(n)
  BY <1>4, Aside
  DEF PrepareFails, EndAttempt, StillEligible, ReadyToPublish, Push, NoPullYet,
      ReadyToCreate, Pass
<1>5. CASE AgentReady(n)
  <2>1. /\ Current(n) /\ mem[n].tries > 0
        /\ UNCHANGED <<todo, mem, disk, pr, runs, comment>>
    BY <1>5 DEF AgentReady, Pass, LifeInv, EngineInv, Stages, Stage
  <2>2. \A m \in Issues : Current(m)' => m = n
    BY <2>1 DEF Current
  <2>3. Spent'
    BY <2>1, <2>2 DEF Spent
  <2>4. Matched' /\ Announced'
    BY <2>1 DEF LifeInv, Matched, Announced
  <2>5. Dec' = Dec /\ Has' = Has
    BY <2>1 DEF Dec, Has
  <2> QED
    BY <2>1, <2>3, <2>4, <2>5, Unseen DEF Restored
<1>6. CASE StartAgent(n)
  <2> DEFINE j == [mem[n] EXCEPT !.tries = @ + 1, !.waiting = TRUE]
  <2>1. mem[n].status = "pending" /\ mem[n].tries < Attempts
    BY <1>6 DEF StartAgent, LifeInv, EngineInv, Stages, Stage, WorkStages
  <2>2. j \in Job /\ j.claim = mem[n].claim /\ j.status = "pending"
    <3>1. mem[n].tries + 1 \in 0..Attempts
      BY <1>1, <2>1 DEF Job
    <3> QED
      BY <1>1, <2>1, <3>1 DEF Job
  <2>3. /\ mem' = [mem EXCEPT ![n] = j] /\ disk' = mem'
        /\ UNCHANGED <<pr, comment>> /\ pc' # "verify"
        /\ runs' = [runs EXCEPT ![n] = @ + 1]
    BY <1>6 DEF StartAgent, Charge
  <2>4. Dec[n] = "undecided" /\ Abs(j.status) = "undecided"
    BY <2>1, <2>2 DEF LifeInv, Matched, Dec, Abs
  <2> HIDE DEF j
  <2>5. Matched' /\ Announced' /\ Dec' = [Dec EXCEPT ![n] = Abs(j.status)]
    BY <1>2, <2>2, <2>3, PutOne
  <2>6. Dec' = Dec /\ Has' = Has
    BY <2>3, <2>4, <2>5 DEF Dec, Has
  <2>7. Lives
    BY <1>1, <2>1, <2>3, <2>4, <2>6, WorkIsSeen
  <2> QED
    BY <2>3, <2>5, <2>7 DEF Restored, Spent
<1>7. CASE SetupError(n)
  <2> DEFINE j == [mem[n] EXCEPT !.tries = @ - 1, !.waiting = FALSE]
  <2>1. mem[n].status = "pending" /\ mem[n].tries > 0
    BY <1>7 DEF SetupError, LifeInv, EngineInv, Stages, Stage, WorkStages
  <2>2. j \in Job /\ j.claim = mem[n].claim /\ j.status = "pending"
    <3>1. mem[n].tries - 1 \in 0..Attempts
      BY <1>1, <2>1 DEF Job
    <3> QED
      BY <1>1, <2>1, <3>1 DEF Job
  <2>3. /\ mem' = [mem EXCEPT ![n] = j] /\ disk' = mem'
        /\ UNCHANGED <<pr, comment>> /\ pc' # "verify"
        /\ runs' = [runs EXCEPT ![n] = @ - 1]
    BY <1>7 DEF SetupError, EndAttempt
  <2>4. Dec[n] = "undecided" /\ Abs(j.status) = "undecided"
    BY <2>1, <2>2 DEF LifeInv, Matched, Dec, Abs
  <2> HIDE DEF j
  <2>5. Matched' /\ Announced' /\ Dec' = [Dec EXCEPT ![n] = Abs(j.status)]
    BY <1>2, <2>2, <2>3, PutOne
  <2>6. Dec' = Dec /\ Has' = Has
    BY <2>3, <2>4, <2>5 DEF Dec, Has
  <2>7. Lives
    BY <1>1, <2>1, <2>3, <2>4, <2>6, RefundIsSeen
  <2> QED
    BY <2>3, <2>5, <2>7 DEF Restored, Spent
<1>8. CASE StageFails(n) \/ CreateFails(n)
  <2> DEFINE j == [mem[n] EXCEPT !.waiting = TRUE]
  <2>1. j \in Job /\ j.claim = mem[n].claim /\ j.status = mem[n].status
    BY <1>1 DEF Job
  <2>2. /\ mem' = [mem EXCEPT ![n] = j] /\ disk' = mem'
        /\ UNCHANGED <<runs, comment>> /\ pc' # "verify"
    BY <1>8 DEF StageFails, CreateFails, Failed, EndAttempt
  <2>3. pr' = pr \/ (pr[n] = "none" /\ pr' = [pr EXCEPT ![n] = "open"])
    BY <1>8 DEF StageFails, CreateFails, Opened
  <2>4. pr \in [Issues -> {"none", "open", "merged", "closed"}]
    BY DEF LifeInv, EngineInv, TypeOK
  <2>5. Has' \in {Has, [Has EXCEPT ![n] = TRUE]}
    BY <2>3, <2>4 DEF Has
  <2>6. pr[n] # "none" => pr'[n] # "none"
    BY <2>3, <2>4
  <2> QED
    BY <1>2, <2>1, <2>2, <2>5, <2>6, KeepLives
<1>9. CASE AgentBlocked(n) \/ NotEligible(n) \/ ExistingPull(n)
  <2>1. PICK d \in {"blocked", "skipped", "has_pr"} :
          /\ mem' = [mem EXCEPT ![n] = [mem[n] EXCEPT !.status = d]]
          /\ d # "has_pr" => mem[n].tries > 0
    <3>1. CASE AgentBlocked(n)
      BY <3>1 DEF AgentBlocked, Decide, LifeInv, EngineInv, Stages, Stage
    <3>2. CASE NotEligible(n)
      BY <3>2 DEF NotEligible, Decide, LifeInv, Spent
    <3>3. CASE ExistingPull(n)
      BY <3>3 DEF ExistingPull, Decide
    <3> QED
      BY <1>9, <3>1, <3>2, <3>3
  <2> DEFINE j == [mem[n] EXCEPT !.status = d]
  <2>2. j \in Job /\ j.claim = mem[n].claim /\ j.status = d
    BY <1>1 DEF Job
  <2>3. mem[n].status = "pending"
    BY <1>3, <1>9 DEF AgentBlocked, NotEligible, ExistingPull, WorkStages
  <2>4. /\ mem' = [mem EXCEPT ![n] = j] /\ disk' = mem'
        /\ UNCHANGED <<pr, runs, comment>> /\ pc' # "verify"
    BY <1>9, <2>1
    DEF AgentBlocked, NotEligible, ExistingPull, Decide, EndAttempt
  <2>5. Has' = Has
    BY <2>4 DEF Has
  <2> QED
    BY <1>1, <1>2, <2>1, <2>2, <2>3, <2>4, <2>5, DecideLives
<1>10. CASE FoundPull(n) \/ Create(n)
  <2>1. PICK p \in {pr[n], "open"} :
          mem' = [mem EXCEPT ![n] = Recorded(mem[n], p)]
    BY <1>10 DEF FoundPull, Create, Decide
  <2>2. /\ Recorded(mem[n], p) \in Job
        /\ Recorded(mem[n], p).claim = mem[n].claim
        /\ Recorded(mem[n], p).status \in {"blocked", "submitted"}
    <3>1. Recorded(mem[n], p) \in Job
      BY <1>1, JobTypes
    <3> QED
      BY <1>1, <3>1 DEF Recorded, Job
  <2>3. mem[n].status = "pending"
    BY <1>3, <1>10 DEF FoundPull, Create, WorkStages
  <2>4. /\ disk' = mem' /\ UNCHANGED <<runs, comment>> /\ pc' # "verify"
    BY <1>10 DEF FoundPull, Create, Decide, EndAttempt
  <2>5. pr \in [Issues -> {"none", "open", "merged", "closed"}]
    BY DEF LifeInv, EngineInv, TypeOK
  <2>6. /\ pr'[n] # "none"
        /\ Has' \in {Has, [Has EXCEPT ![n] = TRUE]}
    BY <1>10, <2>5 DEF FoundPull, BranchPull, Create, Opened, Has
  <2> QED
    BY <2>1, <2>2, <2>3, <2>4, <2>6, DecideLives
<1> QED
  BY <1>4, <1>5, <1>6, <1>7, <1>8, <1>9, <1>10 DEF Attempt

LEMMA CommandLives ==
  ASSUME LifeInv, Command
  PROVE  Restored /\ Lives
<1>1. /\ mem' = disk' /\ pc' = "down" /\ UNCHANGED comment
      /\ disk \in [Issues -> Job]
  BY DEF Command, Retry, Requeue, LifeInv, EngineInv, TypeOK
<1>2. Spent'
  BY <1>1 DEF Spent
<1>3. ASSUME NEW chosen \in SUBSET Issues, Retry(chosen)
      PROVE  Matched' /\ Announced' /\ Lives
  <2> DEFINE hit == {n \in chosen : disk[n].status \in {"blocked", "pending"}}
  <2>1. /\ disk' = [n \in Issues |->
                      IF n \in hit THEN StartOver(disk[n]) ELSE disk[n]]
        /\ runs' = [n \in Issues |-> IF n \in hit THEN 0 ELSE runs[n]]
        /\ UNCHANGED pr
    BY <1>3 DEF Retry
  <2>2. \A n \in Issues : StartOver(disk[n]).status = "pending"
                          /\ StartOver(disk[n]).claim = disk[n].claim
    BY <1>1 DEF StartOver, Job
  <2>3. Matched' /\ Announced'
    BY <1>1, <2>1, <2>2 DEF LifeInv, Matched, Announced
  <2>4. Dec' = [n \in Issues |-> IF n \in hit THEN "undecided" ELSE Dec[n]]
    BY <2>1, <2>2 DEF Dec, Abs
  <2>5. \A n \in hit : Dec[n] \in {"undecided", "blocked"}
    BY DEF Dec, Abs
  <2>6. hit \in SUBSET Issues /\ Has' = Has
    BY <2>1 DEF Has
  <2> HIDE DEF hit
  <2>7. Life!Retry(hit)
    BY <1>1, <2>1, <2>4, <2>5, <2>6 DEF Life!Retry, Dec, Has, OnRecord, Abs
  <2> QED
    BY <2>3, <2>6, <2>7 DEF Lives, Life!Next
<1>4. ASSUME NEW n \in Issues, Requeue(n)
      PROVE  Matched' /\ Announced' /\ Lives
  <2> DEFINE fresh == StartOver(disk[n])
  <2>1. fresh \in Job /\ fresh.status = "pending" /\ fresh.claim = disk[n].claim
    BY <1>1, StartOverType DEF StartOver, Job
  <2>2. /\ Released(fresh) \in Job /\ Released(fresh).status = "pending"
        /\ Released(fresh).claim = "released"
    <3> HIDE DEF fresh
    <3> QED
      BY <2>1, JobParts
  <2>3. PICK j \in Job : /\ disk' = [disk EXCEPT ![n] = j]
                         /\ j.status = "pending" /\ j.claim # "done"
    BY <1>4, <2>1, <2>2 DEF Requeue
  <2>4. /\ pr[n] = "closed" /\ pr' = [pr EXCEPT ![n] = "none"]
        /\ runs' = [runs EXCEPT ![n] = 0]
    BY <1>4 DEF Requeue
  <2>5. pr \in [Issues -> {"none", "open", "merged", "closed"}]
    BY DEF LifeInv, EngineInv, TypeOK
  <2>6. Matched'
    BY <1>1 DEF Matched
  <2>7. Announced'
    BY <1>1, <2>3, <2>4, <2>5 DEF LifeInv, Announced
  <2>8. Dec' = [Dec EXCEPT ![n] = "undecided"]
    BY <1>1, <2>3 DEF Dec, Abs
  <2>9. Has[n] /\ Has' = [Has EXCEPT ![n] = FALSE]
    BY <2>4, <2>5 DEF Has
  <2>10. Life!Requeue(n)
    BY <1>1, <2>4, <2>8, <2>9 DEF Life!Requeue, Dec, Has, OnRecord, Abs
  <2> QED
    BY <2>6, <2>7, <2>10 DEF Lives, Life!Next
<1> QED
  BY <1>2, <1>3, <1>4 DEF Command, Restored

LEMMA WorldLives ==
  ASSUME LifeInv, NEW n \in Issues, Elapse(n) \/ LandCreate(n) \/ Event(n)
  PROVE  Restored /\ Lives
<1>1. /\ mem \in [Issues -> Job] /\ disk \in [Issues -> Job]
      /\ pr \in [Issues -> {"none", "open", "merged", "closed"}]
  BY DEF LifeInv, EngineInv, TypeOK
<1>2. UNCHANGED <<pc, todo, runs, comment>>
  BY DEF Elapse, LandCreate, Event
<1>3. \A m \in Issues :
        /\ mem'[m].status = mem[m].status /\ mem'[m].claim = mem[m].claim
        /\ mem'[m].tries = mem[m].tries
        /\ disk'[m].status = disk[m].status /\ disk'[m].claim = disk[m].claim
  <2>1. CASE Elapse(n)
    BY <1>1, <2>1 DEF Elapse, Job
  <2>2. CASE LandCreate(n) \/ Event(n)
    BY <2>2 DEF LandCreate, Event
  <2> QED
    BY <2>1, <2>2
<1>4. /\ Has' \in {Has, [Has EXCEPT ![n] = TRUE]}
      /\ \A m \in Issues : pr[m] # "none" => pr'[m] # "none"
  <2>1. CASE Elapse(n)
    BY <2>1 DEF Elapse, Has
  <2>2. CASE LandCreate(n)
    BY <1>1, <2>2 DEF LandCreate, Has
  <2>3. CASE Event(n)
    BY <1>1, <2>3 DEF Event, Has
  <2> QED
    BY <2>1, <2>2, <2>3
<1>5. Dec' = Dec
  BY <1>3 DEF Dec
<1>6. Matched' /\ Announced'
  BY <1>3, <1>4 DEF LifeInv, Matched, Announced
<1>7. Spent'
  BY <1>2, <1>3 DEF LifeInv, Spent, Current
<1>8. Lives
  BY <1>2, <1>4, <1>5, Unseen, AppearIsSeen
<1> QED
  BY <1>6, <1>7, <1>8 DEF Restored

-----------------------------------------------------------------------------
(* The theorems *)

\* The initial state satisfies the invariant and is an initial life.
LEMMA LifeInit == Init => LifeInv /\ Life!Init
<1> SUFFICES ASSUME Init PROVE LifeInv /\ Life!Init
  OBVIOUS
<1>1. \A n \in Issues : mem[n] = NoJob /\ disk[n] = NoJob
  BY DEF Init
<1>2. Matched /\ Announced /\ Spent
  BY <1>1 DEF Init, NoJob, Matched, Announced, Spent, Current
<1>3. Life!Init
  BY <1>1 DEF Init, NoJob, Life!Init, OnRecord
<1> QED
  BY <1>2, <1>3, InitInv DEF LifeInv

\* Every step keeps the invariant and is a step of a life, or is not seen.
LEMMA LifeStep == LifeInv /\ [Next]_vars => LifeInv' /\ [Life!Next]_(Life!vars)
<1> SUFFICES ASSUME LifeInv, [Next]_vars
             PROVE  LifeInv' /\ [Life!Next]_(Life!vars)
  OBVIOUS
<1>1. EngineInv'
  BY NextInv DEF LifeInv
<1>2. Restored /\ Lives
  <2>1. CASE Next
    BY <2>1, LoopLives, ReconcileLives, WalkLives, ClaimedAttemptLives,
       AttemptLives, CommandLives, WorldLives
    DEF Next, Daemon
  <2>2. CASE UNCHANGED vars
    <3>1. UNCHANGED <<pc, todo, mem, disk, pr, comment, runs>>
      BY <2>2 DEF vars
    <3>2. Matched' /\ Announced'
      BY <3>1 DEF LifeInv, Matched, Announced
    <3>3. Spent'
      BY <3>1 DEF LifeInv, Spent, Current
    <3>4. Dec' = Dec /\ Has' = Has
      BY <3>1 DEF Dec, Has
    <3> QED
      BY <3>1, <3>2, <3>3, <3>4, Unseen DEF Restored
  <2> QED
    BY <2>1, <2>2
<1> QED
  BY <1>1, <1>2 DEF LifeInv, Restored, Lives

\* The invariant holds in every reachable state: jobs in memory and on disk are
\* decided alike, Done is never claimed without a pull request, and nothing is
\* verified that was not charged.
THEOREM LifeInvariant == Spec => []LifeInv
  BY LifeInit, LifeStep, PTL DEF Spec

\* One daemon, with all its calls, failures, crashes and restarts, implements
\* the life that Lifecycle promises every issue.
THEOREM EngineImplementsLifecycle == Spec => LifecycleHolds
  BY LifeInit, LifeStep, PTL DEF Spec, LifecycleHolds, Life!Spec
=============================================================================
