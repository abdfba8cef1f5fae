---------------------------- MODULE EngineProofs ----------------------------
(* Theorems about Engine for every number of issues, attempts, changes made   *)
(* by other people and crashes, with their proofs.  Every step lemma says     *)
(* that the actions of one part of Next preserve EngineInv; it has one step   *)
(* per action and under it one per part of the invariant.                     *)
EXTENDS Engine, TLAPS

-----------------------------------------------------------------------------
(* The inductive invariant *)

\* The stages in which the walk works on the current issue.
WorkStages == {"linked", "refetch", "acquire", "prepare", "agent", "verify",
               "ready", "push", "recheck", "readyAgain", "create"}

\* Every charged run is counted in the job, in memory and on disk.
Charged == \A n \in Issues : mem[n].tries = runs[n] /\ disk[n].tries = runs[n]

\* What the daemon's position says of the job of the current issue.
Stage(n) ==
  /\ pc \in WorkStages => mem[n].status = "pending" /\ ~mem[n].pending
  /\ pc \in {"refetch", "acquire", "prepare"} => mem[n].tries < Attempts
  /\ pc = "agent" => mem[n].tries > 0
  /\ pc = "acquire" => mem[n].claim = "working" /\ disk[n].claim = "working"
  /\ pc = "sync" => mem[n].pending

Stages == \A n \in Issues : Current(n) => Stage(n)

\* Only a final claim state is left to deliver, and a comment that shows the
\* claim at work belongs to a working claim or to one still to be delivered.
ClaimOK(j, n) ==
  /\ j.pending => j.claim \in {"released", "done"}
  /\ comment[n] = "working" => j.claim = "working" \/ j.pending

Claimed == \A n \in Issues : ClaimOK(mem[n], n) /\ ClaimOK(disk[n], n)

\* A decision on disk is the decision in memory.
Decided == {"submitted", "has_pr", "skipped", "blocked"}
Settled == \A n \in Issues : disk[n].status \in Decided
                             => mem[n].status = disk[n].status

EngineInv ==
  TypeOK /\ Charged /\ Stages /\ Claimed /\ SubmittedHasPull /\ Settled

USE EngineAssumption DEF Goto, Put, Save, Quiet, World, github, Issues

-----------------------------------------------------------------------------
(* Types of updated jobs *)

\* Every update the actions make of a job yields a job.
LEMMA JobTypes ==
  ASSUME NEW j \in Job
  PROVE  /\ \A s \in {"pending", "submitted", "has_pr", "blocked", "skipped"} :
              [j EXCEPT !.status = s] \in Job
         /\ [j EXCEPT !.claim = "working"] \in Job
         /\ [j EXCEPT !.claim = "done", !.pending = TRUE] \in Job
         /\ [j EXCEPT !.pending = FALSE] \in Job
         /\ [j EXCEPT !.waiting = TRUE] \in Job
         /\ Released(j) \in Job
         /\ [Released(j) EXCEPT !.waiting = TRUE] \in Job
         /\ \A p : Recorded(j, p) \in Job
         /\ \A p : [Recorded(j, p) EXCEPT !.claim = "done", !.pending = TRUE]
                     \in Job
<1>1. \A s \in {"pending", "submitted", "has_pr", "blocked", "skipped"} :
        [j EXCEPT !.status = s] \in Job
  BY DEF Job
<1>2. [j EXCEPT !.claim = "working"] \in Job
  BY DEF Job
<1>3. \A i \in Job : [i EXCEPT !.claim = "done", !.pending = TRUE] \in Job
  BY DEF Job
<1>4. [j EXCEPT !.pending = FALSE] \in Job
  BY DEF Job
<1>5. \A i \in Job : [i EXCEPT !.waiting = TRUE] \in Job
  BY DEF Job
<1>6. Released(j) \in Job
  BY DEF Job, Released
<1>7. \A p : Recorded(j, p) \in Job
  BY DEF Job, Recorded
<1> QED
  BY <1>1, <1>2, <1>3, <1>4, <1>5, <1>6, <1>7

\* A fresh budget yields a job.
LEMMA StartOverType ==
  ASSUME NEW j \in Job
  PROVE  StartOver(j) \in Job
<1>1. 0 \in 0..Attempts
  OBVIOUS
<1>2. [j EXCEPT !.status = "pending"] \in Job
  BY DEF Job
<1>3. \A i \in Job : [i EXCEPT !.tries = 0] \in Job
  BY <1>1 DEF Job
<1>4. \A i \in Job : [i EXCEPT !.waiting = FALSE] \in Job
  BY DEF Job
<1>5. StartOver(j) = [[[j EXCEPT !.status = "pending"]
                         EXCEPT !.tries = 0] EXCEPT !.waiting = FALSE]
  BY DEF StartOver, Job
<1> QED
  BY <1>2, <1>3, <1>4, <1>5

\* What neither touches a job nor its pull request, comment or run count keeps
\* all parts of the invariant but the types and the stages.
LEMMA Frame ==
  ASSUME EngineInv, UNCHANGED <<mem, disk, pr, comment, runs>>, TypeOK', Stages'
  PROVE  EngineInv'
<1>1. Charged' /\ Settled'
  BY DEF EngineInv, Charged, Settled
<1>2. Claimed' /\ SubmittedHasPull'
  BY DEF EngineInv, Claimed, ClaimOK, SubmittedHasPull
<1> QED
  BY <1>1, <1>2 DEF EngineInv

\* Bringing a saved claim state to its comment, successfully or not, keeps what
\* the invariant says of jobs and comments.
LEMMA SyncParts ==
  ASSUME EngineInv, NEW n \in Issues, mem[n].pending,
         SyncDone(n) \/ SyncFailed(n), UNCHANGED <<pr, runs>>
  PROVE  /\ mem' \in [Issues -> Job] /\ disk' \in [Issues -> Job]
         /\ comment' \in [Issues -> {"none", "working", "released", "done"}]
         /\ Charged' /\ Claimed' /\ SubmittedHasPull' /\ Settled'
<1> USE DEF EngineInv
<1>1. /\ mem[n] \in Job
      /\ mem[n].claim \in {"released", "done"}
      /\ Shown(n) \in {"none", "released", "done"}
  BY DEF TypeOK, Claimed, ClaimOK, Shown
<1>2. comment' \in {comment, [comment EXCEPT ![n] = Shown(n)]}
  BY DEF SyncDone, SyncFailed
<1>3. /\ comment' \in [Issues -> {"none", "working", "released", "done"}]
      /\ \A m \in Issues : comment'[m] = "working" => comment[m] = "working"
      /\ SyncDone(n) => comment'[n] # "working"
  BY <1>1, <1>2 DEF TypeOK, SyncDone
<1>4. CASE SyncDone(n)
  <2>1. /\ mem' = [mem EXCEPT ![n] = [mem[n] EXCEPT !.pending = FALSE]]
        /\ disk' = mem'
        /\ [mem[n] EXCEPT !.pending = FALSE] \in Job
    BY <1>1, <1>4, JobTypes DEF SyncDone
  <2>2. mem' \in [Issues -> Job] /\ disk' \in [Issues -> Job]
    BY <2>1 DEF TypeOK
  <2>3. Charged'
    BY <2>1 DEF Charged, TypeOK, Job
  <2>4. Claimed'
    BY <1>1, <1>3, <1>4, <2>1 DEF Claimed, ClaimOK, TypeOK, Job
  <2>5. SubmittedHasPull' /\ Settled'
    BY <2>1 DEF SubmittedHasPull, Settled, TypeOK, Job
  <2> QED
    BY <1>3, <2>2, <2>3, <2>4, <2>5
<1>5. CASE SyncFailed(n)
  <2>1. mem' = mem /\ disk' = disk
    BY <1>5 DEF SyncFailed
  <2>2. Claimed'
    BY <1>3, <2>1 DEF Claimed, ClaimOK
  <2> QED
    BY <1>3, <2>1, <2>2 DEF TypeOK, Charged, SubmittedHasPull, Settled
<1> QED
  BY <1>4, <1>5

-----------------------------------------------------------------------------
(* Steps of the daemon *)

\* The steps between the issues keep the invariant.
LEMMA LoopStep ==
  ASSUME EngineInv, Loop
  PROVE  EngineInv'
<1> USE DEF EngineInv
<1>1. CASE StartScan
  <2>1. UNCHANGED <<mem, disk, pr, comment, runs>>
    BY <1>1 DEF StartScan, Scan
  <2>2. TypeOK'
    BY <1>1, <2>1 DEF StartScan, Scan, TypeOK
  <2>3. Stages'
    BY <1>1, <2>1 DEF StartScan, Scan, Stages, Stage, Current, WorkStages
  <2> QED
    BY <2>1, <2>2, <2>3, Frame
<1>2. CASE EndReconcile
  <2>1. UNCHANGED <<mem, disk, pr, comment, runs>>
    BY <1>2 DEF EndReconcile
  <2>2. TypeOK'
    BY <1>2, <2>1 DEF EndReconcile, TypeOK
  <2>3. Stages'
    BY <1>2, <2>1 DEF EndReconcile, Stages, Stage, Current, WorkStages
  <2> QED
    BY <2>1, <2>2, <2>3, Frame
<1>3. CASE Fetch
  <2>1. UNCHANGED <<mem, disk, pr, comment, runs>>
    BY <1>3 DEF Fetch
  <2>2. TypeOK'
    BY <1>3, <2>1 DEF Fetch, TypeOK
  <2>3. Stages'
    BY <1>3, <2>1 DEF Fetch, Stages, Stage, Current, WorkStages
  <2> QED
    BY <2>1, <2>2, <2>3, Frame
<1>4. CASE ReadFails
  <2>1. UNCHANGED <<mem, disk, pr, comment, runs>>
    BY <1>4 DEF ReadFails, StepFails
  <2>2. TypeOK'
    BY <1>4, <2>1 DEF ReadFails, StepFails, TypeOK
  <2>3. Stages'
    BY <1>4, <2>1 DEF ReadFails, StepFails, Stages, Stage, Current, WorkStages
  <2> QED
    BY <2>1, <2>2, <2>3, Frame
<1>5. CASE EndWalk
  <2>1. UNCHANGED <<mem, disk, pr, comment, runs>>
    BY <1>5 DEF EndWalk
  <2>2. TypeOK'
    BY <1>5, <2>1 DEF EndWalk, TypeOK
  <2>3. Stages'
    BY <1>5, <2>1 DEF EndWalk, Stages, Stage, Current, WorkStages
  <2> QED
    BY <2>1, <2>2, <2>3, Frame
<1> QED
  BY <1>1, <1>2, <1>3, <1>4, <1>5 DEF Loop

\* Delivering saved updates and reconciling jobs keep the invariant.
LEMMA ReconcileStep ==
  ASSUME EngineInv, NEW n \in Issues, Reconcile(n)
  PROVE  EngineInv'
<1> USE DEF EngineInv
<1>1. CASE DeliverSaved(n)
  <2>1. mem[n].pending
    BY <1>1 DEF DeliverSaved, Undelivered
  <2>2. /\ mem' \in [Issues -> Job] /\ disk' \in [Issues -> Job]
        /\ comment' \in [Issues -> {"none", "working", "released", "done"}]
        /\ Charged' /\ Claimed' /\ SubmittedHasPull' /\ Settled'
    BY <1>1, <2>1, SyncParts DEF DeliverSaved
  <2>3. TypeOK'
    BY <1>1, <2>2 DEF DeliverSaved, Current, Undelivered, TypeOK
  <2>4. Stages'
    BY <1>1
    DEF DeliverSaved, Current, SyncDone, SyncFailed, Undelivered, Shown,
        Stages, Stage, WorkStages, TypeOK, Job
  <2> QED
    BY <2>2, <2>3, <2>4 DEF EngineInv
<1>2. CASE ReconcileFails(n)
  <2>1. UNCHANGED <<mem, disk, pr, comment, runs>>
    BY <1>2
    DEF ReconcileFails, StepFails, AtProbe, Unfinished, Current, Undelivered
  <2>2. TypeOK'
    BY <1>2, <2>1
    DEF ReconcileFails, StepFails, AtProbe, Unfinished, Current, Undelivered,
        TypeOK
  <2>3. Stages'
    BY <1>2, <2>1
    DEF ReconcileFails, StepFails, AtProbe, Unfinished, Current, Undelivered,
        Stages, Stage, WorkStages
  <2> QED
    BY <2>1, <2>2, <2>3, Frame
<1>3. CASE ReconcilePull(n)
  <2>1. mem' \in [Issues -> Job] /\ disk' \in [Issues -> Job]
    BY <1>3, JobTypes
    DEF ReconcilePull, Complete, BranchPull, AtProbe, Unfinished, Deliver,
        Recorded, Current, Undelivered, TypeOK
  <2>2. TypeOK'
    BY <1>3, <2>1
    DEF ReconcilePull, Complete, BranchPull, AtProbe, Unfinished, Deliver,
        Recorded, Current, Undelivered, TypeOK
  <2>3. Charged'
    BY <1>3
    DEF ReconcilePull, Complete, BranchPull, AtProbe, Unfinished, Deliver,
        Recorded, Current, Undelivered, Charged, TypeOK, Job
  <2>4. Stages'
    BY <1>3
    DEF ReconcilePull, Complete, BranchPull, AtProbe, Unfinished, Deliver,
        Recorded, Current, Undelivered, Stages, Stage, WorkStages, TypeOK, Job
  <2>5. Claimed'
    BY <1>3
    DEF ReconcilePull, Complete, BranchPull, AtProbe, Unfinished, Deliver,
        Recorded, Current, Undelivered, Claimed, ClaimOK, TypeOK, Job
  <2>6. SubmittedHasPull'
    BY <1>3
    DEF ReconcilePull, Complete, BranchPull, AtProbe, Unfinished, Deliver,
        Recorded, Current, Undelivered, SubmittedHasPull, TypeOK, Job
  <2>7. Settled'
    BY <1>3
    DEF ReconcilePull, Complete, BranchPull, AtProbe, Unfinished, Deliver,
        Recorded, Current, Undelivered, Settled, Decided, TypeOK, Job
  <2> QED
    BY <2>2, <2>3, <2>4, <2>5, <2>6, <2>7 DEF EngineInv
<1>4. CASE NothingToReconcile(n)
  <2>1. UNCHANGED <<mem, disk, pr, comment, runs>>
    BY <1>4
    DEF NothingToReconcile, Finished, BranchPull, AtProbe, Unfinished,
        Current, Undelivered
  <2>2. TypeOK'
    BY <1>4, <2>1
    DEF NothingToReconcile, Finished, BranchPull, AtProbe, Unfinished,
        Current, Undelivered, TypeOK
  <2>3. Stages'
    BY <1>4, <2>1
    DEF NothingToReconcile, Finished, BranchPull, AtProbe, Unfinished,
        Current, Undelivered, Stages, Stage, WorkStages
  <2> QED
    BY <2>1, <2>2, <2>3, Frame
<1> QED
  BY <1>1, <1>2, <1>3, <1>4 DEF Reconcile

\* Walking the eligible issues keeps the invariant.
LEMMA WalkStep ==
  ASSUME EngineInv, NEW n \in Issues, Walk(n)
  PROVE  EngineInv'
<1> USE DEF EngineInv
<1>1. CASE SkipJob(n)
  <2>1. UNCHANGED <<mem, disk, pr, comment, runs>>
    BY <1>1 DEF SkipJob, Current, Finished, Ready
  <2>2. TypeOK'
    BY <1>1, <2>1 DEF SkipJob, Current, Finished, Ready, TypeOK
  <2>3. Stages'
    BY <1>1, <2>1
    DEF SkipJob, Current, Finished, Ready, Stages, Stage, WorkStages
  <2> QED
    BY <2>1, <2>2, <2>3, Frame
<1>2. CASE LookUpPull(n)
  <2>1. mem' \in [Issues -> Job] /\ disk' \in [Issues -> Job]
    BY <1>2, JobTypes
    DEF LookUpPull, Current, Complete, BranchPull, Ready, Deliver, Recorded,
        TypeOK
  <2>2. TypeOK'
    BY <1>2, <2>1
    DEF LookUpPull, Current, Complete, BranchPull, Ready, Deliver, Recorded,
        TypeOK
  <2>3. Charged'
    BY <1>2
    DEF LookUpPull, Current, Complete, BranchPull, Ready, Deliver, Recorded,
        Charged, TypeOK, Job
  <2>4. Stages'
    BY <1>2
    DEF LookUpPull, Current, Complete, BranchPull, Ready, Deliver, Recorded,
        Stages, Stage, WorkStages, TypeOK, Job
  <2>5. Claimed'
    BY <1>2
    DEF LookUpPull, Current, Complete, BranchPull, Ready, Deliver, Recorded,
        Claimed, ClaimOK, TypeOK, Job
  <2>6. SubmittedHasPull'
    BY <1>2
    DEF LookUpPull, Current, Complete, BranchPull, Ready, Deliver, Recorded,
        SubmittedHasPull, TypeOK, Job
  <2>7. Settled'
    BY <1>2
    DEF LookUpPull, Current, Complete, BranchPull, Ready, Deliver, Recorded,
        Settled, Decided, TypeOK, Job
  <2> QED
    BY <2>2, <2>3, <2>4, <2>5, <2>6, <2>7 DEF EngineInv
<1>3. CASE NoPull(n)
  <2>1. mem' \in [Issues -> Job] /\ disk' \in [Issues -> Job]
    BY <1>3, JobTypes DEF NoPull, Current, BranchPull, Ready, Adopt, TypeOK
  <2>2. TypeOK'
    BY <1>3, <2>1 DEF NoPull, Current, BranchPull, Ready, Adopt, TypeOK
  <2>3. Charged'
    BY <1>3
    DEF NoPull, Current, BranchPull, Ready, Adopt, Charged, TypeOK, Job
  <2>4. Stages'
    BY <1>3
    DEF NoPull, Current, BranchPull, Ready, Adopt, Stages, Stage, WorkStages,
        TypeOK, Job
  <2>5. Claimed'
    BY <1>3
    DEF NoPull, Current, BranchPull, Ready, Adopt, Claimed, ClaimOK, TypeOK,
        Job
  <2>6. SubmittedHasPull'
    BY <1>3
    DEF NoPull, Current, BranchPull, Ready, Adopt, SubmittedHasPull, TypeOK,
        Job
  <2>7. Settled'
    BY <1>3
    DEF NoPull, Current, BranchPull, Ready, Adopt, Settled, Decided, TypeOK,
        Job
  <2> QED
    BY <2>2, <2>3, <2>4, <2>5, <2>6, <2>7 DEF EngineInv
<1>4. CASE LookUpFails(n)
  <2>1. mem' \in [Issues -> Job] /\ disk' \in [Issues -> Job]
    BY <1>4, JobTypes DEF LookUpFails, Current, Ready, Adopt, TypeOK
  <2>2. TypeOK'
    BY <1>4, <2>1 DEF LookUpFails, Current, Ready, Adopt, TypeOK
  <2>3. Charged'
    BY <1>4 DEF LookUpFails, Current, Ready, Adopt, Charged, TypeOK, Job
  <2>4. Stages'
    BY <1>4
    DEF LookUpFails, Current, Ready, Adopt, Stages, Stage, WorkStages, TypeOK,
        Job
  <2>5. Claimed'
    BY <1>4
    DEF LookUpFails, Current, Ready, Adopt, Claimed, ClaimOK, TypeOK, Job
  <2>6. SubmittedHasPull'
    BY <1>4
    DEF LookUpFails, Current, Ready, Adopt, SubmittedHasPull, TypeOK, Job
  <2>7. Settled'
    BY <1>4
    DEF LookUpFails, Current, Ready, Adopt, Settled, Decided, TypeOK, Job
  <2> QED
    BY <2>2, <2>3, <2>4, <2>5, <2>6, <2>7 DEF EngineInv
<1>5. CASE SkipLinked(n)
  <2>1. mem' \in [Issues -> Job] /\ disk' \in [Issues -> Job]
    BY <1>5, JobTypes DEF SkipLinked, Current, Finished, Referenced, TypeOK
  <2>2. TypeOK'
    BY <1>5, <2>1 DEF SkipLinked, Current, Finished, Referenced, TypeOK
  <2>3. Charged'
    BY <1>5
    DEF SkipLinked, Current, Finished, Referenced, Charged, TypeOK, Job
  <2>4. Stages'
    BY <1>5
    DEF SkipLinked, Current, Finished, Referenced, Stages, Stage, WorkStages,
        TypeOK, Job
  <2>5. Claimed'
    BY <1>5
    DEF SkipLinked, Current, Finished, Referenced, Claimed, ClaimOK, TypeOK,
        Job
  <2>6. SubmittedHasPull'
    BY <1>5
    DEF SkipLinked, Current, Finished, Referenced, SubmittedHasPull, TypeOK,
        Job
  <2>7. Settled'
    BY <1>5
    DEF SkipLinked, Current, Finished, Referenced, Settled, Decided, TypeOK,
        Job
  <2> QED
    BY <2>2, <2>3, <2>4, <2>5, <2>6, <2>7 DEF EngineInv
<1>6. CASE BlockExhausted(n)
  <2> DEFINE b == [mem[n] EXCEPT !.status = "blocked"]
  <2>1. /\ pc = "linked" /\ Current(n)
        /\ UNCHANGED <<pr, comment, runs>>
        /\ disk' = mem'
    BY <1>6 DEF BlockExhausted
  <2>2. /\ b \in Job /\ Released(b) \in Job
        /\ mem[n] \in Job /\ ClaimOK(mem[n], n)
    BY JobTypes DEF TypeOK, Claimed
  <2>3. /\ b.status = "blocked" /\ Released(b).status = "blocked"
        /\ b.tries = mem[n].tries /\ Released(b).tries = mem[n].tries
        /\ Released(b).pending
        /\ ClaimOK(b, n) /\ ClaimOK(Released(b), n)
    BY <2>2 DEF Released, ClaimOK, Job
  <2>4. \/ /\ mem' = [mem EXCEPT ![n] = b]
           /\ todo' = todo \ {n} /\ pc' = "walk" /\ after' = after
        \/ /\ mem' = [mem EXCEPT ![n] = Released(b)]
           /\ todo' = todo /\ pc' = "sync" /\ after' = "walk"
    BY <1>6 DEF BlockExhausted, Finished, Deliver
  <2> HIDE DEF b
  <2>5. mem' \in [Issues -> Job] /\ disk' \in [Issues -> Job]
    <3>1. PICK k \in {b, Released(b)} : mem' = [mem EXCEPT ![n] = k]
      BY <2>4
    <3>2. k \in Job
      BY <2>1, <2>2, <3>1
    <3> QED
      BY <2>1, <3>1, <3>2 DEF TypeOK
  <2>6. TypeOK'
    BY <1>6, <2>4, <2>5 DEF BlockExhausted, TypeOK
  <2>7. Charged'
    BY <2>1, <2>3, <2>4 DEF Charged, TypeOK
  <2>8. Stages'
    BY <2>1, <2>3, <2>4 DEF Stages, Stage, Current, WorkStages, TypeOK
  <2>9. Claimed'
    BY <2>1, <2>3, <2>4 DEF Claimed, ClaimOK, TypeOK
  <2>10. SubmittedHasPull' /\ Settled'
    BY <2>1, <2>3, <2>4 DEF SubmittedHasPull, Settled, TypeOK
  <2> QED
    BY <2>6, <2>7, <2>8, <2>9, <2>10 DEF EngineInv
<1>7. CASE Proceed(n)
  <2>1. UNCHANGED <<mem, disk, pr, comment, runs>>
    BY <1>7 DEF Proceed, Current, Referenced, Exhausted
  <2>2. TypeOK'
    BY <1>7, <2>1 DEF Proceed, Current, Referenced, Exhausted, TypeOK
  <2>3. Stages'
    BY <1>7, <2>1
    DEF Proceed, Current, Referenced, Exhausted, Stages, Stage, WorkStages,
        TypeOK, Job
  <2> QED
    BY <2>1, <2>2, <2>3, Frame
<1>8. CASE NoLongerEligible(n)
  <2>1. UNCHANGED <<mem, disk, pr, comment, runs>>
    BY <1>8 DEF NoLongerEligible, Current, Finished
  <2>2. TypeOK'
    BY <1>8, <2>1 DEF NoLongerEligible, Current, Finished, TypeOK
  <2>3. Stages'
    BY <1>8, <2>1
    DEF NoLongerEligible, Current, Finished, Stages, Stage, WorkStages
  <2> QED
    BY <2>1, <2>2, <2>3, Frame
<1> QED
  BY <1>1, <1>2, <1>3, <1>4, <1>5, <1>6, <1>7, <1>8 DEF Walk

\* Acquiring, closing and delivering a claim keep the invariant.
LEMMA ClaimStep ==
  ASSUME EngineInv, NEW n \in Issues, ClaimedAttempt(n)
  PROVE  EngineInv'
<1> USE DEF EngineInv
<1>1. CASE Claim(n)
  <2>1. mem' \in [Issues -> Job] /\ disk' \in [Issues -> Job]
    BY <1>1, JobTypes DEF Claim, Current, SaveClaim, TypeOK
  <2>2. TypeOK'
    BY <1>1, <2>1 DEF Claim, Current, SaveClaim, TypeOK
  <2>3. Charged'
    BY <1>1 DEF Claim, Current, SaveClaim, Charged, TypeOK, Job
  <2>4. Stages'
    BY <1>1
    DEF Claim, Current, SaveClaim, Stages, Stage, WorkStages, TypeOK, Job
  <2>5. Claimed'
    BY <1>1
    DEF Claim, Current, SaveClaim, Claimed, ClaimOK, Stages, Stage,
        WorkStages, TypeOK, Job
  <2>6. SubmittedHasPull'
    BY <1>1 DEF Claim, Current, SaveClaim, SubmittedHasPull, TypeOK, Job
  <2>7. Settled'
    BY <1>1 DEF Claim, Current, SaveClaim, Settled, Decided, TypeOK, Job
  <2> QED
    BY <2>2, <2>3, <2>4, <2>5, <2>6, <2>7 DEF EngineInv
<1>2. CASE AcquireFails(n)
  <2>1. mem' \in [Issues -> Job] /\ disk' \in [Issues -> Job]
    BY <1>2, JobTypes DEF AcquireFails, Current, MayBePosted, TypeOK
  <2>2. TypeOK'
    BY <1>2, <2>1 DEF AcquireFails, Current, MayBePosted, TypeOK
  <2>3. Charged'
    BY <1>2 DEF AcquireFails, Current, MayBePosted, Charged, TypeOK, Job
  <2>4. Stages'
    BY <1>2
    DEF AcquireFails, Current, MayBePosted, Stages, Stage, WorkStages, TypeOK,
        Job
  <2>5. Claimed'
    BY <1>2
    DEF AcquireFails, Current, MayBePosted, Claimed, ClaimOK, Stages, Stage,
        WorkStages, TypeOK, Job
  <2>6. SubmittedHasPull'
    BY <1>2
    DEF AcquireFails, Current, MayBePosted, SubmittedHasPull, TypeOK, Job
  <2>7. Settled'
    BY <1>2
    DEF AcquireFails, Current, MayBePosted, Settled, Decided, TypeOK, Job
  <2> QED
    BY <2>2, <2>3, <2>4, <2>5, <2>6, <2>7 DEF EngineInv
<1>3. CASE AcquireLoses(n)
  <2>1. mem' \in [Issues -> Job] /\ disk' \in [Issues -> Job]
    BY <1>3, JobTypes
    DEF AcquireLoses, Current, Deliver, Released, MayBePosted, TypeOK
  <2>2. TypeOK'
    BY <1>3, <2>1
    DEF AcquireLoses, Current, Deliver, Released, MayBePosted, TypeOK
  <2>3. Charged'
    BY <1>3
    DEF AcquireLoses, Current, Deliver, Released, MayBePosted, Charged,
        TypeOK, Job
  <2>4. Stages'
    BY <1>3
    DEF AcquireLoses, Current, Deliver, Released, MayBePosted, Stages, Stage,
        WorkStages, TypeOK, Job
  <2>5. Claimed'
    BY <1>3
    DEF AcquireLoses, Current, Deliver, Released, MayBePosted, Claimed,
        ClaimOK, TypeOK, Job
  <2>6. SubmittedHasPull'
    BY <1>3
    DEF AcquireLoses, Current, Deliver, Released, MayBePosted,
        SubmittedHasPull, TypeOK, Job
  <2>7. Settled'
    BY <1>3
    DEF AcquireLoses, Current, Deliver, Released, MayBePosted, Settled,
        Decided, TypeOK, Job
  <2> QED
    BY <2>2, <2>3, <2>4, <2>5, <2>6, <2>7 DEF EngineInv
<1>4. CASE Acquired(n)
  <2>1. mem' \in [Issues -> Job] /\ disk' \in [Issues -> Job]
    BY <1>4, JobTypes DEF Acquired, Current, TypeOK
  <2>2. TypeOK'
    BY <1>4, <2>1 DEF Acquired, Current, TypeOK
  <2>3. Charged'
    BY <1>4 DEF Acquired, Current, Charged, TypeOK, Job
  <2>4. Stages'
    BY <1>4 DEF Acquired, Current, Stages, Stage, WorkStages, TypeOK, Job
  <2>5. Claimed'
    BY <1>4
    DEF Acquired, Current, Claimed, ClaimOK, Stages, Stage, WorkStages,
        TypeOK, Job
  <2>6. SubmittedHasPull'
    BY <1>4 DEF Acquired, Current, SubmittedHasPull, TypeOK, Job
  <2>7. Settled'
    BY <1>4 DEF Acquired, Current, Settled, Decided, TypeOK, Job
  <2> QED
    BY <2>2, <2>3, <2>4, <2>5, <2>6, <2>7 DEF EngineInv
<1>5. CASE CloseClaim(n)
  <2>1. mem' \in [Issues -> Job] /\ disk' \in [Issues -> Job]
    BY <1>5, JobTypes DEF CloseClaim, Current, Released, TypeOK
  <2>2. TypeOK'
    BY <1>5, <2>1 DEF CloseClaim, Current, Released, TypeOK
  <2>3. Charged'
    BY <1>5 DEF CloseClaim, Current, Released, Charged, TypeOK, Job
  <2>4. Stages'
    BY <1>5
    DEF CloseClaim, Current, Released, Stages, Stage, WorkStages, TypeOK, Job
  <2>5. Claimed'
    BY <1>5 DEF CloseClaim, Current, Released, Claimed, ClaimOK, TypeOK, Job
  <2>6. SubmittedHasPull'
    BY <1>5 DEF CloseClaim, Current, Released, SubmittedHasPull, TypeOK, Job
  <2>7. Settled'
    BY <1>5 DEF CloseClaim, Current, Released, Settled, Decided, TypeOK, Job
  <2> QED
    BY <2>2, <2>3, <2>4, <2>5, <2>6, <2>7 DEF EngineInv
<1>6. CASE Sync(n)
  <2>1. mem[n].pending
    BY <1>6 DEF Sync, Stages, Stage
  <2>2. /\ mem' \in [Issues -> Job] /\ disk' \in [Issues -> Job]
        /\ comment' \in [Issues -> {"none", "working", "released", "done"}]
        /\ Charged' /\ Claimed' /\ SubmittedHasPull' /\ Settled'
    BY <1>6, <2>1, SyncParts DEF Sync
  <2>3. TypeOK'
    BY <1>6, <2>2 DEF Sync, Current, Scan, Finished, TypeOK
  <2>4. Stages'
    BY <1>6
    DEF Sync, Current, Scan, Finished, SyncDone, Shown, Stages, Stage,
        WorkStages, TypeOK, Job
  <2> QED
    BY <2>2, <2>3, <2>4 DEF EngineInv
<1>7. CASE SyncFails(n)
  <2>1. mem[n].pending
    BY <1>7 DEF SyncFails, Stages, Stage
  <2>2. /\ mem' \in [Issues -> Job] /\ disk' \in [Issues -> Job]
        /\ comment' \in [Issues -> {"none", "working", "released", "done"}]
        /\ Charged' /\ Claimed' /\ SubmittedHasPull' /\ Settled'
    BY <1>7, <2>1, SyncParts DEF SyncFails
  <2>3. TypeOK'
    BY <1>7, <2>2 DEF SyncFails, Current, TypeOK
  <2>4. Stages'
    BY <1>7
    DEF SyncFails, Current, SyncFailed, Shown, Stages, Stage, WorkStages,
        TypeOK, Job
  <2> QED
    BY <2>2, <2>3, <2>4 DEF EngineInv
<1> QED
  BY <1>1, <1>2, <1>3, <1>4, <1>5, <1>6, <1>7 DEF ClaimedAttempt

\* Every stage of an attempt keeps the invariant.
LEMMA AttemptStep ==
  ASSUME EngineInv, NEW n \in Issues, Attempt(n)
  PROVE  EngineInv'
<1> USE DEF EngineInv
<1>1. CASE PrepareFails(n)
  <2>1. UNCHANGED <<mem, disk, pr, comment, runs>>
    BY <1>1 DEF PrepareFails, Current, EndAttempt
  <2>2. TypeOK'
    BY <1>1, <2>1 DEF PrepareFails, Current, EndAttempt, TypeOK
  <2>3. Stages'
    BY <1>1, <2>1
    DEF PrepareFails, Current, EndAttempt, Stages, Stage, WorkStages
  <2> QED
    BY <2>1, <2>2, <2>3, Frame
<1>2. CASE StartAgent(n)
  <2>1. mem[n] \in Job /\ runs[n] \in Nat /\ runs[n] = mem[n].tries
    BY DEF TypeOK, Charged
  <2>2. mem[n].tries < Attempts
    BY <1>2 DEF StartAgent, Stages, Stage
  <2>3. mem[n].tries + 1 \in 0..Attempts
    BY <2>1, <2>2 DEF Job
  <2>4. [mem[n] EXCEPT !.tries = @ + 1, !.waiting = TRUE] \in Job
    BY <2>1, <2>3 DEF Job
  <2>5. runs' \in [Issues -> Nat]
    BY <1>2, <2>1, <2>2 DEF StartAgent, TypeOK
  <2>6. mem' \in [Issues -> Job] /\ disk' \in [Issues -> Job]
    BY <1>2, <2>4 DEF StartAgent, Current, Charge, TypeOK
  <2>7. TypeOK'
    BY <1>2, <2>5, <2>6 DEF StartAgent, Current, Charge, TypeOK
  <2>8. Charged'
    BY <1>2 DEF StartAgent, Current, Charge, Charged, TypeOK, Job
  <2>9. Stages'
    BY <1>2
    DEF StartAgent, Current, Charge, Stages, Stage, WorkStages, TypeOK, Job
  <2>10. Claimed'
    BY <1>2 DEF StartAgent, Current, Charge, Claimed, ClaimOK, TypeOK, Job
  <2>11. SubmittedHasPull'
    BY <1>2 DEF StartAgent, Current, Charge, SubmittedHasPull, TypeOK, Job
  <2>12. Settled'
    BY <1>2 DEF StartAgent, Current, Charge, Settled, Decided, TypeOK, Job
  <2> QED
    BY <2>7, <2>8, <2>9, <2>10, <2>11, <2>12 DEF EngineInv
<1>3. CASE SetupError(n)
  <2>1. mem[n] \in Job /\ runs[n] \in Nat /\ runs[n] = mem[n].tries
    BY DEF TypeOK, Charged
  <2>2. mem[n].tries > 0
    BY <1>3 DEF SetupError, Stages, Stage
  <2>3. mem[n].tries - 1 \in 0..Attempts
    BY <2>1, <2>2 DEF Job
  <2>4. [mem[n] EXCEPT !.tries = @ - 1, !.waiting = FALSE] \in Job
    BY <2>1, <2>3 DEF Job
  <2>5. runs' \in [Issues -> Nat]
    BY <1>3, <2>1, <2>2 DEF SetupError, TypeOK
  <2>6. mem' \in [Issues -> Job] /\ disk' \in [Issues -> Job]
    BY <1>3, <2>4 DEF SetupError, Current, EndAttempt, TypeOK
  <2>7. TypeOK'
    BY <1>3, <2>5, <2>6 DEF SetupError, Current, EndAttempt, TypeOK
  <2>8. Charged'
    BY <1>3 DEF SetupError, Current, EndAttempt, Charged, TypeOK, Job
  <2>9. Stages'
    BY <1>3
    DEF SetupError, Current, EndAttempt, Stages, Stage, WorkStages, TypeOK,
        Job
  <2>10. Claimed'
    BY <1>3 DEF SetupError, Current, EndAttempt, Claimed, ClaimOK, TypeOK, Job
  <2>11. SubmittedHasPull'
    BY <1>3 DEF SetupError, Current, EndAttempt, SubmittedHasPull, TypeOK, Job
  <2>12. Settled'
    BY <1>3 DEF SetupError, Current, EndAttempt, Settled, Decided, TypeOK, Job
  <2> QED
    BY <2>7, <2>8, <2>9, <2>10, <2>11, <2>12 DEF EngineInv
<1>4. CASE StageFails(n)
  <2>1. mem' \in [Issues -> Job] /\ disk' \in [Issues -> Job]
    BY <1>4, JobTypes DEF StageFails, Failed, Current, EndAttempt, TypeOK
  <2>2. TypeOK'
    BY <1>4, <2>1 DEF StageFails, Failed, Current, EndAttempt, TypeOK
  <2>3. Charged'
    BY <1>4 DEF StageFails, Failed, Current, EndAttempt, Charged, TypeOK, Job
  <2>4. Stages'
    BY <1>4
    DEF StageFails, Failed, Current, EndAttempt, Stages, Stage, WorkStages,
        TypeOK, Job
  <2>5. Claimed'
    BY <1>4
    DEF StageFails, Failed, Current, EndAttempt, Claimed, ClaimOK, TypeOK, Job
  <2>6. SubmittedHasPull'
    BY <1>4
    DEF StageFails, Failed, Current, EndAttempt, SubmittedHasPull, TypeOK, Job
  <2>7. Settled'
    BY <1>4
    DEF StageFails, Failed, Current, EndAttempt, Settled, Decided, TypeOK, Job
  <2> QED
    BY <2>2, <2>3, <2>4, <2>5, <2>6, <2>7 DEF EngineInv
<1>5. CASE AgentBlocked(n)
  <2>1. mem' \in [Issues -> Job] /\ disk' \in [Issues -> Job]
    BY <1>5, JobTypes DEF AgentBlocked, Current, Decide, EndAttempt, TypeOK
  <2>2. TypeOK'
    BY <1>5, <2>1 DEF AgentBlocked, Current, Decide, EndAttempt, TypeOK
  <2>3. Charged'
    BY <1>5
    DEF AgentBlocked, Current, Decide, EndAttempt, Charged, TypeOK, Job
  <2>4. Stages'
    BY <1>5
    DEF AgentBlocked, Current, Decide, EndAttempt, Stages, Stage, WorkStages,
        TypeOK, Job
  <2>5. Claimed'
    BY <1>5
    DEF AgentBlocked, Current, Decide, EndAttempt, Claimed, ClaimOK, TypeOK,
        Job
  <2>6. SubmittedHasPull'
    BY <1>5
    DEF AgentBlocked, Current, Decide, EndAttempt, SubmittedHasPull, TypeOK,
        Job
  <2>7. Settled'
    BY <1>5
    DEF AgentBlocked, Current, Decide, EndAttempt, Settled, Decided, TypeOK,
        Job
  <2> QED
    BY <2>2, <2>3, <2>4, <2>5, <2>6, <2>7 DEF EngineInv
<1>6. CASE AgentReady(n)
  <2>1. UNCHANGED <<mem, disk, pr, comment, runs>>
    BY <1>6 DEF AgentReady, Pass, Current
  <2>2. TypeOK'
    BY <1>6, <2>1 DEF AgentReady, Pass, Current, TypeOK
  <2>3. Stages'
    BY <1>6, <2>1 DEF AgentReady, Pass, Current, Stages, Stage, WorkStages
  <2> QED
    BY <2>1, <2>2, <2>3, Frame
<1>7. CASE StillEligible(n)
  <2>1. UNCHANGED <<mem, disk, pr, comment, runs>>
    BY <1>7 DEF StillEligible, Pass, Current
  <2>2. TypeOK'
    BY <1>7, <2>1 DEF StillEligible, Pass, Current, TypeOK
  <2>3. Stages'
    BY <1>7, <2>1 DEF StillEligible, Pass, Current, Stages, Stage, WorkStages
  <2> QED
    BY <2>1, <2>2, <2>3, Frame
<1>8. CASE NotEligible(n)
  <2>1. mem' \in [Issues -> Job] /\ disk' \in [Issues -> Job]
    BY <1>8, JobTypes DEF NotEligible, Current, Decide, EndAttempt, TypeOK
  <2>2. TypeOK'
    BY <1>8, <2>1 DEF NotEligible, Current, Decide, EndAttempt, TypeOK
  <2>3. Charged'
    BY <1>8 DEF NotEligible, Current, Decide, EndAttempt, Charged, TypeOK, Job
  <2>4. Stages'
    BY <1>8
    DEF NotEligible, Current, Decide, EndAttempt, Stages, Stage, WorkStages,
        TypeOK, Job
  <2>5. Claimed'
    BY <1>8
    DEF NotEligible, Current, Decide, EndAttempt, Claimed, ClaimOK, TypeOK,
        Job
  <2>6. SubmittedHasPull'
    BY <1>8
    DEF NotEligible, Current, Decide, EndAttempt, SubmittedHasPull, TypeOK,
        Job
  <2>7. Settled'
    BY <1>8
    DEF NotEligible, Current, Decide, EndAttempt, Settled, Decided, TypeOK,
        Job
  <2> QED
    BY <2>2, <2>3, <2>4, <2>5, <2>6, <2>7 DEF EngineInv
<1>9. CASE ExistingPull(n)
  <2>1. mem' \in [Issues -> Job] /\ disk' \in [Issues -> Job]
    BY <1>9, JobTypes
    DEF ExistingPull, Current, Referenced, Decide, EndAttempt, TypeOK
  <2>2. TypeOK'
    BY <1>9, <2>1
    DEF ExistingPull, Current, Referenced, Decide, EndAttempt, TypeOK
  <2>3. Charged'
    BY <1>9
    DEF ExistingPull, Current, Referenced, Decide, EndAttempt, Charged,
        TypeOK, Job
  <2>4. Stages'
    BY <1>9
    DEF ExistingPull, Current, Referenced, Decide, EndAttempt, Stages, Stage,
        WorkStages, TypeOK, Job
  <2>5. Claimed'
    BY <1>9
    DEF ExistingPull, Current, Referenced, Decide, EndAttempt, Claimed,
        ClaimOK, TypeOK, Job
  <2>6. SubmittedHasPull'
    BY <1>9
    DEF ExistingPull, Current, Referenced, Decide, EndAttempt,
        SubmittedHasPull, TypeOK, Job
  <2>7. Settled'
    BY <1>9
    DEF ExistingPull, Current, Referenced, Decide, EndAttempt, Settled,
        Decided, TypeOK, Job
  <2> QED
    BY <2>2, <2>3, <2>4, <2>5, <2>6, <2>7 DEF EngineInv
<1>10. CASE ReadyToPublish(n)
  <2>1. UNCHANGED <<mem, disk, pr, comment, runs>>
    BY <1>10 DEF ReadyToPublish, Referenced, Pass, Current
  <2>2. TypeOK'
    BY <1>10, <2>1 DEF ReadyToPublish, Referenced, Pass, Current, TypeOK
  <2>3. Stages'
    BY <1>10, <2>1
    DEF ReadyToPublish, Referenced, Pass, Current, Stages, Stage, WorkStages
  <2> QED
    BY <2>1, <2>2, <2>3, Frame
<1>11. CASE Push(n)
  <2>1. UNCHANGED <<mem, disk, pr, comment, runs>>
    BY <1>11 DEF Push, Pass, Current
  <2>2. TypeOK'
    BY <1>11, <2>1 DEF Push, Pass, Current, TypeOK
  <2>3. Stages'
    BY <1>11, <2>1 DEF Push, Pass, Current, Stages, Stage, WorkStages
  <2> QED
    BY <2>1, <2>2, <2>3, Frame
<1>12. CASE FoundPull(n)
  <2>1. mem' \in [Issues -> Job] /\ disk' \in [Issues -> Job]
    BY <1>12, JobTypes
    DEF FoundPull, Current, Recorded, BranchPull, Decide, EndAttempt, TypeOK
  <2>2. TypeOK'
    BY <1>12, <2>1
    DEF FoundPull, Current, Recorded, BranchPull, Decide, EndAttempt, TypeOK
  <2>3. Charged'
    BY <1>12
    DEF FoundPull, Current, Recorded, BranchPull, Decide, EndAttempt, Charged,
        TypeOK, Job
  <2>4. Stages'
    BY <1>12
    DEF FoundPull, Current, Recorded, BranchPull, Decide, EndAttempt, Stages,
        Stage, WorkStages, TypeOK, Job
  <2>5. Claimed'
    BY <1>12
    DEF FoundPull, Current, Recorded, BranchPull, Decide, EndAttempt, Claimed,
        ClaimOK, TypeOK, Job
  <2>6. SubmittedHasPull'
    BY <1>12
    DEF FoundPull, Current, Recorded, BranchPull, Decide, EndAttempt,
        SubmittedHasPull, TypeOK, Job
  <2>7. Settled'
    BY <1>12
    DEF FoundPull, Current, Recorded, BranchPull, Decide, EndAttempt, Settled,
        Decided, TypeOK, Job
  <2> QED
    BY <2>2, <2>3, <2>4, <2>5, <2>6, <2>7 DEF EngineInv
<1>13. CASE NoPullYet(n)
  <2>1. UNCHANGED <<mem, disk, pr, comment, runs>>
    BY <1>13 DEF NoPullYet, BranchPull, Pass, Current
  <2>2. TypeOK'
    BY <1>13, <2>1 DEF NoPullYet, BranchPull, Pass, Current, TypeOK
  <2>3. Stages'
    BY <1>13, <2>1
    DEF NoPullYet, BranchPull, Pass, Current, Stages, Stage, WorkStages
  <2> QED
    BY <2>1, <2>2, <2>3, Frame
<1>14. CASE ReadyToCreate(n)
  <2>1. UNCHANGED <<mem, disk, pr, comment, runs>>
    BY <1>14 DEF ReadyToCreate, Referenced, Pass, Current
  <2>2. TypeOK'
    BY <1>14, <2>1 DEF ReadyToCreate, Referenced, Pass, Current, TypeOK
  <2>3. Stages'
    BY <1>14, <2>1
    DEF ReadyToCreate, Referenced, Pass, Current, Stages, Stage, WorkStages
  <2> QED
    BY <2>1, <2>2, <2>3, Frame
<1>15. CASE Create(n)
  <2>1. mem' \in [Issues -> Job] /\ disk' \in [Issues -> Job]
    BY <1>15, JobTypes
    DEF Create, Current, Recorded, Decide, Opened, EndAttempt, TypeOK
  <2>2. TypeOK'
    BY <1>15, <2>1
    DEF Create, Current, Recorded, Decide, Opened, EndAttempt, TypeOK
  <2>3. Charged'
    BY <1>15
    DEF Create, Current, Recorded, Decide, Opened, EndAttempt, Charged,
        TypeOK, Job
  <2>4. Stages'
    BY <1>15
    DEF Create, Current, Recorded, Decide, Opened, EndAttempt, Stages, Stage,
        WorkStages, TypeOK, Job
  <2>5. Claimed'
    BY <1>15
    DEF Create, Current, Recorded, Decide, Opened, EndAttempt, Claimed,
        ClaimOK, TypeOK, Job
  <2>6. SubmittedHasPull'
    BY <1>15
    DEF Create, Current, Recorded, Decide, Opened, EndAttempt,
        SubmittedHasPull, TypeOK, Job
  <2>7. Settled'
    BY <1>15
    DEF Create, Current, Recorded, Decide, Opened, EndAttempt, Settled,
        Decided, TypeOK, Job
  <2> QED
    BY <2>2, <2>3, <2>4, <2>5, <2>6, <2>7 DEF EngineInv
<1>16. CASE CreateFails(n)
  <2>1. mem' \in [Issues -> Job] /\ disk' \in [Issues -> Job]
    BY <1>16, JobTypes
    DEF CreateFails, Failed, Opened, Current, EndAttempt, TypeOK
  <2>2. TypeOK'
    BY <1>16, <2>1
    DEF CreateFails, Failed, Opened, Current, EndAttempt, TypeOK
  <2>3. Charged'
    BY <1>16
    DEF CreateFails, Failed, Opened, Current, EndAttempt, Charged, TypeOK, Job
  <2>4. Stages'
    BY <1>16
    DEF CreateFails, Failed, Opened, Current, EndAttempt, Stages, Stage,
        WorkStages, TypeOK, Job
  <2>5. Claimed'
    BY <1>16
    DEF CreateFails, Failed, Opened, Current, EndAttempt, Claimed, ClaimOK,
        TypeOK, Job
  <2>6. SubmittedHasPull'
    BY <1>16
    DEF CreateFails, Failed, Opened, Current, EndAttempt, SubmittedHasPull,
        TypeOK, Job
  <2>7. Settled'
    BY <1>16
    DEF CreateFails, Failed, Opened, Current, EndAttempt, Settled, Decided,
        TypeOK, Job
  <2> QED
    BY <2>2, <2>3, <2>4, <2>5, <2>6, <2>7 DEF EngineInv
<1> QED
  BY <1>1, <1>2, <1>3, <1>4, <1>5, <1>6, <1>7, <1>8, <1>9, <1>10, <1>11,
  <1>12, <1>13, <1>14, <1>15, <1>16 DEF Attempt

-----------------------------------------------------------------------------
(* Crashes, the operator and the rest of the world *)

\* The end of a process and the start of the next keep the invariant.
LEMMA RestartStep ==
  ASSUME EngineInv, Crash \/ Restart
  PROVE  EngineInv'
<1> USE DEF EngineInv
<1>1. mem' = disk /\ UNCHANGED <<disk, pr, comment, runs>>
  BY DEF Crash, Restart
<1>2. pc' \in {"down", "reconcile"}
  BY DEF Crash, Restart, Scan
<1>3. TypeOK'
  BY DEF Crash, Restart, Scan, TypeOK
<1>4. Charged' /\ Settled'
  BY <1>1 DEF Charged, Settled
<1>5. Stages'
  BY <1>2 DEF Stages, Stage, WorkStages
<1>6. Claimed' /\ SubmittedHasPull'
  BY <1>1 DEF Claimed, ClaimOK, SubmittedHasPull
<1> QED
  BY <1>3, <1>4, <1>5, <1>6

\* Retrying and requeueing jobs keep the invariant: the counted attempts and
\* the charged runs are reset together.
LEMMA CommandStep ==
  ASSUME EngineInv, Command
  PROVE  EngineInv'
<1> USE DEF EngineInv
<1>1. /\ pc = "down" /\ pc' = pc
      /\ UNCHANGED <<todo, after, open, linked, inflight, comment>>
      /\ UNCHANGED <<events, crashes>>
  BY DEF Command, Retry, Requeue
<1>2. Stages'
  BY <1>1 DEF Stages, Stage, WorkStages
<1>3. \A n \in Issues : /\ StartOver(disk[n]) \in Job
                        /\ Released(StartOver(disk[n])) \in Job
  BY StartOverType, JobTypes DEF TypeOK
<1>4. ASSUME NEW chosen \in SUBSET Issues, Retry(chosen)
      PROVE  EngineInv'
  <2> DEFINE hit == {n \in chosen : disk[n].status \in {"blocked", "pending"}}
  <2>1. /\ disk' = [n \in Issues |->
                      IF n \in hit THEN StartOver(disk[n]) ELSE disk[n]]
        /\ mem' = disk'
        /\ runs' = [n \in Issues |-> IF n \in hit THEN 0 ELSE runs[n]]
        /\ pr' = pr
    BY <1>4 DEF Retry
  <2>2. \A n \in Issues : LET j == StartOver(disk[n])
                         IN  /\ j.status = "pending" /\ j.tries = 0
                             /\ j.claim = disk[n].claim
                             /\ j.pending = disk[n].pending
    BY DEF StartOver, TypeOK, Job
  <2> HIDE DEF hit
  <2>3. mem' \in [Issues -> Job] /\ disk' \in [Issues -> Job]
    BY <1>3, <2>1 DEF TypeOK
  <2>4. TypeOK'
    BY <1>1, <2>1, <2>3 DEF TypeOK
  <2>5. Charged'
    BY <2>2, <2>1 DEF Charged
  <2>6. Claimed'
    BY <1>1, <2>2, <2>1 DEF Claimed, ClaimOK
  <2>7. SubmittedHasPull'
    BY <2>2, <2>1 DEF SubmittedHasPull
  <2>8. Settled'
    BY <2>1 DEF Settled
  <2> QED
    BY <1>2, <2>4, <2>5, <2>6, <2>7, <2>8
<1>5. ASSUME NEW n \in Issues, Requeue(n)
      PROVE  EngineInv'
  <2> DEFINE fresh == StartOver(disk[n])
             j == IF fresh.claim \in {"none", "released"} THEN fresh
                  ELSE Released(fresh)
  <2>1. /\ disk' = [disk EXCEPT ![n] = j]
        /\ mem' = disk'
        /\ runs' = [runs EXCEPT ![n] = 0]
        /\ pr' = [pr EXCEPT ![n] = "none"]
        /\ disk[n].claim # "working"
    BY <1>5 DEF Requeue
  <2>2. /\ j \in Job /\ j.status = "pending" /\ j.tries = 0
        /\ ClaimOK(disk[n], n) => ClaimOK(j, n)
    <3>1. disk[n] \in Job
      BY DEF TypeOK
    <3>2. /\ fresh \in Job /\ fresh.status = "pending" /\ fresh.tries = 0
          /\ fresh.claim = disk[n].claim /\ fresh.pending = disk[n].pending
      BY <1>3, <3>1 DEF StartOver, Job
    <3>3. CASE fresh.claim \in {"none", "released"}
      BY <3>2, <3>3 DEF ClaimOK
    <3>4. CASE fresh.claim \notin {"none", "released"}
      <4>1. j = Released(fresh) /\ j \in Job
        BY <1>3, <3>4
      <4>2. /\ j.status = fresh.status /\ j.tries = fresh.tries
            /\ j.claim = "released" /\ j.pending
        BY <3>2, <4>1 DEF Released, Job
      <4> QED
        BY <3>2, <4>1, <4>2 DEF ClaimOK
    <3> QED
      BY <3>3, <3>4
  <2> HIDE DEF fresh, j
  <2>3. mem' \in [Issues -> Job] /\ disk' \in [Issues -> Job]
    BY <2>1, <2>2 DEF TypeOK
  <2>4. TypeOK'
    BY <1>1, <2>1, <2>3 DEF TypeOK
  <2>5. Charged'
    BY <2>1, <2>2 DEF Charged, TypeOK
  <2>6. Claimed'
    BY <1>1, <2>1, <2>2 DEF Claimed, ClaimOK, TypeOK
  <2>7. SubmittedHasPull' /\ Settled'
    BY <2>1, <2>2 DEF SubmittedHasPull, Settled, TypeOK
  <2> QED
    BY <1>2, <2>4, <2>5, <2>6, <2>7
<1> QED
  BY <1>4, <1>5 DEF Command

\* Passing retry times, a late creation and other people's changes keep the
\* invariant: none of them takes a pull request away.
LEMMA WorldStep ==
  ASSUME EngineInv, NEW n \in Issues, Elapse(n) \/ LandCreate(n) \/ Event(n)
  PROVE  EngineInv'
<1> USE DEF EngineInv
<1>1. CASE Elapse(n)
  <2>1. /\ mem' = [mem EXCEPT ![n].waiting = FALSE]
        /\ disk' = [disk EXCEPT ![n].waiting = FALSE]
        /\ UNCHANGED <<pc, todo, after, pr, comment, runs>>
    BY <1>1 DEF Elapse
  <2>2. /\ [mem[n] EXCEPT !.waiting = FALSE] \in Job
        /\ [disk[n] EXCEPT !.waiting = FALSE] \in Job
    <3>1. \A j \in Job : [j EXCEPT !.waiting = FALSE] \in Job
      BY DEF Job
    <3> QED
      BY <3>1 DEF TypeOK
  <2>3. mem' \in [Issues -> Job] /\ disk' \in [Issues -> Job]
    BY <2>1, <2>2 DEF TypeOK
  <2>4. TypeOK'
    BY <1>1, <2>3 DEF Elapse, TypeOK
  <2>5. Charged'
    BY <2>1 DEF Charged, TypeOK, Job
  <2>6. Stages'
    BY <2>1 DEF Stages, Stage, Current, WorkStages, TypeOK, Job
  <2>7. Claimed'
    BY <2>1 DEF Claimed, ClaimOK, TypeOK, Job
  <2>8. SubmittedHasPull' /\ Settled'
    BY <2>1 DEF SubmittedHasPull, Settled, TypeOK, Job
  <2> QED
    BY <2>4, <2>5, <2>6, <2>7, <2>8
<1>2. CASE LandCreate(n) \/ Event(n)
  <2>1. UNCHANGED <<pc, todo, after, mem, disk, comment, runs>>
    BY <1>2 DEF LandCreate, Event
  <2>2. /\ pr' \in [Issues -> {"none", "open", "merged", "closed"}]
        /\ \A m \in Issues : pr[m] # "none" => pr'[m] # "none"
    BY <1>2 DEF LandCreate, Event, TypeOK
  <2>3. /\ open' \in [Issues -> BOOLEAN]
        /\ linked' \in [Issues -> BOOLEAN]
    BY <1>2 DEF LandCreate, Event, TypeOK
  <2>4. inflight' \in [Issues -> BOOLEAN]
    BY <1>2 DEF LandCreate, Event, TypeOK
  <2>5. events' \in 0..MaxEvents /\ crashes' = crashes
    BY <1>2 DEF LandCreate, Event, TypeOK
  <2>6. TypeOK'
    BY <2>1, <2>2, <2>3, <2>4, <2>5 DEF TypeOK
  <2>7. Charged' /\ Settled'
    BY <2>1 DEF Charged, Settled
  <2>8. Stages'
    BY <2>1 DEF Stages, Stage, Current
  <2>9. Claimed' /\ SubmittedHasPull'
    BY <2>1, <2>2 DEF Claimed, ClaimOK, SubmittedHasPull
  <2> QED
    BY <2>6, <2>7, <2>8, <2>9
<1> QED
  BY <1>1, <1>2

-----------------------------------------------------------------------------
(* Decisions *)

\* No step of the daemon changes a decision on disk.
Kept == \A m \in Issues : disk[m].status \in Decided
                          => disk'[m].status = disk[m].status

LEMMA DaemonKeeps ==
  ASSUME EngineInv, NEW n \in Issues,
         Reconcile(n) \/ Walk(n) \/ ClaimedAttempt(n) \/ Attempt(n)
  PROVE  Kept
<1> USE DEF EngineInv, Kept
<1>1. CASE ReconcileFails(n) \/ NothingToReconcile(n) \/ SkipJob(n) \/
           Proceed(n) \/ NoLongerEligible(n) \/ PrepareFails(n) \/
           AgentReady(n) \/ StillEligible(n) \/ ReadyToPublish(n) \/ Push(n)
           \/ NoPullYet(n) \/ ReadyToCreate(n)
  BY <1>1
  DEF ReconcileFails, StepFails, NothingToReconcile, SkipJob, Proceed,
      NoLongerEligible, PrepareFails, AgentReady, Pass, StillEligible,
      ReadyToPublish, Push, NoPullYet, ReadyToCreate
<1>2. CASE DeliverSaved(n)
  <2>1. CASE SyncDone(n)
    <3>1. /\ disk' = [mem EXCEPT ![n] = [mem[n] EXCEPT !.pending = FALSE]]
          /\ mem[n] \in Job
      BY <2>1 DEF SyncDone, TypeOK
    <3> QED
      BY <3>1 DEF Settled, TypeOK, Job
  <2>2. CASE SyncFailed(n)
    BY <2>2 DEF SyncFailed
  <2> QED
    BY <1>2, <2>1, <2>2 DEF DeliverSaved
<1>3. CASE ReconcilePull(n)
  BY <1>3
  DEF ReconcilePull, Complete, BranchPull, AtProbe, Unfinished, Deliver,
      Recorded, Current, Undelivered, Stages, Stage, WorkStages, Settled,
      Decided, TypeOK, Job
<1>4. CASE LookUpPull(n)
  BY <1>4
  DEF LookUpPull, Current, Complete, BranchPull, Ready, Deliver, Recorded,
      Stages, Stage, WorkStages, Settled, Decided, TypeOK, Job
<1>5. CASE NoPull(n)
  BY <1>5
  DEF NoPull, Current, BranchPull, Ready, Adopt, Stages, Stage, WorkStages,
      Settled, Decided, TypeOK, Job
<1>6. CASE LookUpFails(n)
  BY <1>6
  DEF LookUpFails, Current, Ready, Adopt, Stages, Stage, WorkStages, Settled,
      Decided, TypeOK, Job
<1>7. CASE SkipLinked(n)
  BY <1>7
  DEF SkipLinked, Current, Finished, Referenced, Stages, Stage, WorkStages,
      Settled, Decided, TypeOK, Job
<1>8. CASE BlockExhausted(n)
  <2>1. mem[n].status = "pending"
    BY <1>8 DEF BlockExhausted, Stages, Stage, WorkStages
  <2>2. \A m \in Issues : m # n => disk'[m] = mem[m]
    BY <1>8 DEF BlockExhausted, TypeOK
  <2> QED
    BY <2>1, <2>2 DEF Settled, Decided
<1>9. CASE Claim(n)
  BY <1>9
  DEF Claim, Current, SaveClaim, Stages, Stage, WorkStages, Settled, Decided,
      TypeOK, Job
<1>10. CASE AcquireFails(n)
  BY <1>10
  DEF AcquireFails, Current, MayBePosted, Stages, Stage, WorkStages, Settled,
      Decided, TypeOK, Job
<1>11. CASE AcquireLoses(n)
  BY <1>11
  DEF AcquireLoses, Current, Deliver, Released, MayBePosted, Stages, Stage,
      WorkStages, Settled, Decided, TypeOK, Job
<1>12. CASE Acquired(n)
  BY <1>12
  DEF Acquired, Current, Stages, Stage, WorkStages, Settled, Decided, TypeOK,
      Job
<1>13. CASE CloseClaim(n)
  BY <1>13
  DEF CloseClaim, Current, Released, Stages, Stage, WorkStages, Settled,
      Decided, TypeOK, Job
<1>14. CASE Sync(n)
  BY <1>14
  DEF Sync, Current, Scan, Finished, SyncDone, Shown, Stages, Stage,
      WorkStages, Settled, Decided, TypeOK, Job
<1>15. CASE SyncFails(n)
  BY <1>15
  DEF SyncFails, Current, SyncFailed, Shown, Stages, Stage, WorkStages,
      Settled, Decided, TypeOK, Job
<1>16. CASE StartAgent(n)
  BY <1>16
  DEF StartAgent, Current, Charge, Stages, Stage, WorkStages, Settled,
      Decided, TypeOK, Job
<1>17. CASE SetupError(n)
  BY <1>17
  DEF SetupError, Current, EndAttempt, Stages, Stage, WorkStages, Settled,
      Decided, TypeOK, Job
<1>18. CASE StageFails(n)
  BY <1>18
  DEF StageFails, Failed, Current, EndAttempt, Stages, Stage, WorkStages,
      Settled, Decided, TypeOK, Job
<1>19. CASE AgentBlocked(n)
  BY <1>19
  DEF AgentBlocked, Current, Decide, EndAttempt, Stages, Stage, WorkStages,
      Settled, Decided, TypeOK, Job
<1>20. CASE NotEligible(n)
  BY <1>20
  DEF NotEligible, Current, Decide, EndAttempt, Stages, Stage, WorkStages,
      Settled, Decided, TypeOK, Job
<1>21. CASE ExistingPull(n)
  BY <1>21
  DEF ExistingPull, Current, Referenced, Decide, EndAttempt, Stages, Stage,
      WorkStages, Settled, Decided, TypeOK, Job
<1>22. CASE FoundPull(n)
  BY <1>22
  DEF FoundPull, Current, Recorded, BranchPull, Decide, EndAttempt, Stages,
      Stage, WorkStages, Settled, Decided, TypeOK, Job
<1>23. CASE Create(n)
  BY <1>23
  DEF Create, Current, Recorded, Decide, Opened, EndAttempt, Stages, Stage,
      WorkStages, Settled, Decided, TypeOK, Job
<1>24. CASE CreateFails(n)
  BY <1>24
  DEF CreateFails, Failed, Opened, Current, EndAttempt, Stages, Stage,
      WorkStages, Settled, Decided, TypeOK, Job
<1> QED
  BY <1>1, <1>2, <1>3, <1>4, <1>5, <1>6, <1>7, <1>8, <1>9, <1>10, <1>11,
  <1>12, <1>13, <1>14, <1>15, <1>16, <1>17, <1>18, <1>19, <1>20, <1>21, <1>22,
  <1>23, <1>24 DEF Reconcile, Walk, ClaimedAttempt, Attempt

-----------------------------------------------------------------------------
(* The theorems *)

\* The initial state satisfies the invariant.
LEMMA InitInv == Init => EngineInv
<1> SUFFICES ASSUME Init PROVE EngineInv
  OBVIOUS
<1>1. NoJob \in Job
  <2>1. 0 \in 0..Attempts
    OBVIOUS
  <2> QED
    BY <2>1 DEF NoJob, Job
<1>2. TypeOK
  BY <1>1 DEF Init, TypeOK
<1>3. \A n \in Issues : mem[n] = NoJob /\ disk[n] = NoJob
  BY DEF Init
<1>4. Charged /\ SubmittedHasPull /\ Settled
  BY <1>3 DEF Init, NoJob, Charged, SubmittedHasPull, Settled
<1>5. Stages /\ Claimed
  BY <1>3 DEF Init, NoJob, Stages, Current, Claimed, ClaimOK
<1> QED
  BY <1>2, <1>4, <1>5 DEF EngineInv

\* Every step keeps the invariant.
LEMMA NextInv == EngineInv /\ [Next]_vars => EngineInv'
<1> SUFFICES ASSUME EngineInv, [Next]_vars PROVE EngineInv'
  OBVIOUS
<1>1. CASE Next
  BY <1>1, LoopStep, ReconcileStep, WalkStep, ClaimStep, AttemptStep,
     RestartStep, CommandStep, WorldStep
  DEF Next, Daemon
<1>2. CASE UNCHANGED vars
  <2>1. UNCHANGED <<mem, disk, pr, comment, runs>>
    BY <1>2 DEF vars
  <2>2. TypeOK'
    BY <1>2 DEF vars, EngineInv, TypeOK
  <2>3. Stages'
    BY <1>2 DEF vars, EngineInv, Stages, Stage, Current
  <2> QED
    BY <2>1, <2>2, <2>3, Frame
<1> QED
  BY <1>1, <1>2

\* The jobs, the charged runs, the position of the daemon and the comments fit
\* together in every reachable state.
THEOREM EngineInvariant == Spec => []EngineInv
  BY InitInv, NextInv, PTL DEF Spec

\* Every variable keeps its type.
THEOREM TypeCorrect == Spec => []TypeOK
<1>1. EngineInv => TypeOK
  BY DEF EngineInv
<1> QED
  BY EngineInvariant, <1>1, PTL

\* No issue gets more agent runs than its budget allows, whatever number of
\* crashes, failures and events comes in between.
THEOREM BudgetHolds == Spec => []RunsWithinBudget
<1>1. EngineInv => RunsWithinBudget
  BY DEF EngineInv, TypeOK, Charged, RunsWithinBudget, Job
<1> QED
  BY EngineInvariant, <1>1, PTL

\* The record of a submitted job never runs ahead of GitHub.
THEOREM SubmittedIsOnGitHub == Spec => []SubmittedHasPull
<1>1. EngineInv => SubmittedHasPull
  BY DEF EngineInv
<1> QED
  BY EngineInvariant, <1>1, PTL

\* A comment that claims the issue is one the saved state knows about.
THEOREM ClaimsAreKnown == Spec => []LiveCommentIsKnown
<1>1. EngineInv => LiveCommentIsKnown
  BY DEF EngineInv, Claimed, ClaimOK, LiveCommentIsKnown
<1> QED
  BY EngineInvariant, <1>1, PTL

\* A decision on disk stays until the operator resets it while the daemon is
\* down.
THEOREM DecisionsStand == Spec => DecisionStands
<1>1. EngineInv /\ [Next]_vars => (pc = "down" \/ Kept)
  <2> SUFFICES ASSUME EngineInv, [Next]_vars, pc # "down" PROVE Kept
    OBVIOUS
  <2>1. CASE Loop \/ Crash \/ UNCHANGED vars
    BY <2>1 DEF Loop, StartScan, EndReconcile, Fetch, ReadFails, StepFails,
                EndWalk, Crash, vars, Kept
  <2>2. ASSUME NEW n \in Issues, Elapse(n) \/ LandCreate(n) \/ Event(n)
        PROVE  Kept
    <3>1. CASE LandCreate(n) \/ Event(n)
      BY <3>1 DEF LandCreate, Event, Kept
    <3>2. CASE Elapse(n)
      <4>1. disk' = [disk EXCEPT ![n].waiting = FALSE]
        BY <3>2 DEF Elapse
      <4> QED
        BY <4>1 DEF Kept, EngineInv, TypeOK, Job
    <3> QED
      BY <2>2, <3>1, <3>2
  <2>3. ~Restart /\ ~Command
    BY DEF Restart, Command, Retry, Requeue
  <2> QED
    BY <2>1, <2>2, <2>3, DaemonKeeps DEF Next, Daemon
<1>2. EngineInv /\ [Next]_vars =>
        [\A n \in Issues :
           /\ disk[n].status \in {"submitted", "has_pr", "skipped", "blocked"}
           /\ disk'[n].status # disk[n].status
           => pc = "down"]_vars
  BY <1>1 DEF Kept, Decided
<1> QED
  BY EngineInvariant, <1>2, PTL DEF Spec, DecisionStands

-----------------------------------------------------------------------------
(* Announcements: a submitted job keeps a claim that is not done only when    *)
(* the daemon dies between the decision and the end of the claim.             *)

\* A submitted job's claim is done, or is about to be closed.
Told(j, n) ==
  j.status = "submitted" => j.claim = "done" \/ (pc = "close" /\ Current(n))

AllTold == \A n \in Issues : Told(mem[n], n) /\ Told(disk[n], n)

ToldInv == EngineInv /\ AllTold

\* The job of one issue is replaced, and perhaps saved, by one that is told.
LEMMA ReplacedTold ==
  ASSUME ToldInv, NEW n \in Issues, NEW j,
         mem' = [mem EXCEPT ![n] = j], disk' \in {disk, mem'},
         j.status = "submitted" => j.claim = "done" \/ (pc' = "close" /\ Current(n)'),
         pc = "close" => Current(n) /\ disk' = mem'
  PROVE  AllTold'
<1>1. mem \in [Issues -> Job]
  BY DEF ToldInv, EngineInv, TypeOK
<1>2. mem'[n] = j /\ \A m \in Issues : m # n => mem'[m] = mem[m]
  BY <1>1
<1>3. ASSUME NEW m \in Issues, m # n, pc = "close" PROVE ~Current(m)
  BY <1>3 DEF Current, ToldInv, EngineInv, TypeOK
<1>4. \A m \in Issues : m # n => /\ mem[m].status = "submitted" => mem[m].claim = "done"
                                 /\ disk[m].status = "submitted" => disk[m].claim = "done"
  BY <1>3 DEF ToldInv, AllTold, Told
<1>5. Told(mem[n], n)' /\ (disk' = mem' => Told(disk[n], n)')
  BY <1>2 DEF Told
<1>6. disk' = disk => Told(disk[n], n)'
  <2>1. CASE pc = "close"
    BY <2>1, <1>5
  <2>2. CASE pc # "close"
    BY <2>2 DEF ToldInv, AllTold, Told
  <2> QED
    BY <2>1, <2>2
<1>7. ASSUME NEW m \in Issues, m # n PROVE Told(mem[m], m)' /\ Told(disk[m], m)'
  BY <1>2, <1>4, <1>7 DEF Told
<1> QED
  BY <1>5, <1>6, <1>7 DEF AllTold

\* Steps that keep the jobs, or take back what was saved, tell nothing new.
LEMMA KeptTold ==
  ASSUME ToldInv, pc # "close", disk' \in {disk, mem}, mem' \in {mem, disk}
  PROVE  AllTold'
  BY DEF ToldInv, AllTold, Told

\* A step of the daemon decides only on its way to the end of the claim.
LEMMA DaemonTold ==
  ASSUME ToldInv, NEW n \in Issues,
         Reconcile(n) \/ Walk(n) \/ ClaimedAttempt(n) \/ Attempt(n)
  PROVE  AllTold'
<1>1. /\ mem[n] \in Job
      /\ pc \in WorkStages /\ Current(n) => mem[n].status = "pending"
      /\ pc # "close" => (mem[n].status = "submitted" => mem[n].claim = "done")
  BY DEF ToldInv, EngineInv, TypeOK, Stages, Stage, AllTold, Told
<1>2. CASE ReconcileFails(n) \/ NothingToReconcile(n) \/ SkipJob(n) \/
           Proceed(n) \/ NoLongerEligible(n) \/ PrepareFails(n) \/
           AgentReady(n) \/ StillEligible(n) \/ ReadyToPublish(n) \/ Push(n)
           \/ NoPullYet(n) \/ ReadyToCreate(n)
  BY <1>2, KeptTold
  DEF ReconcileFails, StepFails, AtProbe, NothingToReconcile, SkipJob, Proceed,
      NoLongerEligible, PrepareFails, AgentReady, Pass, StillEligible,
      ReadyToPublish, Push, NoPullYet, ReadyToCreate
<1>3. CASE DeliverSaved(n) \/ Sync(n) \/ SyncFails(n)
  <2>1. pc # "close"
    BY <1>3 DEF DeliverSaved, Sync, SyncFails
  <2>2. CASE SyncDone(n)
    <3> DEFINE j == [mem[n] EXCEPT !.pending = FALSE]
    <3>1. j.status = mem[n].status /\ j.claim = mem[n].claim
      BY <1>1 DEF Job
    <3>2. mem' = [mem EXCEPT ![n] = j] /\ disk' = mem'
      BY <2>2 DEF SyncDone
    <3> HIDE DEF j
    <3> QED
      BY <1>1, <2>1, <3>1, <3>2, ReplacedTold
  <2>3. CASE SyncFailed(n)
    BY <2>1, <2>3, KeptTold DEF SyncFailed
  <2> QED
    BY <1>3, <2>2, <2>3 DEF DeliverSaved, Sync, SyncFails
<1>4. CASE ReconcilePull(n) \/ LookUpPull(n)
  <2> DEFINE j == [Recorded(mem[n], pr[n]) EXCEPT !.claim = "done", !.pending = TRUE]
  <2>1. pc # "close"
    BY <1>4 DEF ReconcilePull, AtProbe, LookUpPull
  <2>2. mem' = [mem EXCEPT ![n] = j] /\ disk' = mem'
    BY <1>4 DEF ReconcilePull, LookUpPull, Complete
  <2>3. j.claim = "done"
    BY <1>1 DEF Recorded, Job
  <2> HIDE DEF j
  <2> QED
    BY <2>1, <2>2, <2>3, ReplacedTold
<1>5. CASE NoPull(n) \/ LookUpFails(n) \/ SkipLinked(n)
  <2>1. PICK s \in {"pending", "has_pr"} :
          mem' = [mem EXCEPT ![n] = [mem[n] EXCEPT !.status = s]]
    BY <1>5 DEF NoPull, LookUpFails, SkipLinked, Adopt
  <2> DEFINE j == [mem[n] EXCEPT !.status = s]
  <2>2. pc # "close" /\ disk' \in {disk, mem'}
    BY <1>5 DEF NoPull, LookUpFails, SkipLinked
  <2>3. j.status # "submitted"
    BY <1>1 DEF Job
  <2> HIDE DEF j
  <2> QED
    BY <2>1, <2>2, <2>3, ReplacedTold DEF j
<1>6. CASE BlockExhausted(n)
  <2> DEFINE j == [mem[n] EXCEPT !.status = "blocked"]
  <2>1. PICK k \in {j, Released(j)} : mem' = [mem EXCEPT ![n] = k]
    BY <1>6 DEF BlockExhausted
  <2>2. k.status = "blocked"
    BY <1>1, <2>1 DEF Job, Released
  <2>3. pc # "close" /\ disk' = mem'
    BY <1>6 DEF BlockExhausted
  <2> QED
    BY <2>1, <2>2, <2>3, ReplacedTold
<1>7. CASE Claim(n)
  <2> DEFINE j == [mem[n] EXCEPT !.claim = "working"]
  <2>1. mem' = [mem EXCEPT ![n] = j] /\ disk' = mem' /\ pc # "close"
    BY <1>7 DEF Claim, SaveClaim
  <2>2. j.status = "pending"
    BY <1>1, <1>7 DEF Claim, WorkStages, Job
  <2> HIDE DEF j
  <2> QED
    BY <2>1, <2>2, ReplacedTold
<1>8. CASE AcquireFails(n) \/ Acquired(n)
  BY <1>8, KeptTold DEF AcquireFails, Acquired
<1>9. CASE AcquireLoses(n)
  <2> DEFINE j == [Released(mem[n]) EXCEPT !.waiting = TRUE]
  <2>1. mem' = [mem EXCEPT ![n] = j] /\ disk' = mem' /\ pc # "close"
    BY <1>9 DEF AcquireLoses
  <2>2. j.status = "pending"
    BY <1>1, <1>9 DEF AcquireLoses, WorkStages, Released, Job
  <2> HIDE DEF j
  <2> QED
    BY <2>1, <2>2, ReplacedTold
<1>10. CASE CloseClaim(n)
  <2> DEFINE j == IF mem[n].status = "submitted"
                  THEN [mem[n] EXCEPT !.claim = "done", !.pending = TRUE]
                  ELSE Released(mem[n])
  <2>1. mem' = [mem EXCEPT ![n] = j] /\ disk' = mem' /\ Current(n)
    BY <1>10 DEF CloseClaim
  <2>2. j.status = "submitted" => j.claim = "done"
    BY <1>1 DEF Released, Job
  <2> HIDE DEF j
  <2> QED
    BY <2>1, <2>2, ReplacedTold
<1>11. CASE StartAgent(n) \/ SetupError(n) \/ StageFails(n) \/ CreateFails(n)
  <2>1. PICK j : /\ mem' = [mem EXCEPT ![n] = j] /\ disk' = mem'
                 /\ j.status = mem[n].status
    <3> DEFINE charged  == [mem[n] EXCEPT !.tries = @ + 1, !.waiting = TRUE]
               refunded == [mem[n] EXCEPT !.tries = @ - 1, !.waiting = FALSE]
               failed   == [mem[n] EXCEPT !.waiting = TRUE]
    <3>1. \A j \in {charged, refunded, failed} : j.status = mem[n].status
      BY <1>1 DEF Job
    <3>2. \E j \in {charged, refunded, failed} :
            mem' = [mem EXCEPT ![n] = j] /\ disk' = mem'
      BY <1>11
      DEF StartAgent, Charge, SetupError, StageFails, CreateFails, Failed
    <3> HIDE DEF charged, refunded, failed
    <3> QED
      BY <3>1, <3>2
  <2>2. pc # "close" /\ mem[n].status = "pending"
    BY <1>1, <1>11
    DEF StartAgent, SetupError, StageFails, CreateFails, Failed, WorkStages
  <2> QED
    BY <2>1, <2>2, ReplacedTold
<1>12. CASE AgentBlocked(n) \/ NotEligible(n) \/ ExistingPull(n) \/ FoundPull(n)
            \/ Create(n)
  <2>1. PICK j : Decide(n, j)
    BY <1>12 DEF AgentBlocked, NotEligible, ExistingPull, FoundPull, Create
  <2>2. pc # "close" /\ Current(n)
    BY <1>12 DEF AgentBlocked, NotEligible, ExistingPull, FoundPull, Create
  <2>3. /\ mem' = [mem EXCEPT ![n] = j] /\ disk' = mem'
        /\ pc' = "close" /\ Current(n)'
    BY <2>1, <2>2 DEF Decide, EndAttempt, Current
  <2> QED
    BY <2>2, <2>3, ReplacedTold
<1> QED
  BY <1>2, <1>3, <1>4, <1>5, <1>6, <1>7, <1>8, <1>9, <1>10, <1>11, <1>12
  DEF Reconcile, Walk, ClaimedAttempt, Attempt

\* The operator starts only undecided jobs over, and nobody else decides one.
LEMMA CommandTold ==
  ASSUME ToldInv, Command
  PROVE  AllTold'
<1>1. /\ disk \in [Issues -> Job] /\ pc = "down"
      /\ \A n \in Issues : disk[n].status = "submitted" => disk[n].claim = "done"
  BY DEF ToldInv, EngineInv, TypeOK, Command, Retry, Requeue, AllTold, Told
<1>2. \A j \in Job : /\ StartOver(j).status = "pending"
                     /\ Released(StartOver(j)).status = "pending"
  BY DEF StartOver, Released, Job
<1>3. /\ mem' = disk'
      /\ \A n \in Issues : disk'[n] = disk[n] \/ disk'[n].status = "pending"
  <2>1. ASSUME NEW chosen, Retry(chosen)
        PROVE  /\ mem' = disk'
               /\ \A n \in Issues : disk'[n] = disk[n] \/ disk'[n].status = "pending"
    BY <1>1, <1>2, <2>1 DEF Retry
  <2>2. ASSUME NEW n \in Issues, Requeue(n)
        PROVE  /\ mem' = disk'
               /\ \A m \in Issues : disk'[m] = disk[m] \/ disk'[m].status = "pending"
    BY <1>1, <1>2, <2>2 DEF Requeue
  <2> QED
    BY <2>1, <2>2 DEF Command
<1> QED
  BY <1>1, <1>3 DEF AllTold, Told

\* Retry times and other people change neither a decision nor a claim.
LEMMA WorldTold ==
  ASSUME ToldInv, NEW n \in Issues, Elapse(n) \/ LandCreate(n) \/ Event(n)
  PROVE  AllTold'
<1>1. UNCHANGED <<pc, todo>>
  BY DEF Elapse, LandCreate, Event
<1>2. \A m \in Issues : /\ mem'[m].status = mem[m].status
                        /\ mem'[m].claim = mem[m].claim
                        /\ disk'[m].status = disk[m].status
                        /\ disk'[m].claim = disk[m].claim
  <2>1. CASE Elapse(n)
    <3>1. /\ mem' = [mem EXCEPT ![n].waiting = FALSE]
          /\ disk' = [disk EXCEPT ![n].waiting = FALSE]
      BY <2>1 DEF Elapse
    <3> QED
      BY <3>1 DEF ToldInv, EngineInv, TypeOK, Job
  <2>2. CASE LandCreate(n) \/ Event(n)
    BY <2>2 DEF LandCreate, Event
  <2> QED
    BY <2>1, <2>2
<1> QED
  BY <1>1, <1>2 DEF ToldInv, AllTold, Told, Current

\* Only a crash counts as one.
LEMMA CrashesCount == Next => Crash \/ crashes' = crashes
<1> SUFFICES ASSUME Next, ~Crash PROVE crashes' = crashes
  OBVIOUS
<1>1. CASE Loop \/ Restart \/ Command
  BY <1>1
  DEF Loop, StartScan, EndReconcile, Fetch, ReadFails, StepFails, EndWalk,
      Restart, Command, Retry, Requeue
<1>2. ASSUME NEW n \in Issues, Reconcile(n) \/ Walk(n)
      PROVE  crashes' = crashes
  BY <1>2
  DEF Reconcile, DeliverSaved, ReconcileFails, StepFails, ReconcilePull,
      Complete, NothingToReconcile, Walk, SkipJob, LookUpPull, NoPull,
      LookUpFails, SkipLinked, BlockExhausted, Proceed, NoLongerEligible
<1>3. ASSUME NEW n \in Issues, ClaimedAttempt(n)
      PROVE  crashes' = crashes
  BY <1>3
  DEF ClaimedAttempt, Claim, AcquireFails, AcquireLoses, Acquired, CloseClaim,
      Sync, SyncFails
<1>4. ASSUME NEW n \in Issues, Attempt(n)
      PROVE  crashes' = crashes
  BY <1>4
  DEF Attempt, PrepareFails, StartAgent, SetupError, StageFails, Failed,
      AgentBlocked, Decide, AgentReady, Pass, StillEligible, NotEligible,
      ExistingPull, ReadyToPublish, Push, FoundPull, NoPullYet, ReadyToCreate,
      Create, CreateFails
<1>5. ASSUME NEW n \in Issues, Elapse(n) \/ LandCreate(n) \/ Event(n)
      PROVE  crashes' = crashes
  BY <1>5 DEF Elapse, LandCreate, Event
<1> QED
  BY <1>1, <1>2, <1>3, <1>4, <1>5 DEF Next, Daemon

\* Until the daemon is killed for the first time, every submitted job has a
\* claim that is done, its update shown or remembered, once the scan is idle:
\* of all that can fail, only a crash between the decision and the end of the
\* claim leaves a submitted issue with a claim that nobody finishes.
THEOREM AnnouncedUntilKilled == Spec => [](crashes = 0 => SubmittedIsAnnounced)
<1> DEFINE I == EngineInv /\ (crashes = 0 => AllTold)
<1>1. Init => I
  <2>1. Init => AllTold
    BY DEF Init, NoJob, AllTold, Told
  <2> QED
    BY <2>1, InitInv
<1>2. I /\ [Next]_vars => I'
  <2> SUFFICES ASSUME I, [Next]_vars, crashes' = 0 PROVE AllTold'
    BY NextInv
  <2>1. ~Crash
    BY DEF Crash, EngineInv, TypeOK
  <2>2. crashes = 0
    BY <2>1, CrashesCount DEF vars
  <2>3. ToldInv
    BY <2>2 DEF ToldInv
  <2>4. CASE Loop \/ Restart
    <3>1. pc # "close" /\ disk' = disk /\ mem' \in {mem, disk}
      BY <2>4
      DEF Loop, StartScan, EndReconcile, Fetch, ReadFails, StepFails, EndWalk,
          Restart
    <3> QED
      BY <2>3, <3>1, KeptTold
  <2>5. CASE UNCHANGED vars
    <3>1. UNCHANGED <<pc, todo, mem, disk>>
      BY <2>5 DEF vars
    <3> QED
      BY <2>3, <3>1 DEF ToldInv, AllTold, Told, Current
  <2> QED
    BY <2>1, <2>3, <2>4, <2>5, DaemonTold, CommandTold, WorldTold DEF Next, Daemon
<1>3. I => (crashes = 0 => SubmittedIsAnnounced)
  BY DEF AllTold, Told, SubmittedIsAnnounced
<1> QED
  BY <1>1, <1>2, <1>3, PTL DEF Spec
=============================================================================
