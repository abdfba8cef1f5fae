------------------------------- MODULE Engine -------------------------------
(***************************************************************************)
(* One issue-bot daemon: the scan of run.go (step, complete, releaseClaim, *)
(* claimedAttempt, attempt, failed), its jobs in memory and in state.json, *)
(* crashes and restarts, the operator's Retry and Requeue of state.go, and *)
(* the issues and pull requests of GitHub that other people change too.    *)
(*                                                                         *)
(* Every GitHub call is a step of its own and may fail.  Election and      *)
(* renewal are the module Claims: here acquire succeeds, loses or fails,   *)
(* and a lost lease is one of the ways in which an attempt fails.  A job's *)
(* claim is the status of its current token, comment[n] the status shown   *)
(* by that token's comment.                                                *)
(***************************************************************************)
EXTENDS Naturals, FiniteSets

CONSTANTS
  NumIssues,   \* issues are numbered 1..NumIssues and walked in that order
  Attempts,    \* config.Attempts
  LateCreate,  \* TRUE: a timed-out PR creation may be executed later
  Operator,    \* TRUE: the operator runs retry and requeue
  MaxEvents,   \* bound: changes made on GitHub by other people
  MaxCrashes   \* bound: crashes of the daemon

ASSUME EngineAssumption ==
  /\ NumIssues \in Nat \ {0}
  /\ Attempts \in Nat \ {0}
  /\ LateCreate \in BOOLEAN
  /\ Operator \in BOOLEAN
  /\ MaxEvents \in Nat
  /\ MaxCrashes \in Nat

VARIABLES
  pc,        \* where the daemon stands
  todo,      \* the issues its current loop has not finished with
  after,     \* what follows the status update in progress
  mem,       \* the jobs in memory
  disk,      \* the jobs in state.json
  open,      \* the issue is open and eligible
  linked,    \* a pull request of somebody else references the issue
  pr,        \* the pull request on the issue's branch
  inflight,  \* a creation that timed out may still be executed
  comment,   \* what the comment of the job's claim token shows
  runs,      \* history: agent runs charged since the budget was last reset
  events,    \* changes made by other people so far
  crashes    \* crashes so far

github == <<open, linked, pr, inflight, comment>>
vars   == <<pc, todo, after, mem, disk, github, runs, events, crashes>>

Issues == 1..NumIssues

Job == [status  : {"none", "pending", "submitted", "has_pr", "blocked", "skipped"},
        tries   : 0..Attempts,
        waiting : BOOLEAN,     \* RetryAt is in the future
        claim   : {"none", "working", "released", "done"},
        pending : BOOLEAN]     \* ClaimPending

NoJob == [status |-> "none", tries |-> 0, waiting |-> FALSE,
          claim |-> "none", pending |-> FALSE]

Init ==
  /\ pc = "down"
  /\ todo = {}
  /\ after = "walk"
  /\ mem = [n \in Issues |-> NoJob]
  /\ disk = [n \in Issues |-> NoJob]
  /\ open = [n \in Issues |-> TRUE]
  /\ linked = [n \in Issues |-> FALSE]
  /\ pr = [n \in Issues |-> "none"]
  /\ inflight = [n \in Issues |-> FALSE]
  /\ comment = [n \in Issues |-> "none"]
  /\ runs = [n \in Issues |-> 0]
  /\ events = 0
  /\ crashes = 0

-----------------------------------------------------------------------------
(* Building blocks *)

\* The issue being handled: both loops go by ascending number.
Current(n) == n \in todo /\ \A m \in todo : n <= m

Goto(p) == pc' = p
Put(n, j) == mem' = [mem EXCEPT ![n] = j]
Save == disk' = mem'          \* writeState writes all jobs
Quiet == UNCHANGED <<events, crashes>>
World == UNCHANGED <<open, linked, pr, inflight>>

\* step returned an error: it is logged and the next scan starts after a pause.
StepFails ==
  /\ Goto("paused")
  /\ UNCHANGED <<todo, after, mem, disk, github, runs>> /\ Quiet

\* step begins by walking the saved jobs.
Scan(jobs) ==
  /\ Goto("reconcile")
  /\ todo' = {n \in Issues : jobs[n].status # "none"}

Finished(n) == todo' = todo \ {n}

\* The claim's comment is about to be brought to the job's final claim state.
Deliver(next) == Goto("sync") /\ after' = next

\* recordPull: a PR closed without merging blocks the job for inspection.
Recorded(j, p) ==
  [j EXCEPT !.status = IF p = "closed" THEN "blocked" ELSE "submitted",
            !.waiting = FALSE]

\* Mutant of Released: the update is not remembered for a retry.
ReleasedNow(j) == [j EXCEPT !.claim = "released"]

\* A claim that ended without a pull request.
Released(j) == [j EXCEPT !.claim = "released", !.pending = TRUE]

\* complete: a saved job has a pull request; its claim becomes done.
Complete(n, next) ==
  /\ Put(n, [Recorded(mem[n], pr[n]) EXCEPT !.claim = "done", !.pending = TRUE])
  /\ Save
  /\ Deliver(next)
  /\ UNCHANGED <<todo, github, runs>> /\ Quiet

\* What sync writes: a released claim without a comment needs none.
Shown(n) ==
  IF mem[n].claim = "released" /\ comment[n] = "none" THEN "none" ELSE mem[n].claim

\* sync succeeded: the comment shows the final state and the job says so.
SyncDone(n) ==
  /\ comment' = [comment EXCEPT ![n] = Shown(n)]
  /\ Put(n, [mem[n] EXCEPT !.pending = FALSE])
  /\ Save

\* sync failed, possibly after the update was applied.
SyncFailed(n) ==
  /\ comment' \in {comment, [comment EXCEPT ![n] = Shown(n)]}
  /\ UNCHANGED <<mem, disk>>

\* Mutant of BranchPull: merged and closed pull requests are not asked for.
BranchPullOpen(n) == pr[n] = "open"

\* pull: the issue's branch has a pull request, in whatever state.
BranchPull(n) == pr[n] # "none"

-----------------------------------------------------------------------------
(* The first loop: deliver saved updates, reconcile unfinished jobs *)

StartScan ==
  /\ pc \in {"idle", "paused"}
  /\ Scan(mem)
  /\ UNCHANGED <<after, mem, disk, github, runs>> /\ Quiet

\* Mutant of Undelivered: only decided jobs are looked at.
UndeliveredDecided(n) == mem[n].pending /\ mem[n].status # "pending"

\* A saved claim state that its comment may not show yet.
Undelivered(n) == mem[n].pending

\* A failed update is logged; the loop goes on to reconcile the job.
DeliverSaved(n) ==
  /\ pc = "reconcile"
  /\ Current(n)
  /\ Undelivered(n)
  /\ SyncDone(n) \/ SyncFailed(n)
  /\ Goto("probe")
  /\ World
  /\ UNCHANGED <<todo, after, runs>> /\ Quiet

AtProbe(n) ==
  /\ Current(n)
  /\ \/ pc = "probe"
     \/ pc = "reconcile" /\ ~Undelivered(n)

\* Mutant of Unfinished: a job at the attempt limit is left alone.
UnfinishedBelowLimit(n) ==
  mem[n].status = "pending" /\ mem[n].tries \in 1..(Attempts - 1)

\* A pending job that has been worked on.
Unfinished(n) == mem[n].status = "pending" /\ mem[n].tries > 0

ReconcileFails(n) ==
  /\ AtProbe(n)
  /\ Unfinished(n)
  /\ StepFails

ReconcilePull(n) ==
  /\ AtProbe(n)
  /\ Unfinished(n)
  /\ BranchPull(n)
  /\ Complete(n, "reconcile")

NothingToReconcile(n) ==
  /\ AtProbe(n)
  /\ ~(Unfinished(n) /\ BranchPull(n))
  /\ Finished(n)
  /\ Goto("reconcile")
  /\ UNCHANGED <<after, mem, disk, github, runs>> /\ Quiet

EndReconcile ==
  /\ pc = "reconcile"
  /\ todo = {}
  /\ Goto("fetch")
  /\ UNCHANGED <<todo, after, mem, disk, github, runs>> /\ Quiet

-----------------------------------------------------------------------------
(* The second loop: walk the eligible issues *)

Fetch ==
  /\ pc = "fetch"
  /\ todo' = {n \in Issues : open[n]}
  /\ Goto("walk")
  /\ UNCHANGED <<after, mem, disk, github, runs>> /\ Quiet

\* Mutant of Ready: decided jobs are worked on again.
ReadyDecided(n) == ~mem[n].pending /\ ~mem[n].waiting

\* Mutant of Ready: a job without budget is not even looked at.
ReadyBelowLimit(n) ==
  /\ mem[n].status \in {"none", "pending"}
  /\ ~mem[n].pending
  /\ ~mem[n].waiting
  /\ mem[n].tries < Attempts

\* The job guard of the walk: undecided, nothing to deliver, retry time passed.
Ready(n) ==
  /\ mem[n].status \in {"none", "pending"}
  /\ ~mem[n].pending
  /\ ~mem[n].waiting

\* A listed issue gets a job in memory before its branch is looked up.
Adopt(n) == Put(n, [mem[n] EXCEPT !.status = "pending"])

SkipJob(n) ==
  /\ pc = "walk"
  /\ Current(n)
  /\ ~Ready(n)
  /\ Finished(n)
  /\ UNCHANGED <<pc, after, mem, disk, github, runs>> /\ Quiet

LookUpPull(n) ==
  /\ pc = "walk"
  /\ Current(n)
  /\ Ready(n)
  /\ BranchPull(n)
  /\ Complete(n, "walk")

NoPull(n) ==
  /\ pc = "walk"
  /\ Current(n)
  /\ Ready(n)
  /\ ~BranchPull(n)
  /\ Adopt(n)
  /\ Goto("linked")
  /\ UNCHANGED <<todo, after, disk, github, runs>> /\ Quiet

LookUpFails(n) ==
  /\ pc = "walk"
  /\ Current(n)
  /\ Ready(n)
  /\ Adopt(n)
  /\ Goto("paused")
  /\ UNCHANGED <<todo, after, disk, github, runs>> /\ Quiet

\* linkedPull lists every pull request that references the issue; the bot's
\* own says Fixes #N and is one of them.
Referenced(n) == linked[n] \/ pr[n] # "none"

SkipLinked(n) ==
  /\ pc = "linked"
  /\ Current(n)
  /\ Referenced(n)
  /\ Put(n, [mem[n] EXCEPT !.status = "has_pr"])
  /\ Save
  /\ Finished(n)
  /\ Goto("walk")
  /\ UNCHANGED <<after, github, runs>> /\ Quiet

Exhausted(n) == mem[n].tries >= Attempts

\* Attempt budget exhausted: the job is blocked and its claim, if any, released.
BlockExhausted(n) ==
  /\ pc = "linked"
  /\ Current(n)
  /\ ~Referenced(n)
  /\ Exhausted(n)
  /\ LET j == [mem[n] EXCEPT !.status = "blocked"] IN
       \/ /\ mem[n].claim = "none"
          /\ Put(n, j)
          /\ Finished(n)
          /\ Goto("walk")
          /\ UNCHANGED after
       \/ /\ mem[n].claim # "none"
          /\ Put(n, Released(j))
          /\ Deliver("walk")
          /\ UNCHANGED todo
  /\ Save
  /\ UNCHANGED <<github, runs>> /\ Quiet

Proceed(n) ==
  /\ pc = "linked"
  /\ Current(n)
  /\ ~Referenced(n)
  /\ ~Exhausted(n)
  /\ Goto("refetch")
  /\ UNCHANGED <<todo, after, mem, disk, github, runs>> /\ Quiet

NoLongerEligible(n) ==
  /\ pc = "refetch"
  /\ Current(n)
  /\ ~open[n]
  /\ Finished(n)
  /\ Goto("walk")
  /\ UNCHANGED <<after, mem, disk, github, runs>> /\ Quiet

\* The listing, the branch lookup, the linked-PR query or the refetch failed.
ReadFails ==
  /\ pc \in {"fetch", "linked", "refetch"}
  /\ StepFails

EndWalk ==
  /\ pc = "walk"
  /\ todo = {}
  /\ Goto("idle")
  /\ UNCHANGED <<todo, after, mem, disk, github, runs>> /\ Quiet

-----------------------------------------------------------------------------
(* claimedAttempt: claim, attempt, final state of the claim *)

\* Mutant of SaveClaim: the claim reaches the disk only when it is acquired.
SaveClaimLater == UNCHANGED disk

\* The claim is on disk before any comment carries it.
SaveClaim == Save

\* A working claim is resumed or, when it has expired, replaced like a finished
\* one by a fresh token that no comment carries.
Claim(n) ==
  /\ pc = "refetch"
  /\ Current(n)
  /\ open[n]
  /\ Put(n, [mem[n] EXCEPT !.claim = "working"])
  /\ SaveClaim
  /\ \/ mem[n].claim = "working" /\ UNCHANGED comment
     \/ comment' = [comment EXCEPT ![n] = "none"]
  /\ Goto("acquire")
  /\ World
  /\ UNCHANGED <<todo, after, runs>> /\ Quiet

\* acquire may have posted the starting comment before it fails or loses.
MayBePosted(n) == comment' \in {comment, [comment EXCEPT ![n] = "working"]}

AcquireFails(n) ==
  /\ pc = "acquire"
  /\ Current(n)
  /\ MayBePosted(n)
  /\ Goto("paused")
  /\ World
  /\ UNCHANGED <<todo, after, mem, disk, runs>> /\ Quiet

AcquireLoses(n) ==
  /\ pc = "acquire"
  /\ Current(n)
  /\ MayBePosted(n)
  /\ Put(n, [Released(mem[n]) EXCEPT !.waiting = TRUE])
  /\ Save
  /\ Deliver("walk")
  /\ World
  /\ UNCHANGED <<todo, runs>> /\ Quiet

Acquired(n) ==
  /\ pc = "acquire"
  /\ Current(n)
  /\ comment' = [comment EXCEPT ![n] = "working"]
  /\ disk' = mem
  /\ Goto("prepare")
  /\ World
  /\ UNCHANGED <<todo, after, mem, runs>> /\ Quiet

\* attempt returned: how it went decides what follows the final update.
EndAttempt(next) == Goto("close") /\ after' = next

\* Mutant of CloseClaim: every decision finishes the claim as done.
CloseClaimDone(n) ==
  /\ pc = "close"
  /\ Current(n)
  /\ Put(n, IF mem[n].status # "pending"
            THEN [mem[n] EXCEPT !.claim = "done", !.pending = TRUE]
            ELSE Released(mem[n]))
  /\ Save
  /\ Goto("sync")
  /\ UNCHANGED <<todo, after, github, runs>> /\ Quiet

\* The lease is closed and the final state of the claim saved.
CloseClaim(n) ==
  /\ pc = "close"
  /\ Current(n)
  /\ Put(n, IF mem[n].status = "submitted"
            THEN [mem[n] EXCEPT !.claim = "done", !.pending = TRUE]
            ELSE Released(mem[n]))
  /\ Save
  /\ Goto("sync")
  /\ UNCHANGED <<todo, after, github, runs>> /\ Quiet

\* The update went through: on to what the caller does next.
Sync(n) ==
  /\ pc = "sync"
  /\ Current(n)
  /\ SyncDone(n)
  /\ \/ after = "reconcile" /\ Finished(n) /\ Goto("reconcile")
     \/ after = "walk" /\ Finished(n) /\ Goto("walk")
     \/ after = "again" /\ Scan(mem)
     \/ after = "error" /\ Goto("paused") /\ UNCHANGED todo
     \/ after = "setup" /\ Goto("down") /\ UNCHANGED todo
  /\ World
  /\ UNCHANGED <<after, runs>> /\ Quiet

\* The update failed: step fails, a setup error still ends the daemon.
SyncFails(n) ==
  /\ pc = "sync"
  /\ Current(n)
  /\ SyncFailed(n)
  /\ \/ after = "setup" /\ Goto("down")
     \/ after # "setup" /\ Goto("paused")
  /\ World
  /\ UNCHANGED <<todo, after, runs>> /\ Quiet

-----------------------------------------------------------------------------
(* attempt *)

\* open, the base revision or prepare failed: attempt returns the error before
\* anything is counted.
PrepareFails(n) ==
  /\ pc = "prepare"
  /\ Current(n)
  /\ EndAttempt("error")
  /\ UNCHANGED <<todo, mem, disk, github, runs>> /\ Quiet

\* Mutant of Charge: the attempt is counted in memory only.
ChargeUnsaved(n) ==
  /\ Put(n, [mem[n] EXCEPT !.tries = @ + 1, !.waiting = TRUE])
  /\ UNCHANGED disk

\* The attempt is counted, and its retry delayed, before the agent starts.
Charge(n) ==
  /\ Put(n, [mem[n] EXCEPT !.tries = @ + 1, !.waiting = TRUE])
  /\ Save

StartAgent(n) ==
  /\ pc = "prepare"
  /\ Current(n)
  /\ Charge(n)
  /\ runs' = [runs EXCEPT ![n] = @ + 1]
  /\ Goto("agent")
  /\ UNCHANGED <<todo, after, github>> /\ Quiet

\* The agent could not be set up: the attempt is not charged, the daemon ends.
SetupError(n) ==
  /\ pc = "agent"
  /\ Current(n)
  /\ Put(n, [mem[n] EXCEPT !.tries = @ - 1, !.waiting = FALSE])
  /\ Save
  /\ runs' = [runs EXCEPT ![n] = @ - 1]
  /\ EndAttempt("setup")
  /\ UNCHANGED <<todo, github>> /\ Quiet

\* failed: the job stays pending, to be retried after the delay.
Failed(n) ==
  /\ Current(n)
  /\ Put(n, [mem[n] EXCEPT !.waiting = TRUE])
  /\ Save
  /\ EndAttempt("again")
  /\ UNCHANGED <<todo, runs>> /\ Quiet

\* The agent, the verification, the refetch, the lease, a lookup, the push or
\* the check of a pull request found failed: the attempt fails.
StageFails(n) ==
  /\ pc \in {"agent", "verify", "ready", "push", "recheck", "readyAgain"}
  /\ Failed(n)
  /\ UNCHANGED github

\* The attempt ends with a decision about the job.
Decide(n, j) ==
  /\ Put(n, j)
  /\ Save
  /\ EndAttempt("again")
  /\ UNCHANGED <<todo, runs>> /\ Quiet

AgentBlocked(n) ==
  /\ pc = "agent"
  /\ Current(n)
  /\ Decide(n, [mem[n] EXCEPT !.status = "blocked"])
  /\ UNCHANGED github

Pass(n, from, to) ==
  /\ pc = from
  /\ Current(n)
  /\ Goto(to)
  /\ UNCHANGED <<todo, after, mem, disk, github, runs>> /\ Quiet

\* The agent is ready: its result is saved, the work verified.
AgentReady(n) == Pass(n, "agent", "verify")

StillEligible(n) == open[n] /\ Pass(n, "verify", "ready")

\* The issue was closed or relabelled meanwhile.
NotEligible(n) ==
  /\ pc = "verify"
  /\ Current(n)
  /\ ~open[n]
  /\ Decide(n, [mem[n] EXCEPT !.status = "skipped"])
  /\ UNCHANGED github

\* readyToPublish found a pull request that references the issue.
ExistingPull(n) ==
  /\ pc \in {"ready", "readyAgain"}
  /\ Current(n)
  /\ Referenced(n)
  /\ Decide(n, [mem[n] EXCEPT !.status = "has_pr"])
  /\ UNCHANGED github

ReadyToPublish(n) == ~Referenced(n) /\ Pass(n, "ready", "push")

Push(n) == Pass(n, "push", "recheck")

\* The recheck after the push finds the pull request of an earlier creation.
FoundPull(n) ==
  /\ pc = "recheck"
  /\ Current(n)
  /\ BranchPull(n)
  /\ Decide(n, Recorded(mem[n], pr[n]))
  /\ UNCHANGED github

NoPullYet(n) == ~BranchPull(n) /\ Pass(n, "recheck", "readyAgain")

ReadyToCreate(n) == ~Referenced(n) /\ Pass(n, "readyAgain", "create")

Opened(n) ==
  /\ pr[n] = "none"
  /\ pr' = [pr EXCEPT ![n] = "open"]

Create(n) ==
  /\ pc = "create"
  /\ Current(n)
  /\ Opened(n)
  /\ Decide(n, Recorded(mem[n], "open"))
  /\ UNCHANGED <<open, linked, inflight, comment>>

\* The creation failed or its response was lost; GitHub refuses a second pull
\* request for the branch; a request that timed out may be executed later.
CreateFails(n) ==
  /\ pc = "create"
  /\ Failed(n)
  /\ \/ UNCHANGED <<pr, inflight>>
     \/ Opened(n) /\ UNCHANGED inflight
     \/ /\ LateCreate
        /\ inflight' = [inflight EXCEPT ![n] = TRUE]
        /\ UNCHANGED pr
  /\ UNCHANGED <<open, linked, comment>>

-----------------------------------------------------------------------------
(* Crashes, the operator, and the rest of the world *)

\* The process ends; what the next one will know is on disk.
Crash ==
  /\ pc # "down"
  /\ crashes < MaxCrashes
  /\ crashes' = crashes + 1
  /\ Goto("down")
  /\ mem' = disk
  /\ todo' = {}
  /\ after' = "walk"
  /\ UNCHANGED <<disk, github, runs, events>>

Restart ==
  /\ pc = "down"
  /\ mem' = disk
  /\ Scan(disk)
  /\ UNCHANGED <<after, disk, github, runs>> /\ Quiet

\* Mutant of StartOver: the old decision is kept.
StartOverDecided(j) == [j EXCEPT !.tries = 0, !.waiting = FALSE]

\* A fresh attempt budget for a job that is pending again.
StartOver(j) == [j EXCEPT !.status = "pending", !.tries = 0, !.waiting = FALSE]

\* retry, for the issues it is restricted to: a fresh attempt budget.
Retry(chosen) ==
  LET hit == {n \in chosen : disk[n].status \in {"blocked", "pending"}} IN
    /\ Operator
    /\ pc = "down"
    /\ hit # {}
    /\ disk' = [n \in Issues |->
                  IF n \in hit THEN StartOver(disk[n]) ELSE disk[n]]
    /\ mem' = disk'
    /\ runs' = [n \in Issues |-> IF n \in hit THEN 0 ELSE runs[n]]
    /\ UNCHANGED <<pc, todo, after, github>> /\ Quiet

\* Requeue of an issue whose pull request was closed after review: that one
\* no longer counts, the job starts over, an open claim is to be released.
Requeue(n) ==
  /\ Operator
  /\ pc = "down"
  /\ pr[n] = "closed"
  /\ disk[n].claim # "working"
  /\ LET fresh == StartOver(disk[n]) IN
       disk' = [disk EXCEPT ![n] =
         IF fresh.claim \in {"none", "released"} THEN fresh ELSE Released(fresh)]
  /\ mem' = disk'
  /\ pr' = [pr EXCEPT ![n] = "none"]
  /\ runs' = [runs EXCEPT ![n] = 0]
  /\ UNCHANGED <<pc, todo, after, open, linked, inflight, comment>> /\ Quiet

\* The retry time of a job passes.
Elapse(n) ==
  /\ mem[n].waiting \/ disk[n].waiting
  /\ mem' = [mem EXCEPT ![n].waiting = FALSE]
  /\ disk' = [disk EXCEPT ![n].waiting = FALSE]
  /\ UNCHANGED <<pc, todo, after, github, runs>> /\ Quiet

\* A creation that timed out is executed, unless the branch has one by now.
LandCreate(n) ==
  /\ inflight[n]
  /\ inflight' = [inflight EXCEPT ![n] = FALSE]
  /\ pr' = [pr EXCEPT ![n] = IF @ = "none" THEN "open" ELSE @]
  /\ UNCHANGED <<pc, todo, after, mem, disk, open, linked, comment, runs>>
  /\ Quiet

\* Other people close or reopen the issue, reference it from a pull request of
\* theirs, merge or close the bot's.
Event(n) ==
  /\ events < MaxEvents
  /\ events' = events + 1
  /\ \/ open' = [open EXCEPT ![n] = ~@] /\ UNCHANGED <<linked, pr>>
     \/ /\ ~linked[n]
        /\ linked' = [linked EXCEPT ![n] = TRUE]
        /\ UNCHANGED <<open, pr>>
     \/ /\ pr[n] = "open"
        /\ \E p \in {"merged", "closed"} : pr' = [pr EXCEPT ![n] = p]
        /\ UNCHANGED <<open, linked>>
  /\ UNCHANGED <<pc, todo, after, mem, disk, inflight, comment, runs, crashes>>

Reconcile(n) == DeliverSaved(n) \/ ReconcileFails(n) \/ ReconcilePull(n)
                \/ NothingToReconcile(n)

Walk(n) == SkipJob(n) \/ LookUpPull(n) \/ NoPull(n) \/ LookUpFails(n)
           \/ SkipLinked(n) \/ BlockExhausted(n) \/ Proceed(n)
           \/ NoLongerEligible(n)

ClaimedAttempt(n) == Claim(n) \/ AcquireFails(n) \/ AcquireLoses(n)
                     \/ Acquired(n) \/ CloseClaim(n) \/ Sync(n) \/ SyncFails(n)

Attempt(n) == PrepareFails(n) \/ StartAgent(n) \/ SetupError(n) \/ StageFails(n)
              \/ AgentBlocked(n) \/ AgentReady(n) \/ StillEligible(n)
              \/ NotEligible(n) \/ ExistingPull(n) \/ ReadyToPublish(n)
              \/ Push(n) \/ FoundPull(n) \/ NoPullYet(n) \/ ReadyToCreate(n)
              \/ Create(n) \/ CreateFails(n)

Loop == StartScan \/ EndReconcile \/ Fetch \/ ReadFails \/ EndWalk

Command == \/ \E chosen \in {{n} : n \in Issues} \cup {Issues} : Retry(chosen)
           \/ \E n \in Issues : Requeue(n)

Daemon == \/ Loop
          \/ \E n \in Issues : Reconcile(n) \/ Walk(n) \/ ClaimedAttempt(n)
                               \/ Attempt(n)

Next ==
  \/ Daemon
  \/ Crash
  \/ Restart
  \/ Command
  \/ \E n \in Issues : Elapse(n) \/ LandCreate(n) \/ Event(n)

Spec == Init /\ [][Next]_vars

\* The daemon runs and is restarted, retry times pass, and a GitHub call or a
\* git command that is repeated for ever does not fail for ever.
Fairness ==
  /\ WF_vars(Daemon)
  /\ WF_vars(Restart)
  /\ SF_vars(Fetch)
  /\ \A n \in Issues :
       /\ WF_vars(Elapse(n))
       /\ SF_vars(DeliverSaved(n) /\ SyncDone(n))
       /\ SF_vars(ReconcilePull(n) \/ NothingToReconcile(n))
       /\ SF_vars(LookUpPull(n) \/ NoPull(n))
       /\ SF_vars(SkipLinked(n) \/ BlockExhausted(n) \/ Proceed(n))
       /\ SF_vars(NoLongerEligible(n) \/ Claim(n))
       /\ SF_vars(Acquired(n))
       /\ SF_vars(StartAgent(n))
       /\ SF_vars(AgentBlocked(n) \/ AgentReady(n))
       /\ SF_vars(Sync(n))

FairSpec == Spec /\ Fairness

-----------------------------------------------------------------------------
(* The abstract specification *)

\* What is on record: the saved status, if it is a decision.
OnRecord(n) ==
  IF disk[n].status \in {"none", "pending"} THEN "undecided" ELSE disk[n].status

Life == INSTANCE Lifecycle WITH
          decision <- [n \in Issues |-> OnRecord(n)],
          pull     <- [n \in Issues |-> pr[n] # "none"]

\* Whatever fails, crashes or comes late, what is on record and on GitHub goes
\* through the life that Lifecycle describes.
LifecycleHolds == Life!Spec

-----------------------------------------------------------------------------
(* Properties *)

\* Every variable has its type.
TypeOK ==
  /\ pc \in {"down", "idle", "paused", "reconcile", "probe", "fetch", "walk",
             "linked", "refetch", "acquire", "prepare", "agent", "verify",
             "ready", "push", "recheck", "readyAgain", "create", "close", "sync"}
  /\ todo \subseteq Issues
  /\ after \in {"reconcile", "walk", "again", "error", "setup"}
  /\ mem \in [Issues -> Job]
  /\ disk \in [Issues -> Job]
  /\ open \in [Issues -> BOOLEAN]
  /\ linked \in [Issues -> BOOLEAN]
  /\ pr \in [Issues -> {"none", "open", "merged", "closed"}]
  /\ inflight \in [Issues -> BOOLEAN]
  /\ comment \in [Issues -> {"none", "working", "released", "done"}]
  /\ runs \in [Issues -> Nat]
  /\ events \in 0..MaxEvents
  /\ crashes \in 0..MaxCrashes

\* The agent never runs more often on an issue than the attempt budget allows
\* between two operator resets, however often the daemon crashes in between.
RunsWithinBudget == \A n \in Issues : runs[n] <= Attempts

\* A job recorded as submitted has a pull request, in memory and after every
\* crash: the record never runs ahead of GitHub.
SubmittedHasPull ==
  \A n \in Issues :
    "submitted" \in {mem[n].status, disk[n].status} => pr[n] # "none"

\* A decision on disk stays: whatever happens on GitHub, whatever fails and
\* however often the daemon restarts, only the operator takes a submitted,
\* has_pr, skipped or blocked job up again, and only while the daemon is down.
DecisionStands ==
  [][\A n \in Issues :
       /\ disk[n].status \in {"submitted", "has_pr", "skipped", "blocked"}
       /\ disk'[n].status # disk[n].status
       => pc = "down"]_vars

\* A scan that ends with nothing to do has reconciled the jobs it looks up: none
\* that was charged an attempt since its budget was last reset is left pending
\* although its branch has a pull request.  Jobs whose tries retry reset are not
\* among them: loop one skips them, and only a claim while the issue is open
\* looks up their branch again.
IdleMeansReconciled ==
  pc = "idle" =>
    \A n \in Issues :
      mem[n].status = "pending" /\ mem[n].tries > 0 => pr[n] = "none"

\* A job is put aside for "another pull request" only when there is one by
\* somebody else.
HasPullIsForeign ==
  \A n \in Issues : mem[n].status = "has_pr" => linked[n]

\* A comment that claims the issue is known to the saved state, as a working
\* claim or as an update to deliver, whenever the daemon dies.  That is all: the
\* next daemon delivers an update that is due, but a working claim it does not
\* resume when the job was submitted or set aside meanwhile, or when the saved
\* claim has expired.
LiveCommentIsKnown ==
  \A n \in Issues :
    comment[n] = "working" => disk[n].claim = "working" \/ disk[n].pending

\* Once the scan is idle, a submitted job's claim is finished: its comment says
\* Done, or the update is remembered for a retry.
SubmittedIsAnnounced ==
  pc = "idle" =>
    \A n \in Issues : mem[n].status = "submitted" => mem[n].claim = "done"

\* A final claim state that was saved reaches its comment, although updates
\* fail, scans end early on errors and the daemon is restarted in between.
UpdatesDelivered == \A n \in Issues : mem[n].pending ~> ~mem[n].pending

\* No issue is worked on for ever or forgotten: as long as it stays open it is
\* decided in the end, because every failed attempt is charged to a budget.
EveryIssueDecided ==
  \A n \in Issues :
    open[n] ~> (~open[n] \/ mem[n].status \notin {"none", "pending"})
=============================================================================
