# issue-bot in TLA+

issue-bot walks the open issues of a GitHub repository, claims one at a time by
a comment, lets a coding agent work on it in a private worktree and publishes
the result as a pull request. This directory holds TLA+ models of the parts of
it that are hard to test, the TLC runs that check them on small instances, and
proofs of what holds for instances of every size.

    tlc -workers 2 -config MCClaimsPrompt.cfg MCClaims.tla
    tlapm ClaimsProofs.tla

## The system

| Part | Source | State it keeps | Operations |
| --- | --- | --- | --- |
| Claim protocol | `claim.go`, `comments.go` | the `Claim` of a job, the issue's comments, the lease's goroutine | acquire, refresh (renewal and ownership check), close, sync |
| Scan engine | `run.go` | where the scan is, the job it is active on | Run, step, complete, releaseClaim, claimedAttempt, attempt, failed |
| Job state | `state.go` | `state.json`, two lock files | ReadState, writeState, Retry, Requeue |
| GitHub client | `github.go`, `linked.go` | none (GitHub's) | issues, issue, pull, create, linkedPull |
| Managed checkout | `git.go` | a private repository, a worktree per issue | open, prepare, verify, push |
| Progress | `progress.go` | none | report |
| Worker service | `internal/worker/server.go`, `cmd/bib/worker.go` | streams of the runs in progress, the stop channel | initialize, runs, shutdown |
| Dashboard | `cmd/bib/dashboard.go`, `terminal.go`, `console.go` | selection, scroll, activity, key decoder | update, Handle, key, feed, render |
| Command runner | `internal/osrun/run.go` | the tail of a command's output | Write, Text, Run, Kill |
| Start-up | `config.go`, `discover.go`, `cmd/bib/main.go` | none afterwards | ReadConfig, Validate, Discover |
| Agent, prompt | `agent.go`, `prompt.go` | none | Execute, issuePrompt |

How they interact. One daemon runs one sequential loop (`Run`, `step`). For each
issue it asks GitHub, writes `state.json` before each external effect, starts
an attempt and, beside it, a renewal goroutine that shares the lease under a
mutex and cancels the attempt's context when the claim is lost. Several daemons
on several machines meet only on GitHub: in the comments of an issue, in its
branch and in its pull request. The operator's `retry` and the worker's requeue
change `state.json` while no daemon holds its two lock files. The worker service
runs the same engine for each request of a client, streams its progress, and
may be stopped while it works. A foreground run shares a dashboard, under one
mutex, with the engine's reports, its log records and the terminal's key loop.
git, the agent and the operator's verify command are run as process groups with
a bounded tail of their output. People change issues, pull requests and branches
at any time.

What is hard: the election of a winner by list, post and list again without an
atomic operation; a request whose response is lost or that is executed after
its caller gave up; a crash between any two of the saves and requests; the
attempt budget and the retry delays across crashes; the order of the checks
that precede a pull request; saved comment updates that must still be delivered
when the issue is closed; a worktree that was created in part, lost, or left by
an interrupted requeue; a push to a branch that others push to; two locks taken
one after the other; a stream that is cut off; descendants that hold a pipe open;
reports that move the issue under the cursor. `PROJECT.json` lists these hazards
line by line.

What makes each part correct:

* Claim protocol: at most one installation works under a live claim; a starting
  comment is posted once; a comment is only edited by the claim that posted it;
  a final state is final and reaches its comment; a lost claim stops the work.
* Engine: the agent never exceeds the attempt budget; a pull request that was
  created is recorded; what is recorded exists; a decision stands; a claim on
  GitHub is known to the saved state; every issue is decided; saved updates are
  delivered.
* State: every save is atomic; retry and requeue give exactly one fresh budget.
* Checkout: what is pushed is what was verified, on top of the recorded base;
  what is reported as submitted shows it; a job's base and its work come and go
  together; what was pushed is recovered.
* Worker: one run at a time per state directory and per checkout, no lock left
  behind, a terminal event for every stream that is not cut off, no claim left
  by a run that is reported complete, a stop that does not wait for an agent.
* Dashboard: pasted text is never a key, the selected issue stays selected, rows
  do not mix streams. Command runner: the tail is the tail, output without an
  error is whole, and a call returns.

## Modules

| Module | What it is |
| --- | --- |
| `Claims` | the claim protocol of one issue between any number of installations |
| `MCClaims` | its instances for TLC (two installations, interchangeable) |
| `ClaimsProofs` | the election, mutual exclusion, tokens, final states and orphans, proved |
| `Engine` | one daemon with all its jobs, its disk, the operator and GitHub |
| `Lifecycle` | what a daemon promises about each issue: the abstract specification |
| `MCEngine` | the instances of `Engine` for TLC |
| `EngineProofs` | an inductive invariant of the daemon and what follows from it |
| `LifecycleProofs` | every step of `Engine` is one of `Lifecycle` or a stutter |
| `ReconcileProofs` | what holds when no creation is executed late |
| `Checkout` | branch, worktree and pull request of one issue, with several installations |
| `MCCheckout`, `CheckoutProofs` | its instances, with interchangeable installations, and its proofs |
| `Worker` | the worker service with other processes on the same directories |
| `MCWorker`, `WorkerProofs` | its instance and proofs |
| `Runner` | one command of `osrun`: processes, pipes, tails, cancellation |
| `MCRunner`, `RunnerProofs` | its instance and proofs |
| `Dashboard` | the reports of the engine and what the dashboard makes of them |
| `Terminal` | the session around it: key decoder, tick loop, the run's goroutine |
| `DashboardProofs` | the proofs about both, for any window, limit, streams and input |
| `MCTerminal` | its instance for TLC |

The same attempt appears at several levels. `Claims` has the comments, the
expiry and the competitors in full and reduces the attempt to "check ownership,
publish, finish". `Engine` has the scan, the attempt, the budget and the pull
requests in full and reduces the election to its outcomes (won, lost, failed),
the comment to its last status and git to "works or fails". `Checkout` has the
git steps of the attempt in full and assumes of the election only that it is
advisory: attempts of several installations may overlap. `Worker` reduces a
whole scan to "claims an issue, works, closes the claim". `Terminal` extends
`Dashboard`: its session drives the dashboard's actions.

### Claims

`comments[k]` is the comment with the k-th claim ID of the issue: token, status
and `left`, the time that remains until its `expires_at`. `mem[i]` and `disk[i]`
are the `Claim` and `ClaimPending` of the issue's job in memory and in
`state.json`; `pc[i]` is where the installation stands; `renewal[i]`, `next[i]`
and `canceled[i]` are the goroutine of `lease` and the context that it cancels;
`late` holds requests whose caller gave up. `revived` and `published` are
history: a PATCH made a comment active again, a pull request exists.

| Action | Code |
| --- | --- |
| `BeginClaim` | `claimedAttempt`: resume or draw a token, save |
| `YieldBeforePost`, `AcquireRead`, `AcquireWrite`, `AcquireWriteFails`, `AcquireReadFails`, `Confirm`, `YieldAfterPost` | the exits and requests of `acquire`, with the saves and the release that `claimedAttempt` adds |
| `RenewRead`, `RenewEdit`, `RenewLost`, `RenewReadFails`, `RenewEditFails` | `refresh(ctx, true)` in the goroutine of `start` |
| `ReadyToPublish`, `Publish`, `Finish` | `readyToPublish` with `refresh(ctx, false)`, the creation, `close` and the final save |
| `Complete`, `Sync`, `SyncReadFails`, `SyncWriteFails` | `complete`, `syncClaim`, `sync` |
| `Crash`, `Restart`, `LandLate`, `Tick` | the environment |

Abstractions. A listing is answered and used in one step; the gap between a
listing and the write that follows it is kept, since that is where competitors
and the clock come in. Nobody deletes or edits a claim comment by hand. `Tick`
advances all clocks together. It may not pass a third of the timeout while a
renewal's request is open, because `start` gives that request a deadline
(`claim.go:203`). The remaining time of a finished claim is set to zero: no code
reads it.

`Prompt` is the assumption under which the election excludes: a write reaches
GitHub before a competitor's two seconds have passed and before the clock
ticks. Without it TLC finds the following, which the repository's README calls
advisory coordination and which is therefore no finding: an installation lists
the comments, is delayed until its claim has expired and another one has been
elected, and then renews its own, lower comment. `ExclusiveUnlessRevived` says
that this is the only way.

### Engine

`mem[n]` and `disk[n]` are the job of issue n in memory and in `state.json`:
status, tries, whether its retry time lies ahead, and the state of its claim.
`todo` is what the current loop of `step` has not finished with (ascending
order, `Current`), `after` what follows the comment update in progress. `pr[n]`
is the pull request on the issue's branch, `linked[n]` one by somebody else,
`inflight[n]` a creation that timed out, `comment[n]` what the comment of the
job's current token shows, `runs[n]` the agent runs charged since the last
reset.

Every stage of the code is a `pc` value and every request an action that
succeeds or fails; `Reconcile`, `Walk`, `ClaimedAttempt` and `Attempt` group the
actions by the function they belong to. A failing request has the effect the
code gives it: it ends the scan (`StepFails`), ends the attempt without a charge
(`PrepareFails`), or fails it (`Failed`). `Crash` is possible everywhere, also
between a request and the save that records it, since these are separate steps
wherever both are visible to others; it stands for an orderly stop too.

Abstractions. Saves succeed and are atomic (`writeState` renames a synced file).
A new token forgets the old one's comment: what becomes of abandoned comments is
the subject of `Claims`. The retry time is a flag that `Elapse` clears. A
worktree is prepared, verified and pushed, or not. `--issue` and `--once` only
narrow the loop. `Requeue` is called for a closed pull request, as its comment
says; from then on that one counts no more.

### Lifecycle

Per issue: the decision on record, whether its branch has a pull request, the
agent runs since the last reset and what the bot's comment says. Scans, requests,
failures, crashes and restarts do not exist at this level. `Decide` asks for a
reason: a pull request, or a run that was spent; `Work` for an undecided issue
with budget left; `Announce` (the comment says Done) for a pull request; `Claim`
for an undecided issue. `Engine` instantiates it and maps `decision` to the
status on disk, `pull` to `pr`, `runs` and `comment` to themselves, and
`LifecycleHolds` is the abstract `Spec`. One detail of the code shows in it:
after the operator's retry of a job that a closed pull request blocked, the
saved comment update still says Done, so that Done may be announced of an issue
that is undecided again.

### Checkout

A commit is a number, `anc[c]` its ancestors. `main`, `remote` and `pull` are
GitHub's base branch, the issue's branch and its newest pull request; `job[i]`
is the saved job as far as git is concerned (status, base, tries, superseded
pull requests); `repo[i]` the private repository with the worktree: local
branch, whether the management checkout (`dir`) and the worktree (`tree`) are
there or only registered, whether HEAD is on the branch, whether it is clean.
`head[i]` is what `verify` returned.

| Action | Code |
| --- | --- |
| `Reconcile`, `Open`, `Charge` | `step`, `open` (which creates the management checkout) with the base that the first attempt saves, the charge before the agent |
| `Reuse`, `AddWorktree`, `AddInterrupted` | `prepare`: the worktree as it is, a new one at `StartPoint`, git killed on the way |
| `Agent` (commits, merges the base, leaves edits, misbehaves, ends) | external: the agent's program |
| `Verify`, `Recheck`, `Disturb` | `verify` before and after the operator's command, which is external |
| `Push`, `FoundPull`, `Create` | `push`, `pull`, `create` with the comparison of heads |
| `Retry`, `Requeue` | `Retry`; `discardWork` and the new job, with its two interruptions and its exit without a management checkout |
| `ClosePull`, `DeleteBranch`, `AdvanceMain`, `LoseWorktree`, `LoseCheckout`, `PruneCheckout`, `LoseWorkspace` | other people |

Abstractions. The clone and the checks that a directory is this bot's own only
refuse. `verified` is history, and so is `stale`: a requeue left a branch
behind, because it found no management checkout to discard it from. The agent
may do anything to its worktree that the code has to reckon with, but does not
rewrite the private repository.

### Worker

`pc[a]` is where an actor stands: a request of the worker (`Streams`) or another
process, such as a daemon (`Others`). Each has a state directory and a checkout,
and they may share one without the other. `saved` is the identity and the
working claim in `state.json`; `got[s]` the events that the client received.

| Action | Code |
| --- | --- |
| `Request`, `Refuse`, `HangUp` | `handleRun` and its request context |
| `TakeState`, `StateBusy`, `TakeCheckout`, `CheckoutBusy` | the two locks of `state.go` |
| `Requeue`, `RequeueFails` | `Requeue` under its own pair of locks, before `Run` takes them again |
| `Claim`, `Scan` | `Run` up to a saved claim, or its end |
| `Yield`, `Work`, `Close` | the exits of `claimedAttempt` that give the claim back |
| `Abandon` | those that do not: a request or a save of the election fails, or the save after the attempt |
| `Progress`, `Read`, `WriteResult`, `WriteTerminal` | the events of a stream |
| `Stop`, `Drained`, `Deadline`, `Exit` | shutdown or signal, `Shutdown` with its five seconds, the end of the process |

### Runner

`written`, `pipe` and `tail` are what the command wrote to each stream, what of
it is unread and what is kept. The command may fork a descendant that inherits
the pipes and may leave the process group. `Copy` is the goroutine of os/exec
with `Tail.Write`, in chunks of any size; `Kill`, `Reap`, `Await`, `Expire` and
`Finish` are `cmd.Run` with the `Cancel` function and the `WaitDelay` that
`StartCommand` sets. A byte is a lead, whose rune is as `Width` says, or a
continuation, so that runes of one to four bytes (`Leads`) can be cut:
`ValidUTF8` and `FirstStart` translate `Text`.

### Dashboard and Terminal

`Report` is `report` (the window of jobs that contains the active one) followed
by `update`; `Transcript` and `Message` are `Handle` and `addActivity`; `Key` is
split by what a key does in the pane that is shown; `Render` is what drawing
changes: it clamps offsets. `Terminal` adds the bytes on their way (`wire`), the
decoder (`pending`, `paste`, `Feed`) and the loop: `Read`, `ReadNothing` (the
tick that takes a lone escape byte for the key), `Handle`, `Draw`, `Interrupt`,
`RunReturns`, `Leave`. The loop of `feed` is the recursive function `Fed`: at
each position it takes one `Unit`, an escape sequence or a single byte, emits its
`KeysOf`, changes the mode by `PasteAfter`, and stops at one that is
`Unfinished`. `due`, `astray` and `cut` are history: keys that were pressed and
not yet decoded, whether anything else was decoded, and whether a tick came
between an escape byte and what follows it. Layout, texts, counters and the
terminal's size are left out; how far there is something to scroll to is a free
choice.

## What is checked

Two installations are enough for every pairwise property of `Claims`: a third
one can only add claims that either lose to or are one of the two. Two comments
are the competitors', or those of one installation that starts afresh after a
crash; `ClaimsProofs` covers every number. A timeout of two ticks separates
"renewed", "about to expire" and "expired"; where writes are delayed freely one
tick is enough, as any number of ticks may pass in between. In `Engine` two
issues let one job's failure disturb the other's; two attempts separate "first",
"last" and "exhausted". In `Checkout` three commits are a base, somebody's work
and a competitor's or the base's advance; four, with two pull requests, let an
issue be closed, requeued and published again. In `Worker` three actors cross
the two directories in every way that matters, sharing one or the other. In
`Runner` a tail of three bytes and four bytes written cross the capacity by one
write, by several and within a rune; runes of two and four bytes are the
shortest and the longest that can be cut, and one of four loses all three bytes
that are kept. A tail without capacity is the other boundary. In `Terminal` a
window of two out of three issues drops an issue and readmits it as the active
one, and two rows of activity overflow; five pending bytes hold every sequence,
as the code's 32 do, so that none is dropped.

| Run | Bounds | What it shows |
| --- | --- | --- |
| `claims_prompt` | 2 installations, 2 comments, 2 tokens, timeout 2, nothing late | `Exclusive`, `OneCommentPerToken`, `CommentKeepsItsToken`, `FinishedStaysFinished`, `LostClaimStopsWork`, `FinalStateDelivered` |
| `claims_delayed` | 2 installations, 2 comments, 2 tokens, timeout 1, 1 late write, writes of any delay | `ExclusiveUnlessRevived`, `ElectionInv` |
| `engine_scan` | 2 issues, 2 attempts, retry and requeue, 1 change by others, 1 crash | `RunsWithinBudget`, `IdleMeansReconciled`, `HasPullIsForeign`, `LiveCommentIsKnown`, `SubmittedHasPull`, `DecisionStands`, `LifecycleHolds` |
| `engine_live` | 1 issue, 2 attempts, late creations, 1 crash | `UpdatesDelivered`, `EveryIssueDecided` |
| `checkout_shared` | 2 installations, 1 attempt, 3 commits, 1 pull request, unruly agent | `CheckoutInv`, `RemoteIsVerified`, `SubmittedIsMine` |
| `checkout_town` | 1 installation, 2 attempts, 4 commits, 2 pull requests, requeue, lost worktrees, management checkouts and workspaces | `BaselessIsClean`, `PushedIsRecovered`, `BaseStands` |
| `worker` | 1 request, 2 daemons, 1 progress event | `Excluded`, `LocksReturned`, `WellFormed`, `CompleteMeansReleased`, `StopIsPrompt`, `AbandonedRunEnds` |
| `runner` | tails of 3 and 0 bytes, 4 and 1 bytes written, runes of 2 and 4 bytes | `TailsAreExact`, `TextIsWhole`, `WholeOutput`, `GroupStops`, `Returns` |
| `dashboard` | 3 issues, window 2, 2 streams, 2 rows, 4 events, 1 pasted text | `PaneIsConsistent`, `RowsFollowStreams`, `KeysAreWhole`, `SnapshotIsRight`, `CursorIsKept` |
| `claims_orphan`, `engine_silent`, `checkout_left_branch` | | violated: see below |

Every property is also checked to fail on a mutant of the model that imitates a
plausible mistake in the code; the mutants stand before the definitions they
replace. Deadlock is checked where a system never stops (`Claims`, `Engine`);
in the other models attempts, streams, commands and sessions end.

### Where the code and its documentation disagree

| Run | Property | What happens |
| --- | --- | --- |
| `claims_orphan` | `NoOrphanClaim` | Renewals move the expiry on GitHub, not in `state.json`. A process that restarts after the saved expiry draws a new token although its comment is alive; it then yields to itself and nobody finishes the old comment. |
| `engine_silent` | `SubmittedIsAnnounced` | A crash between the last save of `attempt` and that of `claimedAttempt` leaves a submitted job with a working claim. No loop of `step` touches it again, its comment never says Done, and requeue refuses it. |
| `checkout_left_branch` | `WorkContainsPushed` | A requeued issue starts from the base while its old branch is still on GitHub. `push` is without force, so the new work can never be published while that branch stays. |

For the first two the crash is proved to be the only cause, by
`OrphansComeFromCrashes` and `AnnouncedUntilKilled`.

Several passing properties hold only under the constants of their runs, or with
an exception that the property names. Each of these limits was found by TLC and
can be reproduced with one change to a configuration or a property:

| Change | Violated | What happens |
| --- | --- | --- |
| `OneCommentPerToken` in `MCClaimsDelayed.cfg` | `OneCommentPerToken` | A POST that timed out and is executed late gives a token a second comment (`claim.go:19` speaks of recovery without one); only the first is ever finished. |
| `LateCreate = TRUE` in `MCEngineScan.cfg` | `HasPullIsForeign` | `linkedPull` counts the bot's own pull request. One that is created late, between two checks, is recorded as somebody else's. |
| `IdleMeansReconciled` without `mem[n].tries > 0` | `IdleMeansReconciled` | Saved pending jobs are checked for a pull request also "after the issue closes" (`README.md:145-148`). But `retry` resets the tries (`state.go:227`) and loop one reconciles only jobs with tries (`run.go:140`): if the issue closes, a pull request whose response was lost is never recorded. |
| `BaselessIsClean` without `~repo[i].stale` | `BaselessIsClean` | `discardWork` is there "so the next attempt starts from the base branch" (`state.go:186-188`), but returns without an error when it cannot reach the management checkout (`state.go:190`). `requeue` then reports success and forgets the base, while branch and worktree stay. |
| `StartsOver` in `MCCheckoutTown.cfg` | `StartsOver` | "A requeued issue starts over from the base branch" (`git.go:165`) holds for its first charged attempt. When the local branch is lost or discarded again after that, while the old remote branch is still there, the next worktree starts from the superseded work. It also fails at once when the requeue discarded nothing, as in the row before. |
| `VerifiedHasWork` in `MCCheckoutLeftBranch.cfg` | `VerifiedHasWork` | A branch that only merged, or was fast-forwarded to, the advanced base passes the verification. |
| `StopsAfterStream`, `InterruptedReleases` in `MCWorker.cfg` | both | Shutdown "after the current stream" (`README.md:206`) cuts a stream off after five seconds, and the claim of an interrupted run is not released (`README.md:138`). |
| `CompleteMeansReleased` for every one of `Terminals` | `CompleteMeansReleased` | "Failed or interrupted attempts mark the claim released" (`README.md:138`). When a request or the save of the election fails (`run.go:240-253`), or the save after the attempt (`run.go:277`), the claim stays working in `state.json` after the client got its error; a requeue refuses it until the next scan has taken the issue up again (`state.go:163`). |
| `KeysAreWhole` without `~cut =>` | `KeysAreWhole` | A tick between the escape byte of a paste's bracket and the rest of it turns the pasted text into keys (`terminal.go:110`). |

`README.md` in this table is the repository's. Three more follow from reading
alone: a worktree whose directory was deleted stays registered, git refuses to
add it and only a requeue prunes (`git.go:156`), so that every attempt of that
issue fails until then while it is prepared, and a management checkout whose
directory was deleted stays so until somebody prunes by hand (`git.go:64`), as
no attempt and no requeue gets that far; an open issue does leave the dashboard
when it leaves the window of 200 (`dashboard.go:62`); and changed results of
issues outside that window are not shown (`README.md:98`).

### Fairness

`Claims` assumes that the renewal goroutine keeps running (its ticker and the
deadline of its requests see to that), that a cancelled attempt returns (every
command and request of it takes the context) and that an update that is retried
by every scan is accepted in the end. Nothing is assumed of elections, of
publication or of restarts: an installation may stay down.

`Engine` assumes that the daemon keeps stepping and is restarted, that retry
times pass, and, as strong fairness of each success, that a call that is
repeated for ever does not fail for ever. The last is an assumption about
GitHub, git and the agent, not about the code: `step` does repeat each of them.
It is needed: with a lookup that fails for good `step` never reaches the jobs
behind it. With two issues the temporal check exceeds the memory of a small
machine, so the liveness of the engine is checked for one.

`Worker` assumes that the goroutines of the service and its five-second timer go
on and that a cancelled attempt returns. An attempt that is not cancelled may
take for ever: that is what `StopIsPrompt` and `AbandonedRunEnds` are about.

`Runner` assumes that the kernel delivers a signal, that timers expire and that
the goroutine of `Run` goes on. Nothing is asked of the command, of its
descendants or of the copying goroutines.

`Checkout` and `Terminal` state no liveness. Whether an issue is published
depends on people and on the agent; `engine_live` has what the code adds.

## What is proved

The proofs hold for every value of the constants that satisfies the named
assumption of the module, and for the extra assumptions given here.

`ClaimsProofs`, for every set of installations, every timeout and every bound:

* `TypeCorrect`, `Elections`, `ElectionHolds`: `Spec` implies `[]TypeOK`,
  `[]ElectionInv` and `[]ExclusiveUnlessRevived`, whatever is delayed or late.
* `TokensHold`, `OneComment`, `TokensAreKept`, `FinishedStays`: `[]TokenInv`,
  `[]OneCommentPerToken`, `CommentKeepsItsToken` and `FinishedStaysFinished`, if
  no abandoned request is executed late (`MaxLate = 0`).
* `OrphansComeFromCrashes`: `[]NoOrphanClaim`, if `MaxLate = 0` and no
  installation crashes while its comment expires later than the claim in its
  `state.json`.
* `ExclusiveHolds`: `[]Exclusive`, if moreover writes are `Prompt`.

The first argument. Two holders with live claims have comments k < l. When the
holder of l was confirmed, l was the lowest active comment, so k was not active;
it has become active since, and only a PATCH makes a comment active that was
not, which is what `revived` records. A new comment cannot interfere because it
gets a higher ID. Turning this into an induction needs three more facts, which
`ElectionInv` adds: a claim's comment ID always refers to a comment with the
claim's own token, in memory, on disk and in delayed requests (otherwise a PATCH
could change whose comment it is); tokens in use have been drawn (so that a new
one is new); and no two installations share one (so k # l).

The second. `TokenInv` says that memory and disk agree on token, status and
pending update, that a finished comment has a finished claim on disk, and that
an installation about to post has listed no comment of its token. Its steps rest
on one lemma: an action of one installation writes into its own comment only.

The third needs that the comment of a holder wins, that nobody holds the issue
while another installation's write is on its way (this is where the two seconds
come in), and that a renewal about to edit finds its comment active. Steps are
grouped into those that change no comment, those that write one and those that
decide, and each group has its lemma.

The fourth turns the finding of `claims_orphan` into a statement of its cause.
`NoOrphanClaim` fails in general; the theorem says that nothing but the crash
described there makes it fail, whatever is lost, retried or released. Its extra
hypothesis is one about steps, `[][\A i \in Instances : Crash(i) => ~Outlives(i)]_vars`,
and leaves every other crash in. `OrphanInv` says that a live comment carries the
saved token of an installation whose claim is working or has an update to
deliver, and that between attempts the comment expires no later than the claim
the installation goes by, so that it is not given up too early. While a lease
runs, renewals do move the comment ahead of the disk: that is the window the
hypothesis closes.

`EngineProofs`, for every number of issues, every attempt limit and every bound
on crashes and changes by others:

* `EngineInvariant`: `Spec => []EngineInv`.
* `TypeCorrect`, `BudgetHolds`, `SubmittedIsOnGitHub`, `ClaimsAreKnown`: `Spec`
  implies `[]TypeOK`, `[]RunsWithinBudget`, `[]SubmittedHasPull` and
  `[]LiveCommentIsKnown`.
* `DecisionsStand`: `Spec => DecisionStands`, an action property.
* `AnnouncedUntilKilled`: `Spec => [](crashes = 0 => SubmittedIsAnnounced)`.

The argument. Not even the types of `Engine` are inductive: `tries` grows by one,
and that it stays within the limit rests on the check several steps before, on a
state nobody else may have changed since. So `EngineInv` says what each position
of the scan knows of the current job (`Stages`: the job is pending and nothing
is left to deliver, the budget is not used up before the agent starts, the claim
is working on disk while it is being acquired). `Charged` says that memory, disk
and the history agree on the count, which is what makes the budget survive a
crash; `Claimed` that a job with an update to deliver has a final claim state,
and a comment at work belongs to a working claim or to such an update, both in
memory and on disk; `Settled` that memory has not left a decision on disk. There
is a lemma for each part of `Next`, with a step per action.

The last theorem is to `engine_silent` what the fourth above is to
`claims_orphan`: the daemon has to be killed for a submitted job to stay
unannounced. Requests that fail, creations that are executed late, other people's
pull requests and the operator's commands do not do it. `ToldInv` adds that a
submitted job, in memory or on disk, has a claim that is done, or is the current
one on its way to `close`.

`LifecycleProofs` proves that `Engine` implements `Lifecycle` step by step
(`EngineImplementsLifecycle`). The abstract guards need three facts more than
`EngineInv`: memory and disk carry the same decisions, Done is only claimed of
issues with a pull request, and work that is being verified has been charged.
`LifeInvariant` is the invariant with these.

`ReconcileProofs` proves `IdleIsReconciled` and `PullsAreForeign` without late
creations (`~LateCreate`), where they hold. Neither says anything of a job whose
tries `retry` reset. The invariant says what the scan still owes: an unfinished
job with tries whose branch has a pull request is one the scan will look at
before it is idle, and the bot's own pull request is never
taken for somebody else's, because the branch is looked up first.

`CheckoutProofs`, for any installations, commits and losses: `CheckoutInvariant`,
`TypeCorrect`, `OnlyVerifiedIsPushed`, `FreshJobsAreClean`, `BasesStand`,
`SubmissionsAreVerified`. `CheckoutInv` adds to the types what each stage relies
on (`Staged`: the base is saved before the worktree exists, a head that is about
to be pushed is verified) and that a worktree has a branch (`Founded`).
`FreshJobsAreClean` thereby says that the exit of `discardWork` in the table
above is the only way in which work outlives its base.

* `GraphIsSound`: ancestry stays transitive and every commit that a job, a
  repository or GitHub refers to exists (`GraphInv`).
* `PushedWorkIsRecovered`: `[]PushedIsRecovered`, for one installation (`Alone`)
  with an agent that does not rewrite its branch (`~Unruly`), the assumptions of
  its run.

What was pushed can get lost from the branch in three ways, and each part of
`RecoveryInv` closes one: a merge by the agent keeps it because ancestry is
transitive (`GraphInv`); a push keeps it because the head that was verified lies
in the branch (`Carried`); a new worktree starts from the remote branch unless a
requeue superseded it, and `requeue` can only supersede a pull request it
counted (`Counted`).

`WorkerProofs`, for any actors and directories: `WorkerInvariant`, `TypeCorrect`,
`LocksAreReturned`, `LocksExclude`, `CompleteRunsAreReleased`,
`StreamsAreWellFormed`. A working claim that is saved belongs to an attempt that
runs, was killed or ended in an error; a run that is reported complete is none
of these. Exclusion follows from locks that are held exactly by the
actors behind them; that is inductive, the exclusion alone is not.

`RunnerProofs`, for any capacities and bounds: `RunnerInvariant`, `TypeCorrect`,
`TailsHold`, `OutputIsWhole`, `GroupIsStopped`, `TextHolds`. What was written is
what was copied followed by what is in the pipe, and the last bytes of a
concatenation are those of the last bytes of its parts: that lemma makes the
tail exact for every division into writes. `TextHolds` is about where a tail
is cut: in output of whole runes some byte within the next three is `Aligned` (a
rune starts there); from it on the tail decodes as the whole output does, and
the bytes before it, what is left of one rune, are all that is lost.

`DashboardProofs`, for any window, limit and finite set of issues:
`SnapshotHolds`, `CursorHolds`, `PaneHolds`, `RowsHold`. The report is a sorted
sequence cut from the left with one place replaced; that every place has exactly
one job is shown by a least counterexample: a smallest free place.

About `Terminal` it proves:

* `SessionDrivesDashboard`: a session implements `Dashboard`: its decoder, ticks,
  signals and goroutine take the dashboard through steps of `Next` only.
* `SessionKeepsDashboard`: therefore the four properties hold in every session.
* `KeysHold`: `Session => []KeysAreWhole`, for keys and pasted texts in any order,
  texts of any length, and any division of the input into reads, up to the tick
  that falls into an escape sequence (`cut`).

`KeysHold` defines what a sequence of bytes means (`Meant`: the keys that the
decoder would emit if all of it came at once) and shows two things of it. Input
that is appended to bytes that are `Settled` (read to their end outside a paste,
but for an escape byte that may still be a key) means what it means alone (`Appended`); and what a read decodes, followed
by what the pending bytes and the rest will mean, is what all of it meant
(`ReadMeans`). The inductive invariant `StreamInv` is then one equation: the bytes
pending and on the wire mean the keys that are due. `TerminalAssumption` asks
that a pasted text has no escape byte and that an unfinished sequence of three
bytes is kept; the code keeps 32. `Fed` is a function over positions, so that
statements about it need no induction theorem: a counterexample has a least or
a greatest position, and its neighbour contradicts it.

Every safety and action property of the passing runs is thereby a theorem. Only
model-checked is what rests on fairness, which the prover does not reach:
`LostClaimStopsWork`, `FinalStateDelivered`, `UpdatesDelivered`,
`EveryIssueDecided`, `StopIsPrompt`, `AbandonedRunEnds` and `Returns`.

## Not modelled

* Saves that fail. After one (a full disk) the daemon goes on from memory that
  is ahead of `state.json`. Every save of `Engine` succeeds and is atomic.
* Clocks that disagree. `Claims` has one clock; the repository asks for
  synchronised ones. A suspended machine appears as ticks while it stands still.
* Configuration and discovery (`config.go`, `discover.go`): checks at start-up,
  sequential, without state afterwards.
* The agent and the prompt (`agent.go`, `prompt.go`): an external program whose
  outcome is chosen freely, and text.
* The command line, rendering and console output: dispatch and layout. Packaging
  (`npm/`, `scripts/`, `install.sh`): installers without protocol state.
* Pagination, labels and the GraphQL query of the GitHub client: a listing is
  complete or has failed.

## Plan

Done: `Claims`, `Engine`, `Lifecycle`, `Checkout`, `Worker`, `Runner`,
`Dashboard` and `Terminal` with their runs and proofs. What is left, in order:

1. Saves that fail in `Engine`, with memory running ahead of the disk.
2. `Publication`: the election of `Claims` under `Checkout`, so that what
   `SubmittedIsMine` says of overlapping attempts is bounded by how long two
   claims can overlap.
3. An abstract lease (held, lapsed, free) that `Claims` implements under
   `Prompt`, as `Engine` implements `Lifecycle`.
