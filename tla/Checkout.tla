------------------------------ MODULE Checkout ------------------------------
(***************************************************************************)
(* The managed checkout of git.go for one issue: the private repository    *)
(* and the issue's worktree of every installation, the issue's branch and  *)
(* its pull request on GitHub, and the git steps of engine.attempt (open,  *)
(* prepare, verify, push, create) between which other installations, the   *)
(* operator's verify command and Town act.                                 *)
(*                                                                         *)
(* A commit is a number; anc[c] holds its ancestors and itself.  Election  *)
(* of one installation is advisory, so that attempts of several may        *)
(* overlap here.  The agent's and the operator's programs are external.    *)
(***************************************************************************)
EXTENDS Naturals

CONSTANTS
  Bots,        \* the installations that work on the issue
  Attempts,    \* config.Attempts
  MaxCommits,  \* bound: commits ever made
  MaxPulls,    \* bound: pull requests ever created
  Unruly,      \* TRUE: the agent also resets and leaves its branch
  Town,        \* TRUE: Town closes pull requests and requeues the issue
  Losses       \* what somebody may delete: the issue's "worktree", the
               \* management "checkout" or the whole "workspace"

ASSUME CheckoutAssumption ==
  /\ Attempts \in Nat \ {0}
  /\ MaxCommits \in Nat \ {0}
  /\ MaxPulls \in Nat
  /\ Unruly \in BOOLEAN
  /\ Town \in BOOLEAN
  /\ Losses \subseteq {"worktree", "checkout", "workspace"}

VARIABLES
  anc,       \* the commits: ancestors, empty while a commit does not exist
  own,       \* the commits by which an agent changed something
  main,      \* the base branch on GitHub
  remote,    \* the issue's branch on GitHub
  pull,      \* the newest pull request of that branch
  job,       \* per installation: the saved job
  repo,      \* per installation: private repository and worktree
  pc,        \* per installation: where the attempt stands
  head,      \* per installation: the head that verify returned
  verified   \* history: heads that passed verify somewhere

github == <<main, remote, pull>>
commits == <<anc, own>>
vars == <<anc, own, main, remote, pull, job, repo, pc, head, verified>>

Commits == 1..MaxCommits
None    == 0
Ref     == Commits \cup {None}

Pull == [n : 0..MaxPulls, state : {"none", "open", "closed"}, head : Ref]

Job == [status : {"pending", "submitted", "blocked"},
        base   : Ref,
        tries  : 0..Attempts,
        gone   : 0..MaxPulls]   \* Superseded: the pull requests up to this one

Repo == [origin : Ref,          \* refs/remotes/origin/<base branch>
         dir    : {"none", "here", "missing"},   \* the management checkout
         branch : Ref,          \* the issue's local branch
         tree   : {"none", "here", "missing"},
         on     : BOOLEAN,      \* the worktree's HEAD is the issue's branch
         clean  : BOOLEAN,
         stale  : BOOLEAN]      \* history: requeue left the work where it was

NewJob  == [status |-> "pending", base |-> None, tries |-> 0, gone |-> 0]
NewRepo == [origin |-> None, dir |-> "none", branch |-> None, tree |-> "none",
            on |-> TRUE, clean |-> TRUE, stale |-> FALSE]

Init ==
  /\ anc = [c \in Commits |-> IF c = 1 THEN {1} ELSE {}]
  /\ own = {}
  /\ main = 1
  /\ remote = None
  /\ pull = [n |-> 0, state |-> "none", head |-> None]
  /\ job = [i \in Bots |-> NewJob]
  /\ repo = [i \in Bots |-> NewRepo]
  /\ pc = [i \in Bots |-> "idle"]
  /\ head = [i \in Bots |-> None]
  /\ verified = {}

-----------------------------------------------------------------------------
(* Building blocks *)

\* Commits get the next free number.
Fresh(c) == c \in Commits /\ anc[c] = {} /\ \A d \in 1..(c - 1) : anc[d] # {}

Goto(i, p) == pc' = [pc EXCEPT ![i] = p]
SetJob(i, j) == job' = [job EXCEPT ![i] = j]
SetRepo(i, r) == repo' = [repo EXCEPT ![i] = r]

\* A commit on top of the issue's local branch.
CommitOnBranch(i, c) ==
  /\ Fresh(c)
  /\ anc' = [anc EXCEPT ![c] = anc[repo[i].branch] \cup {c}]
  /\ own' = own \cup {c}
  /\ SetRepo(i, [repo[i] EXCEPT !.branch = c, !.clean = TRUE])

\* pull: the branch has a pull request that was not superseded.
Visible(i) == pull.n > job[i].gone

\* recordPull: one that was closed without merging blocks the job.
Recorded(i) ==
  [job[i] EXCEPT !.status = IF pull.state = "closed" THEN "blocked" ELSE "submitted"]

-----------------------------------------------------------------------------
(* An attempt *)

\* The walk finds a pull request before an attempt starts.
Reconcile(i) ==
  /\ pc[i] = "idle" /\ job[i].status = "pending" /\ Visible(i)
  /\ SetJob(i, Recorded(i))
  /\ UNCHANGED <<commits, github, repo, pc, head, verified>>

\* The private repository and the management checkout are there, or created;
\* git refuses to create a checkout that vanished but is registered.
Opens(i) ==
  /\ repo[i].dir # "missing"
  /\ SetRepo(i, [repo[i] EXCEPT !.origin = main, !.dir = "here"])

\* Mutant of Open: the starting commit follows the base branch.
OpenMoving(i) ==
  /\ pc[i] = "idle" /\ job[i].status = "pending" /\ ~Visible(i)
  /\ job[i].tries < Attempts
  /\ Opens(i)
  /\ SetJob(i, [job[i] EXCEPT !.base = main])
  /\ Goto(i, "prepare")
  /\ UNCHANGED <<commits, github, head, verified>>

\* Mutant of Open: the budget is not looked at.
OpenAnyway(i) ==
  /\ pc[i] = "idle" /\ job[i].status = "pending" /\ ~Visible(i)
  /\ Opens(i)
  /\ SetJob(i, [job[i] EXCEPT !.base = IF @ = None THEN main ELSE @])
  /\ Goto(i, "prepare")
  /\ UNCHANGED <<commits, github, head, verified>>

\* open fetches the base branch; the first attempt saves it as the job's base.
Open(i) ==
  /\ pc[i] = "idle" /\ job[i].status = "pending" /\ ~Visible(i)
  /\ job[i].tries < Attempts
  /\ Opens(i)
  /\ SetJob(i, [job[i] EXCEPT !.base = IF @ = None THEN main ELSE @])
  /\ Goto(i, "prepare")
  /\ UNCHANGED <<commits, github, head, verified>>

\* A worktree that exists is used as it is, if it still is on its branch.
Reuse(i) ==
  /\ pc[i] = "prepare" /\ repo[i].tree = "here" /\ repo[i].on
  /\ Goto(i, "charge")
  /\ UNCHANGED <<commits, github, job, repo, head, verified>>

\* Mutant of StartPoint: a branch that was pushed is not looked for.
StartPointLocal(i) ==
  IF repo[i].branch # None THEN repo[i].branch ELSE job[i].base

\* Where a new worktree starts: at the local branch, at the pushed one, or,
\* for an issue that was requeued and not attempted since, at the base.
StartPoint(i) ==
  CASE repo[i].branch # None -> repo[i].branch
    [] repo[i].branch = None /\ remote # None
         /\ ~(job[i].gone > 0 /\ job[i].tries = 0) -> remote
    [] OTHER -> job[i].base

\* git refuses to add a worktree whose directory vanished but is registered.
AddWorktree(i) ==
  /\ pc[i] = "prepare" /\ repo[i].tree = "none"
  /\ SetRepo(i, [repo[i] EXCEPT !.branch = StartPoint(i), !.tree = "here",
                                !.on = TRUE, !.clean = TRUE])
  /\ Goto(i, "charge")
  /\ UNCHANGED <<commits, github, job, head, verified>>

\* git is killed: the branch exists, the worktree not or only in part.
AddInterrupted(i) ==
  /\ pc[i] = "prepare" /\ repo[i].tree = "none"
  /\ \E t \in {"none", "here"} :
       SetRepo(i, [repo[i] EXCEPT !.branch = StartPoint(i), !.tree = t,
                                  !.on = TRUE, !.clean = (t = "none")])
  /\ Goto(i, "idle")
  /\ UNCHANGED <<commits, github, job, head, verified>>

\* The attempt is charged and saved before the agent starts.
Charge(i) ==
  /\ pc[i] = "charge"
  /\ SetJob(i, [job[i] EXCEPT !.tries = @ + 1])
  /\ Goto(i, "agent")
  /\ UNCHANGED <<commits, github, repo, head, verified>>

-----------------------------------------------------------------------------
(* The agent *)

AgentCommits(i) ==
  /\ pc[i] = "agent" /\ repo[i].on
  /\ \E c \in Commits : CommitOnBranch(i, c)
  /\ UNCHANGED <<github, job, pc, head, verified>>

\* The prompt asks for the base branch to be merged when it has advanced.
AgentMerges(i) ==
  /\ pc[i] = "agent" /\ repo[i].on /\ repo[i].clean
  /\ main \notin anc[repo[i].branch]
  /\ \/ /\ repo[i].branch \in anc[main]       \* a fast-forward
        /\ SetRepo(i, [repo[i] EXCEPT !.origin = main, !.branch = main])
        /\ UNCHANGED anc
     \/ /\ repo[i].branch \notin anc[main]
        /\ \E c \in Commits :
             /\ Fresh(c)
             /\ anc' = [anc EXCEPT ![c] = anc[repo[i].branch] \cup anc[main] \cup {c}]
             /\ SetRepo(i, [repo[i] EXCEPT !.origin = main, !.branch = c])
  /\ UNCHANGED <<own, github, job, pc, head, verified>>

AgentLeavesEdits(i) ==
  /\ pc[i] = "agent" /\ repo[i].on
  /\ SetRepo(i, [repo[i] EXCEPT !.clean = FALSE])
  /\ UNCHANGED <<commits, github, job, pc, head, verified>>

\* Against its instructions it resets the branch or switches to another one.
AgentMisbehaves(i) ==
  /\ Unruly /\ pc[i] = "agent"
  /\ \/ \E c \in anc[repo[i].branch] \cup anc[main] :
          SetRepo(i, [repo[i] EXCEPT !.branch = c, !.on = TRUE, !.clean = TRUE])
     \/ SetRepo(i, [repo[i] EXCEPT !.on = FALSE])
  /\ UNCHANGED <<commits, github, job, pc, head, verified>>

AgentSolved(i) ==
  /\ pc[i] = "agent"
  /\ Goto(i, "verify")
  /\ UNCHANGED <<commits, github, job, repo, head, verified>>

\* The agent's program could not be set up: the attempt is given back.
AgentSetupFails(i) ==
  /\ pc[i] = "agent"
  /\ SetJob(i, [job[i] EXCEPT !.tries = @ - 1])
  /\ Goto(i, "idle")
  /\ UNCHANGED <<commits, github, repo, head, verified>>

AgentBlocked(i) ==
  /\ pc[i] = "agent"
  /\ SetJob(i, [job[i] EXCEPT !.status = "blocked"])
  /\ Goto(i, "idle")
  /\ UNCHANGED <<commits, github, repo, head, verified>>

Agent(i) ==
  \/ AgentCommits(i) \/ AgentMerges(i) \/ AgentLeavesEdits(i)
  \/ AgentMisbehaves(i) \/ AgentSolved(i) \/ AgentBlocked(i)
  \/ AgentSetupFails(i)

-----------------------------------------------------------------------------
(* Verification and publication *)

\* publicationHead: on the branch, clean, on top of the base and not the base.
Publishable(i) ==
  /\ repo[i].on /\ repo[i].clean
  /\ job[i].base \in anc[repo[i].branch]
  /\ repo[i].branch # job[i].base

\* The first check; without a verify command it is the only one.
Verify(i) ==
  /\ pc[i] = "verify" /\ Publishable(i)
  /\ head' = [head EXCEPT ![i] = repo[i].branch]
  /\ \/ Goto(i, "recheck") /\ UNCHANGED verified
     \/ Goto(i, "push") /\ verified' = verified \cup {repo[i].branch}
  /\ UNCHANGED <<commits, github, job, repo>>

\* The check after the operator's command, which must not have moved HEAD.
Recheck(i) ==
  /\ pc[i] = "recheck" /\ Publishable(i) /\ repo[i].branch = head[i]
  /\ verified' = verified \cup {head[i]}
  /\ Goto(i, "push")
  /\ UNCHANGED <<commits, github, job, repo, head>>

\* The operator's command, or a process the agent left behind, changes the
\* worktree during or after the verification.
Disturb(i) ==
  /\ pc[i] \in {"recheck", "push", "publish"} /\ repo[i].on
  /\ \/ \E c \in Commits : CommitOnBranch(i, c)
     \/ SetRepo(i, [repo[i] EXCEPT !.clean = FALSE]) /\ UNCHANGED commits
  /\ UNCHANGED <<github, job, pc, head, verified>>

\* Mutant of Pushed: the branch is pushed, not the commit that was verified.
PushedBranch(i) == repo[i].branch

\* push names the verified commit.
Pushed(i) == head[i]

\* GitHub accepts a push without force.
FastForwards(c) == remote = None \/ remote \in anc[c]

\* push; an open pull request shows the new head.  The answer may be lost.
Push(i) ==
  /\ pc[i] = "push" /\ FastForwards(Pushed(i))
  /\ remote' = Pushed(i)
  /\ pull' = [pull EXCEPT !.head = IF pull.state = "open" THEN Pushed(i) ELSE @]
  /\ \E p \in {"publish", "idle"} : Goto(i, p)
  /\ UNCHANGED <<commits, main, job, repo, head, verified>>

\* Mutant of HeadMatches: the head of the pull request is not compared.
HeadMatchesAny(i) == TRUE

\* The pull request shows the commit that was verified here.
HeadMatches(i) == pull.head = head[i]

\* An earlier creation is found after the push.
FoundPull(i) ==
  /\ pc[i] = "publish" /\ Visible(i) /\ HeadMatches(i)
  /\ SetJob(i, Recorded(i))
  /\ Goto(i, "idle")
  /\ UNCHANGED <<commits, github, repo, head, verified>>

\* Mutant of CreatedMatches: any head will do.
CreatedMatchesAny(i) == TRUE

\* The answer to a creation shows the commit that was verified here.
CreatedMatches(i) == remote = head[i]

\* GitHub opens a pull request for a branch that has commits of its own.  The
\* answer is compared, or lost; without a match the attempt fails.
Create(i) ==
  /\ pc[i] = "publish" /\ ~Visible(i)
  /\ remote # None /\ remote \notin anc[main] /\ pull.n < MaxPulls
  /\ pull' = [n |-> pull.n + 1, state |-> "open", head |-> remote]
  /\ \/ CreatedMatches(i) /\ SetJob(i, [job[i] EXCEPT !.status = "submitted"])
     \/ UNCHANGED job
  /\ Goto(i, "idle")
  /\ UNCHANGED <<commits, main, remote, repo, head, verified>>

\* Any step fails, the attempt times out or is cancelled, the process dies.
Stop(i) ==
  /\ pc[i] # "idle"
  /\ Goto(i, "idle")
  /\ UNCHANGED <<commits, github, job, repo, head, verified>>

Attempt(i) ==
  \/ Reconcile(i) \/ Open(i) \/ Reuse(i) \/ AddWorktree(i) \/ AddInterrupted(i)
  \/ Charge(i) \/ Agent(i) \/ Verify(i) \/ Recheck(i) \/ Disturb(i)
  \/ Push(i) \/ FoundPull(i) \/ Create(i) \/ Stop(i)

-----------------------------------------------------------------------------
(* The operator, Town and GitHub *)

\* Retry gives a blocked or exhausted job a fresh budget and keeps its work.
Retry(i) ==
  /\ pc[i] = "idle" /\ job[i].status # "submitted" /\ job[i].tries > 0
  /\ SetJob(i, [job[i] EXCEPT !.status = "pending", !.tries = 0])
  /\ UNCHANGED <<commits, github, repo, pc, head, verified>>

\* Mutant of Discarded: git branch -D is forgotten.
DiscardedTree(i) == [repo[i] EXCEPT !.tree = "none"]

\* discardWork removes the worktree, prunes and deletes the local branch.  It
\* does nothing, without an error, when there is no management checkout.
Discarded(i) ==
  IF repo[i].dir = "here"
  THEN [repo[i] EXCEPT !.tree = "none", !.branch = None, !.stale = FALSE]
  ELSE [repo[i] EXCEPT !.stale = @ \/ repo[i].branch # None]

\* Requeue for a pull request that Town closed.  It may stop on the way: before
\* the state is saved, and before that while the work is being discarded.
Requeue(i) ==
  /\ Town /\ pc[i] = "idle" /\ pull.state = "closed"
  /\ \/ SetRepo(i, Discarded(i)) /\ SetJob(i, [NewJob EXCEPT !.gone = pull.n])
     \/ SetRepo(i, Discarded(i)) /\ UNCHANGED job
     \/ /\ repo[i].dir = "here"
        /\ SetRepo(i, [repo[i] EXCEPT !.tree = "none"])
        /\ UNCHANGED job
  /\ UNCHANGED <<commits, github, pc, head, verified>>

ClosePull ==
  /\ Town /\ pull.state = "open"
  /\ pull' = [pull EXCEPT !.state = "closed"]
  /\ UNCHANGED <<commits, main, remote, job, repo, pc, head, verified>>

\* Town deletes the branch of a closed pull request, sooner or later.
DeleteBranch ==
  /\ Town /\ pull.state = "closed" /\ remote # None
  /\ remote' = None
  /\ UNCHANGED <<commits, main, pull, job, repo, pc, head, verified>>

\* Other people's work is merged.
AdvanceMain ==
  /\ \E c \in Commits :
       /\ Fresh(c)
       /\ anc' = [anc EXCEPT ![c] = anc[main] \cup {c}]
       /\ main' = c
  /\ UNCHANGED <<own, remote, pull, job, repo, pc, head, verified>>

\* Somebody deletes the issue's directory: git still has it registered.
LoseWorktree(i) ==
  /\ "worktree" \in Losses /\ pc[i] = "idle" /\ repo[i].tree = "here"
  /\ SetRepo(i, [repo[i] EXCEPT !.tree = "missing"])
  /\ UNCHANGED <<commits, github, job, pc, head, verified>>

\* Somebody deletes the management checkout, or it cannot be reached: the
\* repository, the issue's branch and its worktree are elsewhere and remain.
LoseCheckout(i) ==
  /\ "checkout" \in Losses /\ pc[i] = "idle" /\ repo[i].dir = "here"
  /\ SetRepo(i, [repo[i] EXCEPT !.dir = "missing"])
  /\ UNCHANGED <<commits, github, job, pc, head, verified>>

\* The operator prunes what is registered and missing.
PruneCheckout(i) ==
  /\ pc[i] = "idle" /\ repo[i].dir = "missing"
  /\ SetRepo(i, [repo[i] EXCEPT !.dir = "none",
                                !.tree = IF @ = "missing" THEN "none" ELSE @])
  /\ UNCHANGED <<commits, github, job, pc, head, verified>>

\* Somebody deletes the repository and all worktrees, but not state.json.
LoseWorkspace(i) ==
  /\ "workspace" \in Losses /\ pc[i] = "idle" /\ repo[i] # NewRepo
  /\ SetRepo(i, NewRepo)
  /\ UNCHANGED <<commits, github, job, pc, head, verified>>

Next ==
  \/ \E i \in Bots : \/ Attempt(i) \/ Retry(i) \/ Requeue(i)
                     \/ LoseWorktree(i) \/ LoseCheckout(i)
                     \/ PruneCheckout(i) \/ LoseWorkspace(i)
  \/ ClosePull \/ DeleteBranch \/ AdvanceMain

Spec == Init /\ [][Next]_vars

-----------------------------------------------------------------------------
(* Properties *)

Stages == {"idle", "prepare", "charge", "agent", "verify", "recheck", "push",
           "publish"}

\* Every variable has its type.
TypeOK ==
  /\ anc \in [Commits -> SUBSET Commits]
  /\ own \subseteq Commits
  /\ main \in Commits
  /\ remote \in Ref
  /\ pull \in Pull
  /\ job \in [Bots -> Job]
  /\ repo \in [Bots -> Repo]
  /\ pc \in [Bots -> Stages]
  /\ head \in [Bots -> Ref]
  /\ verified \subseteq Commits

\* What the issue's branch and its pull request show on GitHub has passed the
\* verification of some installation, whatever happened to HEAD between the
\* check and the push.
RemoteIsVerified ==
  /\ remote # None => remote \in verified
  /\ pull.head # None => pull.head \in verified

\* An attempt that reports its pull request as submitted has verified the very
\* commit that the pull request shows, also when another installation pushed to
\* the same branch in between.
SubmittedIsMine ==
  [][\A i \in Bots :
       /\ pc[i] = "publish"
       /\ job[i].status = "pending" /\ job'[i].status = "submitted"
       => head[i] \in verified /\ pull'.head = head[i]]_vars

\* A job without a starting commit has no work from before: requeue forgets the
\* base only together with branch and worktree, also if it is interrupted, and
\* an attempt saves the base before it creates either.  The one exception is a
\* requeue that found no management checkout: discardWork then returns without
\* an error, and the base is forgotten while the work stays (stale).
BaselessIsClean ==
  \A i \in Bots :
    job[i].base = None /\ ~repo[i].stale
      => repo[i].branch = None /\ repo[i].tree # "here"

\* The starting commit a job's work is verified against stands until requeue
\* discards that work.
BaseStands ==
  [][\A i \in Bots : job[i].base # None /\ job'[i].base # job[i].base
       => job'[i].base = None /\ job'[i].gone = pull.n]_vars

\* The worktree of an issue whose branch was pushed contains what was pushed, so
\* that the next push is a fast-forward.  It does not hold after a requeue.
WorkContainsPushed ==
  \A i \in Bots :
    repo[i].branch # None /\ remote # None => remote \in anc[repo[i].branch]

\* It does until then, for an installation that has the issue to itself: what
\* was pushed is recovered after worktree, management checkout or workspace
\* were lost, after a worktree was created in part and after a requeue that
\* stopped half way.
PushedIsRecovered == (\A i \in Bots : job[i].gone = 0) => WorkContainsPushed

\* While an attempt prepares its worktree the job's base is saved and the budget
\* is not used up; from then on there is a branch.  A verified head stands.
Staged ==
  \A i \in Bots :
    /\ pc[i] \in {"prepare", "charge"} => job[i].base # None /\ job[i].tries < Attempts
    /\ pc[i] \notin {"idle", "prepare"} => repo[i].branch # None
    /\ pc[i] = "agent" => job[i].tries > 0
    /\ pc[i] \in {"recheck", "push", "publish"} => head[i] # None
    /\ pc[i] \in {"push", "publish"} => head[i] \in verified

\* A worktree stands on a branch, and what is superseded has existed.
Founded ==
  \A i \in Bots : /\ repo[i].tree = "here" => repo[i].branch # None
                 /\ job[i].gone <= pull.n

\* The inductive invariant of the proofs.
CheckoutInv ==
  TypeOK /\ Staged /\ Founded /\ RemoteIsVerified /\ BaselessIsClean

-----------------------------------------------------------------------------
(* Statements of the documentation that the code does not keep.  No run of     *)
(* the project checks them: README.md says with which constants TLC refutes    *)
(* each.                                                                       *)

\* "A requeued issue starts over from the base branch": its branch does not
\* contain the work of the superseded pull request.
StartsOver ==
  \A i \in Bots :
    job[i].gone > 0 /\ job[i].gone = pull.n /\ repo[i].branch # None
      => pull.head \notin anc[repo[i].branch]

\* "Independently check the ... real diff": what passes the verification has a
\* change that an agent made.
VerifiedHasWork == \A c \in verified : anc[c] \cap own # {}

=============================================================================
